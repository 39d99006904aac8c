------------------------------ MODULE LogStorage ------------------------------
(***************************************************************************)
(* The storage of one server (storage/internal_storage.rs, state_cache.rs) on *)
(* its back end: the log without its compacted prefix, a snapshot of that     *)
(* prefix, a stop sign behind the log, the state cache, and the batch.        *)
(*                                                                           *)
(* A storage is a record of the durable part disk and the volatile part      *)
(* cache; the functions of the code are operators from storages to storages. *)
(* disk has both back ends side by side: both get every write, MemoryStorage  *)
(* answers the reads, and that PersistentStorage would give the same answers  *)
(* is a property.                                                            *)
(***************************************************************************)
EXTENDS KVSnapshot, BackEnds, FiniteSets

CONSTANTS
    BatchSize       \* batch_size

ASSUME BatchAssumption == BatchSize \in Nat \ {0}

\* disk.snapshot holds at most one
NoSnapshot == << >>

Smaller(a, b) == IF a < b THEN a ELSE b
Larger(a, b) == IF a < b THEN b ELSE a
Prefix(s, n) == SubSeq(s, 1, n)
Rest(s, n) == SubSeq(s, n + 1, Len(s))

NewDisk == [memory |-> Memory!New, rocks |-> Rocks!New, round |-> 0, decided |-> 0,
            snapshot |-> NoSnapshot, stopsign |-> FALSE]

--------------------------------------------------------------------------------
\* Back end

GetLogLen(disk) == Memory!GetLogLen(disk.memory)
GetCompactedIdx(disk) == disk.memory.compacted
GetEntries(disk, from, to) == Memory!GetEntries(disk.memory, from, to)
GetSuffix(disk, from) == Memory!GetSuffix(disk.memory, from)

AppendEntries(disk, entries) ==
    [disk EXCEPT !.memory = Memory!AppendEntries(@, entries), !.rocks = Rocks!AppendEntries(@, entries)]

AppendOnPrefix(disk, from, entries) ==
    [disk EXCEPT !.memory = Memory!AppendOnPrefix(@, from, entries),
                 !.rocks = Rocks!AppendOnPrefix(@, from, entries)]

\* StorageOp::Trim and StorageOp::SetCompactedIdx, always together in one transaction
TrimDisk(disk, idx) ==
    [disk EXCEPT !.memory = Memory!SetCompactedIdx(Memory!Trim(@, idx), idx),
                 !.rocks = Rocks!SetCompactedIdx(Rocks!Trim(@, idx), idx)]

\* load_cache
LoadCache(disk) ==
    [batch |-> << >>, round |-> disk.round, decided |-> disk.decided,
     accepted |-> GetLogLen(disk) + GetCompactedIdx(disk) + (IF disk.stopsign THEN 1 ELSE 0),
     compacted |-> GetCompactedIdx(disk), stopsign |-> disk.stopsign]

\* InternalStorage::with, on a back end that is opened again
Reopened(disk) == [disk EXCEPT !.rocks = Rocks!Open(@)]
Opened(disk) == [disk |-> Reopened(disk), cache |-> LoadCache(Reopened(disk))]

StopSignIsDecided(cache) == cache.stopsign /\ cache.decided = cache.accepted
DecidedWithoutStopSign(cache) == cache.decided - (IF StopSignIsDecided(cache) THEN 1 ELSE 0)

--------------------------------------------------------------------------------
\* Appending, with the batch

AppendWithoutBatching(st, entries) ==
    [st EXCEPT !.disk = AppendEntries(@, entries), !.cache.accepted = @ + Len(entries)]

FlushBatch(st) == AppendWithoutBatching([st EXCEPT !.cache.batch = << >>], st.cache.batch)

\* The entries that appending these flushes
Flushed(st, entries) ==
    IF Len(st.cache.batch) + Len(entries) >= BatchSize THEN st.cache.batch \o entries ELSE << >>

AppendWithBatching(st, entries) ==
    LET batched == [st EXCEPT !.cache.batch = @ \o entries]
    IN  IF Flushed(st, entries) # << >> THEN FlushBatch(batched) ELSE batched

\* Mutant of AppendStopSign: what is batched stays batched, behind the stop sign.
AppendStopSignUnflushed(st) ==
    [st EXCEPT !.disk.stopsign = TRUE, !.cache.stopsign = TRUE, !.cache.accepted = @ + 1]

AppendStopSign(st) ==
    [FlushBatch(st) EXCEPT !.disk.stopsign = TRUE, !.cache.stopsign = TRUE, !.cache.accepted = @ + 1]

\* set_stopsign with a stop sign
SetStopSign(st) ==
    [st EXCEPT !.disk.stopsign = TRUE, !.cache.stopsign = TRUE,
               !.cache.accepted = IF st.cache.stopsign THEN @ ELSE @ + 1]

SetDecided(st, idx) == [st EXCEPT !.disk.decided = idx, !.cache.decided = idx]

\* update_decided_idx_and_get_accepted_idx of a follower
UpdateDecided(st, idx) ==
    IF idx <= st.cache.decided THEN st
    ELSE IF idx > st.cache.accepted
         THEN LET flushed == FlushBatch(st)
              IN  SetDecided(flushed, Smaller(idx, flushed.cache.accepted))
         ELSE SetDecided(st, idx)

--------------------------------------------------------------------------------
\* Snapshots and trimming

\* create_snapshot: what the snapshot has so far, and the entries up to idx
CreateSnapshot(st, idx) ==
    LET delta == Create(GetEntries(st.disk, st.cache.compacted, idx))
    IN  IF st.disk.snapshot = NoSnapshot THEN delta ELSE Merge(st.disk.snapshot[1], delta)

NoDecidedSnapshot == [type |-> "None", snapshot |-> Empty]

\* create_diff_snapshot: a delta from an index, or everything if some of it is compacted
CreateDiffSnapshot(st, from) ==
    LET decided == DecidedWithoutStopSign(st.cache)
    IN  IF from > st.cache.compacted
        THEN [type |-> "Delta", snapshot |-> Create(GetEntries(st.disk, from, decided))]
        ELSE IF st.cache.compacted < decided
             THEN [type |-> "Complete", snapshot |-> CreateSnapshot(st, decided)]
             ELSE IF st.disk.snapshot # NoSnapshot
                  THEN [type |-> "Complete", snapshot |-> st.disk.snapshot[1]]
                  ELSE NoDecidedSnapshot

\* The index that compaction up to idx leads to; idx may be the stop sign's
CompactedUpTo(st, idx) ==
    IF idx = st.cache.decided THEN DecidedWithoutStopSign(st.cache) ELSE idx

Compact(st, idx, snapshot) ==
    [st EXCEPT !.disk = [TrimDisk(@, idx) EXCEPT !.snapshot = snapshot], !.cache.compacted = idx]

\* An index that is not decided is refused.
TryTrim(st, idx) ==
    LET new == CompactedUpTo(st, idx)
    IN  IF idx <= st.cache.decided /\ new > st.cache.compacted
        THEN Compact(st, new, st.disk.snapshot) ELSE st

TrySnapshot(st, idx) ==
    LET new == CompactedUpTo(st, idx)
    IN  IF idx <= st.cache.decided /\ new > st.cache.compacted
        THEN Compact(st, new, <<CreateSnapshot(st, new)>>) ELSE st

--------------------------------------------------------------------------------
\* Synchronisation of logs

\* create_log_sync, for a log with this common prefix and decided index
CreateLogSync(st, useSnapshots, commonPrefix, othersDecided) ==
    IF useSnapshots /\ st.cache.decided > commonPrefix
    THEN [decidedSnapshot |-> CreateDiffSnapshot(st, othersDecided),
          suffix |-> GetSuffix(st.disk, st.cache.decided),
          syncIdx |-> DecidedWithoutStopSign(st.cache),
          stopsign |-> st.cache.stopsign]
    ELSE [decidedSnapshot |-> NoDecidedSnapshot,
          suffix |-> GetSuffix(st.disk, commonPrefix),
          syncIdx |-> commonPrefix,
          stopsign |-> st.cache.stopsign]

\* The storage with the snapshot of a LogSync; st already has the new decided index
ApplySnapshot(st, sync) ==
    CASE sync.decidedSnapshot.type = "Complete" ->
            Compact(st, sync.syncIdx, <<sync.decidedSnapshot.snapshot>>)
      [] sync.decidedSnapshot.type = "Delta" ->
            LET own == CreateSnapshot(st, DecidedWithoutStopSign(st.cache))
            IN  Compact(st, sync.syncIdx, <<Merge(own, sync.decidedSnapshot.snapshot)>>)
      [] OTHER -> st

\* st with the decided index, snapshot, suffix and stop sign of a LogSync, and this accepted index
Synchronised(st, round, decided, sync, accepted) ==
    LET numbered == [st EXCEPT !.disk.round = round, !.cache.round = round,
                               !.disk.decided = decided, !.cache.decided = decided]
        compacted == ApplySnapshot(numbered, sync)
    IN  [compacted EXCEPT
            !.disk = [AppendOnPrefix(@, sync.syncIdx, sync.suffix) EXCEPT !.stopsign = sync.stopsign],
            !.cache.accepted = accepted,
            !.cache.stopsign = sync.stopsign]

\* Mutant of SyncLog: the stop sign is not counted in the cached accepted index.
SyncLogWithoutStopSign(st, round, decided, sync) ==
    Synchronised(st, round, decided, sync, sync.syncIdx + Len(sync.suffix))

\* sync_log; the writes are one transaction
SyncLog(st, round, decided, sync) ==
    Synchronised(st, round, decided, sync,
                 sync.syncIdx + Len(sync.suffix) + (IF sync.stopsign THEN 1 ELSE 0))

--------------------------------------------------------------------------------
\* Reading

\* Mutant of EntryType: the entry at the compacted index is taken for compacted.
EntryTypeInclusive(st, idx) ==
    CASE idx <= st.cache.compacted -> "Compacted"
      [] idx + 1 < st.cache.accepted -> "Entry"
      [] idx + 1 = st.cache.accepted -> IF st.cache.stopsign THEN "StopSign" ELSE "Entry"
      [] OTHER -> "None"

\* get_entry_type
EntryType(st, idx) ==
    CASE idx < st.cache.compacted -> "Compacted"
      [] idx >= st.cache.compacted /\ idx + 1 < st.cache.accepted -> "Entry"
      [] idx >= st.cache.compacted /\ idx + 1 = st.cache.accepted ->
            IF st.cache.stopsign THEN "StopSign" ELSE "Entry"
      [] OTHER -> "None"

ReadEntries(st, from, to) ==
    LET entries == GetEntries(st.disk, from, to)
    IN  [i \in DOMAIN entries |->
            <<IF from + i <= st.cache.decided THEN "Decided" ELSE "Undecided", entries[i]>>]

ReadCompacted(st) ==
    IF st.disk.snapshot # NoSnapshot
    THEN << <<"Snapshotted", st.cache.compacted, st.disk.snapshot[1]>> >>
    ELSE << <<"Trimmed", st.cache.compacted>> >>

ReadStopSign(st) == << <<"StopSign", StopSignIsDecided(st.cache)>> >>

\* read, of a range [from, to) that is not empty; << >> is out of bounds
Read(st, from, to) ==
    LET first == EntryType(st, from)
        last == EntryType(st, to - 1)
        start == IF first = "Compacted" THEN st.cache.compacted ELSE from
        stop == IF last = "StopSign" THEN to - 1 ELSE to
    IN  CASE last = "Compacted" -> ReadCompacted(st)
          [] last = "None" \/ first = "None" -> << >>
          [] first = "StopSign" -> ReadStopSign(st)
          [] OTHER ->
                (IF first = "Compacted" THEN ReadCompacted(st) ELSE << >>)
                \o ReadEntries(st, start, stop)
                \o (IF last = "StopSign" THEN ReadStopSign(st) ELSE << >>)
===============================================================================
