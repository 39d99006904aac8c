-------------------------- MODULE LogReplicationProofs --------------------------
(***************************************************************************)
(* MemoryStorage and PersistentStorage stand for the same log after the same  *)
(* writes, give the same answers, and PersistentStorage finds its next key    *)
(* again when it is opened: for all entries, lengths and compacted indexes.   *)
(* Then why this is so of the storages of a leader and a follower at all      *)
(* times, and why the state cache is what a restart would load, whatever is   *)
(* batched, compacted, synchronised or lost in a crash.  Last, which entries  *)
(* the storages hold, and that the follower's are the leader's.               *)
(***************************************************************************)
EXTENDS FiniteSetTheorems, SequenceTheorems, LogReplication, TLAPS

--------------------------------------------------------------------------------
(* The back ends *)

\* Both back ends start without entries (default, open of a new database).
THEOREM NewBackEnds == Memory!New = MemoryAt(<< >>, 0) /\ Rocks!New = RocksAt(<< >>, 0)
BY DEF Memory!New, Rocks!New, MemoryAt, RocksAt

\* Entries put behind those that start at base are one log with them, also over old ones.
LEMMA PutBehind ==
    ASSUME NEW E, NEW log \in Seq(E), NEW base \in Nat, NEW es \in Seq(E), NEW entries,
           base..(base + Len(log) - 1) \subseteq DOMAIN entries,
           DOMAIN entries \subseteq base..(base + Len(log) + Len(es) - 1),
           \A k \in base..(base + Len(log) - 1) : entries[k] = log[k - base + 1]
    PROVE  Rocks!AppendEntries([entries |-> entries, next |-> base + Len(log), trim |-> base], es)
           = RocksAt(log \o es, base)
<1> DEFINE len == Len(log)
           new == (base + len)..(base + len + Len(es) - 1)
<1>1. len \in Nat /\ Len(es) \in Nat /\ Len(log \o es) = len + Len(es)
    OBVIOUS
<1>2. DOMAIN entries \cup new = base..(base + Len(log \o es) - 1)
    BY <1>1
<1>3. ASSUME NEW k \in base..(base + Len(log \o es) - 1)
      PROVE  (IF k \in new THEN es[k - (base + len) + 1] ELSE entries[k]) = (log \o es)[k - base + 1]
    BY <1>1
<1>4. [k \in DOMAIN entries \cup new |-> IF k \in new THEN es[k - (base + len) + 1] ELSE entries[k]]
      = [k \in base..(base + Len(log \o es) - 1) |-> (log \o es)[k - base + 1]]
    BY <1>2, <1>3
<1>5. base + len + Len(es) = base + Len(log \o es)
    BY <1>1
<1> QED BY <1>4, <1>5 DEF Rocks!AppendEntries, RocksAt

\* Appending keeps the back ends the same (append_entries, batch_append_entries).
THEOREM AppendKeepsSame ==
    ASSUME NEW E, NEW log \in Seq(E), NEW base \in Nat, NEW es \in Seq(E)
    PROVE  /\ Memory!AppendEntries(MemoryAt(log, base), es) = MemoryAt(log \o es, base)
           /\ Rocks!AppendEntries(RocksAt(log, base), es) = RocksAt(log \o es, base)
<1>1. Memory!AppendEntries(MemoryAt(log, base), es) = MemoryAt(log \o es, base)
    BY DEF Memory!AppendEntries, MemoryAt
<1>2. Rocks!AppendEntries(RocksAt(log, base), es) = RocksAt(log \o es, base)
  <2> DEFINE entries == [k \in base..(base + Len(log) - 1) |-> log[k - base + 1]]
  <2>1. /\ DOMAIN entries = base..(base + Len(log) - 1)
        /\ \A k \in base..(base + Len(log) - 1) : entries[k] = log[k - base + 1]
        /\ base..(base + Len(log) - 1) \subseteq base..(base + Len(log) + Len(es) - 1)
    OBVIOUS
  <2> HIDE DEF entries
  <2>2. Rocks!AppendEntries([entries |-> entries, next |-> base + Len(log), trim |-> base], es)
        = RocksAt(log \o es, base)
    BY <2>1, PutBehind
  <2> QED BY <2>2 DEF RocksAt, entries
<1> QED BY <1>1, <1>2

\* Replacing what is behind a common prefix, no further than the log goes (append_on_prefix,
\* batch_append_on_prefix): the keys that are not overwritten are deleted.
THEOREM AppendOnPrefixKeepsSame ==
    ASSUME NEW E, NEW log \in Seq(E), NEW base \in Nat, NEW es \in Seq(E),
           NEW from \in base..(base + Len(log))
    PROVE  LET new == SubSeq(log, 1, from - base) \o es IN
           /\ Memory!AppendOnPrefix(MemoryAt(log, base), from, es) = MemoryAt(new, base)
           /\ Rocks!AppendOnPrefix(RocksAt(log, base), from, es) = RocksAt(new, base)
<1> DEFINE kept == SubSeq(log, 1, from - base)
           next == base + Len(log)
           entries == [k \in base..(next - 1) |-> log[k - base + 1]]
           left == Rocks!DeleteRange(entries, from + Len(es), next)
<1>1. /\ Len(log) \in Nat /\ Len(es) \in Nat /\ from \in Nat /\ next \in Nat
      /\ kept \in Seq(E) /\ Len(kept) = from - base
      /\ \A i \in 1..(from - base) : kept[i] = log[i]
    OBVIOUS
<1>2. Memory!AppendOnPrefix(MemoryAt(log, base), from, es) = MemoryAt(kept \o es, base)
  <2>1. Memory!Smaller(from - base, Len(log)) = from - base
    BY <1>1 DEF Memory!Smaller
  <2> QED BY <2>1 DEF Memory!AppendOnPrefix, MemoryAt
<1> HIDE DEF kept
<1>3. Rocks!AppendOnPrefix(RocksAt(log, base), from, es)
      = Rocks!AppendEntries([entries |-> left, next |-> from, trim |-> base], es)
    BY DEF Rocks!AppendOnPrefix, RocksAt
<1>4. /\ base..(from - 1) \subseteq DOMAIN left /\ DOMAIN left \subseteq base..(from + Len(es) - 1)
      /\ \A k \in base..(from - 1) : left[k] = log[k - base + 1]
    BY <1>1 DEF Rocks!DeleteRange
<1>5. Rocks!AppendEntries([entries |-> left, next |-> from, trim |-> base], es) = RocksAt(kept \o es, base)
  <2>1. base + Len(kept) = from /\ kept \in Seq(E)
    BY <1>1
  <2>2. /\ base..(base + Len(kept) - 1) \subseteq DOMAIN left
        /\ DOMAIN left \subseteq base..(base + Len(kept) + Len(es) - 1)
        /\ \A k \in base..(base + Len(kept) - 1) : left[k] = kept[k - base + 1]
    <3>1. base + Len(kept) - 1 = from - 1 /\ base + Len(kept) + Len(es) - 1 = from + Len(es) - 1
      BY <2>1
    <3>2. ASSUME NEW k \in base..(from - 1) PROVE left[k] = kept[k - base + 1]
      <4>1. k - base + 1 \in 1..(from - base)
        BY <1>1
      <4> HIDE DEF left
      <4> QED BY <4>1, <1>1, <1>4
    <3> HIDE DEF left
    <3> QED BY <3>1, <3>2, <1>4
  <2> HIDE DEF left
  <2>3. Rocks!AppendEntries([entries |-> left, next |-> base + Len(kept), trim |-> base], es)
        = RocksAt(kept \o es, base)
    BY <2>1, <2>2, PutBehind
  <2> QED BY <2>1, <2>3
<1> QED BY <1>2, <1>3, <1>5 DEF kept

\* Compacting no more than there is (Trim and SetCompactedIdx of try_trim and try_snapshot)
THEOREM CompactionKeepsSame ==
    ASSUME NEW E, NEW log \in Seq(E), NEW base \in Nat, NEW idx \in base..(base + Len(log))
    PROVE  LET rest == SubSeq(log, idx - base + 1, Len(log)) IN
           /\ Memory!SetCompactedIdx(Memory!Trim(MemoryAt(log, base), idx), idx) = MemoryAt(rest, idx)
           /\ Rocks!SetCompactedIdx(Rocks!Trim(RocksAt(log, base), idx), idx) = RocksAt(rest, idx)
<1> DEFINE rest == SubSeq(log, idx - base + 1, Len(log))
           entries == [k \in base..(base + Len(log) - 1) |-> log[k - base + 1]]
<1>1. /\ Len(log) \in Nat /\ Len(rest) = base + Len(log) - idx
      /\ \A i \in 1..Len(rest) : rest[i] = log[i + idx - base]
    BY SMTT(30)
<1>2. Memory!SetCompactedIdx(Memory!Trim(MemoryAt(log, base), idx), idx) = MemoryAt(rest, idx)
  <2>1. Memory!Smaller(idx - base, Len(log)) = idx - base
    BY <1>1 DEF Memory!Smaller
  <2> QED BY <2>1 DEF Memory!SetCompactedIdx, Memory!Trim, MemoryAt
<1>3. Rocks!DeleteRange(entries, 0, idx) = [k \in idx..(idx + Len(rest) - 1) |-> rest[k - idx + 1]]
  <2>1. (base..(base + Len(log) - 1)) \ (0..(idx - 1)) = idx..(idx + Len(rest) - 1)
    BY <1>1
  <2>2. ASSUME NEW k \in idx..(idx + Len(rest) - 1)
        PROVE  k \in base..(base + Len(log) - 1) /\ log[k - base + 1] = rest[k - idx + 1]
    <3>1. k - idx + 1 \in 1..Len(rest) /\ k - idx + 1 + idx - base = k - base + 1
      BY SMTT(60), <1>1
    <3> HIDE DEF rest
    <3>2. rest[k - idx + 1] = log[k - idx + 1 + idx - base]
      BY <3>1, <1>1
    <3> QED BY <3>1, <3>2, <1>1
  <2>3. Rocks!DeleteRange(entries, 0, idx)
        = [k \in (base..(base + Len(log) - 1)) \ (0..(idx - 1)) |-> entries[k]]
    BY DEF Rocks!DeleteRange
  <2>4. \A k \in idx..(idx + Len(rest) - 1) : entries[k] = rest[k - idx + 1]
    BY <2>2
  <2> HIDE DEF rest, entries
  <2> QED BY <2>1, <2>3, <2>4
<1>4. base + Len(log) = idx + Len(rest)
    BY <1>1
<1>5. Rocks!SetCompactedIdx(Rocks!Trim(RocksAt(log, base), idx), idx) = RocksAt(rest, idx)
    BY <1>3, <1>4 DEF Rocks!SetCompactedIdx, Rocks!Trim, RocksAt
<1> QED BY <1>2, <1>5

\* A snapshot that replaces the log up to any index, also one beyond its end, with the suffix
\* behind it in the same transaction (sync_log with a decided snapshot)
THEOREM SnapshotKeepsSame ==
    ASSUME NEW E, NEW log \in Seq(E), NEW base \in Nat, NEW es \in Seq(E), NEW idx \in Nat, base <= idx
    PROVE  /\ Memory!AppendOnPrefix(Memory!SetCompactedIdx(Memory!Trim(MemoryAt(log, base), idx), idx), idx, es)
              = MemoryAt(es, idx)
           /\ Rocks!AppendOnPrefix(Rocks!SetCompactedIdx(Rocks!Trim(RocksAt(log, base), idx), idx), idx, es)
              = RocksAt(es, idx)
<1> DEFINE entries == [k \in base..(base + Len(log) - 1) |-> log[k - base + 1]]
           behind == Rocks!DeleteRange(entries, 0, idx)
           left == Rocks!DeleteRange(behind, idx + Len(es), base + Len(log))
<1>1. Len(log) \in Nat /\ Len(es) \in Nat
    OBVIOUS
<1>2. Memory!AppendOnPrefix(Memory!SetCompactedIdx(Memory!Trim(MemoryAt(log, base), idx), idx), idx, es)
      = MemoryAt(es, idx)
  <2> DEFINE rest == SubSeq(log, Memory!Smaller(idx - base, Len(log)) + 1, Len(log))
             m == [log |-> rest, trimmed |-> idx, compacted |-> idx]
  <2>1. Memory!SetCompactedIdx(Memory!Trim(MemoryAt(log, base), idx), idx) = m
    BY DEF Memory!SetCompactedIdx, Memory!Trim, MemoryAt
  <2>2. rest \in Seq(E) /\ Len(rest) \in Nat
    BY <1>1 DEF Memory!Smaller
  <2>3. SubSeq(rest, 1, Memory!Smaller(idx - idx, Len(rest))) \o es = es
    <3> HIDE DEF rest
    <3>1. Memory!Smaller(idx - idx, Len(rest)) = 0
      BY <2>2 DEF Memory!Smaller
    <3>2. SubSeq(rest, 1, 0) \o es = es
      BY <2>2
    <3> QED BY <3>1, <3>2
  <2>4. Memory!AppendOnPrefix(m, idx, es) = [log |-> es, trimmed |-> idx, compacted |-> idx]
    <3> HIDE DEF rest
    <3> QED BY <2>3 DEF Memory!AppendOnPrefix
  <2> QED BY <2>1, <2>4 DEF MemoryAt
<1>3. Rocks!AppendOnPrefix(Rocks!SetCompactedIdx(Rocks!Trim(RocksAt(log, base), idx), idx), idx, es)
      = Rocks!AppendEntries([entries |-> left, next |-> idx, trim |-> idx], es)
    BY DEF Rocks!AppendOnPrefix, Rocks!SetCompactedIdx, Rocks!Trim, RocksAt
<1>4. DOMAIN left \subseteq idx..(idx + Len(es) - 1)
    BY <1>1 DEF Rocks!DeleteRange
<1>5. Rocks!AppendEntries([entries |-> left, next |-> idx, trim |-> idx], es) = RocksAt(<< >> \o es, idx)
  <2> DEFINE none == << >>
  <2>1. /\ none \in Seq(E) /\ Len(none) = 0 /\ idx + Len(none) = idx
        /\ idx..(idx + Len(none) - 1) = {}
    OBVIOUS
  <2>2. /\ idx..(idx + Len(none) - 1) \subseteq DOMAIN left
        /\ DOMAIN left \subseteq idx..(idx + Len(none) + Len(es) - 1)
        /\ \A k \in idx..(idx + Len(none) - 1) : left[k] = none[k - idx + 1]
    BY <2>1, <1>1, <1>4
  <2> HIDE DEF left, none
  <2>3. Rocks!AppendEntries([entries |-> left, next |-> idx + Len(none), trim |-> idx], es)
        = RocksAt(none \o es, idx)
    BY ZenonT(60), <2>1, <2>2, PutBehind
  <2>4. Rocks!AppendEntries([entries |-> left, next |-> idx, trim |-> idx], es) = RocksAt(none \o es, idx)
    BY <2>1, <2>3
  <2> QED BY <2>4 DEF none
<1>6. << >> \o es = es
    OBVIOUS
<1> QED BY <1>2, <1>3, <1>5, <1>6

\* Opened again, PersistentStorage goes on with the key it would have used (open).
THEOREM OpenFindsNextKey ==
    ASSUME NEW E, NEW log \in Seq(E), NEW base \in Nat
    PROVE  Rocks!Open(RocksAt(log, base)) = RocksAt(log, base)
<1> DEFINE r == RocksAt(log, base)
<1>1. DOMAIN r.entries = base..(base + Len(log) - 1) /\ r.next = base + Len(log) /\ r.trim = base
    BY DEF RocksAt
<1>2. CASE Len(log) = 0
    BY <1>1, <1>2 DEF Rocks!Open, RocksAt
<1>3. CASE Len(log) # 0
  <2>1. Rocks!LastKey(r) = base + Len(log) - 1
    <3> HIDE DEF r
    <3>1. Len(log) \in Nat /\ base + Len(log) - 1 \in base..(base + Len(log) - 1)
      BY <1>3
    <3>2. \A k \in base..(base + Len(log) - 1) :
              (\A j \in base..(base + Len(log) - 1) : j <= k) <=> k = base + Len(log) - 1
      BY <3>1
    <3> QED BY <3>1, <3>2, <1>1 DEF Rocks!LastKey
  <2>2. DOMAIN r.entries # {} /\ base + Len(log) - 1 + 1 = base + Len(log)
    <3> DEFINE l == Len(log)
               D == DOMAIN r.entries
    <3>1. l \in Nat /\ l # 0 /\ D = base..(base + l - 1)
      BY <1>1, <1>3
    <3> HIDE DEF l, D
    <3>2. D # {} /\ base + l - 1 + 1 = base + l
      <4>1. base + l - 1 \in D
        BY <3>1
      <4>2. base + l - 1 + 1 = base + l
        BY <3>1
      <4> QED BY <4>1, <4>2
    <3> QED BY <3>2 DEF l, D
  <2>3. Rocks!Open(r) = [entries |-> r.entries, next |-> base + Len(log), trim |-> r.trim]
    <3> HIDE DEF r
    <3> QED BY <2>1, <2>2 DEF Rocks!Open
  <2> QED BY <2>3 DEF RocksAt
<1> QED BY <1>2, <1>3

\* The back end counts as the theorems about finite sets do.
LEMMA SameCardinality == \A S : Rocks!Cardinality(S) = Cardinality(S)
BY DEF Rocks!Cardinality, Cardinality

\* The iterator finds the entries of a range one by one.
LEMMA KeysInOrder ==
    ASSUME NEW r, NEW first \in Nat, NEW next \in Nat, DOMAIN r.entries = first..(next - 1),
           NEW from \in first..next, NEW i \in 1..(next - from)
    PROVE  Rocks!KeyAt(r, from, i) = from + i - 1
<1> DEFINE before(k) == {j \in DOMAIN r.entries : from <= j /\ j < k}
<1>1. ASSUME NEW k \in DOMAIN r.entries, k >= from
      PROVE  Cardinality(before(k)) = k - from
  <2>1. before(k) = from..(k - 1) /\ from \in Int /\ k - 1 \in Int /\ k \in Int
    BY <1>1
  <2>2. Cardinality(from..(k - 1)) = IF from > k - 1 THEN 0 ELSE k - 1 - from + 1
    BY <2>1, FS_Interval
  <2> HIDE DEF before
  <2> QED BY <2>1, <2>2, <1>1
<1>2. from + i - 1 \in DOMAIN r.entries
    OBVIOUS
<1>3. ASSUME NEW k \in DOMAIN r.entries
      PROVE  (k >= from /\ Rocks!Cardinality(before(k)) = i - 1) <=> k = from + i - 1
  <2> HIDE DEF before
  <2> QED BY <1>1, SameCardinality
<1> QED BY <1>2, <1>3 DEF Rocks!KeyAt

\* Reading any range behind what is compacted gives the same entries from either back end,
\* none where the log lacks some of them (get_entries, get_suffix).
THEOREM ReadsAgree ==
    ASSUME NEW E, NEW log \in Seq(E), NEW base \in Nat, NEW from \in Nat, base <= from, NEW to \in Nat
    PROVE  /\ Rocks!GetEntries(RocksAt(log, base), from, to) = Memory!GetEntries(MemoryAt(log, base), from, to)
           /\ Rocks!GetLogLen(RocksAt(log, base)) = Memory!GetLogLen(MemoryAt(log, base))
<1> DEFINE r == RocksAt(log, base)
           next == base + Len(log)
<1>1. /\ r.next = next /\ next \in Nat /\ DOMAIN r.entries = base..(next - 1)
      /\ \A k \in base..(next - 1) : r.entries[k] = log[k - base + 1]
    BY DEF RocksAt
<1>2. Memory!GetEntries(MemoryAt(log, base), from, to)
      = IF from <= to /\ to <= next THEN SubSeq(log, from - base + 1, to - base) ELSE << >>
    BY DEF Memory!GetEntries, MemoryAt
<1> DEFINE Same == Rocks!GetEntries(r, from, to) = Memory!GetEntries(MemoryAt(log, base), from, to)
<1>3. ASSUME to > next \/ from >= to PROVE Same
  <2>1. Rocks!GetEntries(r, from, to) = << >>
    BY <1>1, <1>3 DEF Rocks!GetEntries
  <2>2. from = to => SubSeq(log, from - base + 1, to - base) = << >>
    OBVIOUS
  <2> HIDE DEF r, next
  <2> QED BY <2>1, <2>2, <1>1, <1>2, <1>3
<1>4. ASSUME to <= next, from < to PROVE Same
  <2>1. Rocks!GetEntries(r, from, to) = [i \in 1..(to - from) |-> r.entries[Rocks!KeyAt(r, from, i)]]
    BY <1>1, <1>4 DEF Rocks!GetEntries
  <2>2. ASSUME NEW i \in 1..(to - from)
        PROVE  r.entries[Rocks!KeyAt(r, from, i)] = SubSeq(log, from - base + 1, to - base)[i]
    <3>1. Rocks!KeyAt(r, from, i) = from + i - 1
      <4>1. from \in base..next /\ i \in 1..(next - from)
        BY <1>1, <1>4
      <4> HIDE DEF r, next
      <4> QED BY ZenonT(60), <4>1, <1>1, KeysInOrder
    <3>2. from + i - 1 \in base..(next - 1) /\ from + i - 1 - base + 1 = from - base + i
      BY <1>1, <1>4
    <3>3. r.entries[from + i - 1] = log[from - base + i]
      <4> HIDE DEF r
      <4> QED BY SMTT(30), <3>2, <1>1
    <3>4. SubSeq(log, from - base + 1, to - base)[i] = log[from - base + i]
      BY <1>1, <1>4
    <3> HIDE DEF r
    <3> QED BY <3>1, <3>3, <3>4
  <2>3. SubSeq(log, from - base + 1, to - base)
        = [i \in 1..(to - from) |-> SubSeq(log, from - base + 1, to - base)[i]]
    BY <1>4
  <2>4. Memory!GetEntries(MemoryAt(log, base), from, to) = SubSeq(log, from - base + 1, to - base)
    BY <1>2, <1>4
  <2> HIDE DEF r
  <2> QED BY <2>1, <2>2, <2>3, <2>4
<1>5. Rocks!GetLogLen(r) = Memory!GetLogLen(MemoryAt(log, base))
    BY DEF Rocks!GetLogLen, Memory!GetLogLen, RocksAt, MemoryAt
<1>6. (to > next \/ from >= to) \/ (to <= next /\ from < to)
    BY <1>1
<1> QED BY <1>3, <1>4, <1>5, <1>6

--------------------------------------------------------------------------------
(* What holds of the storages and of what is between them *)

Ss(stopped) == IF stopped THEN 1 ELSE 0

Disk(memory, rocks, round, decided, stopped, snap) ==
    [memory |-> memory, rocks |-> rocks, round |-> round, decided |-> decided,
     snapshot |-> snap, stopsign |-> stopped]
Cache(batch, round, decided, accepted, compacted, stopped) ==
    [batch |-> batch, round |-> round, decided |-> decided, accepted |-> accepted,
     compacted |-> compacted, stopsign |-> stopped]
Storage(disk, cache) == [disk |-> disk, cache |-> cache]

\* The storage that has this log behind the compacted index, in both back ends
DiskOf(log, compacted, round, decided, stopped, snap) ==
    Disk(MemoryAt(log, compacted), RocksAt(log, compacted), round, decided, stopped, snap)
StorageOf(log, snap, batch, round, decided, accepted, compacted, stopped) ==
    Storage(DiskOf(log, compacted, round, decided, stopped, snap),
            Cache(batch, round, decided, accepted, compacted, stopped))

\* The indexes count what is there.
Counts(log, batch, round, decided, accepted, compacted, stopped) ==
    /\ log \in Seq(Commands) /\ batch \in Seq(Commands) /\ round \in {0, Round}
    /\ decided \in Nat /\ accepted \in Nat /\ compacted \in Nat /\ stopped \in BOOLEAN
    /\ accepted = compacted + Len(log) + Ss(stopped) /\ decided <= accepted

\* Both back ends and the cache of a storage stand for the same log.
Sound(st) ==
    LET log == st.disk.memory.log
        c == st.cache
    IN  /\ st = StorageOf(log, st.disk.snapshot, c.batch, c.round, c.decided, c.accepted, c.compacted,
                          c.stopsign)
        /\ Counts(log, c.batch, c.round, c.decided, c.accepted, c.compacted, c.stopsign)

\* What the leader compacted it can do without: a snapshot has it, or the follower has it.
LeaderOK(us, own, a) ==
    /\ us \in BOOLEAN /\ own.cache.compacted <= own.cache.decided
    /\ us /\ own.disk.snapshot = NoSnapshot => own.cache.compacted = 0
    /\ ~us => own.cache.compacted <= a

\* What the leader takes for accepted by the follower is the leader's, and is still there.
AckedOK(fc, a) == a \in Nat /\ (a = 0 \/ (fc.round = Round /\ a <= fc.accepted))

\* What each phase says of the follower
PhaseOK(ph, fc) ==
    /\ ph = "Accept" => fc.round = Round
    /\ ph = "Prepare" => ~StopSignInPrefix(fc)
    /\ fc.round # Round => fc.compacted <= fc.decided

\* A promise under way is what the follower has, and nothing else is under way.
PromiseOK(ph, pr, ch, fc) ==
    pr # NoPromise => /\ ph = "Prepare" /\ ch = << >>
                      /\ pr = [round |-> fc.round, decided |-> fc.decided, accepted |-> fc.accepted]

\* No more is decided than there is after a synchronisation.
SyncOK(decided, sync) ==
    /\ decided \in Nat /\ sync.syncIdx \in Nat /\ sync.stopsign \in BOOLEAN
    /\ sync.suffix \in Seq(Commands)
    /\ decided <= sync.syncIdx + Len(sync.suffix) + Ss(sync.stopsign)

\* A message has the fields of its type.
MsgOK(m) ==
    /\ m.type = "AcceptDecide" => m.entries \in Seq(Commands) /\ m.decided \in Nat
    /\ m.type = "Decide" => m.decided \in Nat
    /\ m.type = "AcceptSync" => SyncOK(m.decided, m.sync)

\* An AcceptSync fits the storage of the follower it goes to: its suffix starts behind what the
\* follower compacted or decided and, without a snapshot, no further than the follower's log goes.
SyncFits(sync, fc) ==
    /\ fc.compacted <= sync.syncIdx /\ fc.decided <= sync.syncIdx
    /\ fc.round = Round => fc.accepted <= sync.syncIdx
    /\ sync.decidedSnapshot.type \notin {"Complete", "Delta"} =>
          sync.syncIdx + Ss(fc.stopsign) <= fc.accepted

\* The messages under way, of which a preparing follower takes an AcceptSync first
LinkOK(ph, ch, fc) ==
    /\ \E S : ch \in Seq(S)
    /\ \A i \in 1..Len(ch) : MsgOK(ch[i])
    /\ ph = "Prepare" /\ ch # << >> /\ Head(ch).type = "AcceptSync" => SyncFits(Head(ch).sync, fc)

\* All of it: the leader's and the follower's storage, and what is between them
Holds(us, own, st, ph, pr, ch, a) ==
    /\ Sound(own) /\ Sound(st)
    /\ LeaderOK(us, own, a) /\ AckedOK(st.cache, a)
    /\ PhaseOK(ph, st.cache) /\ PromiseOK(ph, pr, ch, st.cache) /\ LinkOK(ph, ch, st.cache)

\* The inductive invariant
StorageInv ==
    /\ DOMAIN store = Server
    /\ Holds(useSnapshots, store["leader"], store["follower"], phase, promise, channel, acked)

--------------------------------------------------------------------------------
(* The durable part of a storage *)

\* Each field can be written by itself, and so can the two logs.
LEMMA DiskSet ==
    \A m, p, r, d, e, snap, v :
        /\ [Disk(m, p, r, d, e, snap) EXCEPT !.round = v] = Disk(m, p, v, d, e, snap)
        /\ [Disk(m, p, r, d, e, snap) EXCEPT !.decided = v] = Disk(m, p, r, v, e, snap)
        /\ [Disk(m, p, r, d, e, snap) EXCEPT !.stopsign = v] = Disk(m, p, r, d, v, snap)
        /\ [Disk(m, p, r, d, e, snap) EXCEPT !.snapshot = v] = Disk(m, p, r, d, e, v)
        /\ [Disk(m, p, r, d, e, snap) EXCEPT !.memory = v] = Disk(v, p, r, d, e, snap)
        /\ [Disk(m, p, r, d, e, snap) EXCEPT !.rocks = v] = Disk(m, v, r, d, e, snap)
<1> TAKE m, p, r, d, e, snap, v
<1> QED BY DEF Disk

\* Reading a field
LEMMA DiskFields ==
    \A m, p, r, d, e, snap :
        /\ Disk(m, p, r, d, e, snap).memory = m /\ Disk(m, p, r, d, e, snap).rocks = p
        /\ Disk(m, p, r, d, e, snap).round = r /\ Disk(m, p, r, d, e, snap).decided = d
        /\ Disk(m, p, r, d, e, snap).stopsign = e /\ Disk(m, p, r, d, e, snap).snapshot = snap
BY DEF Disk

\* Writing both logs
WithLogs(disk, memory, rocks) == [disk EXCEPT !.memory = memory, !.rocks = rocks]

\* It changes nothing else.
LEMMA DiskLogs ==
    \A m, p, r, d, e, snap, m2, p2 :
        WithLogs(Disk(m, p, r, d, e, snap), m2, p2) = Disk(m2, p2, r, d, e, snap)
<1> TAKE m, p, r, d, e, snap, m2, p2
<1>1. [Disk(m, p, r, d, e, snap) EXCEPT !.memory = m2] = Disk(m2, p, r, d, e, snap)
    BY DiskSet
<1>2. [Disk(m2, p, r, d, e, snap) EXCEPT !.rocks = p2] = Disk(m2, p2, r, d, e, snap)
    BY DiskSet
<1>3. [Disk(m, p, r, d, e, snap) EXCEPT !.memory = m2, !.rocks = p2]
      = [[Disk(m, p, r, d, e, snap) EXCEPT !.memory = m2] EXCEPT !.rocks = p2]
    BY DEF Disk
<1> QED BY <1>1, <1>2, <1>3 DEF WithLogs

\* The back ends after the writes of the storage
LEMMA DiskAppended ==
    ASSUME NEW log \in Seq(Commands), NEW k \in Nat, NEW r, NEW d, NEW e, NEW snap, NEW es \in Seq(Commands)
    PROVE  AppendEntries(DiskOf(log, k, r, d, e, snap), es) = DiskOf(log \o es, k, r, d, e, snap)
<1>1. PICK disk : /\ disk = DiskOf(log, k, r, d, e, snap)
                  /\ disk = Disk(MemoryAt(log, k), RocksAt(log, k), r, d, e, snap)
    BY DEF DiskOf
<1>2. disk.memory = MemoryAt(log, k) /\ disk.rocks = RocksAt(log, k)
    BY <1>1, DiskFields
<1>3. AppendEntries(disk, es) = WithLogs(disk, MemoryAt(log \o es, k), RocksAt(log \o es, k))
  <2>1. /\ Memory!AppendEntries(MemoryAt(log, k), es) = MemoryAt(log \o es, k)
        /\ Rocks!AppendEntries(RocksAt(log, k), es) = RocksAt(log \o es, k)
    BY AppendKeepsSame
  <2> QED BY <1>2, <2>1, Zenon DEF AppendEntries, WithLogs
<1>4. AppendEntries(disk, es)
      = Disk(MemoryAt(log \o es, k), RocksAt(log \o es, k), r, d, e, snap)
    BY <1>1, <1>3, DiskLogs
<1> QED BY <1>1, <1>4, Zenon DEF DiskOf

\* append_on_prefix
LEMMA DiskOverwritten ==
    ASSUME NEW log \in Seq(Commands), NEW k \in Nat, NEW r, NEW d, NEW e, NEW snap, NEW es \in Seq(Commands),
           NEW from \in k..(k + Len(log))
    PROVE  AppendOnPrefix(DiskOf(log, k, r, d, e, snap), from, es)
           = DiskOf(SubSeq(log, 1, from - k) \o es, k, r, d, e, snap)
<1> DEFINE new == SubSeq(log, 1, from - k) \o es
<1>1. PICK disk : /\ disk = DiskOf(log, k, r, d, e, snap)
                  /\ disk = Disk(MemoryAt(log, k), RocksAt(log, k), r, d, e, snap)
    BY DEF DiskOf
<1>2. disk.memory = MemoryAt(log, k) /\ disk.rocks = RocksAt(log, k)
    BY <1>1, DiskFields
<1>3. /\ Memory!AppendOnPrefix(MemoryAt(log, k), from, es) = MemoryAt(new, k)
      /\ Rocks!AppendOnPrefix(RocksAt(log, k), from, es) = RocksAt(new, k)
    BY AppendOnPrefixKeepsSame, Zenon
<1> HIDE DEF new
<1>4. AppendOnPrefix(disk, from, es) = WithLogs(disk, MemoryAt(new, k), RocksAt(new, k))
    BY <1>2, <1>3, Zenon DEF AppendOnPrefix, WithLogs
<1>5. AppendOnPrefix(disk, from, es)
      = Disk(MemoryAt(new, k), RocksAt(new, k), r, d, e, snap)
    BY <1>1, <1>4, DiskLogs
<1>6. AppendOnPrefix(disk, from, es) = DiskOf(new, k, r, d, e, snap)
    BY <1>5, Zenon DEF DiskOf
<1> QED BY <1>1, <1>6, Zenon DEF new

\* trim and set_compacted_idx
LEMMA DiskTrimmed ==
    ASSUME NEW log \in Seq(Commands), NEW k \in Nat, NEW r, NEW d, NEW e, NEW snap,
           NEW idx \in k..(k + Len(log))
    PROVE  TrimDisk(DiskOf(log, k, r, d, e, snap), idx)
           = DiskOf(SubSeq(log, idx - k + 1, Len(log)), idx, r, d, e, snap)
<1> DEFINE new == SubSeq(log, idx - k + 1, Len(log))
<1>1. PICK disk : /\ disk = DiskOf(log, k, r, d, e, snap)
                  /\ disk = Disk(MemoryAt(log, k), RocksAt(log, k), r, d, e, snap)
    BY DEF DiskOf
<1>2. disk.memory = MemoryAt(log, k) /\ disk.rocks = RocksAt(log, k)
    BY <1>1, DiskFields
<1>3. /\ Memory!SetCompactedIdx(Memory!Trim(MemoryAt(log, k), idx), idx) = MemoryAt(new, idx)
      /\ Rocks!SetCompactedIdx(Rocks!Trim(RocksAt(log, k), idx), idx) = RocksAt(new, idx)
    BY CompactionKeepsSame, Zenon
<1> HIDE DEF new
<1>4. TrimDisk(disk, idx) = WithLogs(disk, MemoryAt(new, idx), RocksAt(new, idx))
    BY <1>2, <1>3, Zenon DEF TrimDisk, WithLogs
<1>5. TrimDisk(disk, idx)
      = Disk(MemoryAt(new, idx), RocksAt(new, idx), r, d, e, snap)
    BY <1>1, <1>4, DiskLogs
<1>6. TrimDisk(disk, idx) = DiskOf(new, idx, r, d, e, snap)
    BY <1>5, Zenon DEF DiskOf
<1> QED BY <1>1, <1>6, Zenon DEF new

\* A snapshot up to any index, and the entries behind it
LEMMA DiskReplaced ==
    ASSUME NEW log \in Seq(Commands), NEW k \in Nat, NEW r, NEW d, NEW e, NEW snap, NEW es \in Seq(Commands),
           NEW idx \in Nat, k <= idx, NEW new
    PROVE  AppendOnPrefix([TrimDisk(DiskOf(log, k, r, d, e, snap), idx) EXCEPT !.snapshot = new], idx, es)
           = DiskOf(es, idx, r, d, e, new)
<1>1. PICK disk : /\ disk = DiskOf(log, k, r, d, e, snap)
                  /\ disk = Disk(MemoryAt(log, k), RocksAt(log, k), r, d, e, snap)
    BY DEF DiskOf
<1>2. disk.memory = MemoryAt(log, k) /\ disk.rocks = RocksAt(log, k)
    BY <1>1, DiskFields
<1>3. PICK m, p : /\ m = Memory!SetCompactedIdx(Memory!Trim(MemoryAt(log, k), idx), idx)
                  /\ p = Rocks!SetCompactedIdx(Rocks!Trim(RocksAt(log, k), idx), idx)
    OBVIOUS
<1>4. /\ Memory!AppendOnPrefix(m, idx, es) = MemoryAt(es, idx)
      /\ Rocks!AppendOnPrefix(p, idx, es) = RocksAt(es, idx)
    BY <1>3, SnapshotKeepsSame
<1>5. TrimDisk(disk, idx) = WithLogs(disk, m, p)
    BY <1>2, <1>3, Zenon DEF TrimDisk, WithLogs
<1>6. PICK trim : /\ trim = TrimDisk(disk, idx)
                  /\ trim = Disk(m, p, r, d, e, snap)
    BY <1>1, <1>5, DiskLogs
<1>7a. [trim EXCEPT !.snapshot = new] = Disk(m, p, r, d, e, new)
    BY <1>6, DiskSet
<1>7. PICK with : with = [trim EXCEPT !.snapshot = new] /\ with = Disk(m, p, r, d, e, new)
    BY <1>7a
<1>8a. Disk(m, p, r, d, e, new).memory = m /\ Disk(m, p, r, d, e, new).rocks = p
    BY DiskFields
<1>8. with.memory = m /\ with.rocks = p
    BY <1>7, <1>8a, Zenon
<1>9. AppendOnPrefix(with, idx, es) = WithLogs(with, MemoryAt(es, idx), RocksAt(es, idx))
    BY <1>4, <1>8, Zenon DEF AppendOnPrefix, WithLogs
<1>10. AppendOnPrefix(with, idx, es)
       = Disk(MemoryAt(es, idx), RocksAt(es, idx), r, d, e, new)
    BY <1>7, <1>9, DiskLogs
<1> QED BY <1>1, <1>6, <1>7, <1>10, Zenon DEF DiskOf

\* Opening it again changes nothing, and the cache is loaded from it.
LEMMA DiskReopened ==
    ASSUME NEW log \in Seq(Commands), NEW k \in Nat, NEW r, NEW d, NEW e, NEW snap
    PROVE  /\ Reopened(DiskOf(log, k, r, d, e, snap)) = DiskOf(log, k, r, d, e, snap)
           /\ LoadCache(DiskOf(log, k, r, d, e, snap)) = Cache(<< >>, r, d, Len(log) + k + Ss(e), k, e)
<1>1. PICK disk : /\ disk = DiskOf(log, k, r, d, e, snap)
                  /\ disk = Disk(MemoryAt(log, k), RocksAt(log, k), r, d, e, snap)
    BY DEF DiskOf
<1>2. disk.memory = MemoryAt(log, k) /\ disk.rocks = RocksAt(log, k)
    BY <1>1, DiskFields
<1>3. Rocks!Open(RocksAt(log, k)) = RocksAt(log, k)
    BY OpenFindsNextKey, Zenon
<1>4. Reopened(disk) = [disk EXCEPT !.rocks = RocksAt(log, k)]
    BY <1>2, <1>3, Zenon DEF Reopened
<1>5. Reopened(disk) = disk
    BY <1>1, <1>4, DiskSet
<1>6. disk.round = r /\ disk.decided = d /\ disk.stopsign = e
    BY <1>1, DiskFields
<1>7. disk.memory.log = log /\ disk.memory.compacted = k
    BY <1>2 DEF MemoryAt
<1>8. GetLogLen(disk) = Len(log) /\ GetCompactedIdx(disk) = k
    BY <1>7, Zenon DEF GetLogLen, GetCompactedIdx, Memory!GetLogLen
<1>9. LoadCache(disk) = Cache(<< >>, r, d, Len(log) + k + Ss(e), k, e)
    BY <1>6, <1>8, Zenon DEF LoadCache, Cache, Ss
<1> QED BY <1>1, <1>5, <1>9, Zenon

--------------------------------------------------------------------------------
(* Writes to both parts of a storage *)

WithRound(x, round) == [x EXCEPT !.round = round]
WithDecided(x, decided) == [x EXCEPT !.decided = decided]
WithAccepted(x, accepted) == [x EXCEPT !.accepted = accepted]
WithStopSign(x, stopped) == [x EXCEPT !.stopsign = stopped]
PutDisk(st, disk) == [st EXCEPT !.disk = disk]
PutCache(st, cache) == [st EXCEPT !.cache = cache]

\* Each part is written by itself.
LEMMA Puts ==
    \A D, C, v : /\ PutDisk(Storage(D, C), v) = Storage(v, C) /\ PutCache(Storage(D, C), v) = Storage(D, v)
                 /\ Storage(D, C).disk = D /\ Storage(D, C).cache = C
<1> TAKE D, C, v
<1> QED BY DEF Storage, PutDisk, PutCache

\* append_entries_without_batching
LEMMA WithoutBatching ==
    \A D, C, es : AppendWithoutBatching(Storage(D, C), es)
                  = Storage(AppendEntries(D, es), [C EXCEPT !.accepted = C.accepted + Len(es)])
<1> TAKE D, C, es
<1> DEFINE E == AppendEntries(D, es)
           B == [C EXCEPT !.accepted = C.accepted + Len(es)]
<1>1. AppendWithoutBatching(Storage(D, C), es) = PutCache(PutDisk(Storage(D, C), E), B)
    BY DEF PutDisk, PutCache, AppendWithoutBatching, Storage
<1> HIDE DEF E, B
<1>2. PutCache(PutDisk(Storage(D, C), E), B) = Storage(E, B)
    BY Puts
<1> QED BY <1>1, <1>2, Zenon DEF E, B

\* The batch is only in the cache.
PutBatch(st, batch) == [st EXCEPT !.cache.batch = batch]

\* The log is as it was.
LEMMA BatchSet ==
    \A D, C, v : PutBatch(Storage(D, C), v) = Storage(D, [C EXCEPT !.batch = v])
<1> TAKE D, C, v
<1> QED BY DEF Storage, PutBatch

\* set_decided_idx
LEMMA DecidedSet ==
    \A D, C, v : SetDecided(Storage(D, C), v) = Storage([D EXCEPT !.decided = v], [C EXCEPT !.decided = v])
<1> TAKE D, C, v
<1> DEFINE E == [D EXCEPT !.decided = v]
           B == [C EXCEPT !.decided = v]
<1>1. SetDecided(Storage(D, C), v) = PutCache(PutDisk(Storage(D, C), E), B)
    BY DEF PutDisk, PutCache, SetDecided, Storage
<1> HIDE DEF E, B
<1>2. PutCache(PutDisk(Storage(D, C), E), B) = Storage(E, B)
    BY Puts
<1> QED BY <1>1, <1>2, Zenon DEF E, B

\* The stop sign and the accepted index (append_stopsign, set_stopsign)
Stopped(st, t, a) == [st EXCEPT !.disk.stopsign = t, !.cache.stopsign = t, !.cache.accepted = a]

\* They are written one after the other.
LEMMA StopSignSet ==
    \A D, C, t, a : Stopped(Storage(D, C), t, a)
                    = Storage(WithStopSign(D, t), WithAccepted(WithStopSign(C, t), a))
<1> TAKE D, C, t, a
<1> DEFINE E == WithStopSign(D, t)
           A == WithStopSign(C, t)
           B == WithAccepted(A, a)
<1>1. Stopped(Storage(D, C), t, a) = PutCache(PutCache(PutDisk(Storage(D, C), E), A), B)
    BY DEF PutDisk, PutCache, Stopped, Storage, WithStopSign, WithAccepted
<1> HIDE DEF E, A, B
<1>2. PutCache(PutCache(PutDisk(Storage(D, C), E), A), B) = Storage(E, B)
    BY Puts
<1> QED BY <1>1, <1>2, Zenon DEF E, A, B

\* try_trim, try_snapshot
LEMMA CompactedSet ==
    \A D, C, idx, s : Compact(Storage(D, C), idx, s)
                      = Storage([TrimDisk(D, idx) EXCEPT !.snapshot = s], [C EXCEPT !.compacted = idx])
<1> TAKE D, C, idx, s
<1> DEFINE E == [TrimDisk(D, idx) EXCEPT !.snapshot = s]
           B == [C EXCEPT !.compacted = idx]
<1>1. Compact(Storage(D, C), idx, s) = PutCache(PutDisk(Storage(D, C), E), B)
    BY DEF PutDisk, PutCache, Compact, Storage
<1> HIDE DEF E, B
<1>2. PutCache(PutDisk(Storage(D, C), E), B) = Storage(E, B)
    BY Puts
<1> QED BY <1>1, <1>2, Zenon DEF E, B

\* The round and the decided index of sync_log
Numbered(st, r, d) ==
    [st EXCEPT !.disk.round = r, !.cache.round = r, !.disk.decided = d, !.cache.decided = d]

\* They are written one after the other.
LEMMA NumberedSet ==
    \A D, C, r, d : Numbered(Storage(D, C), r, d)
                    = Storage(WithDecided(WithRound(D, r), d), WithDecided(WithRound(C, r), d))
<1> TAKE D, C, r, d
<1> DEFINE E == WithRound(D, r)
           A == WithRound(C, r)
           F == WithDecided(E, d)
           B == WithDecided(A, d)
<1>1. Numbered(Storage(D, C), r, d) = PutCache(PutDisk(PutCache(PutDisk(Storage(D, C), E), A), F), B)
    BY DEF PutDisk, PutCache, Numbered, Storage, WithRound, WithDecided
<1> HIDE DEF E, A, F, B
<1>2. PutCache(PutDisk(PutCache(PutDisk(Storage(D, C), E), A), F), B) = Storage(F, B)
    BY Puts
<1> QED BY <1>1, <1>2, Zenon DEF E, A, F, B

\* The log, the accepted index and the stop sign of sync_log
Filled(st, disk, a, e) == [st EXCEPT !.disk = disk, !.cache.accepted = a, !.cache.stopsign = e]

\* They are written one after the other.
LEMMA FilledSet ==
    \A D, C, E, a, e : Filled(Storage(D, C), E, a, e)
                       = Storage(E, WithStopSign(WithAccepted(C, a), e))
<1> TAKE D, C, E, a, e
<1> DEFINE A == WithAccepted(C, a)
           B == WithStopSign(A, e)
<1>1. Filled(Storage(D, C), E, a, e) = PutCache(PutCache(PutDisk(Storage(D, C), E), A), B)
    BY DEF PutDisk, PutCache, Filled, Storage, WithAccepted, WithStopSign
<1> HIDE DEF A, B
<1>2. PutCache(PutCache(PutDisk(Storage(D, C), E), A), B) = Storage(E, B)
    BY Puts
<1> QED BY <1>1, <1>2, Zenon DEF A, B

--------------------------------------------------------------------------------
(* The functions on a storage that has its log *)

\* Each field of the cache can be written by itself.
LEMMA CacheSet ==
    \A b, r, d, a, k, e, v :
        /\ [Cache(b, r, d, a, k, e) EXCEPT !.batch = v] = Cache(v, r, d, a, k, e)
        /\ [Cache(b, r, d, a, k, e) EXCEPT !.round = v] = Cache(b, v, d, a, k, e)
        /\ [Cache(b, r, d, a, k, e) EXCEPT !.decided = v] = Cache(b, r, v, a, k, e)
        /\ [Cache(b, r, d, a, k, e) EXCEPT !.accepted = v] = Cache(b, r, d, v, k, e)
        /\ [Cache(b, r, d, a, k, e) EXCEPT !.compacted = v] = Cache(b, r, d, a, v, e)
        /\ [Cache(b, r, d, a, k, e) EXCEPT !.stopsign = v] = Cache(b, r, d, a, k, v)
<1> TAKE b, r, d, a, k, e, v
<1> QED BY DEF Cache

\* Written as the functions of the storage do
LEMMA CacheWith ==
    \A b, r, d, a, k, e, v :
        /\ WithRound(Cache(b, r, d, a, k, e), v) = Cache(b, v, d, a, k, e)
        /\ WithDecided(Cache(b, r, d, a, k, e), v) = Cache(b, r, v, a, k, e)
        /\ WithAccepted(Cache(b, r, d, a, k, e), v) = Cache(b, r, d, v, k, e)
        /\ WithStopSign(Cache(b, r, d, a, k, e), v) = Cache(b, r, d, a, k, v)
<1> TAKE b, r, d, a, k, e, v
<1> QED BY DEF Cache, WithRound, WithDecided, WithAccepted, WithStopSign

\* The same for the durable part
LEMMA DiskWith ==
    \A m, p, r, d, e, snap, v :
        /\ WithRound(Disk(m, p, r, d, e, snap), v) = Disk(m, p, v, d, e, snap)
        /\ WithDecided(Disk(m, p, r, d, e, snap), v) = Disk(m, p, r, v, e, snap)
        /\ WithStopSign(Disk(m, p, r, d, e, snap), v) = Disk(m, p, r, d, v, snap)
<1> TAKE m, p, r, d, e, snap, v
<1> QED BY DEF Disk, WithRound, WithDecided, WithStopSign

\* Reading a field
LEMMA CacheFields ==
    \A b, r, d, a, k, e :
        /\ Cache(b, r, d, a, k, e).batch = b /\ Cache(b, r, d, a, k, e).round = r
        /\ Cache(b, r, d, a, k, e).decided = d /\ Cache(b, r, d, a, k, e).accepted = a
        /\ Cache(b, r, d, a, k, e).compacted = k /\ Cache(b, r, d, a, k, e).stopsign = e
BY DEF Cache

\* What a storage consists of
LEMMA StorageFields ==
    \A log, snap, b, r, d, a, k, e :
        LET st == StorageOf(log, snap, b, r, d, a, k, e) IN
        /\ st.disk = DiskOf(log, k, r, d, e, snap) /\ st.cache = Cache(b, r, d, a, k, e)
        /\ st.disk.snapshot = snap /\ st.disk.memory.log = log /\ st.disk.memory = MemoryAt(log, k)
        /\ st.disk.rocks = RocksAt(log, k)
        /\ st.cache.batch = b /\ st.cache.round = r /\ st.cache.decided = d /\ st.cache.accepted = a
        /\ st.cache.compacted = k /\ st.cache.stopsign = e
<1> TAKE log, snap, b, r, d, a, k, e
<1>1. PICK st, D, C : /\ st = StorageOf(log, snap, b, r, d, a, k, e) /\ st = Storage(D, C)
                      /\ D = DiskOf(log, k, r, d, e, snap) /\ C = Cache(b, r, d, a, k, e)
    BY DEF StorageOf
<1>2. st.disk = D /\ st.cache = C
    BY <1>1, Puts
<1>3. D = Disk(MemoryAt(log, k), RocksAt(log, k), r, d, e, snap)
    BY <1>1 DEF DiskOf
<1>4. D.memory = MemoryAt(log, k) /\ D.rocks = RocksAt(log, k) /\ D.snapshot = snap
    BY <1>3, DiskFields
<1>5. MemoryAt(log, k).log = log
    BY DEF MemoryAt
<1>6. /\ C.batch = b /\ C.round = r /\ C.decided = d /\ C.accepted = a /\ C.compacted = k /\ C.stopsign = e
    BY <1>1, CacheFields
<1> QED BY <1>1, <1>2, <1>4, <1>5, <1>6, Zenon

\* A storage made of a log and indexes that count it is sound, and every sound one is so made.
LEMMA SoundStorage ==
    \A log, snap, b, r, d, a, k, e :
        Counts(log, b, r, d, a, k, e) => Sound(StorageOf(log, snap, b, r, d, a, k, e))
<1> TAKE log, snap, b, r, d, a, k, e
<1> HAVE Counts(log, b, r, d, a, k, e)
<1>1. PICK st : st = StorageOf(log, snap, b, r, d, a, k, e)
    OBVIOUS
<1>2. /\ st.disk.snapshot = snap /\ st.disk.memory.log = log
      /\ st.cache.batch = b /\ st.cache.round = r /\ st.cache.decided = d /\ st.cache.accepted = a
      /\ st.cache.compacted = k /\ st.cache.stopsign = e
    BY <1>1, StorageFields
<1>3. Sound(st)
    BY <1>1, <1>2, Zenon DEF Sound
<1> QED BY <1>1, <1>3, Zenon

\* Appending to the log
LEMMA AppendedTo ==
    ASSUME NEW log \in Seq(Commands), NEW snap, NEW b, NEW r, NEW d, NEW a, NEW k \in Nat, NEW e,
           NEW es \in Seq(Commands)
    PROVE  AppendWithoutBatching(StorageOf(log, snap, b, r, d, a, k, e), es)
           = StorageOf(log \o es, snap, b, r, d, a + Len(es), k, e)
<1>1. PICK D, C : D = DiskOf(log, k, r, d, e, snap) /\ C = Cache(b, r, d, a, k, e)
    OBVIOUS
<1>2. StorageOf(log, snap, b, r, d, a, k, e) = Storage(D, C)
    BY <1>1, Zenon DEF StorageOf
<1>3. AppendEntries(D, es) = DiskOf(log \o es, k, r, d, e, snap)
    BY <1>1, DiskAppended
<1>4. C.accepted = a
    BY <1>1, CacheFields
<1>5. [C EXCEPT !.accepted = a + Len(es)] = Cache(b, r, d, a + Len(es), k, e)
    BY <1>1, CacheSet
<1>6. AppendWithoutBatching(Storage(D, C), es)
      = Storage(AppendEntries(D, es), [C EXCEPT !.accepted = a + Len(es)])
    BY <1>4, WithoutBatching
<1> QED BY <1>2, <1>3, <1>5, <1>6, Zenon DEF StorageOf

\* Changing the batch
LEMMA BatchedIn ==
    ASSUME NEW log, NEW snap, NEW b, NEW r, NEW d, NEW a, NEW k, NEW e, NEW new
    PROVE  PutBatch(StorageOf(log, snap, b, r, d, a, k, e), new)
           = StorageOf(log, snap, new, r, d, a, k, e)
<1>1. PICK D, C : D = DiskOf(log, k, r, d, e, snap) /\ C = Cache(b, r, d, a, k, e)
    OBVIOUS
<1>2. PICK st : st = StorageOf(log, snap, b, r, d, a, k, e) /\ st = Storage(D, C)
    BY <1>1 DEF StorageOf
<1>3. [C EXCEPT !.batch = new] = Cache(new, r, d, a, k, e)
    BY <1>1, CacheSet
<1>4. PutBatch(st, new) = Storage(D, [C EXCEPT !.batch = new])
    BY <1>2, BatchSet
<1> QED BY <1>1, <1>2, <1>3, <1>4, Zenon DEF StorageOf

\* flush_batch
LEMMA FlushedIn ==
    ASSUME NEW log \in Seq(Commands), NEW snap, NEW b \in Seq(Commands), NEW r, NEW d, NEW a, NEW k \in Nat,
           NEW e
    PROVE  FlushBatch(StorageOf(log, snap, b, r, d, a, k, e))
           = StorageOf(log \o b, snap, << >>, r, d, a + Len(b), k, e)
<1>1. PICK st : st = StorageOf(log, snap, b, r, d, a, k, e) /\ st.cache.batch = b
    BY StorageFields
<1>2. PutBatch(st, << >>) = StorageOf(log, snap, << >>, r, d, a, k, e)
    BY <1>1, BatchedIn
<1>3. FlushBatch(st) = AppendWithoutBatching(PutBatch(st, << >>), b)
    BY <1>1, Zenon DEF FlushBatch, PutBatch
<1>4. AppendWithoutBatching(StorageOf(log, snap, << >>, r, d, a, k, e), b)
      = StorageOf(log \o b, snap, << >>, r, d, a + Len(b), k, e)
    BY AppendedTo
<1> QED BY <1>1, <1>2, <1>3, <1>4, Zenon

\* append_entries with batching: everything is flushed, or everything is in the batch
LEMMA AppendedIn ==
    ASSUME NEW log \in Seq(Commands), NEW snap, NEW b \in Seq(Commands), NEW r, NEW d, NEW a, NEW k \in Nat,
           NEW e, NEW es \in Seq(Commands)
    PROVE  \/ AppendWithBatching(StorageOf(log, snap, b, r, d, a, k, e), es)
              = StorageOf(log, snap, b \o es, r, d, a, k, e)
           \/ AppendWithBatching(StorageOf(log, snap, b, r, d, a, k, e), es)
              = StorageOf(log \o (b \o es), snap, << >>, r, d, a + Len(b \o es), k, e)
<1>1. PICK st : st = StorageOf(log, snap, b, r, d, a, k, e) /\ st.cache.batch = b
    BY StorageFields
<1>2. PICK new \in Seq(Commands) : new = b \o es
    BY ConcatProperties
<1>3. PutBatch(st, new) = StorageOf(log, snap, new, r, d, a, k, e)
    BY <1>1, BatchedIn
<1>4. [st EXCEPT !.cache.batch = @ \o es] = PutBatch(st, new)
    BY <1>1, <1>2, Zenon DEF PutBatch
<1>5. AppendWithBatching(st, es) \in {PutBatch(st, new), FlushBatch(PutBatch(st, new))}
    BY <1>4, Zenon DEF AppendWithBatching
<1>6. FlushBatch(StorageOf(log, snap, new, r, d, a, k, e))
      = StorageOf(log \o new, snap, << >>, r, d, a + Len(new), k, e)
    BY FlushedIn
<1> QED BY <1>1, <1>2, <1>3, <1>5, <1>6, Zenon

\* set_decided_idx
LEMMA DecidedIn ==
    ASSUME NEW log, NEW snap, NEW b, NEW r, NEW d, NEW a, NEW k, NEW e, NEW v
    PROVE  SetDecided(StorageOf(log, snap, b, r, d, a, k, e), v) = StorageOf(log, snap, b, r, v, a, k, e)
<1>1. PICK D, C : D = DiskOf(log, k, r, d, e, snap) /\ C = Cache(b, r, d, a, k, e)
    OBVIOUS
<1>2. StorageOf(log, snap, b, r, d, a, k, e) = Storage(D, C)
    BY <1>1, Zenon DEF StorageOf
<1>3. [C EXCEPT !.decided = v] = Cache(b, r, v, a, k, e)
    BY <1>1, CacheSet
<1>4. D = Disk(MemoryAt(log, k), RocksAt(log, k), r, d, e, snap)
    BY <1>1, Zenon DEF DiskOf
<1>5. [D EXCEPT !.decided = v] = Disk(MemoryAt(log, k), RocksAt(log, k), r, v, e, snap)
    BY <1>4, DiskSet
<1>6. SetDecided(Storage(D, C), v) = Storage([D EXCEPT !.decided = v], [C EXCEPT !.decided = v])
    BY DecidedSet
<1> QED BY <1>2, <1>3, <1>5, <1>6, Zenon DEF StorageOf, DiskOf

\* append_stopsign and set_stopsign
LEMMA StoppedIn ==
    ASSUME NEW log, NEW snap, NEW b, NEW r, NEW d, NEW a, NEW k, NEW e, NEW t, NEW v
    PROVE  Stopped(StorageOf(log, snap, b, r, d, a, k, e), t, v) = StorageOf(log, snap, b, r, d, v, k, t)
<1>1. PICK D, C : D = DiskOf(log, k, r, d, e, snap) /\ C = Cache(b, r, d, a, k, e)
    OBVIOUS
<1>2. StorageOf(log, snap, b, r, d, a, k, e) = Storage(D, C)
    BY <1>1, Zenon DEF StorageOf
<1>3. D = Disk(MemoryAt(log, k), RocksAt(log, k), r, d, e, snap)
    BY <1>1, Zenon DEF DiskOf
<1>4. WithStopSign(D, t) = Disk(MemoryAt(log, k), RocksAt(log, k), r, d, t, snap)
    BY <1>3, DiskWith
<1>5. WithAccepted(WithStopSign(C, t), v) = Cache(b, r, d, v, k, t)
    BY <1>1, CacheWith
<1>6. Stopped(Storage(D, C), t, v) = Storage(WithStopSign(D, t), WithAccepted(WithStopSign(C, t), v))
    BY StopSignSet
<1> QED BY <1>2, <1>4, <1>5, <1>6, Zenon DEF StorageOf, DiskOf

\* try_trim and try_snapshot
LEMMA CompactedIn ==
    ASSUME NEW log \in Seq(Commands), NEW snap, NEW b, NEW r, NEW d, NEW a, NEW k \in Nat, NEW e,
           NEW idx \in k..(k + Len(log)), NEW s
    PROVE  Compact(StorageOf(log, snap, b, r, d, a, k, e), idx, s)
           = StorageOf(SubSeq(log, idx - k + 1, Len(log)), s, b, r, d, a, idx, e)
<1>1. PICK D, C : D = DiskOf(log, k, r, d, e, snap) /\ C = Cache(b, r, d, a, k, e)
    OBVIOUS
<1>2. StorageOf(log, snap, b, r, d, a, k, e) = Storage(D, C)
    BY <1>1, Zenon DEF StorageOf
<1>3. [C EXCEPT !.compacted = idx] = Cache(b, r, d, a, idx, e)
    BY <1>1, CacheSet
<1>4. PICK new : new = SubSeq(log, idx - k + 1, Len(log))
    OBVIOUS
<1>5. TrimDisk(D, idx) = DiskOf(new, idx, r, d, e, snap)
    BY <1>1, <1>4, DiskTrimmed
<1>6. TrimDisk(D, idx) = Disk(MemoryAt(new, idx), RocksAt(new, idx), r, d, e, snap)
    BY <1>5, Zenon DEF DiskOf
<1>7. [TrimDisk(D, idx) EXCEPT !.snapshot = s] = Disk(MemoryAt(new, idx), RocksAt(new, idx), r, d, e, s)
    BY <1>6, DiskSet
<1>8. Compact(Storage(D, C), idx, s)
      = Storage([TrimDisk(D, idx) EXCEPT !.snapshot = s], [C EXCEPT !.compacted = idx])
    BY CompactedSet
<1> QED BY <1>2, <1>3, <1>4, <1>7, <1>8, Zenon DEF StorageOf, DiskOf

\* Opening the back end again
LEMMA OpenedFrom ==
    ASSUME NEW log \in Seq(Commands), NEW snap, NEW r, NEW d, NEW k \in Nat, NEW e
    PROVE  Opened(DiskOf(log, k, r, d, e, snap)) = StorageOf(log, snap, << >>, r, d, Len(log) + k + Ss(e), k, e)
<1>1. PICK D : D = DiskOf(log, k, r, d, e, snap)
    OBVIOUS
<1>2. Reopened(D) = D /\ LoadCache(D) = Cache(<< >>, r, d, Len(log) + k + Ss(e), k, e)
    BY <1>1, DiskReopened
<1>3. Opened(D) = Storage(D, Cache(<< >>, r, d, Len(log) + k + Ss(e), k, e))
    BY <1>2, Zenon DEF Opened, Storage
<1> QED BY <1>1, <1>3, Zenon DEF StorageOf

\* What sync_log writes first
LEMMA NumberedIn ==
    ASSUME NEW log, NEW snap, NEW b, NEW r, NEW d, NEW a, NEW k, NEW e, NEW r2, NEW d2
    PROVE  Numbered(StorageOf(log, snap, b, r, d, a, k, e), r2, d2) = StorageOf(log, snap, b, r2, d2, a, k, e)
<1>1. PICK D, C : D = DiskOf(log, k, r, d, e, snap) /\ C = Cache(b, r, d, a, k, e)
    OBVIOUS
<1>2. StorageOf(log, snap, b, r, d, a, k, e) = Storage(D, C)
    BY <1>1, Zenon DEF StorageOf
<1>3. D = Disk(MemoryAt(log, k), RocksAt(log, k), r, d, e, snap)
    BY <1>1, Zenon DEF DiskOf
<1>4. WithDecided(WithRound(D, r2), d2) = Disk(MemoryAt(log, k), RocksAt(log, k), r2, d2, e, snap)
    BY <1>3, DiskWith
<1>5. WithDecided(WithRound(C, r2), d2) = Cache(b, r2, d2, a, k, e)
    BY <1>1, CacheWith
<1>6. Numbered(Storage(D, C), r2, d2)
      = Storage(WithDecided(WithRound(D, r2), d2), WithDecided(WithRound(C, r2), d2))
    BY NumberedSet
<1> QED BY <1>2, <1>4, <1>5, <1>6, Zenon DEF StorageOf, DiskOf

\* What it writes last, given the log of the back end then
LEMMA FilledIn ==
    ASSUME NEW D, NEW b, NEW r, NEW d, NEW a, NEW k, NEW e, NEW new, NEW snap, NEW v, NEW t, NEW idx, NEW es,
           AppendOnPrefix(D, idx, es) = DiskOf(new, k, r, d, e, snap)
    PROVE  Filled(Storage(D, Cache(b, r, d, a, k, e)), WithStopSign(AppendOnPrefix(D, idx, es), t), v, t)
           = StorageOf(new, snap, b, r, d, v, k, t)
<1>1. PICK E, C : E = AppendOnPrefix(D, idx, es) /\ C = Cache(b, r, d, a, k, e)
    OBVIOUS
<1>2. E = Disk(MemoryAt(new, k), RocksAt(new, k), r, d, e, snap)
    BY <1>1, Zenon DEF DiskOf
<1>3. WithStopSign(E, t) = Disk(MemoryAt(new, k), RocksAt(new, k), r, d, t, snap)
    BY <1>2, DiskWith
<1>4. WithStopSign(WithAccepted(C, v), t) = Cache(b, r, d, v, k, t)
    BY <1>1, CacheWith
<1>5. Filled(Storage(D, C), WithStopSign(E, t), v, t)
      = Storage(WithStopSign(E, t), WithStopSign(WithAccepted(C, v), t))
    BY FilledSet
<1> QED BY <1>1, <1>3, <1>4, <1>5, Zenon DEF StorageOf, DiskOf

\* sync_log without a snapshot: the suffix replaces what is behind its first index.
LEMMA SyncedBySuffix ==
    ASSUME NEW log \in Seq(Commands), NEW snap, NEW b, NEW r, NEW d, NEW a, NEW k \in Nat, NEW e,
           NEW r2, NEW d2, NEW sync, sync.suffix \in Seq(Commands), sync.syncIdx \in k..(k + Len(log)),
           sync.decidedSnapshot.type \notin {"Complete", "Delta"}
    PROVE  SyncLog(StorageOf(log, snap, b, r, d, a, k, e), r2, d2, sync)
           = StorageOf(SubSeq(log, 1, sync.syncIdx - k) \o sync.suffix, snap, b, r2, d2,
                       sync.syncIdx + Len(sync.suffix) + Ss(sync.stopsign), k, sync.stopsign)
<1>1. PICK idx, es, t, v, new : /\ idx = sync.syncIdx /\ es = sync.suffix /\ t = sync.stopsign
                                /\ v = sync.syncIdx + Len(sync.suffix) + Ss(sync.stopsign)
                                /\ new = SubSeq(log, 1, sync.syncIdx - k) \o sync.suffix
    OBVIOUS
<1>2. PICK D, C : D = DiskOf(log, k, r2, d2, e, snap) /\ C = Cache(b, r2, d2, a, k, e)
    OBVIOUS
<1>3. Numbered(StorageOf(log, snap, b, r, d, a, k, e), r2, d2) = Storage(D, C)
  <2>1. Numbered(StorageOf(log, snap, b, r, d, a, k, e), r2, d2) = StorageOf(log, snap, b, r2, d2, a, k, e)
    BY NumberedIn
  <2> QED BY <1>2, <2>1, Zenon DEF StorageOf
<1>4. ApplySnapshot(Storage(D, C), sync) = Storage(D, C)
    BY Zenon DEF ApplySnapshot
<1>5. AppendOnPrefix(D, idx, es) = DiskOf(new, k, r2, d2, e, snap)
    BY <1>1, <1>2, DiskOverwritten
<1>6. Storage(D, C).disk = D
    BY Puts
<1>7. SyncLog(StorageOf(log, snap, b, r, d, a, k, e), r2, d2, sync)
      = Filled(Storage(D, C), WithStopSign(AppendOnPrefix(D, idx, es), t), v, t)
    BY <1>1, <1>3, <1>4, <1>6, Zenon DEF SyncLog, Synchronised, Numbered, Filled, WithStopSign, Ss
<1>8. Filled(Storage(D, C), WithStopSign(AppendOnPrefix(D, idx, es), t), v, t)
      = StorageOf(new, snap, b, r2, d2, v, k, t)
    BY <1>2, <1>5, FilledIn
<1> QED BY <1>1, <1>7, <1>8, Zenon

\* sync_log with a snapshot: the suffix is all that is behind it.
LEMMA SyncedBySnapshot ==
    ASSUME NEW log \in Seq(Commands), NEW snap, NEW b, NEW r, NEW d, NEW a, NEW k \in Nat, NEW e,
           NEW r2, NEW d2, NEW sync, sync.suffix \in Seq(Commands), sync.syncIdx \in Nat, k <= sync.syncIdx,
           sync.decidedSnapshot.type \in {"Complete", "Delta"},
           NEW new, new = SyncLog(StorageOf(log, snap, b, r, d, a, k, e), r2, d2, sync)
    PROVE  new = StorageOf(sync.suffix, new.disk.snapshot, b, r2, d2,
                           sync.syncIdx + Len(sync.suffix) + Ss(sync.stopsign), sync.syncIdx, sync.stopsign)
<1>1. PICK idx, es, t, v : /\ idx = sync.syncIdx /\ es = sync.suffix /\ t = sync.stopsign
                           /\ v = sync.syncIdx + Len(sync.suffix) + Ss(sync.stopsign)
    OBVIOUS
<1>2. PICK D, C : D = DiskOf(log, k, r2, d2, e, snap) /\ C = Cache(b, r2, d2, a, k, e)
    OBVIOUS
<1>3. Numbered(StorageOf(log, snap, b, r, d, a, k, e), r2, d2) = Storage(D, C)
  <2>1. Numbered(StorageOf(log, snap, b, r, d, a, k, e), r2, d2) = StorageOf(log, snap, b, r2, d2, a, k, e)
    BY NumberedIn
  <2> QED BY <1>2, <2>1, Zenon DEF StorageOf
<1>4. PICK s : ApplySnapshot(Storage(D, C), sync) = Compact(Storage(D, C), idx, s)
    BY <1>1, Zenon DEF ApplySnapshot
<1>5. PICK E, B : E = [TrimDisk(D, idx) EXCEPT !.snapshot = s] /\ B = [C EXCEPT !.compacted = idx]
    OBVIOUS
<1>6. Compact(Storage(D, C), idx, s) = Storage(E, B)
  <2>1. Compact(Storage(D, C), idx, s)
        = Storage([TrimDisk(D, idx) EXCEPT !.snapshot = s], [C EXCEPT !.compacted = idx])
    BY CompactedSet
  <2> QED BY <1>5, <2>1, Zenon
<1>7. AppendOnPrefix(E, idx, es) = DiskOf(es, idx, r2, d2, e, s)
    BY <1>1, <1>2, <1>5, DiskReplaced
<1>8. B = Cache(b, r2, d2, a, idx, e)
    BY <1>2, <1>5, CacheSet
<1>9. Storage(E, B).disk = E
    BY Puts
<1>10. SyncLog(StorageOf(log, snap, b, r, d, a, k, e), r2, d2, sync)
       = Filled(Storage(E, B), WithStopSign(AppendOnPrefix(E, idx, es), t), v, t)
    BY <1>1, <1>3, <1>4, <1>6, <1>9, Zenon DEF SyncLog, Synchronised, Numbered, Filled, WithStopSign, Ss
<1>11. Filled(Storage(E, B), WithStopSign(AppendOnPrefix(E, idx, es), t), v, t)
       = StorageOf(es, s, b, r2, d2, v, idx, t)
    BY <1>7, <1>8, FilledIn
<1>12. new = StorageOf(es, s, b, r2, d2, v, idx, t)
    BY <1>10, <1>11
<1>13. new.disk.snapshot = s
    BY <1>12, StorageFields
<1> QED BY <1>1, <1>12, <1>13

--------------------------------------------------------------------------------
(* The functions on a sound storage *)

\* A storage that has more than another one, which is otherwise the same
Grown(st, new) ==
    /\ Sound(new)
    /\ new.cache.round = st.cache.round /\ new.cache.compacted = st.cache.compacted
    /\ new.disk.snapshot = st.disk.snapshot
    /\ st.cache.accepted <= new.cache.accepted /\ st.cache.decided <= new.cache.decided

\* What a sound storage is made of
LEMMA SoundParts ==
    ASSUME NEW st, Sound(st)
    PROVE  \E log, snap, b, r, d, a, k, e :
              st = StorageOf(log, snap, b, r, d, a, k, e) /\ Counts(log, b, r, d, a, k, e)
BY Zenon DEF Sound

\* Both storages seen by their parts
LEMMA GrownParts ==
    ASSUME NEW log, NEW snap, NEW b, NEW r, NEW d, NEW a, NEW k, NEW e,
           NEW log2, NEW b2, NEW d2, NEW a2, NEW e2,
           Counts(log2, b2, r, d2, a2, k, e2), d <= d2, a <= a2
    PROVE  Grown(StorageOf(log, snap, b, r, d, a, k, e), StorageOf(log2, snap, b2, r, d2, a2, k, e2))
<1>1. PICK st, new : st = StorageOf(log, snap, b, r, d, a, k, e) /\ new = StorageOf(log2, snap, b2, r, d2, a2, k, e2)
    OBVIOUS
<1>2. /\ st.cache.round = r /\ st.cache.compacted = k /\ st.disk.snapshot = snap
      /\ st.cache.accepted = a /\ st.cache.decided = d
    BY <1>1, StorageFields
<1>3. /\ new.cache.round = r /\ new.cache.compacted = k /\ new.disk.snapshot = snap
      /\ new.cache.accepted = a2 /\ new.cache.decided = d2
    BY <1>1, StorageFields
<1>4. Sound(new)
    BY <1>1, SoundStorage
<1>5. Grown(st, new)
    BY <1>2, <1>3, <1>4 DEF Grown
<1> QED BY <1>1, <1>5, Zenon

\* The numbers of a sound storage
LEMMA SoundNumbers ==
    ASSUME NEW st, Sound(st)
    PROVE  /\ st.cache.decided \in Nat /\ st.cache.accepted \in Nat /\ st.cache.compacted \in Nat
           /\ st.cache.stopsign \in BOOLEAN /\ st.cache.batch \in Seq(Commands)
           /\ st.cache.decided <= st.cache.accepted
           /\ st.cache.compacted + Ss(st.cache.stopsign) <= st.cache.accepted
           /\ st.cache.round \in {0, Round}
<1>1. PICK log : Counts(log, st.cache.batch, st.cache.round, st.cache.decided, st.cache.accepted,
                        st.cache.compacted, st.cache.stopsign)
    BY Zenon DEF Sound
<1>2. Len(log) \in Nat
    BY <1>1, LenProperties DEF Counts
<1>3. PICK d, a, k, e, n : /\ d = st.cache.decided /\ a = st.cache.accepted /\ k = st.cache.compacted
                           /\ e = st.cache.stopsign /\ n = Len(log)
    OBVIOUS
<1>4. d \in Nat /\ a \in Nat /\ k \in Nat /\ n \in Nat /\ a = k + n + Ss(e) /\ d <= a /\ e \in BOOLEAN
    BY <1>1, <1>2, <1>3 DEF Counts
<1>5. k + Ss(e) <= a
    BY <1>4 DEF Ss
<1> QED BY <1>1, <1>3, <1>4, <1>5 DEF Counts

\* Growing twice
LEMMA GrownTwice ==
    ASSUME NEW st, NEW mid, NEW new, Sound(st), Grown(st, mid), Grown(mid, new)
    PROVE  Grown(st, new)
<1>1. /\ st.cache.decided \in Nat /\ st.cache.accepted \in Nat /\ mid.cache.decided \in Nat
      /\ mid.cache.accepted \in Nat /\ new.cache.decided \in Nat /\ new.cache.accepted \in Nat
    BY SoundNumbers DEF Grown
<1> QED BY <1>1 DEF Grown

\* Doing nothing
LEMMA GrownNot ==
    ASSUME NEW st, Sound(st)
    PROVE  Grown(st, st)
BY SoundNumbers DEF Grown

\* flush_batch
LEMMA FlushGrows ==
    ASSUME NEW st, Sound(st)
    PROVE  /\ Grown(st, FlushBatch(st))
           /\ FlushBatch(st).cache.decided = st.cache.decided /\ FlushBatch(st).cache.stopsign = st.cache.stopsign
<1>1. PICK log, snap, b, r, d, a, k, e :
          st = StorageOf(log, snap, b, r, d, a, k, e) /\ Counts(log, b, r, d, a, k, e)
    BY SoundParts
<1>2. log \in Seq(Commands) /\ b \in Seq(Commands) /\ k \in Nat /\ a \in Nat /\ d \in Nat
    BY <1>1 DEF Counts
<1>3. PICK new, m, n, l : /\ new = FlushBatch(st) /\ m = Len(log) /\ n = Len(b) /\ l = log \o b
    OBVIOUS
<1>4. l \in Seq(Commands) /\ Len(l) = m + n /\ m \in Nat /\ n \in Nat
    BY <1>2, <1>3, ConcatProperties, LenProperties
<1>5. new = StorageOf(l, snap, << >>, r, d, a + n, k, e)
    BY <1>1, <1>2, <1>3, FlushedIn
<1>6. Counts(l, << >>, r, d, a + n, k, e)
  <2>1. a = k + m + Ss(e) /\ Ss(e) \in Nat /\ d <= a
    BY <1>1, <1>3 DEF Counts, Ss
  <2>2. a + n = k + (m + n) + Ss(e) /\ d <= a + n /\ a + n \in Nat
    BY <1>2, <1>4, <2>1
  <2> QED BY <1>1, <1>4, <2>2, EmptySeq DEF Counts
<1>7. Grown(st, new)
    BY <1>1, <1>2, <1>4, <1>5, <1>6, GrownParts
<1>8. new.cache.decided = d /\ new.cache.stopsign = e /\ st.cache.decided = d /\ st.cache.stopsign = e
    BY <1>1, <1>5, StorageFields
<1> QED BY <1>3, <1>7, <1>8

\* append_entries with batching
LEMMA AppendGrows ==
    ASSUME NEW st, Sound(st), NEW es \in Seq(Commands)
    PROVE  Grown(st, AppendWithBatching(st, es))
<1>1. PICK log, snap, b, r, d, a, k, e :
          st = StorageOf(log, snap, b, r, d, a, k, e) /\ Counts(log, b, r, d, a, k, e)
    BY SoundParts
<1>2. log \in Seq(Commands) /\ b \in Seq(Commands) /\ k \in Nat /\ a \in Nat /\ d \in Nat
    BY <1>1 DEF Counts
<1>3. PICK c : c = b \o es
    OBVIOUS
<1>4. PICK l, m, n : l = log \o c /\ m = Len(log) /\ n = Len(c)
    OBVIOUS
<1>5. c \in Seq(Commands) /\ n \in Nat /\ m \in Nat
    BY <1>2, <1>3, <1>4, ConcatProperties, LenProperties
<1>6. l \in Seq(Commands) /\ Len(l) = m + n
    BY <1>2, <1>4, <1>5, ConcatProperties
<1>7. \/ AppendWithBatching(st, es) = StorageOf(log, snap, c, r, d, a, k, e)
      \/ AppendWithBatching(st, es) = StorageOf(l, snap, << >>, r, d, a + n, k, e)
    BY <1>1, <1>2, <1>3, <1>4, AppendedIn
<1>8. a = k + m + Ss(e) /\ Ss(e) \in Nat /\ d <= a
    BY <1>1, <1>4 DEF Counts, Ss
<1>9. Counts(log, c, r, d, a, k, e)
    BY <1>1, <1>5 DEF Counts
<1>10. Counts(l, << >>, r, d, a + n, k, e)
  <2>1. a + n = k + (m + n) + Ss(e) /\ d <= a + n /\ a + n \in Nat
    BY <1>2, <1>5, <1>8
  <2> QED BY <1>1, <1>6, <2>1, EmptySeq DEF Counts
<1>11. Grown(st, StorageOf(log, snap, c, r, d, a, k, e))
    BY <1>1, <1>2, <1>9, GrownParts
<1>12. Grown(st, StorageOf(l, snap, << >>, r, d, a + n, k, e))
    BY <1>1, <1>2, <1>5, <1>10, GrownParts
<1> QED BY <1>7, <1>11, <1>12, Zenon

\* set_decided_idx, no further than what is accepted
LEMMA DecideGrows ==
    ASSUME NEW st, Sound(st), NEW idx \in Nat, st.cache.decided <= idx, idx <= st.cache.accepted
    PROVE  Grown(st, SetDecided(st, idx))
<1>1. PICK log, snap, b, r, d, a, k, e :
          st = StorageOf(log, snap, b, r, d, a, k, e) /\ Counts(log, b, r, d, a, k, e)
    BY SoundParts
<1>2. st.cache.decided = d /\ st.cache.accepted = a
    BY <1>1, StorageFields
<1>3. SetDecided(st, idx) = StorageOf(log, snap, b, r, idx, a, k, e)
    BY <1>1, DecidedIn
<1>4. Counts(log, b, r, idx, a, k, e)
    BY <1>1, <1>2 DEF Counts
<1>5. a <= a /\ d <= idx
    BY <1>1, <1>2 DEF Counts
<1> QED BY <1>1, <1>3, <1>4, <1>5, GrownParts

\* update_decided_idx_and_get_accepted_idx
LEMMA UpdateGrows ==
    ASSUME NEW st, Sound(st), NEW idx \in Nat
    PROVE  Grown(st, UpdateDecided(st, idx))
<1>1. CASE idx <= st.cache.decided
    BY <1>1, GrownNot DEF UpdateDecided
<1>2. CASE ~(idx <= st.cache.decided) /\ idx > st.cache.accepted
  <2>1. PICK flushed : flushed = FlushBatch(st)
    OBVIOUS
  <2>2. Grown(st, flushed) /\ Sound(flushed)
    BY <2>1, FlushGrows DEF Grown
  <2>3. PICK i : i = Smaller(idx, flushed.cache.accepted)
    OBVIOUS
  <2>4. i \in Nat /\ flushed.cache.decided <= i /\ i <= flushed.cache.accepted
    <3>1. flushed.cache.decided = st.cache.decided
      BY <2>1, FlushGrows
    <3>2. flushed.cache.accepted \in Nat /\ st.cache.decided \in Nat /\ flushed.cache.decided <= flushed.cache.accepted
      BY <2>2, SoundNumbers
    <3> QED BY <1>2, <2>3, <3>1, <3>2 DEF Smaller
  <2>5. Grown(flushed, SetDecided(flushed, i))
    BY <2>2, <2>4, DecideGrows
  <2>6. UpdateDecided(st, idx) = SetDecided(flushed, i)
    BY <1>2, <2>1, <2>3 DEF UpdateDecided
  <2> QED BY <2>2, <2>5, <2>6, GrownTwice
<1>3. CASE ~(idx <= st.cache.decided) /\ ~(idx > st.cache.accepted)
  <2>1. st.cache.decided <= idx /\ idx <= st.cache.accepted
    BY <1>3, SoundNumbers
  <2>2. UpdateDecided(st, idx) = SetDecided(st, idx)
    BY <1>3 DEF UpdateDecided
  <2> QED BY <2>1, <2>2, DecideGrows
<1> QED BY <1>1, <1>2, <1>3

\* set_stopsign, and append_stopsign where there is none: the stop sign is counted once.
LEMMA StopGrows ==
    ASSUME NEW st, Sound(st)
    PROVE  /\ Grown(st, SetStopSign(st))
           /\ ~st.cache.stopsign => Grown(st, AppendStopSign(st))
<1>1. ASSUME NEW s, Sound(s), NEW t, NEW v, t = TRUE, v = IF s.cache.stopsign THEN s.cache.accepted ELSE s.cache.accepted + 1
      PROVE  Grown(s, Stopped(s, t, v))
  <2>1. PICK log, snap, b, r, d, a, k, e :
            s = StorageOf(log, snap, b, r, d, a, k, e) /\ Counts(log, b, r, d, a, k, e)
    BY <1>1, SoundParts
  <2>2. s.cache.stopsign = e /\ s.cache.accepted = a
    BY <2>1, StorageFields
  <2>3. Stopped(s, t, v) = StorageOf(log, snap, b, r, d, v, k, t)
    BY <2>1, StoppedIn
  <2>4. PICK n : n = Len(log)
    OBVIOUS
  <2>5. n \in Nat /\ a \in Nat /\ k \in Nat /\ d \in Nat /\ d <= a /\ e \in BOOLEAN /\ a = k + n + Ss(e)
    BY <2>1, <2>4, LenProperties DEF Counts
  <2>6. v = k + n + Ss(t) /\ a <= v /\ v \in Nat /\ d <= v
    BY <1>1, <2>2, <2>5 DEF Ss
  <2>7. Counts(log, b, r, d, v, k, t)
    <3>1. t \in BOOLEAN
      BY <1>1
    <3> QED BY <2>1, <2>4, <2>6, <3>1 DEF Counts
  <2> QED BY <2>1, <2>3, <2>5, <2>6, <2>7, GrownParts
<1>2. Grown(st, SetStopSign(st))
  <2>1. SetStopSign(st) = Stopped(st, TRUE, IF st.cache.stopsign THEN st.cache.accepted ELSE st.cache.accepted + 1)
    BY Zenon DEF SetStopSign, Stopped
  <2> QED BY <1>1, <2>1
<1>3. ASSUME ~st.cache.stopsign PROVE Grown(st, AppendStopSign(st))
  <2>1. PICK flushed : flushed = FlushBatch(st)
    OBVIOUS
  <2>2. Grown(st, flushed) /\ Sound(flushed) /\ ~flushed.cache.stopsign
    BY <1>3, <2>1, FlushGrows DEF Grown
  <2>3. AppendStopSign(st) = Stopped(flushed, TRUE, flushed.cache.accepted + 1)
    BY <2>1, Zenon DEF AppendStopSign, Stopped
  <2>4. Grown(flushed, AppendStopSign(st))
    BY <1>1, <2>2, <2>3
  <2> QED BY <2>2, <2>4, GrownTwice
<1> QED BY <1>2, <1>3

\* A restart loads the cache that there was, without the batch.
LEMMA OpenGrows ==
    ASSUME NEW st, Sound(st)
    PROVE  /\ Grown(st, Opened(st.disk)) /\ Opened(st.disk).cache.decided = st.cache.decided
           /\ Opened(st.disk).cache.accepted = st.cache.accepted
<1>1. PICK log, snap, b, r, d, a, k, e :
          st = StorageOf(log, snap, b, r, d, a, k, e) /\ Counts(log, b, r, d, a, k, e)
    BY SoundParts
<1>2. st.disk = DiskOf(log, k, r, d, e, snap) /\ st.cache.decided = d /\ st.cache.accepted = a
    BY <1>1, StorageFields
<1>3. PICK n : n = Len(log)
    OBVIOUS
<1>4. n \in Nat /\ a \in Nat /\ k \in Nat /\ d \in Nat /\ a = k + n + Ss(e) /\ Ss(e) \in Nat /\ log \in Seq(Commands)
    BY <1>1, <1>3, LenProperties DEF Counts, Ss
<1>5. PICK new : new = Opened(st.disk) /\ new = StorageOf(log, snap, << >>, r, d, n + k + Ss(e), k, e)
    BY <1>2, <1>3, <1>4, OpenedFrom
<1>6. n + k + Ss(e) = a
    BY <1>4
<1>7. Counts(log, << >>, r, d, a, k, e)
    BY <1>1, EmptySeq DEF Counts
<1>8. Grown(st, new)
    BY <1>1, <1>4, <1>5, <1>6, <1>7, GrownParts
<1>9. new.cache.decided = d /\ new.cache.accepted = a
    BY <1>5, <1>6, StorageFields
<1> QED BY <1>2, <1>5, <1>8, <1>9

\* A storage that compacted no more than is decided and is otherwise the same
Shrunk(st, new) ==
    /\ Sound(new)
    /\ new.cache.round = st.cache.round /\ new.cache.decided = st.cache.decided
    /\ new.cache.accepted = st.cache.accepted /\ new.cache.stopsign = st.cache.stopsign
    /\ st.cache.compacted <= new.cache.compacted /\ new.cache.compacted <= st.cache.decided

\* Compaction up to an index that an entry is at
LEMMA CompactShrinks ==
    ASSUME NEW st, Sound(st), NEW i \in Nat, st.cache.compacted <= i, i <= DecidedWithoutStopSign(st.cache), NEW s
    PROVE  /\ Shrunk(st, Compact(st, i, s))
           /\ Compact(st, i, s).cache.compacted = i /\ Compact(st, i, s).disk.snapshot = s
<1>1. PICK log, snap, b, r, d, a, k, e :
          st = StorageOf(log, snap, b, r, d, a, k, e) /\ Counts(log, b, r, d, a, k, e)
    BY SoundParts
<1>2. /\ st.cache.decided = d /\ st.cache.accepted = a /\ st.cache.compacted = k /\ st.cache.stopsign = e
      /\ st.cache.round = r
    BY <1>1, StorageFields
<1>3. PICK n, rest : n = Len(log) /\ rest = SubSeq(log, i - k + 1, n)
    OBVIOUS
<1>4. /\ log \in Seq(Commands) /\ n \in Nat /\ k \in Nat /\ a \in Nat /\ d \in Nat /\ e \in BOOLEAN
      /\ a = k + n + Ss(e) /\ d <= a
    BY <1>1, <1>3, LenProperties DEF Counts
<1>5. i \in k..(k + n) /\ i <= d
    BY <1>2, <1>4 DEF DecidedWithoutStopSign, StopSignIsDecided, Ss
<1>6. rest \in Seq(Commands) /\ Len(rest) = n - (i - k)
  <2>1. i - k + 1 \in 1..(n + 1) /\ i - k + 1 <= n + 1
    BY <1>4, <1>5
  <2>2. \A x \in (i - k + 1)..n : x \in 1..n
    BY <2>1, <1>4
  <2> QED BY <1>3, <1>4, <1>5, <2>1, <2>2, SubSeqProperties
<1>7. Compact(st, i, s) = StorageOf(rest, s, b, r, d, a, i, e)
    BY <1>1, <1>3, <1>4, <1>5, CompactedIn
<1>8. Counts(rest, b, r, d, a, i, e)
  <2>1. a = i + Len(rest) + Ss(e)
    BY <1>4, <1>5, <1>6 DEF Ss
  <2> QED BY <1>1, <1>6, <2>1 DEF Counts
<1>9. PICK new : new = StorageOf(rest, s, b, r, d, a, i, e)
    OBVIOUS
<1>10. Sound(new)
    BY <1>8, <1>9, SoundStorage
<1>11. /\ new.cache.decided = d /\ new.cache.accepted = a /\ new.cache.compacted = i /\ new.cache.stopsign = e
       /\ new.cache.round = r /\ new.disk.snapshot = s
    BY <1>9, StorageFields
<1> QED BY <1>2, <1>5, <1>7, <1>9, <1>10, <1>11 DEF Shrunk

\* try_trim and try_snapshot, also where they do nothing
LEMMA TryShrinks ==
    ASSUME NEW st, Sound(st), NEW idx \in Nat
    PROVE  /\ \/ TryTrim(st, idx) = st
              \/ /\ Shrunk(st, TryTrim(st, idx))
                 /\ TryTrim(st, idx).cache.compacted <= idx
           /\ \/ TrySnapshot(st, idx) = st
              \/ /\ Shrunk(st, TrySnapshot(st, idx))
                 /\ TrySnapshot(st, idx).disk.snapshot # NoSnapshot
<1>1. PICK new : new = CompactedUpTo(st, idx)
    OBVIOUS
<1>2. CASE idx <= st.cache.decided /\ new > st.cache.compacted
  <2>1. new \in Nat /\ new <= idx /\ new <= DecidedWithoutStopSign(st.cache) /\ st.cache.compacted <= new
    BY <1>1, <1>2, SoundNumbers DEF CompactedUpTo, DecidedWithoutStopSign, StopSignIsDecided, Ss
  <2>2. TryTrim(st, idx) = Compact(st, new, st.disk.snapshot)
    BY <1>1, <1>2 DEF TryTrim
  <2>3. PICK snap : snap = CreateSnapshot(st, new)
    OBVIOUS
  <2>4. TrySnapshot(st, idx) = Compact(st, new, <<snap>>)
    BY <1>1, <1>2, <2>3 DEF TrySnapshot
  <2>5. <<snap>> # NoSnapshot
    BY DEF NoSnapshot
  <2>6. /\ Shrunk(st, Compact(st, new, st.disk.snapshot))
        /\ Compact(st, new, st.disk.snapshot).cache.compacted = new
    BY <2>1, CompactShrinks
  <2>7. Shrunk(st, Compact(st, new, <<snap>>)) /\ Compact(st, new, <<snap>>).disk.snapshot = <<snap>>
    BY <2>1, CompactShrinks
  <2> QED BY <2>1, <2>2, <2>4, <2>5, <2>6, <2>7
<1>3. CASE ~(idx <= st.cache.decided /\ new > st.cache.compacted)
    BY <1>1, <1>3 DEF TryTrim, TrySnapshot
<1> QED BY <1>2, <1>3

\* sync_log, of what fits
LEMMA SyncLogSound ==
    ASSUME NEW st, Sound(st), NEW sync, SyncFits(sync, st.cache), NEW decided, SyncOK(decided, sync)
    PROVE  /\ Sound(SyncLog(st, Round, decided, sync))
           /\ SyncLog(st, Round, decided, sync).cache.round = Round
           /\ sync.syncIdx <= SyncLog(st, Round, decided, sync).cache.accepted
<1>1. PICK log, snap, b, r, d, a, k, e :
          st = StorageOf(log, snap, b, r, d, a, k, e) /\ Counts(log, b, r, d, a, k, e)
    BY SoundParts
<1>2. st.cache.accepted = a /\ st.cache.compacted = k /\ st.cache.stopsign = e
    BY <1>1, StorageFields
<1>3. PICK n, idx, es, t, v : /\ n = Len(log) /\ idx = sync.syncIdx /\ es = sync.suffix /\ t = sync.stopsign
                              /\ v = idx + Len(es) + Ss(t)
    OBVIOUS
<1>4. /\ log \in Seq(Commands) /\ n \in Nat /\ k \in Nat /\ a \in Nat /\ e \in BOOLEAN /\ b \in Seq(Commands)
      /\ a = k + n + Ss(e)
    BY <1>1, <1>3, LenProperties DEF Counts
<1>5. es \in Seq(Commands) /\ Len(es) \in Nat /\ t \in BOOLEAN /\ idx \in Nat /\ v \in Nat /\ decided <= v /\ idx <= v
      /\ decided \in Nat
    BY <1>3, LenProperties DEF SyncOK, Ss
<1>6. k <= idx
    BY <1>2, <1>3 DEF SyncFits
<1>8. CASE sync.decidedSnapshot.type \notin {"Complete", "Delta"}
  <2>1. idx \in k..(k + n)
    <3>1. idx + Ss(e) <= a
      BY <1>2, <1>3, <1>8, Zenon DEF SyncFits
    <3> QED BY <1>4, <1>5, <1>6, <3>1 DEF Ss
  <2>2. PICK new : new = SubSeq(log, 1, idx - k) \o es
    OBVIOUS
  <2>3. new \in Seq(Commands) /\ Len(new) = idx - k + Len(es)
    <3>1. idx - k \in 0..n /\ \A x \in 1..(idx - k) : x \in 1..n
      BY <1>4, <2>1
    <3>2. SubSeq(log, 1, idx - k) \in Seq(Commands) /\ Len(SubSeq(log, 1, idx - k)) = idx - k
      BY <1>3, <1>4, <3>1, SubSeqProperties
    <3> QED BY <1>5, <2>2, <3>2, ConcatProperties
  <2>4. SyncLog(st, Round, decided, sync) = StorageOf(new, snap, b, Round, decided, v, k, t)
    <3>1. SyncLog(st, Round, decided, sync)
          = StorageOf(SubSeq(log, 1, idx - k) \o es, snap, b, Round, decided, v, k, t)
      BY <1>1, <1>3, <1>4, <1>5, <1>8, <2>1, SyncedBySuffix
    <3> QED BY <2>2, <3>1
  <2>5. Counts(new, b, Round, decided, v, k, t)
    <3>1. v = k + Len(new) + Ss(t)
      BY <1>3, <1>4, <1>5, <2>3 DEF Ss
    <3> QED BY <1>4, <1>5, <2>3, <3>1 DEF Counts
  <2> QED BY <1>3, <1>5, <2>4, <2>5, SoundStorage, StorageFields
<1>9. CASE sync.decidedSnapshot.type \in {"Complete", "Delta"}
  <2>1. PICK new : new = SyncLog(StorageOf(log, snap, b, r, d, a, k, e), Round, decided, sync)
    OBVIOUS
  <2>2. new = StorageOf(es, new.disk.snapshot, b, Round, decided, v, idx, t)
    <3>1. k <= sync.syncIdx /\ sync.suffix \in Seq(Commands) /\ sync.syncIdx \in Nat
      BY <1>3, <1>5, <1>6
    <3>2. new = StorageOf(sync.suffix, new.disk.snapshot, b, Round, decided,
                          sync.syncIdx + Len(sync.suffix) + Ss(sync.stopsign), sync.syncIdx, sync.stopsign)
      BY <1>4, <1>9, <2>1, <3>1, SyncedBySnapshot
    <3> QED BY <1>3, <3>2
  <2>3. Counts(es, b, Round, decided, v, idx, t)
    BY <1>3, <1>4, <1>5 DEF Counts
  <2> QED BY <1>1, <1>3, <1>5, <2>1, <2>2, <2>3, SoundStorage, StorageFields
<1> QED BY <1>8, <1>9

\* What get_suffix returns
LEMMA SuffixOf ==
    ASSUME NEW st, Sound(st), NEW from \in Nat, st.cache.compacted <= from,
           NEW end, end = st.cache.accepted - Ss(st.cache.stopsign)
    PROVE  /\ GetSuffix(st.disk, from) \in Seq(Commands) /\ end \in Nat
           /\ Len(GetSuffix(st.disk, from)) = IF from <= end THEN end - from ELSE 0
<1>1. PICK log, snap, b, r, d, a, k, e :
          st = StorageOf(log, snap, b, r, d, a, k, e) /\ Counts(log, b, r, d, a, k, e)
    BY SoundParts
<1>2. /\ st.cache.accepted = a /\ st.cache.compacted = k /\ st.cache.stopsign = e
      /\ st.disk.memory = MemoryAt(log, k)
    BY <1>1, StorageFields
<1>3. PICK n : n = Len(log)
    OBVIOUS
<1>4. /\ log \in Seq(Commands) /\ n \in Nat /\ k \in Nat /\ a \in Nat /\ a = k + n + Ss(e)
    BY <1>1, <1>3, LenProperties DEF Counts
<1>5. Ss(e) \in Nat
    BY DEF Ss
<1>6. end = k + n /\ k <= from
    BY <1>2, <1>4, <1>5
<1>7. GetSuffix(st.disk, from) = IF from <= k + n THEN SubSeq(log, from - k + 1, k + n - k) ELSE << >>
  <2>1. Memory!GetSuffix(MemoryAt(log, k), from) = Memory!GetEntries(MemoryAt(log, k), from, k + n)
    BY <1>3 DEF Memory!GetSuffix, MemoryAt
  <2>2. Memory!GetEntries(MemoryAt(log, k), from, k + n)
        = IF from <= k + n THEN SubSeq(log, from - k + 1, k + n - k) ELSE << >>
    BY <1>3, <1>4, <1>6 DEF Memory!GetEntries, MemoryAt
  <2> QED BY <1>2, <2>1, <2>2 DEF GetSuffix
<1>8. CASE from <= k + n
  <2>1. from - k + 1 \in 1..(n + 1) /\ k + n - k = n
    BY <1>4, <1>6, <1>8
  <2>2. \A x \in (from - k + 1)..n : x \in 1..n
    BY <2>1, <1>4
  <2>3. SubSeq(log, from - k + 1, n) \in Seq(Commands) /\ Len(SubSeq(log, from - k + 1, n)) = n - (from - k)
    BY <1>3, <1>4, <1>6, <1>8, <2>1, <2>2, SubSeqProperties
  <2> QED BY <1>4, <1>6, <1>7, <1>8, <2>1, <2>3
<1>9. CASE ~(from <= k + n)
    BY <1>4, <1>6, <1>7, <1>9, EmptySeq
<1> QED BY <1>8, <1>9

\* The prefix that the leader takes for common (handle_promise)
Valid(fc) == IF fc.round = Round THEN fc.accepted ELSE fc.decided

\* It is between what the follower needs and what it has.
LEMMA ValidHeld ==
    ASSUME NEW st, Sound(st), PhaseOK("Prepare", st.cache), NEW valid, valid = Valid(st.cache)
    PROVE  /\ valid \in Nat /\ st.cache.compacted <= valid /\ st.cache.decided <= valid
           /\ st.cache.round = Round => st.cache.accepted <= valid
           /\ valid + Ss(st.cache.stopsign) <= st.cache.accepted
<1>1. /\ ~StopSignInPrefix(st.cache) /\ (st.cache.round # Round => st.cache.compacted <= st.cache.decided)
    BY DEF PhaseOK
<1> QED BY <1>1, SoundNumbers DEF Valid, StopSignInPrefix, StopSignIsDecided, Ss

\* create_log_sync without a snapshot: the leader has all that is behind the common prefix.
LEMMA SuffixFits ==
    ASSUME NEW us, NEW own, Sound(own), NEW a, LeaderOK(us, own, a), NEW st, Sound(st),
           PhaseOK("Prepare", st.cache), AckedOK(st.cache, a), NEW valid, valid = Valid(st.cache),
           us => own.cache.decided <= valid,
           NEW sync, sync = [decidedSnapshot |-> NoDecidedSnapshot, suffix |-> GetSuffix(own.disk, valid),
                             syncIdx |-> valid, stopsign |-> own.cache.stopsign]
    PROVE  SyncOK(own.cache.decided, sync) /\ SyncFits(sync, st.cache)
<1>1. /\ valid \in Nat /\ st.cache.compacted <= valid /\ st.cache.decided <= valid
      /\ st.cache.round = Round => st.cache.accepted <= valid
      /\ valid + Ss(st.cache.stopsign) <= st.cache.accepted
    BY ValidHeld
<1>2. /\ own.cache.decided \in Nat /\ own.cache.accepted \in Nat /\ own.cache.compacted \in Nat
      /\ own.cache.stopsign \in BOOLEAN /\ own.cache.decided <= own.cache.accepted
    BY SoundNumbers
<1>3. own.cache.compacted <= valid
  <2>1. CASE us
    BY <1>1, <1>2, <2>1 DEF LeaderOK
  <2>2. CASE ~us
    <3>1. own.cache.compacted <= a
      BY <2>2 DEF LeaderOK
    <3>2. a <= valid
      BY <1>1, SoundNumbers DEF AckedOK
    <3>3. a \in Nat
      BY DEF AckedOK
    <3> QED BY <1>1, <1>2, <3>1, <3>2, <3>3
  <2> QED BY <2>1, <2>2
<1>4. PICK end : end = own.cache.accepted - Ss(own.cache.stopsign)
    OBVIOUS
<1>5. PICK suffix : suffix = GetSuffix(own.disk, valid)
    OBVIOUS
<1>6. suffix \in Seq(Commands) /\ end \in Nat /\ Len(suffix) = IF valid <= end THEN end - valid ELSE 0
    BY <1>1, <1>3, <1>4, <1>5, SuffixOf
<1>7. /\ sync.suffix = suffix /\ sync.syncIdx = valid /\ sync.stopsign = own.cache.stopsign
      /\ sync.decidedSnapshot.type = "None"
    BY <1>5 DEF NoDecidedSnapshot
<1>8. SyncOK(own.cache.decided, sync)
  <2>1. own.cache.decided <= valid + Len(suffix) + Ss(own.cache.stopsign)
    BY <1>1, <1>2, <1>4, <1>6 DEF Ss
  <2> QED BY <1>1, <1>2, <1>6, <1>7, <2>1 DEF SyncOK
<1>9. SyncFits(sync, st.cache)
    BY <1>1, <1>7 DEF SyncFits
<1> QED BY <1>8, <1>9

\* create_log_sync with a snapshot
LEMMA SnapshotFits ==
    ASSUME NEW own, Sound(own), NEW a, LeaderOK(TRUE, own, a), NEW st, Sound(st),
           PhaseOK("Prepare", st.cache), NEW valid, valid = Valid(st.cache), own.cache.decided > valid,
           NEW diff, diff = CreateDiffSnapshot(own, st.cache.decided),
           NEW sync, sync = [decidedSnapshot |-> diff, suffix |-> GetSuffix(own.disk, own.cache.decided),
                             syncIdx |-> DecidedWithoutStopSign(own.cache), stopsign |-> own.cache.stopsign]
    PROVE  SyncOK(own.cache.decided, sync) /\ SyncFits(sync, st.cache)
<1>1. /\ valid \in Nat /\ st.cache.compacted <= valid /\ st.cache.decided <= valid
      /\ st.cache.round = Round => st.cache.accepted <= valid
      /\ valid + Ss(st.cache.stopsign) <= st.cache.accepted
    BY ValidHeld
<1>2. /\ own.cache.decided \in Nat /\ own.cache.accepted \in Nat /\ own.cache.compacted \in Nat
      /\ own.cache.stopsign \in BOOLEAN /\ own.cache.decided <= own.cache.accepted
      /\ own.cache.compacted <= own.cache.decided
      /\ own.cache.compacted + Ss(own.cache.stopsign) <= own.cache.accepted
    BY SoundNumbers DEF LeaderOK
<1>3. PICK idx : idx = DecidedWithoutStopSign(own.cache)
    OBVIOUS
<1>4. /\ idx \in Nat /\ idx <= own.cache.decided /\ own.cache.decided <= idx + 1 /\ valid <= idx
      /\ own.cache.compacted <= idx
    BY <1>1, <1>2, <1>3 DEF DecidedWithoutStopSign, StopSignIsDecided, Ss
<1>5. PICK end : end = own.cache.accepted - Ss(own.cache.stopsign)
    OBVIOUS
<1>6. PICK suffix : suffix = GetSuffix(own.disk, own.cache.decided)
    OBVIOUS
<1>7. /\ suffix \in Seq(Commands) /\ end \in Nat
      /\ Len(suffix) = IF own.cache.decided <= end THEN end - own.cache.decided ELSE 0
    BY <1>2, <1>5, <1>6, SuffixOf
<1>8. /\ sync.suffix = suffix /\ sync.syncIdx = idx /\ sync.stopsign = own.cache.stopsign
      /\ sync.decidedSnapshot = diff
    BY <1>3, <1>6
<1>9. SyncOK(own.cache.decided, sync)
  <2>1. own.cache.decided <= idx + Len(suffix) + Ss(own.cache.stopsign)
    BY <1>2, <1>3, <1>4, <1>5, <1>7 DEF DecidedWithoutStopSign, StopSignIsDecided, Ss
  <2> QED BY <1>2, <1>4, <1>7, <1>8, <2>1 DEF SyncOK
<1>10. ASSUME diff.type \notin {"Complete", "Delta"} PROVE idx = 0
  <2>1. ~(st.cache.decided > own.cache.compacted)
    BY <1>10 DEF CreateDiffSnapshot
  <2>2. ~(own.cache.compacted < idx)
    BY <1>3, <1>10, <2>1 DEF CreateDiffSnapshot
  <2>3. own.disk.snapshot = NoSnapshot
    BY <1>3, <1>10, <2>1, <2>2 DEF CreateDiffSnapshot
  <2>4. own.cache.compacted = 0
    BY <2>3 DEF LeaderOK
  <2> QED BY <1>2, <1>4, <2>2, <2>4
<1>11. SyncFits(sync, st.cache)
  <2>1. st.cache.compacted \in Nat /\ st.cache.decided \in Nat /\ st.cache.accepted \in Nat
        /\ st.cache.compacted + Ss(st.cache.stopsign) <= st.cache.accepted
    BY SoundNumbers
  <2>2. idx = 0 => idx + Ss(st.cache.stopsign) <= st.cache.accepted
    BY <1>1, <1>4 DEF Ss
  <2>3. st.cache.compacted <= idx /\ st.cache.decided <= idx
    BY <1>1, <1>4, <2>1
  <2>4. st.cache.round = Round => st.cache.accepted <= idx
    BY <1>1, <1>4, <2>1
  <2> QED BY <1>8, <1>10, <2>2, <2>3, <2>4 DEF SyncFits
<1> QED BY <1>9, <1>11

\* What the leader answers to a promise fits the follower that made it (handle_promise_accept).
LEMMA AnswerFits ==
    ASSUME NEW us \in BOOLEAN, NEW own, Sound(own), NEW a, LeaderOK(us, own, a), NEW st, Sound(st),
           PhaseOK("Prepare", st.cache), AckedOK(st.cache, a),
           NEW sync, sync = CreateLogSync(own, us, Valid(st.cache), st.cache.decided)
    PROVE  SyncOK(own.cache.decided, sync) /\ SyncFits(sync, st.cache)
<1>1. PICK valid : valid = Valid(st.cache)
    OBVIOUS
<1>2. valid \in Nat /\ own.cache.decided \in Nat
    BY <1>1, ValidHeld, SoundNumbers
<1>3. CASE us /\ own.cache.decided > valid
  <2>1. LeaderOK(TRUE, own, a)
    BY <1>3
  <2>2. PICK diff : diff = CreateDiffSnapshot(own, st.cache.decided)
    OBVIOUS
  <2>3. sync = [decidedSnapshot |-> diff, suffix |-> GetSuffix(own.disk, own.cache.decided),
                syncIdx |-> DecidedWithoutStopSign(own.cache), stopsign |-> own.cache.stopsign]
    BY <1>1, <1>3, <2>2 DEF CreateLogSync
  <2> QED BY <1>1, <1>3, <2>1, <2>2, <2>3, SnapshotFits
<1>4. CASE ~(us /\ own.cache.decided > valid)
  <2>1. sync = [decidedSnapshot |-> NoDecidedSnapshot, suffix |-> GetSuffix(own.disk, valid),
                syncIdx |-> valid, stopsign |-> own.cache.stopsign]
    BY <1>1, <1>4 DEF CreateLogSync
  <2> QED BY <1>1, <1>2, <1>4, <2>1, SuffixFits
<1> QED BY <1>3, <1>4

--------------------------------------------------------------------------------
(* What lies between the leader and the follower *)

\* Messages of a known type
LEMMA Messages ==
    /\ \A es, d : es \in Seq(Commands) /\ d \in Nat => MsgOK([type |-> "AcceptDecide", entries |-> es, decided |-> d])
    /\ MsgOK(AcceptStopSign)
    /\ \A d : d \in Nat => MsgOK(Decide(d))
    /\ \A d, sync, log : SyncOK(d, sync)
                        => MsgOK([type |-> "AcceptSync", decided |-> d, log |-> log, sync |-> sync])
<1>1. ASSUME NEW es \in Seq(Commands), NEW d \in Nat
      PROVE  MsgOK([type |-> "AcceptDecide", entries |-> es, decided |-> d])
    BY DEF MsgOK
<1>2. MsgOK(AcceptStopSign)
    BY DEF MsgOK, AcceptStopSign
<1>3. ASSUME NEW d \in Nat PROVE MsgOK(Decide(d))
    BY DEF MsgOK, Decide
<1>4. ASSUME NEW d, NEW sync, NEW log, SyncOK(d, sync)
      PROVE  MsgOK([type |-> "AcceptSync", decided |-> d, log |-> log, sync |-> sync])
    BY <1>4 DEF MsgOK
<1> QED BY <1>1, <1>2, <1>3, <1>4

\* A sequence of messages
Sendable(msgs) == (\E S : msgs \in Seq(S)) /\ \A i \in 1..Len(msgs) : MsgOK(msgs[i])

\* One message
LEMMA SendableOne ==
    \A m : MsgOK(m) => Sendable(<<m>>)
<1> SUFFICES ASSUME NEW m, MsgOK(m) PROVE Sendable(<<m>>)
    OBVIOUS
<1>1. PICK one : one = <<m>>
    OBVIOUS
<1>2. one \in Seq({m}) /\ Len(one) = 1 /\ one[1] = m
    BY <1>1
<1>3. \A i \in 1..Len(one) : MsgOK(one[i])
  <2> TAKE i \in 1..Len(one)
  <2>1. one[i] = m
    BY <1>2
  <2> QED BY <2>1
<1> QED BY <1>1, <1>2, <1>3, Zenon DEF Sendable

\* What the leader sends with entries (send_acceptdecide)
LEMMA SendableEntries ==
    ASSUME NEW es \in Seq(Commands), NEW d \in Nat
    PROVE  Sendable(AcceptDecide(es, d)) /\ Sendable(AcceptDecide(es, d) \o <<AcceptStopSign>>)
<1>1. PICK m : m = [type |-> "AcceptDecide", entries |-> es, decided |-> d]
    OBVIOUS
<1>2. MsgOK(m)
    BY <1>1, Messages
<1>3. PICK stop : stop = AcceptStopSign
    OBVIOUS
<1>4. MsgOK(stop)
    BY <1>3, Messages
<1>5. AcceptDecide(es, d) = << >> \/ AcceptDecide(es, d) = <<m>>
    BY <1>1 DEF AcceptDecide
<1>6. Sendable(<< >>) /\ Sendable(<<m>>) /\ Sendable(<<stop>>)
  <2>1. << >> \in Seq({m}) /\ Len(<< >>) = 0
    OBVIOUS
  <2>2. Sendable(<< >>)
    BY <2>1 DEF Sendable
  <2> QED BY <1>2, <1>4, <2>2, SendableOne
<1>7. Sendable(<< >> \o <<stop>>) /\ Sendable(<<m>> \o <<stop>>)
  <2>1. << >> \o <<stop>> = <<stop>> /\ <<m>> \o <<stop>> = <<m, stop>>
    <3>1. PICK mm, ss, x : mm = <<m>> /\ ss = <<stop>> /\ x = mm \o ss
      OBVIOUS
    <3>2. mm \in Seq({m, stop}) /\ ss \in Seq({m, stop}) /\ Len(mm) = 1 /\ Len(ss) = 1 /\ mm[1] = m /\ ss[1] = stop
      BY <3>1
    <3>3. x \in Seq({m, stop}) /\ Len(x) = 2 /\ x[1] = m /\ x[2] = stop
      BY <3>1, <3>2
    <3>4. x = <<m, stop>>
      BY <3>3
    <3>5. << >> \o ss = ss
      BY <3>2
    <3> QED BY <3>1, <3>4, <3>5
  <2>2. PICK two : two = <<m, stop>>
    OBVIOUS
  <2>3. two \in Seq({m, stop}) /\ Len(two) = 2 /\ two[1] = m /\ two[2] = stop
    BY <2>2
  <2>4. \A i \in 1..Len(two) : MsgOK(two[i])
    <3> TAKE i \in 1..Len(two)
    <3>1. two[i] = m \/ two[i] = stop
      BY <2>3
    <3> QED BY <1>2, <1>4, <3>1
  <2>5. Sendable(two)
    BY <2>3, <2>4, Zenon DEF Sendable
  <2> QED BY <1>6, <2>1, <2>2, <2>5
<1> QED BY <1>3, <1>5, <1>6, <1>7

\* Sending behind what is under way
LEMMA LinkSends ==
    ASSUME NEW ph, NEW ch, NEW fc, LinkOK(ph, ch, fc), NEW msgs, Sendable(msgs), ph = "Prepare" => ch # << >>
    PROVE  LinkOK(ph, ch \o msgs, fc)
<1>1. PICK S1, S2 : ch \in Seq(S1) /\ msgs \in Seq(S2)
    BY DEF LinkOK, Sendable
<1>2. PICK S : S = S1 \cup S2
    OBVIOUS
<1>3. ch \in Seq(S) /\ msgs \in Seq(S)
    BY <1>1, <1>2
<1>4. PICK all : all = ch \o msgs
    OBVIOUS
<1>5. /\ all \in Seq(S) /\ Len(all) = Len(ch) + Len(msgs)
      /\ \A i \in 1..Len(ch) : all[i] = ch[i]
      /\ \A i \in (Len(ch) + 1)..(Len(ch) + Len(msgs)) : all[i] = msgs[i - Len(ch)]
    BY <1>3, <1>4
<1>6. Len(ch) \in Nat /\ Len(msgs) \in Nat
    BY <1>3
<1>7. \A i \in 1..Len(all) : MsgOK(all[i])
  <2>1. (\A i \in 1..Len(ch) : MsgOK(ch[i])) /\ \A i \in 1..Len(msgs) : MsgOK(msgs[i])
    BY DEF LinkOK, Sendable
  <2> TAKE i \in 1..Len(all)
  <2>2. CASE i <= Len(ch)
    BY <1>5, <1>6, <2>1, <2>2
  <2>3. CASE ~(i <= Len(ch))
    <3>1. i - Len(ch) \in 1..Len(msgs) /\ i \in (Len(ch) + 1)..(Len(ch) + Len(msgs))
      BY <1>5, <1>6, <2>3
    <3> QED BY <1>5, <2>1, <3>1
  <2> QED BY <2>2, <2>3
<1>8. ch # << >> => Head(all) = Head(ch)
    BY <1>3, <1>5, <1>6
<1>9. ph = "Prepare" /\ ch # << >> /\ Head(ch).type = "AcceptSync" => SyncFits(Head(ch).sync, fc)
    BY DEF LinkOK
<1> QED BY <1>4, <1>5, <1>7, <1>8, <1>9 DEF LinkOK

\* Receiving the first message
LEMMA LinkReceives ==
    ASSUME NEW ph, NEW ch, NEW fc, LinkOK(ph, ch, fc), ch # << >>, NEW fc2
    PROVE  MsgOK(Head(ch)) /\ LinkOK("Accept", Tail(ch), fc2)
<1>1. PICK S : ch \in Seq(S)
    BY DEF LinkOK
<1>2. PICK rest : rest = Tail(ch)
    OBVIOUS
<1>3. /\ Len(ch) \in Nat /\ Len(ch) # 0 /\ rest \in Seq(S) /\ Len(rest) = Len(ch) - 1
      /\ \A i \in 1..Len(rest) : rest[i] = ch[i + 1]
      /\ Head(ch) = ch[1]
    BY <1>1, <1>2
<1>4. \A i \in 1..Len(ch) : MsgOK(ch[i])
    BY DEF LinkOK
<1>5. \A i \in 1..Len(rest) : MsgOK(rest[i])
    BY <1>3, <1>4
<1> QED BY <1>2, <1>3, <1>4, <1>5 DEF LinkOK

\* Nothing is under way, or one message.
LEMMA LinkReset ==
    ASSUME NEW ph, NEW fc
    PROVE  /\ LinkOK(ph, << >>, fc)
           /\ \A m : MsgOK(m) /\ (m.type = "AcceptSync" => SyncFits(m.sync, fc)) => LinkOK(ph, <<m>>, fc)
<1>1. LinkOK(ph, << >>, fc)
  <2>1. << >> \in Seq({})
    OBVIOUS
  <2> QED BY <2>1 DEF LinkOK
<1>2. ASSUME NEW m, MsgOK(m), m.type = "AcceptSync" => SyncFits(m.sync, fc) PROVE LinkOK(ph, <<m>>, fc)
  <2>1. PICK one : one = <<m>>
    OBVIOUS
  <2>2. Sendable(one) /\ Head(one) = m
    BY <1>2, <2>1, SendableOne
  <2> QED BY <1>2, <2>1, <2>2, Zenon DEF LinkOK, Sendable
<1> QED BY <1>1, <1>2

--------------------------------------------------------------------------------
(* What the operations keep *)

\* The leader appends, decides or stops.
LEMMA LeaderGrows ==
    ASSUME NEW us, NEW own, NEW st, NEW ph, NEW pr, NEW ch, NEW a, Holds(us, own, st, ph, pr, ch, a),
           NEW own2, Grown(own, own2), NEW ch2,
           ch2 = ch \/ ((ph = "Accept" \/ ch # << >>) /\ \E msgs : Sendable(msgs) /\ ch2 = ch \o msgs)
    PROVE  Holds(us, own2, st, ph, pr, ch2, a)
<1>1. /\ Sound(own) /\ Sound(st) /\ LeaderOK(us, own, a) /\ AckedOK(st.cache, a) /\ PhaseOK(ph, st.cache)
      /\ PromiseOK(ph, pr, ch, st.cache) /\ LinkOK(ph, ch, st.cache)
    BY DEF Holds
<1>2. /\ Sound(own2) /\ own2.cache.compacted = own.cache.compacted /\ own.cache.decided <= own2.cache.decided
      /\ own2.disk.snapshot = own.disk.snapshot
    BY DEF Grown
<1>3. LeaderOK(us, own2, a)
  <2>1. own2.cache.compacted <= own2.cache.decided
    <3>1. own.cache.decided \in Nat /\ own2.cache.decided \in Nat /\ own.cache.compacted \in Nat
      BY <1>1, <1>2, SoundNumbers
    <3> QED BY <1>1, <1>2, <3>1 DEF LeaderOK
  <2> QED BY <1>1, <1>2, <2>1, Zenon DEF LeaderOK
<1>4. PromiseOK(ph, pr, ch2, st.cache)
  <2>1. ph = "Accept" => pr = NoPromise
    BY <1>1 DEF PromiseOK
  <2>2. ch # << >> => pr = NoPromise
    BY <1>1 DEF PromiseOK
  <2> QED BY <1>1, <2>1, <2>2 DEF PromiseOK
<1>5. LinkOK(ph, ch2, st.cache)
  <2>1. CASE ch2 = ch
    BY <1>1, <2>1
  <2>2. ASSUME NEW msgs, Sendable(msgs), ch2 = ch \o msgs, ph = "Accept" \/ ch # << >>
        PROVE  LinkOK(ph, ch2, st.cache)
    <3>1. ph = "Prepare" => ch # << >>
      BY <2>2
    <3> QED BY <1>1, <2>2, <3>1, LinkSends
  <2> QED BY <2>1, <2>2
<1> QED BY <1>1, <1>2, <1>3, <1>4, <1>5 DEF Holds

\* The leader compacts.
LEMMA LeaderShrinks ==
    ASSUME NEW us, NEW own, NEW st, NEW ph, NEW pr, NEW ch, NEW a, Holds(us, own, st, ph, pr, ch, a),
           NEW own2, Shrunk(own, own2), us => own2.disk.snapshot # NoSnapshot, ~us => own2.cache.compacted <= a
    PROVE  Holds(us, own2, st, ph, pr, ch, a)
<1>1. /\ Sound(own2) /\ own2.cache.decided = own.cache.decided /\ own2.cache.compacted <= own.cache.decided
    BY DEF Shrunk
<1>2. LeaderOK(us, own, a)
    BY DEF Holds
<1>3. LeaderOK(us, own2, a)
    BY <1>1, <1>2 DEF LeaderOK
<1> QED BY <1>1, <1>3 DEF Holds

\* The follower compacts.
LEMMA FollowerShrinks ==
    ASSUME NEW us, NEW own, NEW st, NEW ph, NEW pr, NEW ch, NEW a, Holds(us, own, st, ph, pr, ch, a),
           NEW st2, Shrunk(st, st2)
    PROVE  Holds(us, own, st2, ph, pr, ch, a)
<1>1. /\ Sound(own) /\ Sound(st) /\ LeaderOK(us, own, a) /\ AckedOK(st.cache, a) /\ PhaseOK(ph, st.cache)
      /\ PromiseOK(ph, pr, ch, st.cache) /\ LinkOK(ph, ch, st.cache)
    BY DEF Holds
<1>2. /\ Sound(st2) /\ st2.cache.round = st.cache.round /\ st2.cache.decided = st.cache.decided
      /\ st2.cache.accepted = st.cache.accepted /\ st2.cache.stopsign = st.cache.stopsign
      /\ st2.cache.compacted <= st.cache.decided
    BY DEF Shrunk
<1>3. AckedOK(st2.cache, a) /\ PromiseOK(ph, pr, ch, st2.cache)
    BY <1>1, <1>2 DEF AckedOK, PromiseOK
<1>4. PhaseOK(ph, st2.cache)
    BY <1>1, <1>2 DEF PhaseOK, StopSignInPrefix, StopSignIsDecided
<1>5. LinkOK(ph, ch, st2.cache)
  <2>1. ASSUME ph = "Prepare" /\ ch # << >> /\ Head(ch).type = "AcceptSync"
        PROVE  SyncFits(Head(ch).sync, st2.cache)
    <3>1. PICK S : ch \in Seq(S)
      BY <1>1 DEF LinkOK
    <3>2. MsgOK(Head(ch))
      BY <1>1, <2>1, LinkReceives
    <3>3. SyncOK(Head(ch).decided, Head(ch).sync)
      BY <2>1, <3>2 DEF MsgOK
    <3>4. SyncFits(Head(ch).sync, st.cache)
      BY <1>1, <2>1 DEF LinkOK
    <3>5. PICK sync : sync = Head(ch).sync
      OBVIOUS
    <3>6. sync.syncIdx \in Nat /\ st2.cache.compacted \in Nat /\ st.cache.decided \in Nat
      BY <1>1, <1>2, <3>3, <3>5, SoundNumbers DEF SyncOK
    <3>7. st2.cache.compacted <= sync.syncIdx
      BY <1>2, <3>4, <3>5, <3>6 DEF SyncFits
    <3> QED BY <1>2, <3>4, <3>5, <3>7 DEF SyncFits
  <2> QED BY <1>1, <2>1 DEF LinkOK
<1> QED BY <1>1, <1>2, <1>3, <1>4, <1>5 DEF Holds

\* A follower that has more, in the same phase or after a restart
LEMMA FollowerGrows ==
    ASSUME NEW us, NEW own, NEW st, NEW ph, NEW pr, NEW ch, NEW a, Holds(us, own, st, ph, pr, ch, a),
           NEW st2, Grown(st, st2)
    PROVE  /\ ph = "Old" => Holds(us, own, st2, ph, pr, ch, a)
           /\ Holds(us, own, st2, "Recover", NoPromise, << >>, a)
           /\ ~StopSignInPrefix(st2.cache) =>
                  Holds(us, own, st2, "Prepare",
                        [round |-> st2.cache.round, decided |-> st2.cache.decided, accepted |-> st2.cache.accepted],
                        << >>, a)
<1>1. /\ Sound(own) /\ Sound(st) /\ LeaderOK(us, own, a) /\ AckedOK(st.cache, a) /\ PhaseOK(ph, st.cache)
      /\ PromiseOK(ph, pr, ch, st.cache) /\ LinkOK(ph, ch, st.cache)
    BY DEF Holds
<1>2. /\ Sound(st2) /\ st2.cache.round = st.cache.round /\ st2.cache.compacted = st.cache.compacted
      /\ st.cache.accepted <= st2.cache.accepted /\ st.cache.decided <= st2.cache.decided
    BY DEF Grown
<1>3. /\ st.cache.accepted \in Nat /\ st2.cache.accepted \in Nat /\ st.cache.decided \in Nat
      /\ st2.cache.decided \in Nat /\ st.cache.compacted \in Nat
    BY <1>1, <1>2, SoundNumbers
<1>4. AckedOK(st2.cache, a)
    BY <1>1, <1>2, <1>3 DEF AckedOK
<1>5. st2.cache.round # Round => st2.cache.compacted <= st2.cache.decided
    BY <1>1, <1>2, <1>3 DEF PhaseOK
<1>6. PhaseOK("Old", st2.cache) /\ PhaseOK("Recover", st2.cache)
      /\ (~StopSignInPrefix(st2.cache) => PhaseOK("Prepare", st2.cache))
    BY <1>5 DEF PhaseOK
<1>7. ASSUME ph = "Old" PROVE Holds(us, own, st2, ph, pr, ch, a)
  <2>1. PromiseOK(ph, pr, ch, st2.cache) /\ LinkOK(ph, ch, st2.cache)
    BY <1>1, <1>7 DEF PromiseOK, LinkOK
  <2> QED BY <1>1, <1>2, <1>4, <1>6, <1>7, <2>1 DEF Holds
<1>8. Holds(us, own, st2, "Recover", NoPromise, << >>, a)
  <2>1. PromiseOK("Recover", NoPromise, << >>, st2.cache)
    BY DEF PromiseOK
  <2> QED BY <1>1, <1>2, <1>4, <1>6, <2>1, LinkReset DEF Holds
<1>9. ASSUME ~StopSignInPrefix(st2.cache), NEW new,
             new = [round |-> st2.cache.round, decided |-> st2.cache.decided, accepted |-> st2.cache.accepted]
      PROVE  Holds(us, own, st2, "Prepare", new, << >>, a)
  <2>1. PromiseOK("Prepare", new, << >>, st2.cache)
    BY <1>9 DEF PromiseOK
  <2> QED BY <1>1, <1>2, <1>4, <1>6, <1>9, <2>1, LinkReset DEF Holds
<1> QED BY <1>7, <1>8, <1>9

\* The follower accepts: what it has flushed is acknowledged.
LEMMA FollowerAccepts ==
    ASSUME NEW us, NEW own, NEW st, NEW pr, NEW ch, NEW a, Holds(us, own, st, "Accept", pr, ch, a),
           NEW st2, Grown(st, st2), NEW ch2, ch2 = ch \/ (ch # << >> /\ ch2 = Tail(ch))
    PROVE  Holds(us, own, st2, "Accept", pr, ch2, st2.cache.accepted)
<1>1. /\ Sound(own) /\ Sound(st) /\ LeaderOK(us, own, a) /\ AckedOK(st.cache, a) /\ PhaseOK("Accept", st.cache)
      /\ PromiseOK("Accept", pr, ch, st.cache) /\ LinkOK("Accept", ch, st.cache)
    BY DEF Holds
<1>2. /\ Sound(st2) /\ st2.cache.round = st.cache.round /\ st.cache.accepted <= st2.cache.accepted
    BY DEF Grown
<1>3. /\ st.cache.accepted \in Nat /\ st2.cache.accepted \in Nat /\ own.cache.compacted \in Nat
    BY <1>1, <1>2, SoundNumbers
<1>4. st2.cache.round = Round
    BY <1>1, <1>2 DEF PhaseOK
<1>5. AckedOK(st2.cache, st2.cache.accepted) /\ PhaseOK("Accept", st2.cache)
    BY <1>3, <1>4 DEF AckedOK, PhaseOK
<1>6. LeaderOK(us, own, st2.cache.accepted)
  <2>1. a \in Nat /\ a <= st2.cache.accepted
    BY <1>1, <1>2, <1>3 DEF AckedOK
  <2>2. ~us => own.cache.compacted <= st2.cache.accepted
    BY <1>1, <1>3, <2>1 DEF LeaderOK
  <2> QED BY <1>1, <2>2, Zenon DEF LeaderOK
<1>7. PromiseOK("Accept", pr, ch2, st2.cache)
    BY <1>1 DEF PromiseOK
<1>8. LinkOK("Accept", ch2, st2.cache)
  <2>1. CASE ch2 = ch
    BY <1>1, <2>1 DEF LinkOK
  <2>2. CASE ch # << >> /\ ch2 = Tail(ch)
    BY <1>1, <2>2, LinkReceives
  <2> QED BY <2>1, <2>2
<1> QED BY <1>1, <1>2, <1>5, <1>6, <1>7, <1>8 DEF Holds

\* The follower synchronises.
LEMMA FollowerSynchronises ==
    ASSUME NEW us, NEW own, NEW st, NEW pr, NEW ch, NEW a, Holds(us, own, st, "Prepare", pr, ch, a),
           ch # << >>, NEW m, m = Head(ch), m.type = "AcceptSync",
           NEW st2, st2 = SyncLog(st, Round, m.decided, m.sync)
    PROVE  Holds(us, own, st2, "Accept", pr, Tail(ch), st2.cache.accepted)
<1>1. /\ Sound(own) /\ Sound(st) /\ LeaderOK(us, own, a) /\ AckedOK(st.cache, a)
      /\ PromiseOK("Prepare", pr, ch, st.cache) /\ LinkOK("Prepare", ch, st.cache)
    BY DEF Holds
<1>2. LinkOK("Accept", Tail(ch), st2.cache) /\ MsgOK(m)
    BY <1>1, LinkReceives
<1>3. PICK sync, d : sync = m.sync /\ d = m.decided
    OBVIOUS
<1>4. SyncOK(d, sync) /\ SyncFits(sync, st.cache)
    BY <1>1, <1>2, <1>3 DEF MsgOK, LinkOK
<1>5. Sound(st2) /\ st2.cache.round = Round /\ sync.syncIdx <= st2.cache.accepted
    BY <1>1, <1>3, <1>4, SyncLogSound
<1>6. /\ st.cache.accepted \in Nat /\ st2.cache.accepted \in Nat /\ own.cache.compacted \in Nat
      /\ sync.syncIdx \in Nat
    BY <1>1, <1>4, <1>5, SoundNumbers DEF SyncOK
<1>7. AckedOK(st2.cache, st2.cache.accepted) /\ PhaseOK("Accept", st2.cache)
    BY <1>5, <1>6 DEF AckedOK, PhaseOK
<1>8. LeaderOK(us, own, st2.cache.accepted)
  <2>1. a \in Nat /\ a <= st2.cache.accepted
    BY <1>1, <1>4, <1>5, <1>6 DEF AckedOK, SyncFits
  <2>2. ~us => own.cache.compacted <= st2.cache.accepted
    BY <1>1, <1>6, <2>1 DEF LeaderOK
  <2> QED BY <1>1, <2>2, Zenon DEF LeaderOK
<1>9. PromiseOK("Accept", pr, Tail(ch), st2.cache)
    BY <1>1 DEF PromiseOK
<1> QED BY <1>1, <1>2, <1>5, <1>7, <1>8, <1>9 DEF Holds

\* The leader answers a promise.
LEMMA LeaderAnswers ==
    ASSUME NEW us, NEW own, NEW st, NEW ph, NEW pr, NEW ch, NEW a, Holds(us, own, st, ph, pr, ch, a),
           pr # NoPromise, NEW valid, valid = IF pr.round = Round THEN pr.accepted ELSE pr.decided,
           NEW sync, sync = CreateLogSync(own, us, valid, pr.decided), NEW log,
           NEW m, m = [type |-> "AcceptSync", decided |-> own.cache.decided, log |-> log, sync |-> sync]
    PROVE  Holds(us, own, st, ph, NoPromise, <<m>>, a)
<1>1. /\ Sound(own) /\ Sound(st) /\ LeaderOK(us, own, a) /\ AckedOK(st.cache, a) /\ PhaseOK(ph, st.cache)
      /\ PromiseOK(ph, pr, ch, st.cache)
    BY DEF Holds
<1>2. ph = "Prepare" /\ pr.round = st.cache.round /\ pr.decided = st.cache.decided /\ pr.accepted = st.cache.accepted
    BY <1>1 DEF PromiseOK
<1>3. valid = Valid(st.cache)
    BY <1>2 DEF Valid
<1>4. us \in BOOLEAN
    BY <1>1 DEF LeaderOK
<1>5. sync = CreateLogSync(own, us, Valid(st.cache), st.cache.decided)
    BY <1>2, <1>3
<1>6. SyncOK(own.cache.decided, sync) /\ SyncFits(sync, st.cache)
    BY <1>1, <1>2, <1>4, <1>5, AnswerFits
<1>7. MsgOK(m) /\ m.sync = sync
    BY <1>6, Messages
<1>8. LinkOK(ph, <<m>>, st.cache)
    BY <1>6, <1>7, LinkReset
<1>9. PromiseOK(ph, NoPromise, <<m>>, st.cache)
    BY DEF PromiseOK
<1> QED BY <1>1, <1>8, <1>9 DEF Holds

--------------------------------------------------------------------------------
(* Every action keeps the invariant *)

\* One storage is written.
LEMMA StoredAt ==
    ASSUME DOMAIN store = Server, NEW s \in Server, NEW st, store' = [store EXCEPT ![s] = st]
    PROVE  DOMAIN store' = Server /\ store'[s] = st /\ \A q \in Server \ {s} : store'[q] = store[q]
OBVIOUS

\* An operation of the leader
LEMMA LeaderStep ==
    ASSUME StorageInv, NEW own, Grown(store["leader"], own), NEW es, Stored("leader", own, es),
           NEW msgs, Sendable(msgs), Send(msgs), ByLeader
    PROVE  StorageInv'
<1>1. Holds(useSnapshots, store["leader"], store["follower"], phase, promise, channel, acked)
    BY DEF StorageInv
<1>2. DOMAIN store' = Server /\ store'["leader"] = own /\ store'["follower"] = store["follower"]
    BY StoredAt DEF StorageInv, Server, Stored
<1>3. PICK ch2 : ch2 = channel'
    OBVIOUS
<1>4. ch2 = channel \/ ((phase = "Accept" \/ channel # << >>) /\ \E ms : Sendable(ms) /\ ch2 = channel \o ms)
    BY <1>3, Zenon DEF Send, InSession
<1>5. Holds(useSnapshots, own, store["follower"], phase, promise, ch2, acked)
    BY <1>1, <1>4, LeaderGrows
<1>6. useSnapshots' = useSnapshots /\ phase' = phase /\ promise' = promise /\ acked' = acked
    BY DEF ByLeader
<1> QED BY <1>2, <1>3, <1>5, <1>6 DEF StorageInv

\* accept_entry_leader, flush_batch_leader, accept_stopsign_leader, handle_accepted
LEMMA LeaderSteps ==
    ASSUME StorageInv
    PROVE  /\ \A cmd \in Commands : LeaderAppend(cmd) => StorageInv'
           /\ FlushLeader \/ LeaderStopSign => StorageInv'
           /\ \A idx \in Nat : LeaderDecide(idx) => StorageInv'
<1>1. PICK own : own = store["leader"]
    OBVIOUS
<1>2. Sound(own)
    BY <1>1 DEF StorageInv, Holds
<1>3. own.cache.decided \in Nat /\ own.cache.accepted \in Nat /\ own.cache.batch \in Seq(Commands)
    BY <1>2, SoundNumbers
<1>4. ASSUME NEW cmd \in Commands, LeaderAppend(cmd) PROVE StorageInv'
  <2>1. PICK es, new : es = <<cmd>> /\ new = AppendWithBatching(own, es)
    OBVIOUS
  <2>2. es \in Seq(Commands)
    BY <2>1
  <2>3. Grown(own, new)
    BY <1>2, <2>1, <2>2, AppendGrows
  <2>4. PICK sent, msgs : sent = Flushed(own, es) /\ msgs = AcceptDecide(sent, own.cache.decided)
    OBVIOUS
  <2>5. Stored("leader", new, es) /\ Send(msgs) /\ ByLeader
    BY <1>1, <1>4, <2>1, <2>4 DEF LeaderAppend
  <2>6. sent \in Seq(Commands)
    <3>1. own.cache.batch \o es \in Seq(Commands)
      BY <1>3, <2>2, ConcatProperties
    <3> QED BY <2>4, <3>1, EmptySeq DEF Flushed
  <2>7. Sendable(msgs)
    BY <1>3, <2>4, <2>6, SendableEntries
  <2> QED BY <1>1, <2>3, <2>5, <2>7, LeaderStep
<1>5. ASSUME FlushLeader PROVE StorageInv'
  <2>1. PICK new, msgs : new = FlushBatch(own) /\ msgs = AcceptDecide(own.cache.batch, own.cache.decided)
    OBVIOUS
  <2>2. Grown(own, new)
    BY <1>2, <2>1, FlushGrows
  <2>3. Stored("leader", new, << >>) /\ Send(msgs) /\ ByLeader
    BY <1>1, <1>5, <2>1 DEF FlushLeader
  <2>4. Sendable(msgs)
    BY <1>3, <2>1, SendableEntries
  <2> QED BY <1>1, <2>2, <2>3, <2>4, LeaderStep
<1>6. ASSUME LeaderStopSign PROVE StorageInv'
  <2>1. PICK new, msgs : /\ new = AppendStopSign(own)
                         /\ msgs = AcceptDecide(own.cache.batch, own.cache.decided) \o <<AcceptStopSign>>
    OBVIOUS
  <2>2. ~own.cache.stopsign /\ Stored("leader", new, << >>) /\ Send(msgs) /\ ByLeader
    BY <1>1, <1>6, <2>1 DEF LeaderStopSign
  <2>3. Grown(own, new)
    BY <1>2, <2>1, <2>2, StopGrows
  <2>4. Sendable(msgs)
    BY <1>3, <2>1, SendableEntries
  <2> QED BY <1>1, <2>2, <2>3, <2>4, LeaderStep
<1>7. ASSUME NEW idx \in Nat, LeaderDecide(idx) PROVE StorageInv'
  <2>1. PICK new, msgs : new = SetDecided(own, idx) /\ msgs = <<Decide(idx)>>
    OBVIOUS
  <2>2. /\ own.cache.decided < idx /\ idx <= own.cache.accepted
        /\ Stored("leader", new, << >>) /\ Send(msgs) /\ ByLeader
    BY <1>1, <1>7, <2>1 DEF LeaderDecide
  <2>3. Grown(own, new)
    BY <1>2, <1>3, <2>1, <2>2, DecideGrows
  <2>4. Sendable(msgs)
    BY <2>1, Messages, SendableOne
  <2> QED BY <1>1, <2>2, <2>3, <2>4, LeaderStep
<1> QED BY <1>4, <1>5, <1>6, <1>7

\* handle_promise
LEMMA AnswerStep ==
    ASSUME StorageInv, SendAcceptSync
    PROVE  StorageInv'
<1>1. PICK own, st, pr : own = store["leader"] /\ st = store["follower"] /\ pr = promise
    OBVIOUS
<1>2. Holds(useSnapshots, own, st, phase, pr, channel, acked) /\ DOMAIN store = Server
    BY <1>1 DEF StorageInv
<1>3. PICK valid : valid = IF pr.round = Round THEN pr.accepted ELSE pr.decided
    OBVIOUS
<1>4. PICK sync, log : sync = CreateLogSync(own, useSnapshots, valid, pr.decided) /\ log = logs["leader"]
    OBVIOUS
<1>5. PICK m : m = [type |-> "AcceptSync", decided |-> own.cache.decided, log |-> log, sync |-> sync]
    OBVIOUS
<1>6. /\ pr # NoPromise /\ promise' = NoPromise /\ channel' = <<m>> /\ useSnapshots' = useSnapshots
      /\ store' = store /\ phase' = phase /\ acked' = acked
    BY <1>1, <1>3, <1>4, <1>5 DEF SendAcceptSync
<1>7. Holds(useSnapshots, own, st, phase, NoPromise, <<m>>, acked)
    BY <1>2, <1>3, <1>4, <1>5, <1>6, LeaderAnswers
<1> QED BY <1>1, <1>2, <1>6, <1>7 DEF StorageInv

\* An operation of the follower under an earlier leader
LEMMA OldStep ==
    ASSUME StorageInv, NEW st, Grown(store["follower"], st), NEW es, Stored("follower", st, es), phase = "Old",
           UNCHANGED <<useSnapshots, phase, promise, channel, acked, trimmed, sessions, byDelta>>
    PROVE  StorageInv'
<1>1. Holds(useSnapshots, store["leader"], store["follower"], phase, promise, channel, acked)
    BY DEF StorageInv
<1>2. DOMAIN store' = Server /\ store'["follower"] = st /\ store'["leader"] = store["leader"]
    BY StoredAt DEF StorageInv, Server, Stored
<1>3. Holds(useSnapshots, store["leader"], st, phase, promise, channel, acked)
    BY <1>1, FollowerGrows
<1> QED BY <1>2, <1>3 DEF StorageInv

\* A restart of the follower
LEMMA RestartStep ==
    ASSUME StorageInv, NEW st, Grown(store["follower"], st), store' = [store EXCEPT !["follower"] = st],
           phase' = "Recover", channel' = << >>, promise' = NoPromise, UNCHANGED <<useSnapshots, acked>>
    PROVE  StorageInv'
<1>1. Holds(useSnapshots, store["leader"], store["follower"], phase, promise, channel, acked)
    BY DEF StorageInv
<1>2. DOMAIN store' = Server /\ store'["follower"] = st /\ store'["leader"] = store["leader"]
    BY StoredAt DEF StorageInv, Server
<1>3. Holds(useSnapshots, store["leader"], st, "Recover", NoPromise, << >>, acked)
    BY <1>1, FollowerGrows
<1> QED BY <1>2, <1>3 DEF StorageInv

\* An operation of the follower in its session
LEMMA AcceptStep ==
    ASSUME StorageInv, NEW st, Grown(store["follower"], st), NEW es, Accepting(st, es),
           channel' = channel \/ (channel # << >> /\ channel' = Tail(channel)), UNCHANGED <<useSnapshots, promise>>
    PROVE  StorageInv'
<1>1. phase = "Accept" /\ phase' = "Accept" /\ acked' = st.cache.accepted
    BY DEF Accepting, Acknowledge
<1>2. Holds(useSnapshots, store["leader"], store["follower"], "Accept", promise, channel, acked)
    BY <1>1 DEF StorageInv
<1>3. DOMAIN store' = Server /\ store'["follower"] = st /\ store'["leader"] = store["leader"]
    BY StoredAt DEF StorageInv, Server, Stored, Accepting
<1>4. PICK ch2 : ch2 = channel'
    OBVIOUS
<1>5. Holds(useSnapshots, store["leader"], st, "Accept", promise, ch2, st.cache.accepted)
    BY <1>2, <1>4, FollowerAccepts
<1> QED BY <1>1, <1>3, <1>4, <1>5 DEF StorageInv

\* The earlier leader's messages
LEMMA OldSteps ==
    ASSUME StorageInv
    PROVE  /\ \A cmd \in Commands : OldAppend(cmd) => StorageInv'
           /\ OldStopSign => StorageInv'
           /\ \A idx \in Nat : OldDecide(idx) => StorageInv'
<1>1. PICK own : own = store["follower"]
    OBVIOUS
<1>2. Sound(own)
    BY <1>1 DEF StorageInv, Holds
<1>3. ASSUME NEW cmd \in Commands, OldAppend(cmd) PROVE StorageInv'
  <2>1. PICK es, new : es = <<cmd>> /\ new = AppendWithBatching(own, es)
    OBVIOUS
  <2>2. es \in Seq(Commands)
    BY <2>1
  <2>3. Grown(own, new)
    BY <1>2, <2>1, <2>2, AppendGrows
  <2>4. /\ Stored("follower", new, es) /\ phase = "Old"
        /\ UNCHANGED <<useSnapshots, phase, promise, channel, acked, trimmed, sessions, byDelta>>
    BY <1>1, <1>3, <2>1 DEF OldAppend
  <2> QED BY <1>1, <2>3, <2>4, OldStep
<1>4. ASSUME OldStopSign PROVE StorageInv'
  <2>1. PICK flushed, new : flushed = FlushBatch(own) /\ new = SetStopSign(flushed)
    OBVIOUS
  <2>2. Grown(own, flushed) /\ Sound(flushed)
    BY <1>2, <2>1, FlushGrows DEF Grown
  <2>3. Grown(own, new)
    BY <1>2, <2>1, <2>2, StopGrows, GrownTwice
  <2>4. /\ Stored("follower", new, << >>) /\ phase = "Old"
        /\ UNCHANGED <<useSnapshots, phase, promise, channel, acked, trimmed, sessions, byDelta>>
    BY <1>1, <1>4, <2>1 DEF OldStopSign
  <2> QED BY <1>1, <2>3, <2>4, OldStep
<1>5. ASSUME NEW idx \in Nat, OldDecide(idx) PROVE StorageInv'
  <2>1. PICK new : new = UpdateDecided(own, idx)
    OBVIOUS
  <2>2. Grown(own, new)
    BY <1>2, <2>1, UpdateGrows
  <2>3. /\ Stored("follower", new, << >>) /\ phase = "Old"
        /\ UNCHANGED <<useSnapshots, phase, promise, channel, acked, trimmed, sessions, byDelta>>
    BY <1>1, <1>5, <2>1 DEF OldDecide
  <2> QED BY <1>1, <2>2, <2>3, OldStep
<1> QED BY <1>3, <1>4, <1>5

\* The head of the channel is a message of its type.
LEMMA HeadOK ==
    ASSUME StorageInv, channel # << >>
    PROVE  MsgOK(Head(channel))
<1>1. LinkOK(phase, channel, store["follower"].cache)
    BY DEF StorageInv, Holds
<1> QED BY <1>1, LinkReceives

\* Crashes, also between the writes of handle_acceptdecide
LEMMA CrashSteps ==
    ASSUME StorageInv
    PROVE  Crash \/ CrashInAcceptDecide => StorageInv'
<1>1. PICK own : own = store["follower"]
    OBVIOUS
<1>2. Sound(own)
    BY <1>1 DEF StorageInv, Holds
<1>3. ASSUME Crash PROVE StorageInv'
  <2>1. PICK new : new = Opened(own.disk)
    OBVIOUS
  <2>2. Grown(own, new)
    BY <1>2, <2>1, OpenGrows
  <2>3. /\ store' = [store EXCEPT !["follower"] = new]
        /\ phase' = "Recover" /\ channel' = << >> /\ promise' = NoPromise /\ UNCHANGED <<useSnapshots, acked>>
    BY <1>1, <1>3, <2>1 DEF Crash
  <2> QED BY <1>1, <2>2, <2>3, RestartStep
<1>4. ASSUME CrashInAcceptDecide PROVE StorageInv'
  <2>1. PICK msg, appended : msg = Head(channel) /\ appended = AppendWithBatching(own, msg.entries)
    OBVIOUS
  <2>2. /\ channel # << >> /\ msg.type = "AcceptDecide"
        /\ \E st \in {appended, FlushBatch(appended)} : store' = [store EXCEPT !["follower"] = Opened(st.disk)]
        /\ phase' = "Recover" /\ channel' = << >> /\ promise' = NoPromise /\ UNCHANGED <<useSnapshots, acked>>
    BY <1>1, <1>4, <2>1 DEF CrashInAcceptDecide
  <2>3. msg.entries \in Seq(Commands)
    BY <2>1, <2>2, HeadOK DEF MsgOK
  <2>4. Grown(own, appended) /\ Sound(appended)
    BY <1>2, <2>1, <2>3, AppendGrows DEF Grown
  <2>5. PICK st : st \in {appended, FlushBatch(appended)} /\ store' = [store EXCEPT !["follower"] = Opened(st.disk)]
    BY <2>2
  <2>6. Grown(own, st) /\ Sound(st)
    <3>1. Grown(appended, FlushBatch(appended))
      BY <2>4, FlushGrows
    <3>2. Grown(own, FlushBatch(appended)) /\ Sound(FlushBatch(appended))
      BY <1>2, <2>4, <3>1, GrownTwice DEF Grown
    <3> QED BY <2>4, <2>5, <3>2
  <2>7. PICK new : new = Opened(st.disk)
    OBVIOUS
  <2>8. Grown(own, new)
    BY <1>2, <2>6, <2>7, OpenGrows, GrownTwice
  <2>9. store' = [store EXCEPT !["follower"] = new]
    BY <2>5, <2>7
  <2> QED BY <1>1, <2>2, <2>8, <2>9, RestartStep
<1> QED BY <1>3, <1>4

\* handle_prepare, where no follower with the leader's stop sign synchronises again
LEMMA PrepareStep ==
    ASSUME StorageInv, "again" \notin StopSignCases, ReceivePrepare
    PROVE  StorageInv'
<1>1. PICK st, own : st = store["follower"] /\ own = FlushBatch(st)
    OBVIOUS
<1>2. Holds(useSnapshots, store["leader"], st, phase, promise, channel, acked) /\ Sound(st)
    BY <1>1 DEF StorageInv, Holds
<1>3. Grown(st, own)
    BY <1>1, <1>2, FlushGrows
<1>4. PICK pr : pr = [round |-> own.cache.round, decided |-> own.cache.decided, accepted |-> own.cache.accepted]
    OBVIOUS
<1>5. /\ ~StopSignInPrefix(own.cache) /\ Stored("follower", own, << >>)
      /\ phase' = "Prepare" /\ channel' = << >> /\ promise' = pr /\ useSnapshots' = useSnapshots /\ acked' = acked
    BY <1>1, <1>4 DEF ReceivePrepare
<1>6. DOMAIN store' = Server /\ store'["follower"] = own /\ store'["leader"] = store["leader"]
    BY <1>5, StoredAt DEF StorageInv, Server, Stored
<1>7. Holds(useSnapshots, store["leader"], own, "Prepare", pr, << >>, acked)
    BY <1>2, <1>3, <1>4, <1>5, FollowerGrows
<1> QED BY <1>5, <1>6, <1>7 DEF StorageInv

\* handle_acceptsync
LEMMA SyncStep ==
    ASSUME StorageInv, ReceiveAcceptSync
    PROVE  StorageInv'
<1>1. PICK st, msg, new : /\ st = store["follower"] /\ msg = Head(channel)
                          /\ new = SyncLog(st, Round, msg.decided, msg.sync)
    OBVIOUS
<1>2. /\ channel # << >> /\ msg.type = "AcceptSync" /\ channel' = Tail(channel)
      /\ useSnapshots' = useSnapshots /\ promise' = promise /\ phase = "Prepare" /\ phase' = "Accept"
    BY <1>1 DEF ReceiveAcceptSync, Receives
<1>3. store' = [store EXCEPT !["follower"] = new] /\ acked' = new.cache.accepted
    BY <1>1 DEF ReceiveAcceptSync, Acknowledge
<1>4. DOMAIN store' = Server /\ store'["follower"] = new /\ store'["leader"] = store["leader"]
    BY <1>3, StoredAt DEF StorageInv, Server
<1>5. Holds(useSnapshots, store["leader"], st, "Prepare", promise, channel, acked)
    BY <1>1, <1>2 DEF StorageInv
<1>6. Holds(useSnapshots, store["leader"], new, "Accept", promise, Tail(channel), new.cache.accepted)
    BY <1>1, <1>2, <1>5, FollowerSynchronises
<1> QED BY <1>2, <1>3, <1>4, <1>6 DEF StorageInv

\* handle_acceptdecide, handle_decide, handle_accept_stopsign, flush_batch_follower
LEMMA AcceptSteps ==
    ASSUME StorageInv
    PROVE  ReceiveAcceptDecide \/ ReceiveDecide \/ ReceiveAcceptStopSign \/ FlushFollower => StorageInv'
<1>1. PICK own, msg : own = store["follower"] /\ msg = Head(channel)
    OBVIOUS
<1>2. Sound(own)
    BY <1>1 DEF StorageInv, Holds
<1>3. ASSUME ReceiveAcceptDecide PROVE StorageInv'
  <2>1. PICK es, appended, new : /\ es = msg.entries /\ appended = AppendWithBatching(own, es)
                                 /\ new = UpdateDecided(appended, msg.decided)
    OBVIOUS
  <2>2. /\ channel # << >> /\ msg.type = "AcceptDecide" /\ channel' = Tail(channel)
        /\ UNCHANGED <<useSnapshots, promise>> /\ Accepting(new, es)
    BY <1>1, <1>3, <2>1 DEF ReceiveAcceptDecide, Receives
  <2>3. es \in Seq(Commands) /\ msg.decided \in Nat
    BY <1>1, <2>1, <2>2, HeadOK DEF MsgOK
  <2>4. Grown(own, appended) /\ Sound(appended)
    BY <1>2, <2>1, <2>3, AppendGrows DEF Grown
  <2>5. Grown(own, new)
    BY <1>2, <2>1, <2>3, <2>4, UpdateGrows, GrownTwice
  <2> QED BY <1>1, <2>2, <2>5, AcceptStep
<1>4. ASSUME ReceiveDecide PROVE StorageInv'
  <2>1. PICK new : new = UpdateDecided(own, msg.decided)
    OBVIOUS
  <2>2. /\ channel # << >> /\ msg.type = "Decide" /\ channel' = Tail(channel)
        /\ UNCHANGED <<useSnapshots, promise>> /\ Accepting(new, << >>)
    BY <1>1, <1>4, <2>1 DEF ReceiveDecide, Receives
  <2>3. msg.decided \in Nat
    BY <1>1, <2>2, HeadOK DEF MsgOK
  <2>4. Grown(own, new)
    BY <1>2, <2>1, <2>3, UpdateGrows
  <2> QED BY <1>1, <2>2, <2>4, AcceptStep
<1>5. ASSUME ReceiveAcceptStopSign PROVE StorageInv'
  <2>1. PICK flushed, new : flushed = FlushBatch(own) /\ new = SetStopSign(flushed)
    OBVIOUS
  <2>2. /\ channel # << >> /\ channel' = Tail(channel)
        /\ UNCHANGED <<useSnapshots, promise>> /\ Accepting(new, << >>)
    BY <1>1, <1>5, <2>1 DEF ReceiveAcceptStopSign, Receives
  <2>3. Grown(own, flushed) /\ Sound(flushed)
    BY <1>2, <2>1, FlushGrows DEF Grown
  <2>4. Grown(own, new)
    BY <1>2, <2>1, <2>3, StopGrows, GrownTwice
  <2> QED BY <1>1, <2>2, <2>4, AcceptStep
<1>6. ASSUME FlushFollower PROVE StorageInv'
  <2>1. PICK new : new = FlushBatch(own)
    OBVIOUS
  <2>2. channel' = channel /\ UNCHANGED <<useSnapshots, promise>> /\ Accepting(new, << >>)
    BY <1>1, <1>6, <2>1 DEF FlushFollower
  <2>3. Grown(own, new)
    BY <1>2, <2>1, FlushGrows
  <2> QED BY <1>1, <2>2, <2>3, AcceptStep
<1> QED BY <1>3, <1>4, <1>5, <1>6

\* Compaction at the leader
LEMMA LeaderCompactionStep ==
    ASSUME StorageInv, NEW new, Shrunk(store["leader"], new), Compacting("leader", new),
           useSnapshots => new.disk.snapshot # NoSnapshot, ~useSnapshots => new.cache.compacted <= acked
    PROVE  StorageInv'
<1>1. Holds(useSnapshots, store["leader"], store["follower"], phase, promise, channel, acked)
    BY DEF StorageInv
<1>2. DOMAIN store' = Server /\ store'["leader"] = new /\ store'["follower"] = store["follower"]
    BY StoredAt DEF StorageInv, Server, Stored, Compacting
<1>3. Holds(useSnapshots, new, store["follower"], phase, promise, channel, acked)
    BY <1>1, LeaderShrinks
<1> QED BY <1>2, <1>3 DEF StorageInv, Compacting

\* Compaction at the follower
LEMMA FollowerCompactionStep ==
    ASSUME StorageInv, NEW new, Shrunk(store["follower"], new), Compacting("follower", new)
    PROVE  StorageInv'
<1>1. Holds(useSnapshots, store["leader"], store["follower"], phase, promise, channel, acked)
    BY DEF StorageInv
<1>2. DOMAIN store' = Server /\ store'["follower"] = new /\ store'["leader"] = store["leader"]
    BY StoredAt DEF StorageInv, Server, Stored, Compacting
<1>3. Holds(useSnapshots, store["leader"], new, phase, promise, channel, acked)
    BY <1>1, FollowerShrinks
<1> QED BY <1>2, <1>3 DEF StorageInv, Compacting

\* Compaction that does nothing
LEMMA NoCompactionStep ==
    ASSUME StorageInv, NEW s \in Server, Compacting(s, store[s])
    PROVE  StorageInv'
<1>1. DOMAIN store' = Server /\ store'[s] = store[s] /\ \A q \in Server \ {s} : store'[q] = store[q]
    BY StoredAt DEF StorageInv, Stored, Compacting
<1>2. store'["leader"] = store["leader"] /\ store'["follower"] = store["follower"]
    BY <1>1 DEF Server
<1> QED BY <1>1, <1>2 DEF StorageInv, Compacting

\* trim, snapshot, handle_compaction
LEMMA CompactionSteps ==
    ASSUME StorageInv, NEW idx \in Nat
    PROVE  Trim(idx) \/ ForwardedTrim(idx) \/ (\E s \in Server : Snapshot(s, idx)) => StorageInv'
<1>1. PICK own, st : own = store["leader"] /\ st = store["follower"]
    OBVIOUS
<1>2. Sound(own) /\ Sound(st) /\ acked \in Nat
    BY <1>1 DEF StorageInv, Holds, AckedOK
<1>3. ASSUME Trim(idx) PROVE StorageInv'
  <2>1. PICK new : new = TryTrim(own, idx)
    OBVIOUS
  <2>2. ~useSnapshots /\ idx <= acked /\ Compacting("leader", new)
    BY <1>1, <1>3, <2>1 DEF Trim
  <2>3. CASE new = own
    BY <1>1, <2>2, <2>3, NoCompactionStep DEF Server
  <2>4. CASE Shrunk(own, new) /\ new.cache.compacted <= idx
    <3>1. new.cache.compacted \in Nat
      BY <2>4, SoundNumbers DEF Shrunk
    <3>2. new.cache.compacted <= acked
      BY <1>2, <2>2, <2>4, <3>1
    <3> QED BY <1>1, <2>2, <2>4, <3>2, LeaderCompactionStep
  <2> QED BY <1>2, <2>1, <2>3, <2>4, TryShrinks
<1>4. ASSUME ForwardedTrim(idx) PROVE StorageInv'
  <2>1. PICK new : new = TryTrim(st, idx)
    OBVIOUS
  <2>2. Compacting("follower", new)
    BY <1>1, <1>4, <2>1 DEF ForwardedTrim
  <2>3. CASE new = st
    BY <1>1, <2>2, <2>3, NoCompactionStep DEF Server
  <2>4. CASE Shrunk(st, new)
    BY <1>1, <2>2, <2>4, FollowerCompactionStep
  <2> QED BY <1>2, <2>1, <2>3, <2>4, TryShrinks
<1>5. ASSUME Snapshot("leader", idx) PROVE StorageInv'
  <2>1. PICK new : new = TrySnapshot(own, idx)
    OBVIOUS
  <2>2. useSnapshots /\ Compacting("leader", new)
    BY <1>1, <1>5, <2>1 DEF Snapshot
  <2>3. CASE new = own
    BY <1>1, <2>2, <2>3, NoCompactionStep DEF Server
  <2>4. CASE Shrunk(own, new) /\ new.disk.snapshot # NoSnapshot
    BY <1>1, <2>2, <2>4, LeaderCompactionStep
  <2> QED BY <1>2, <2>1, <2>3, <2>4, TryShrinks
<1>6. ASSUME Snapshot("follower", idx) PROVE StorageInv'
  <2>1. PICK new : new = TrySnapshot(st, idx)
    OBVIOUS
  <2>2. Compacting("follower", new)
    BY <1>1, <1>6, <2>1 DEF Snapshot
  <2>3. CASE new = st
    BY <1>1, <2>2, <2>3, NoCompactionStep DEF Server
  <2>4. CASE Shrunk(st, new)
    BY <1>1, <2>2, <2>4, FollowerCompactionStep
  <2> QED BY <1>2, <2>1, <2>3, <2>4, TryShrinks
<1> QED BY <1>3, <1>4, <1>5, <1>6 DEF Server

\* New storages
LEMMA InitHolds == Init => StorageInv
<1> SUFFICES ASSUME Init PROVE StorageInv
    OBVIOUS
<1>1. PICK none : none = << >>
    OBVIOUS
<1>2. none \in Seq(Commands) /\ Len(none) = 0 /\ 0 \in Nat
    BY <1>1, EmptySeq
<1>3. NewDisk = DiskOf(none, 0, 0, 0, FALSE, NoSnapshot)
  <2>1. Memory!New = MemoryAt(none, 0)
    BY <1>1 DEF Memory!New, MemoryAt
  <2>2. Rocks!New = RocksAt(none, 0)
    <3>1. 0..(0 + Len(none) - 1) = {} /\ 0 + Len(none) = 0
      BY <1>2
    <3>2. [i \in 0..(0 + Len(none) - 1) |-> none[i - 0 + 1]] = << >>
      BY <3>1
    <3> QED BY <3>1, <3>2 DEF Rocks!New, RocksAt
  <2> QED BY <2>1, <2>2, Zenon DEF NewDisk, DiskOf, Disk
<1>4. PICK new, a, e : new = Opened(NewDisk) /\ e = FALSE /\ a = Len(none) + 0 + Ss(e)
    OBVIOUS
<1>5. new = StorageOf(none, NoSnapshot, none, 0, 0, a, 0, e)
  <2>1. NewDisk = DiskOf(none, 0, 0, 0, e, NoSnapshot)
    BY <1>3, <1>4
  <2>2. Opened(DiskOf(none, 0, 0, 0, e, NoSnapshot))
        = StorageOf(none, NoSnapshot, << >>, 0, 0, Len(none) + 0 + Ss(e), 0, e)
    <3>1. PICK z, snap : z = 0 /\ snap = NoSnapshot
      OBVIOUS
    <3>2. z \in Nat /\ none \in Seq(Commands)
      BY <1>2, <3>1
    <3>3. Opened(DiskOf(none, z, z, z, e, snap)) = StorageOf(none, snap, << >>, z, z, Len(none) + z + Ss(e), z, e)
      BY <3>2, OpenedFrom
    <3> QED BY <3>1, <3>3, Zenon
  <2> QED BY <1>1, <1>4, <2>1, <2>2, Zenon
<1>6. Counts(none, none, 0, 0, a, 0, e)
  <2>1. Ss(e) = 0 /\ e \in BOOLEAN
    BY <1>4 DEF Ss
  <2>2. a = 0
    BY <1>2, <1>4, <2>1
  <2> QED BY <1>2, <2>1, <2>2 DEF Counts
<1>7. /\ Sound(new) /\ new.cache.compacted = 0 /\ new.cache.decided = 0 /\ new.cache.round = 0
      /\ new.disk.snapshot = NoSnapshot
    BY <1>5, <1>6, SoundStorage, StorageFields
<1>8. /\ DOMAIN store = Server /\ store["leader"] = new /\ store["follower"] = new /\ useSnapshots \in BOOLEAN
      /\ phase = "Old" /\ promise = NoPromise /\ channel = << >> /\ acked = 0
    BY <1>4, ReplicationAssumption DEF Init, Server
<1>9. LeaderOK(useSnapshots, new, 0) /\ AckedOK(new.cache, 0) /\ PhaseOK("Old", new.cache)
    BY <1>7, <1>8 DEF LeaderOK, AckedOK, PhaseOK
<1>10. PromiseOK("Old", NoPromise, << >>, new.cache) /\ LinkOK("Old", << >>, new.cache)
    BY LinkReset DEF PromiseOK
<1>11. Holds(useSnapshots, new, new, "Old", NoPromise, << >>, 0)
    BY <1>7, <1>9, <1>10, Zenon DEF Holds
<1> QED BY <1>8, <1>11 DEF StorageInv

\* Every step
LEMMA NextHolds ==
    ASSUME "again" \notin StopSignCases, StorageInv, [Next]_vars
    PROVE  StorageInv'
<1>1. CASE \E cmd \in Commands : LeaderAppend(cmd) \/ OldAppend(cmd)
    BY <1>1, LeaderSteps, OldSteps
<1>2. ASSUME NEW idx \in 1..(MaxLog + 1),
             \/ LeaderDecide(idx) \/ OldDecide(idx) \/ Trim(idx) \/ ForwardedTrim(idx)
             \/ \E s \in Server : Snapshot(s, idx)
      PROVE  StorageInv'
  <2>1. idx \in Nat
    OBVIOUS
  <2> QED BY <1>2, <2>1, LeaderSteps, OldSteps, CompactionSteps
<1>3. CASE FlushLeader \/ LeaderStopSign
    BY <1>3, LeaderSteps
<1>4. CASE SendAcceptSync
    BY <1>4, AnswerStep
<1>5. CASE OldStopSign
    BY <1>5, OldSteps
<1>6. CASE ReceivePrepare
    BY <1>6, PrepareStep
<1>7. CASE Crash \/ CrashInAcceptDecide
    BY <1>7, CrashSteps
<1>8. CASE FlushFollower \/ ReceiveAcceptDecide \/ ReceiveDecide \/ ReceiveAcceptStopSign
    BY <1>8, AcceptSteps
<1>9. CASE ReceiveAcceptSync
    BY <1>9, SyncStep
<1>10. CASE UNCHANGED vars
    BY <1>10 DEF vars, StorageInv
<1> QED BY <1>1, <1>2, <1>3, <1>4, <1>5, <1>6, <1>7, <1>8, <1>9, <1>10 DEF Next

--------------------------------------------------------------------------------
(* The theorems *)

\* Whatever is batched, synchronised, compacted or lost in a crash, the storages stand for their
\* logs, and what lies between leader and follower fits them.
THEOREM StorageIsSound ==
    ASSUME "again" \notin StopSignCases
    PROVE  Spec => []StorageInv
<1>1. Init => StorageInv
    BY InitHolds
<1>2. StorageInv /\ [Next]_vars => StorageInv'
    BY NextHolds
<1> QED BY <1>1, <1>2, PTL DEF Spec

\* What the invariant says of one storage
LEMMA StorageSound ==
    ASSUME StorageInv, NEW s \in Server
    PROVE  Sound(store[s])
BY DEF StorageInv, Holds, Server

\* The state cache is never out of step with what a restart would load (load_cache).
THEOREM CacheHolds ==
    ASSUME "again" \notin StopSignCases
    PROVE  Spec => []CacheIsStore
<1>1. StorageInv => CacheIsStore
  <2> SUFFICES ASSUME StorageInv, NEW s \in Server
               PROVE  [store[s].cache EXCEPT !.batch = << >>] = LoadCache(store[s].disk)
    BY DEF CacheIsStore
  <2>1. PICK st : st = store[s]
    OBVIOUS
  <2>2. Sound(st)
    BY <2>1, StorageSound
  <2>3. PICK log, snap, b, r, d, a, k, e :
            st = StorageOf(log, snap, b, r, d, a, k, e) /\ Counts(log, b, r, d, a, k, e)
    BY <2>2, SoundParts
  <2>4. st.disk = DiskOf(log, k, r, d, e, snap) /\ st.cache = Cache(b, r, d, a, k, e)
    BY <2>3, StorageFields
  <2>5. log \in Seq(Commands) /\ k \in Nat /\ a = Len(log) + k + Ss(e)
    <3>1. /\ log \in Seq(Commands) /\ k \in Nat /\ Len(log) \in Nat /\ Ss(e) \in Nat
          /\ a = k + Len(log) + Ss(e)
      BY <2>3, LenProperties DEF Counts, Ss
    <3> QED BY <3>1
  <2>6. LoadCache(st.disk) = Cache(<< >>, r, d, a, k, e)
    BY <2>4, <2>5, DiskReopened
  <2>7. [st.cache EXCEPT !.batch = << >>] = Cache(<< >>, r, d, a, k, e)
    BY <2>4, CacheSet
  <2> QED BY <2>1, <2>6, <2>7
<1> QED BY <1>1, StorageIsSound, PTL

\* The two back ends stand for the same log, and PersistentStorage finds its next key again.
THEOREM BackEndsHold ==
    ASSUME "again" \notin StopSignCases
    PROVE  Spec => []BackEndsAgree
<1>1. StorageInv => BackEndsAgree
  <2> SUFFICES ASSUME StorageInv, NEW s \in Server, NEW memory, memory = store[s].disk.memory,
                      NEW rocks, rocks = store[s].disk.rocks
               PROVE  /\ SameLog(memory, rocks) /\ Rocks!Open(rocks) = rocks
                      /\ Rocks!GetSuffix(rocks, rocks.trim) = memory.log
    BY DEF BackEndsAgree
  <2>1. PICK st : st = store[s]
    OBVIOUS
  <2>2. Sound(st)
    BY <2>1, StorageSound
  <2>3. PICK log, snap, b, r, d, a, k, e :
            st = StorageOf(log, snap, b, r, d, a, k, e) /\ Counts(log, b, r, d, a, k, e)
    BY <2>2, SoundParts
  <2>4. memory = MemoryAt(log, k) /\ rocks = RocksAt(log, k)
    BY <2>1, <2>3, StorageFields
  <2>5. log \in Seq(Commands) /\ k \in Nat /\ Len(log) \in Nat
    BY <2>3, LenProperties DEF Counts
  <2>6. memory.log = log /\ memory.trimmed = k
    BY <2>4 DEF MemoryAt
  <2>7. Rocks!Open(rocks) = rocks
    BY <2>4, <2>5, OpenFindsNextKey
  <2>8. Rocks!GetSuffix(rocks, rocks.trim) = log
    <3>1. PICK to : to = k + Len(log)
      OBVIOUS
    <3>2. to \in Nat /\ k <= to
      BY <2>5, <3>1
    <3>3. rocks.trim = k /\ rocks.next = to
      BY <2>4, <3>1 DEF RocksAt
    <3>4. Rocks!GetEntries(rocks, k, to) = Memory!GetEntries(memory, k, to)
      BY <2>4, <2>5, <3>2, ReadsAgree
    <3>5. Memory!GetEntries(memory, k, to) = SubSeq(log, k - k + 1, to - k)
      BY <2>4, <2>5, <3>1, <3>2 DEF Memory!GetEntries, MemoryAt
    <3>6. SubSeq(log, k - k + 1, to - k) = log
      <4>1. k - k + 1 = 1 /\ to - k = Len(log)
        BY <2>5, <3>1
      <4>2. SubSeq(log, 1, Len(log)) = log
        BY <2>5
      <4> QED BY <4>1, <4>2
    <3> QED BY <3>3, <3>4, <3>5, <3>6 DEF Rocks!GetSuffix
  <2> QED BY <2>4, <2>6, <2>7, <2>8 DEF SameLog
<1> QED BY <1>1, StorageIsSound, PTL

--------------------------------------------------------------------------------
(* Which entries the storages hold *)

\* The entry that Full puts behind a log
StopEntry == [op |-> "StopSign", key |-> 0, value |-> 0]

\* a is how b starts.
Starts(a, b) == Len(a) <= Len(b) /\ \A i \in 1..Len(a) : a[i] = b[i]

\* These are the entries of log behind k.
Behind(log, k, held) ==
    /\ log \in Seq(Commands) /\ Len(log) = k + Len(held)
    /\ \A i \in 1..Len(held) : held[i] = log[k + i]

\* The storage holds the entries of log behind the compacted index.
Tied(log, st) == Behind(log, st.cache.compacted, st.disk.memory.log)

\* Nothing is batched behind a stop sign.
Quiet(st) == st.cache.stopsign => st.cache.batch = << >>

\* Up to d, both logs have the same entries, or end with a stop sign.
Agree(own, lead, led, d) ==
    /\ d <= Len(lead) + Ss(led)
    /\ \A i \in 1..d : (i <= Len(own) <=> i <= Len(lead)) /\ (i <= Len(own) => own[i] = lead[i])

\* What a follower of this round has, batched entries included, is how the leader's log starts.
Follows(own, stopped, lead, led) == Starts(own, lead) /\ (stopped => led /\ Len(own) = Len(lead))

\* A message takes a follower from so many entries of the leader's log to so many.
Carries(m, from, to, lead, led) ==
    /\ m.type = "AcceptDecide" =>
          /\ to = from + Len(m.entries) /\ to <= Len(lead)
          /\ \A i \in 1..Len(m.entries) : m.entries[i] = lead[from + i]
    /\ m.type = "AcceptStopSign" => led /\ from = Len(lead) /\ to = from + 1
    /\ m.type = "Decide" => to = from
    /\ m.type = "AcceptSync" =>
          /\ m.log \in Seq(Commands) /\ Follows(m.log, m.sync.stopsign, lead, led)
          /\ to = Len(m.log) + Ss(m.sync.stopsign)

\* The messages under way bring a follower in its session all that the leader has flushed.
Chain(ph, ch, count, lead, led) ==
    ph = "Accept" \/ ch # << >> =>
        \E p \in [0..Len(ch) -> Nat] :
            /\ ph = "Accept" => p[0] = count
            /\ p[Len(ch)] = Len(lead) + Ss(led)
            /\ \A i \in 1..Len(ch) : Carries(ch[i], p[i - 1], p[i], lead, led)

\* An AcceptSync has what its sender's log has behind the index from which the receiver's differs.
SyncHas(m, own) ==
    LET idx == m.sync.syncIdx IN
    /\ Behind(m.log, idx, m.sync.suffix)
    /\ m.sync.decidedSnapshot.type \notin {"Complete", "Delta"} => \A i \in 1..idx : own[i] = m.log[i]

\* The follower's storage holds a log whose decided entries are the leader's, and all of whose
\* entries are, batched ones included, if it has synchronised with the leader.
Has(lead, led, log, st) ==
    /\ Tied(log, st) /\ Quiet(st) /\ Agree(log, lead, led, st.cache.decided)
    /\ st.cache.round = Round => Follows(log \o st.cache.batch, st.cache.stopsign, lead, led)

\* What a follower has, and its stop sign
Count(log, st) == Len(log \o st.cache.batch) + Ss(st.cache.stopsign)

\* What is under way brings the follower all the rest.
Reaches(lead, led, log, st, ph, ch) ==
    /\ ph = "Prepare" => st.cache.batch = << >>
    /\ ph = "Old" => st.cache.round # Round
    /\ Chain(ph, ch, Count(log, st), lead, led)
    /\ ph = "Prepare" /\ ch # << >> /\ Head(ch).type = "AcceptSync" => SyncHas(Head(ch), log)

\* All of it
Contents(lead, own, log, st, ph, ch) ==
    /\ Tied(lead, own) /\ Quiet(own)
    /\ Has(lead, own.cache.stopsign, log, st)
    /\ Reaches(lead, own.cache.stopsign, log, st, ph, ch)

\* The inductive invariant of the entries
ContentsInv ==
    /\ DOMAIN logs = Server
    /\ Contents(logs["leader"], store["leader"], logs["follower"], store["follower"], phase, channel)

--------------------------------------------------------------------------------
(* The entries of a storage *)

\* The storage new has what st has and these entries behind it, in the log or still batched.
Extends(st, new, es) ==
    LET b == st.cache.batch IN
    /\ new.cache.compacted = st.cache.compacted
    /\ \/ new.disk.memory.log = st.disk.memory.log /\ new.cache.batch = b \o es
       \/ new.disk.memory.log = st.disk.memory.log \o (b \o es) /\ new.cache.batch = << >>

\* append_entries
LEMMA AppendExtends ==
    ASSUME NEW st, Sound(st), NEW es \in Seq(Commands)
    PROVE  /\ Extends(st, AppendWithBatching(st, es), es)
           /\ AppendWithBatching(st, es).cache.stopsign = st.cache.stopsign
           /\ AppendWithBatching(st, es).cache.decided = st.cache.decided
<1>1. PICK log, snap, b, r, d, a, k, e :
          st = StorageOf(log, snap, b, r, d, a, k, e) /\ Counts(log, b, r, d, a, k, e)
    BY SoundParts
<1>2. log \in Seq(Commands) /\ b \in Seq(Commands) /\ k \in Nat
    BY <1>1 DEF Counts
<1>3. /\ st.disk.memory.log = log /\ st.cache.batch = b /\ st.cache.compacted = k /\ st.cache.stopsign = e
      /\ st.cache.decided = d
    BY <1>1, StorageFields
<1>4. PICK new, c, v : new = AppendWithBatching(st, es) /\ c = b \o es /\ v = a + Len(b \o es)
    OBVIOUS
<1>5. new = StorageOf(log, snap, c, r, d, a, k, e) \/ new = StorageOf(log \o c, snap, << >>, r, d, v, k, e)
    BY <1>1, <1>2, <1>4, AppendedIn
<1>6. ASSUME new = StorageOf(log, snap, c, r, d, a, k, e)
      PROVE  Extends(st, new, es) /\ new.cache.stopsign = e /\ new.cache.decided = d
  <2>1. /\ new.disk.memory.log = log /\ new.cache.batch = c /\ new.cache.compacted = k
        /\ new.cache.stopsign = e /\ new.cache.decided = d
    BY <1>6, StorageFields
  <2> QED BY <1>3, <1>4, <2>1, Zenon DEF Extends
<1>7. ASSUME new = StorageOf(log \o c, snap, << >>, r, d, v, k, e)
      PROVE  Extends(st, new, es) /\ new.cache.stopsign = e /\ new.cache.decided = d
  <2>1. PICK l, none : l = log \o c /\ none = << >>
    OBVIOUS
  <2>2. new = StorageOf(l, snap, none, r, d, v, k, e)
    BY <1>7, <2>1
  <2>3. /\ new.disk.memory.log = l /\ new.cache.batch = none /\ new.cache.compacted = k
        /\ new.cache.stopsign = e /\ new.cache.decided = d
    BY <2>2, StorageFields
  <2> QED BY <1>3, <1>4, <2>1, <2>3, Zenon DEF Extends
<1> QED BY <1>3, <1>4, <1>5, <1>6, <1>7

\* flush_batch
LEMMA FlushExtends ==
    ASSUME NEW st, Sound(st)
    PROVE  Extends(st, FlushBatch(st), << >>) /\ FlushBatch(st).cache.batch = << >>
<1>1. PICK log, snap, b, r, d, a, k, e :
          st = StorageOf(log, snap, b, r, d, a, k, e) /\ Counts(log, b, r, d, a, k, e)
    BY SoundParts
<1>2. log \in Seq(Commands) /\ b \in Seq(Commands) /\ k \in Nat
    BY <1>1 DEF Counts
<1>3. st.disk.memory.log = log /\ st.cache.batch = b /\ st.cache.compacted = k
    BY <1>1, StorageFields
<1>4. PICK new, v : new = FlushBatch(st) /\ v = a + Len(b)
    OBVIOUS
<1>5. PICK l, none : l = log \o b /\ none = << >>
    OBVIOUS
<1>6. new = StorageOf(l, snap, none, r, d, v, k, e)
    BY <1>1, <1>2, <1>4, <1>5, FlushedIn
<1>7. new.disk.memory.log = l /\ new.cache.batch = none /\ new.cache.compacted = k
    BY <1>6, StorageFields
<1>8. b \o << >> = b
    BY <1>2, ConcatEmptySeq
<1>9. Extends(st, new, << >>)
    BY <1>3, <1>5, <1>7, <1>8, Zenon DEF Extends
<1> QED BY <1>4, <1>5, <1>7, <1>9

\* A change that leaves the entries alone
LEMMA SameExtends ==
    ASSUME NEW st, Sound(st), NEW new, new.disk.memory.log = st.disk.memory.log,
           new.cache.batch = st.cache.batch, new.cache.compacted = st.cache.compacted
    PROVE  Extends(st, new, << >>)
<1>1. st.cache.batch \o << >> = st.cache.batch
    BY SoundNumbers, ConcatEmptySeq
<1> QED BY <1>1, Zenon DEF Extends

\* set_decided_idx, the stop sign
LEMMA FieldsExtend ==
    ASSUME NEW st, Sound(st), NEW v, NEW t
    PROVE  /\ Extends(st, SetDecided(st, v), << >>)
           /\ SetDecided(st, v).cache.stopsign = st.cache.stopsign /\ SetDecided(st, v).cache.decided = v
           /\ Extends(st, Stopped(st, t, v), << >>)
           /\ Stopped(st, t, v).cache.stopsign = t /\ Stopped(st, t, v).cache.batch = st.cache.batch
           /\ Stopped(st, t, v).cache.decided = st.cache.decided
<1>1. PICK log, snap, b, r, d, a, k, e :
          st = StorageOf(log, snap, b, r, d, a, k, e) /\ Counts(log, b, r, d, a, k, e)
    BY SoundParts
<1>2. /\ st.disk.memory.log = log /\ st.cache.batch = b /\ st.cache.compacted = k /\ st.cache.stopsign = e
      /\ st.cache.decided = d
    BY <1>1, StorageFields
<1>3. PICK new, stop : new = SetDecided(st, v) /\ stop = Stopped(st, t, v)
    OBVIOUS
<1>4. new = StorageOf(log, snap, b, r, v, a, k, e) /\ stop = StorageOf(log, snap, b, r, d, v, k, t)
    BY <1>1, <1>3, DecidedIn, StoppedIn
<1>5. /\ new.disk.memory.log = log /\ new.cache.batch = b /\ new.cache.compacted = k /\ new.cache.stopsign = e
      /\ new.cache.decided = v
    BY <1>4, StorageFields
<1>6. /\ stop.disk.memory.log = log /\ stop.cache.batch = b /\ stop.cache.compacted = k
      /\ stop.cache.stopsign = t /\ stop.cache.decided = d
    BY <1>4, StorageFields
<1>7. Extends(st, new, << >>) /\ Extends(st, stop, << >>)
    BY <1>2, <1>5, <1>6, SameExtends
<1> QED BY <1>2, <1>3, <1>5, <1>6, <1>7

\* One change after another
LEMMA ExtendsTwice ==
    ASSUME NEW st, Sound(st), NEW mid, NEW new, NEW es \in Seq(Commands), Extends(st, mid, es),
           Extends(mid, new, << >>)
    PROVE  Extends(st, new, es)
<1>1. PICK log, b, c : log = st.disk.memory.log /\ b = st.cache.batch /\ c = b \o es
    OBVIOUS
<1>2. log \in Seq(Commands) /\ b \in Seq(Commands)
  <2>1. Counts(log, b, st.cache.round, st.cache.decided, st.cache.accepted, st.cache.compacted,
               st.cache.stopsign)
    BY <1>1, Zenon DEF Sound
  <2> QED BY <2>1 DEF Counts
<1>3. c \in Seq(Commands) /\ log \o c \in Seq(Commands)
    BY <1>1, <1>2, ConcatProperties
<1>4. PICK l1, b1, l2, b2, none : /\ l1 = mid.disk.memory.log /\ b1 = mid.cache.batch
                                  /\ l2 = new.disk.memory.log /\ b2 = new.cache.batch /\ none = << >>
    OBVIOUS
<1>5. new.cache.compacted = st.cache.compacted
    BY DEF Extends
<1>6. (l1 = log /\ b1 = c) \/ (l1 = log \o c /\ b1 = none)
    BY <1>1, <1>4, Zenon DEF Extends
<1>7. (l2 = l1 /\ b2 = b1 \o none) \/ (l2 = l1 \o (b1 \o none) /\ b2 = none)
    BY <1>4, Zenon DEF Extends
<1>8. c \o none = c /\ none \o none = none /\ (log \o c) \o none = log \o c
    BY <1>3, <1>4, ConcatEmptySeq, EmptySeq
<1>9. (l2 = log /\ b2 = c) \/ (l2 = log \o c /\ b2 = none)
    BY <1>6, <1>7, <1>8
<1> QED BY <1>1, <1>4, <1>5, <1>9, Zenon DEF Extends

\* update_decided_idx_and_get_accepted_idx
LEMMA UpdateExtends ==
    ASSUME NEW st, Sound(st), NEW idx \in Nat
    PROVE  /\ Extends(st, UpdateDecided(st, idx), << >>)
           /\ UpdateDecided(st, idx).cache.stopsign = st.cache.stopsign
           /\ idx <= st.cache.accepted =>
                 /\ UpdateDecided(st, idx).cache.decided \in {idx, st.cache.decided}
                 /\ UpdateDecided(st, idx).disk.memory.log = st.disk.memory.log
<1>1. PICK new : new = UpdateDecided(st, idx)
    OBVIOUS
<1>2. CASE idx <= st.cache.decided
  <2>1. new = st
    BY <1>1, <1>2 DEF UpdateDecided
  <2> QED BY <1>1, <2>1, SameExtends
<1>3. CASE ~(idx <= st.cache.decided) /\ idx > st.cache.accepted
  <2>1. PICK flushed, i : flushed = FlushBatch(st) /\ i = Smaller(idx, flushed.cache.accepted)
    OBVIOUS
  <2>2. new = SetDecided(flushed, i)
    BY <1>1, <1>3, <2>1 DEF UpdateDecided
  <2>3. Extends(st, flushed, << >>) /\ Sound(flushed) /\ flushed.cache.stopsign = st.cache.stopsign
    BY <2>1, FlushGrows, FlushExtends DEF Grown
  <2>4. Extends(flushed, new, << >>) /\ new.cache.stopsign = st.cache.stopsign
    BY <2>2, <2>3, FieldsExtend
  <2>5. Extends(st, new, << >>)
    BY <2>3, <2>4, ExtendsTwice, EmptySeq
  <2>6. ~(idx <= st.cache.accepted)
    BY <1>3, SoundNumbers
  <2> QED BY <1>1, <2>4, <2>5, <2>6
<1>4. CASE ~(idx <= st.cache.decided) /\ ~(idx > st.cache.accepted)
  <2>1. new = SetDecided(st, idx)
    BY <1>1, <1>4 DEF UpdateDecided
  <2>2. new.disk.memory.log = st.disk.memory.log
    <3>1. PICK log, snap, b, r, d, a, k, e :
              st = StorageOf(log, snap, b, r, d, a, k, e) /\ Counts(log, b, r, d, a, k, e)
      BY SoundParts
    <3>2. new = StorageOf(log, snap, b, r, idx, a, k, e)
      BY <2>1, <3>1, DecidedIn
    <3> QED BY <3>1, <3>2, StorageFields
  <2> QED BY <1>1, <2>1, <2>2, FieldsExtend
<1> QED BY <1>2, <1>3, <1>4

\* The start of a longer sequence
LEMMA PrefixOfConcat ==
    ASSUME NEW S, NEW s \in Seq(S), NEW t \in Seq(S)
    PROVE  SubSeq(s \o t, 1, Len(s)) = s
<1>1. PICK u, v, n : u = s \o t /\ v = SubSeq(u, 1, n) /\ n = Len(s)
    OBVIOUS
<1>2. /\ u \in Seq(S) /\ n \in Nat /\ Len(u) = n + Len(t) /\ Len(t) \in Nat
      /\ \A i \in 1..n : u[i] = s[i] /\ s[i] \in S
    BY <1>1, ConcatProperties, LenProperties
<1>3. v \in Seq(S) /\ Len(v) = n /\ \A i \in 1..n : v[i] = u[i]
    BY <1>1, <1>2, SubSeqProperties
<1>4. v = s
    BY <1>1, <1>2, <1>3, SeqEqual
<1> QED BY <1>1, <1>4

\* The log lg with c behind it, all still in the batch or all flushed
Moved(lg, c, lg2, b2) == (lg2 = lg /\ b2 = c) \/ (lg2 = lg \o c /\ b2 = << >>)

\* The history of a log takes in what is flushed of it, and no more.
LEMMA StoredTied ==
    ASSUME NEW st, Sound(st), NEW new, NEW lg, Tied(lg, st), NEW es \in Seq(Commands), Extends(st, new, es),
           NEW all, all = (lg \o st.cache.batch) \o es,
           NEW lg2, lg2 = Prefix(all, Len(all) - Len(new.cache.batch)), NEW c, c = st.cache.batch \o es
    PROVE  c \in Seq(Commands) /\ Moved(lg, c, lg2, new.cache.batch) /\ Tied(lg2, new)
<1>1. PICK b, h, k, b2, h2 : /\ b = st.cache.batch /\ h = st.disk.memory.log /\ k = st.cache.compacted
                             /\ b2 = new.cache.batch /\ h2 = new.disk.memory.log
    OBVIOUS
<1>2. h \in Seq(Commands) /\ b \in Seq(Commands) /\ k \in Nat
  <2>1. Counts(h, b, st.cache.round, st.cache.decided, st.cache.accepted, k, st.cache.stopsign)
    BY <1>1, Zenon DEF Sound
  <2> QED BY <2>1 DEF Counts
<1>3. lg \in Seq(Commands) /\ Len(lg) = k + Len(h) /\ \A i \in 1..Len(h) : h[i] = lg[k + i]
    BY <1>1, Zenon DEF Tied, Behind
<1>4. new.cache.compacted = k /\ ((h2 = h /\ b2 = c) \/ (h2 = h \o c /\ b2 = << >>))
    BY <1>1, Zenon DEF Extends
<1>5. c \in Seq(Commands)
    BY <1>1, <1>2, ConcatProperties
<1>6. all = lg \o c
  <2>1. (lg \o b) \o es = lg \o (b \o es)
    BY <1>2, <1>3, ConcatAssociative
  <2> QED BY <1>1, <2>1
<1>7. Len(lg) \in Nat /\ Len(c) \in Nat /\ Len(h) \in Nat
    BY <1>2, <1>3, <1>5, LenProperties
<1>8. CASE h2 = h /\ b2 = c
  <2>1. lg2 = lg
    <3>1. lg2 = SubSeq(lg \o c, 1, Len(lg \o c) - Len(c))
      BY <1>1, <1>6, <1>8 DEF Prefix
    <3>2. Len(lg \o c) - Len(c) = Len(lg)
      BY <1>3, <1>5, <1>7
    <3> QED BY <1>3, <1>5, <3>1, <3>2, PrefixOfConcat
  <2>2. Tied(lg2, new)
    BY <1>1, <1>4, <1>8, <2>1, Zenon DEF Tied
  <2> QED BY <1>1, <1>5, <1>8, <2>1, <2>2 DEF Moved
<1>9. CASE h2 = h \o c /\ b2 = << >>
  <2>1. lg2 = lg \o c
    <3>1. lg2 = SubSeq(lg \o c, 1, Len(lg \o c) - Len(b2))
      BY <1>1, <1>6 DEF Prefix
    <3>2. PICK u : u = lg \o c
      OBVIOUS
    <3>3. u \in Seq(Commands) /\ Len(u) \in Nat /\ Len(u) - Len(b2) = Len(u)
      BY <1>3, <1>5, <1>9, <3>2, ConcatProperties, LenProperties, EmptySeq
    <3> QED BY <3>1, <3>2, <3>3, SubSeqFull
  <2>2. /\ lg2 \in Seq(Commands) /\ Len(lg2) = Len(lg) + Len(c)
        /\ \A i \in 1..(Len(lg) + Len(c)) : lg2[i] = IF i <= Len(lg) THEN lg[i] ELSE c[i - Len(lg)]
    <3>1. PICK u : u = lg \o c
      OBVIOUS
    <3>2. /\ u \in Seq(Commands) /\ Len(u) = Len(lg) + Len(c)
          /\ \A i \in 1..(Len(lg) + Len(c)) : u[i] = IF i <= Len(lg) THEN lg[i] ELSE c[i - Len(lg)]
      <4>1. lg \in Seq(Commands) /\ c \in Seq(Commands)
        BY <1>3, <1>5
      <4> QED BY <3>1, <4>1, ConcatProperties
    <3> QED BY <2>1, <3>1, <3>2
  <2>3. /\ Len(h2) = Len(h) + Len(c)
        /\ \A i \in 1..(Len(h) + Len(c)) : h2[i] = IF i <= Len(h) THEN h[i] ELSE c[i - Len(h)]
    BY <1>2, <1>5, <1>9, ConcatProperties
  <2>4. PICK n, n2, nc, nh, nh2 :
            n = Len(lg) /\ n2 = Len(lg2) /\ nc = Len(c) /\ nh = Len(h) /\ nh2 = Len(h2)
    OBVIOUS
  <2>7. n \in Nat /\ nc \in Nat /\ nh \in Nat /\ n = k + nh /\ n2 = n + nc /\ nh2 = nh + nc
    BY <1>3, <1>7, <2>2, <2>3, <2>4
  <2>8. n2 = k + nh2
    BY <1>2, <2>7
  <2>5. lg2 \in Seq(Commands) /\ Len(lg2) = k + Len(h2)
    BY <2>2, <2>4, <2>8
  <2>6. ASSUME NEW i \in 1..Len(h2)
        PROVE  h2[i] = lg2[k + i]
    <3>0. i \in 1..nh2
      BY <2>4
    <3>1. i \in 1..(nh + nc) /\ k + i \in 1..(n + nc) /\ (k + i <= n <=> i <= nh)
          /\ (k + i) - n = i - nh /\ (i <= nh => i \in 1..nh)
      <4>1. k \in Nat
        BY <1>2
      <4> HIDE <2>4
      <4> QED BY <2>7, <3>0, <4>1
    <3>2. h2[i] = IF i <= nh THEN h[i] ELSE c[i - nh]
      BY <2>3, <2>4, <3>1
    <3>3. lg2[k + i] = IF k + i <= n THEN lg[k + i] ELSE c[(k + i) - n]
      BY <2>2, <2>4, <3>1
    <3>4. i \in 1..nh => h[i] = lg[k + i]
      BY <1>3, <2>4
    <3> QED BY <3>1, <3>2, <3>3, <3>4
  <2>9. Tied(lg2, new)
    BY <1>1, <1>4, <2>5, <2>6, Zenon DEF Tied, Behind
  <2> QED BY <1>1, <1>5, <1>9, <2>1, <2>9 DEF Moved
<1> QED BY <1>4, <1>8, <1>9

\* What is moved, it and the batch are the same entries.
LEMMA MovedAll ==
    ASSUME NEW lg \in Seq(Commands), NEW c \in Seq(Commands), NEW lg2, NEW b2, Moved(lg, c, lg2, b2)
    PROVE  lg2 \o b2 = lg \o c /\ lg2 \in Seq(Commands) /\ b2 \in Seq(Commands) /\ Starts(lg, lg2)
<1>1. lg \o c \in Seq(Commands) /\ << >> \in Seq(Commands) /\ (lg \o c) \o << >> = lg \o c
    BY ConcatProperties, ConcatEmptySeq, EmptySeq
<1>2. Starts(lg, lg) /\ Starts(lg, lg \o c)
    BY ConcatProperties, LenProperties DEF Starts
<1> QED BY <1>1, <1>2 DEF Moved

\* A change that keeps the log, the batch and what is compacted keeps the history of the log.
LEMMA StoredSame ==
    ASSUME NEW lg \in Seq(Commands), NEW b \in Seq(Commands), NEW all, all = (lg \o b) \o << >>
    PROVE  Prefix(all, Len(all) - Len(b)) = lg
<1>1. all = lg \o b
    BY ConcatProperties, ConcatEmptySeq
<1>2. Len(lg) \in Nat /\ Len(b) \in Nat /\ Len(all) - Len(b) = Len(lg)
    BY <1>1, LenProperties, ConcatProperties
<1>3. SubSeq(lg \o b, 1, Len(lg)) = lg
    BY <1>2
<1> QED BY <1>1, <1>2, <1>3 DEF Prefix

\* What is left of the entries behind k when those up to j are dropped
LEMMA BehindRest ==
    ASSUME NEW lg, NEW h \in Seq(Commands), NEW k \in Nat, Behind(lg, k, h), NEW j \in k..(k + Len(h)),
           NEW rest, rest = SubSeq(h, j - k + 1, Len(h))
    PROVE  rest \in Seq(Commands) /\ Behind(lg, j, rest)
<1>0. lg \in Seq(Commands) /\ Len(lg) = k + Len(h) /\ \A i \in 1..Len(h) : h[i] = lg[k + i]
    BY DEF Behind
<1>1. PICK n, m : n = Len(h) /\ m = j - k + 1
    OBVIOUS
<1>2. n \in Nat /\ m \in 1..(n + 1) /\ m + k = j + 1 /\ Len(lg) = k + n /\ j \in Nat
    BY <1>0, <1>1, LenProperties
<1>3. \A x \in m..n : x \in 1..n
    BY <1>2
<1>4. \A x \in m..n : h[x] \in Commands
    BY <1>1, <1>3, LenProperties
<1>5. /\ rest \in Seq(Commands) /\ Len(rest) = IF m <= n THEN n - m + 1 ELSE 0
      /\ \A i \in 1..(n - m + 1) : rest[i] = h[m + i - 1]
  <2>1. m \in Int /\ n \in Int
    BY <1>2
  <2>2. /\ SubSeq(h, m, n) \in Seq(Commands) /\ Len(SubSeq(h, m, n)) = IF m <= n THEN n - m + 1 ELSE 0
        /\ \A i \in 1..(n - m + 1) : SubSeq(h, m, n)[i] = h[m + i - 1]
    BY <1>4, <2>1, SubSeqProperties
  <2> QED BY <1>1, <2>2
<1>6. Len(rest) = n - m + 1 /\ Len(lg) = j + Len(rest)
  <2>1. PICK l, g : l = Len(rest) /\ g = Len(lg)
    OBVIOUS
  <2>2. l = IF m <= n THEN n - m + 1 ELSE 0
    BY <1>5, <2>1
  <2>3. l = n - m + 1
    BY <1>2, <2>2
  <2>4. g = k + n /\ n \in Int /\ m \in Int /\ k \in Int /\ j \in Int /\ m + k = j + 1
    BY <1>2, <2>1
  <2>5. g = j + l
    BY <2>3, <2>4
  <2> QED BY <2>1, <2>3, <2>5
<1>7. ASSUME NEW i \in 1..Len(rest)
      PROVE  rest[i] = lg[j + i]
  <2>1. i \in 1..(n - m + 1) /\ m + i - 1 \in 1..n /\ k + (m + i - 1) = j + i
    BY <1>2, <1>6
  <2>2. PICK x : x = m + i - 1
    OBVIOUS
  <2>3. rest[i] = h[x] /\ h[x] = lg[k + x] /\ k + x = j + i
    BY <1>0, <1>1, <1>5, <2>1, <2>2
  <2> QED BY <2>3
<1> QED BY <1>0, <1>5, <1>6, <1>7 DEF Behind

\* Only what is compacted differs.
Kept(st, new) ==
    /\ new.cache.batch = st.cache.batch /\ new.cache.stopsign = st.cache.stopsign
    /\ new.cache.decided = st.cache.decided /\ new.cache.round = st.cache.round

\* Compaction drops entries of the storage and none of the history.
LEMMA CompactTied ==
    ASSUME NEW st, Sound(st), NEW i \in Nat, st.cache.compacted <= i, i <= DecidedWithoutStopSign(st.cache), NEW s,
           NEW lg, Tied(lg, st)
    PROVE  Tied(lg, Compact(st, i, s)) /\ Kept(st, Compact(st, i, s))
<1>1. PICK log, snap, b, r, d, a, k, e :
          st = StorageOf(log, snap, b, r, d, a, k, e) /\ Counts(log, b, r, d, a, k, e)
    BY SoundParts
<1>2. /\ st.cache.decided = d /\ st.cache.accepted = a /\ st.cache.compacted = k /\ st.cache.stopsign = e
      /\ st.cache.round = r /\ st.cache.batch = b /\ st.disk.memory.log = log
    BY <1>1, StorageFields
<1>3. PICK n, rest : n = Len(log) /\ rest = SubSeq(log, i - k + 1, n)
    OBVIOUS
<1>4. /\ log \in Seq(Commands) /\ n \in Nat /\ k \in Nat /\ a \in Nat /\ d \in Nat /\ e \in BOOLEAN
      /\ a = k + n + Ss(e) /\ d <= a
    BY <1>1, <1>3, LenProperties DEF Counts
<1>5. i \in k..(k + n) /\ i <= d
    BY <1>2, <1>4 DEF DecidedWithoutStopSign, StopSignIsDecided, Ss
<1>6. PICK new : new = Compact(st, i, s)
    OBVIOUS
<1>7. new = StorageOf(rest, s, b, r, d, a, i, e)
    BY <1>1, <1>3, <1>4, <1>5, <1>6, CompactedIn
<1>8. /\ new.cache.decided = d /\ new.cache.compacted = i /\ new.cache.stopsign = e
      /\ new.cache.round = r /\ new.cache.batch = b /\ new.disk.memory.log = rest
    BY <1>7, StorageFields
<1>9. Behind(lg, k, log)
    BY <1>2, Zenon DEF Tied
<1>10. Behind(lg, i, rest)
  <2>1. i \in k..(k + Len(log)) /\ rest = SubSeq(log, i - k + 1, Len(log))
    BY <1>3, <1>5
  <2> QED BY <1>4, <1>9, <2>1, BehindRest
<1>11. Tied(lg, new)
    BY <1>8, <1>10, Zenon DEF Tied
<1>12. Kept(st, new)
    BY <1>2, <1>8, Zenon DEF Kept
<1> QED BY <1>6, <1>11, <1>12

\* try_trim and try_snapshot
LEMMA TryTied ==
    ASSUME NEW st, Sound(st), NEW idx \in Nat, NEW lg, Tied(lg, st)
    PROVE  /\ Tied(lg, TryTrim(st, idx)) /\ Kept(st, TryTrim(st, idx))
           /\ Tied(lg, TrySnapshot(st, idx)) /\ Kept(st, TrySnapshot(st, idx))
<1>1. PICK new : new = CompactedUpTo(st, idx)
    OBVIOUS
<1>2. CASE idx <= st.cache.decided /\ new > st.cache.compacted
  <2>1. new \in Nat /\ new <= DecidedWithoutStopSign(st.cache) /\ st.cache.compacted <= new
    BY <1>1, <1>2, SoundNumbers DEF CompactedUpTo, DecidedWithoutStopSign, StopSignIsDecided, Ss
  <2>2. TryTrim(st, idx) = Compact(st, new, st.disk.snapshot)
    BY <1>1, <1>2 DEF TryTrim
  <2>3. TrySnapshot(st, idx) = Compact(st, new, <<CreateSnapshot(st, new)>>)
    BY <1>1, <1>2 DEF TrySnapshot
  <2> QED BY <2>1, <2>2, <2>3, CompactTied
<1>3. CASE ~(idx <= st.cache.decided /\ new > st.cache.compacted)
  <2>1. TryTrim(st, idx) = st /\ TrySnapshot(st, idx) = st
    BY <1>1, <1>3 DEF TryTrim, TrySnapshot
  <2> QED BY <2>1 DEF Kept
<1> QED BY <1>2, <1>3

\* The entries behind k when those behind j are replaced by others of the same start
LEMMA BehindJoined ==
    ASSUME NEW lg, NEW h \in Seq(Commands), NEW k \in Nat, Behind(lg, k, h), NEW j \in k..(k + Len(h)),
           NEW new, NEW es \in Seq(Commands), Behind(new, j, es), \A i \in 1..j : lg[i] = new[i],
           NEW held, held = SubSeq(h, 1, j - k) \o es
    PROVE  Behind(new, k, held)
<1>1. \A i \in 1..Len(h) : h[i] = lg[k + i]
    BY DEF Behind
<1>2. new \in Seq(Commands) /\ Len(new) = j + Len(es) /\ \A i \in 1..Len(es) : es[i] = new[j + i]
    BY DEF Behind
<1>3. PICK n, m, q, kept : n = Len(h) /\ m = j - k /\ q = Len(es) /\ kept = SubSeq(h, 1, m)
    OBVIOUS
<1>4. n \in Nat /\ m \in 0..n /\ q \in Nat /\ k + m = j /\ j \in Nat
    BY <1>3, LenProperties
<1>5. kept \in Seq(Commands) /\ Len(kept) = m /\ \A i \in 1..m : kept[i] = h[i]
  <2>1. \A i \in 1..m : i \in 1..n
    BY <1>4
  <2>2. \A i \in 1..m : h[i] \in Commands
    BY <1>3, <2>1, LenProperties
  <2>3. m \in Int /\ 1 \in Int
    BY <1>4
  <2>4. /\ SubSeq(h, 1, m) \in Seq(Commands) /\ Len(SubSeq(h, 1, m)) = IF 1 <= m THEN m - 1 + 1 ELSE 0
        /\ \A i \in 1..(m - 1 + 1) : SubSeq(h, 1, m)[i] = h[1 + i - 1]
    BY <2>2, <2>3, SubSeqProperties
  <2>5. kept \in Seq(Commands) /\ Len(kept) = m
    BY <1>3, <1>4, <2>4
  <2>6. \A i \in 1..m : kept[i] = h[i]
    BY <1>3, <1>4, <2>4
  <2> QED BY <2>5, <2>6
<1>6. /\ Len(held) = m + q
      /\ \A i \in 1..(m + q) : held[i] = IF i <= m THEN kept[i] ELSE es[i - m]
  <2>1. held = kept \o es
    BY <1>3
  <2>2. /\ Len(kept \o es) = Len(kept) + Len(es)
        /\ \A i \in 1..(Len(kept) + Len(es)) : (kept \o es)[i] = IF i <= Len(kept) THEN kept[i] ELSE es[i - Len(kept)]
    BY <1>5, ConcatProperties
  <2> QED BY <1>3, <1>5, <2>1, <2>2
<1>7. Len(new) = k + Len(held)
  <2>1. PICK u, v : u = Len(new) /\ v = Len(held)
    OBVIOUS
  <2>2. u = j + q /\ v = m + q
    BY <1>2, <1>3, <1>6, <2>1
  <2>3. u = k + v
    BY <1>4, <2>2
  <2> QED BY <2>1, <2>3
<1>8. ASSUME NEW i \in 1..Len(held)
      PROVE  held[i] = new[k + i]
  <2>1. i \in 1..(m + q)
    BY <1>6
  <2>2. held[i] = IF i <= m THEN kept[i] ELSE es[i - m]
    BY <1>6, <2>1
  <2>3. CASE i <= m
    <3>1. PICK x : x = k + i
      OBVIOUS
    <3>2. i \in 1..m /\ i \in 1..n /\ x \in 1..j
      BY <1>4, <2>1, <2>3, <3>1
    <3>3. kept[i] = h[i] /\ h[i] = lg[x] /\ lg[x] = new[x]
      BY <1>1, <1>3, <1>5, <3>1, <3>2
    <3> QED BY <2>2, <2>3, <3>1, <3>3
  <2>4. CASE ~(i <= m)
    <3>1. PICK x : x = i - m
      OBVIOUS
    <3>2. x \in 1..q /\ j + x = k + i
      BY <1>4, <2>1, <2>4, <3>1
    <3>3. es[x] = new[j + x]
      BY <1>2, <1>3, <3>2
    <3> QED BY <2>2, <2>4, <3>1, <3>2, <3>3
  <2> QED BY <2>3, <2>4
<1> QED BY <1>2, <1>7, <1>8 DEF Behind

\* sync_log leaves the storage with the log of the sender.
LEMMA SyncTied ==
    ASSUME NEW st, Sound(st), NEW lg, Tied(lg, st), NEW m, NEW sync, sync = m.sync, SyncFits(sync, st.cache),
           NEW decided, SyncOK(decided, sync), SyncHas(m, lg),
           NEW new, new = SyncLog(st, Round, decided, sync)
    PROVE  /\ Tied(m.log, new) /\ new.cache.batch = st.cache.batch /\ new.cache.stopsign = sync.stopsign
           /\ new.cache.decided = decided /\ new.cache.round = Round
<1>1. PICK log, snap, b, r, d, a, k, e :
          st = StorageOf(log, snap, b, r, d, a, k, e) /\ Counts(log, b, r, d, a, k, e)
    BY SoundParts
<1>2. /\ st.cache.accepted = a /\ st.cache.compacted = k /\ st.cache.stopsign = e /\ st.cache.batch = b
      /\ st.disk.memory.log = log
    BY <1>1, StorageFields
<1>3. PICK n, idx, es, t, v, round, msg :
              /\ n = Len(log) /\ idx = sync.syncIdx /\ es = sync.suffix /\ t = sync.stopsign
              /\ v = idx + Len(es) + Ss(t) /\ round = Round /\ msg = m.log
    OBVIOUS
<1>4. /\ log \in Seq(Commands) /\ n \in Nat /\ k \in Nat /\ a \in Nat /\ e \in BOOLEAN
      /\ a = k + n + Ss(e)
    BY <1>1, <1>3, LenProperties DEF Counts
<1>5. es \in Seq(Commands) /\ idx \in Nat
    BY <1>3, Zenon DEF SyncOK
<1>6. k <= idx
    BY <1>2, <1>3 DEF SyncFits
<1>7. Behind(lg, k, log)
    BY <1>2, Zenon DEF Tied
<1>8. Behind(msg, idx, es)
    BY <1>3, Zenon DEF SyncHas
<1>9. CASE sync.decidedSnapshot.type \notin {"Complete", "Delta"}
  <2>1. idx \in k..(k + n)
    <3>1. idx + Ss(e) <= a
      BY <1>2, <1>3, <1>9, Zenon DEF SyncFits
    <3> QED BY <1>4, <1>5, <1>6, <3>1 DEF Ss
  <2>2. PICK held : held = SubSeq(log, 1, idx - k) \o es
    OBVIOUS
  <2>3. new = StorageOf(held, snap, b, round, decided, v, k, t)
    <3>1. SyncLog(st, Round, decided, sync)
          = StorageOf(SubSeq(log, 1, idx - k) \o es, snap, b, Round, decided, v, k, t)
      BY <1>1, <1>3, <1>4, <1>5, <1>9, <2>1, SyncedBySuffix
    <3> QED BY <1>3, <2>2, <3>1
  <2>4. \A i \in 1..idx : lg[i] = msg[i]
    BY <1>3, <1>9, Zenon DEF SyncHas
  <2>5. Behind(msg, k, held)
    <3>1. idx \in k..(k + Len(log))
      BY <1>3, <2>1
    <3> QED BY <1>4, <1>5, <1>7, <1>8, <2>2, <2>4, <3>1, BehindJoined
  <2>6. /\ new.disk.memory.log = held /\ new.cache.batch = b /\ new.cache.compacted = k
        /\ new.cache.stopsign = t /\ new.cache.decided = decided /\ new.cache.round = round
    BY <2>3, StorageFields
  <2> QED BY <1>2, <1>3, <2>5, <2>6, Zenon DEF Tied
<1>10. CASE sync.decidedSnapshot.type \in {"Complete", "Delta"}
  <2>1. PICK s : s = new.disk.snapshot
    OBVIOUS
  <2>2. new = StorageOf(es, s, b, round, decided, v, idx, t)
    <3>1. k <= sync.syncIdx /\ sync.suffix \in Seq(Commands) /\ sync.syncIdx \in Nat
      BY <1>3, <1>5, <1>6
    <3>2. new = SyncLog(StorageOf(log, snap, b, r, d, a, k, e), Round, decided, sync)
      BY <1>1
    <3>3. new = StorageOf(sync.suffix, new.disk.snapshot, b, Round, decided,
                          sync.syncIdx + Len(sync.suffix) + Ss(sync.stopsign), sync.syncIdx, sync.stopsign)
      BY <1>4, <1>10, <3>1, <3>2, SyncedBySnapshot
    <3> QED BY <1>3, <2>1, <3>3
  <2>3. /\ new.disk.memory.log = es /\ new.cache.batch = b /\ new.cache.compacted = idx
        /\ new.cache.stopsign = t /\ new.cache.decided = decided /\ new.cache.round = round
    BY <2>2, StorageFields
  <2> QED BY <1>2, <1>3, <1>8, <2>3, Zenon DEF Tied
<1> QED BY <1>9, <1>10

\* The accepted index counts the log, also what is compacted of it, and the stop sign.
LEMMA TiedCounts ==
    ASSUME NEW st, Sound(st), NEW lg, Tied(lg, st)
    PROVE  /\ lg \in Seq(Commands) /\ Len(lg) \in Nat /\ st.cache.accepted = Len(lg) + Ss(st.cache.stopsign)
           /\ st.cache.compacted <= Len(lg)
<1>1. PICK h, k, e : h = st.disk.memory.log /\ k = st.cache.compacted /\ e = st.cache.stopsign
    OBVIOUS
<1>2. Counts(h, st.cache.batch, st.cache.round, st.cache.decided, st.cache.accepted, k, e)
    BY <1>1, Zenon DEF Sound
<1>3. h \in Seq(Commands) /\ k \in Nat /\ st.cache.accepted = k + Len(h) + Ss(e)
    BY <1>2, Zenon DEF Counts
<1>4. lg \in Seq(Commands) /\ Len(lg) = k + Len(h)
    BY <1>1, Zenon DEF Tied, Behind
<1>5. Len(lg) \in Nat /\ Len(h) \in Nat
    BY <1>3, <1>4, LenProperties
<1> QED BY <1>1, <1>3, <1>4, <1>5

\* get_suffix returns the entries of the log behind an index that is not compacted.
LEMMA SuffixBehind ==
    ASSUME NEW st, Sound(st), NEW lg, Tied(lg, st), NEW from \in Nat, st.cache.compacted <= from, from <= Len(lg)
    PROVE  Behind(lg, from, GetSuffix(st.disk, from))
<1>1. PICK log, snap, b, r, d, a, k, e :
          st = StorageOf(log, snap, b, r, d, a, k, e) /\ Counts(log, b, r, d, a, k, e)
    BY SoundParts
<1>2. st.cache.compacted = k /\ st.disk.memory = MemoryAt(log, k) /\ st.disk.memory.log = log
    BY <1>1, StorageFields
<1>3. PICK n : n = Len(log)
    OBVIOUS
<1>4. log \in Seq(Commands) /\ n \in Nat /\ k \in Nat
    BY <1>1, <1>3, LenProperties DEF Counts
<1>5. Behind(lg, k, log) /\ Len(lg) = k + n
    BY <1>2, <1>3, Zenon DEF Tied, Behind
<1>6. from \in k..(k + n)
    BY <1>2, <1>4, <1>5
<1>7. PICK to : to = k + n
    OBVIOUS
<1>8. GetSuffix(st.disk, from) = SubSeq(log, from - k + 1, to - k)
  <2>1. Memory!GetSuffix(MemoryAt(log, k), from) = Memory!GetEntries(MemoryAt(log, k), from, to)
    BY <1>3, <1>7 DEF Memory!GetSuffix, MemoryAt
  <2>2. Memory!GetEntries(MemoryAt(log, k), from, to) = SubSeq(log, from - k + 1, to - k)
    <3>1. k <= from /\ from <= to /\ to <= k + Len(log)
      BY <1>3, <1>4, <1>6, <1>7
    <3>2. MemoryAt(log, k).trimmed = k /\ MemoryAt(log, k).log = log
      BY DEF MemoryAt
    <3> QED BY <3>1, <3>2, Zenon DEF Memory!GetEntries
  <2> QED BY <1>2, <2>1, <2>2 DEF GetSuffix
<1>9. to - k = Len(log) /\ from \in k..(k + Len(log))
    BY <1>3, <1>4, <1>6, <1>7
<1>10. PICK rest : rest = SubSeq(log, from - k + 1, Len(log))
    OBVIOUS
<1>11. Behind(lg, from, rest)
    BY <1>4, <1>5, <1>9, <1>10, BehindRest
<1> QED BY <1>8, <1>9, <1>10, <1>11

\* What the leader takes for common is common (handle_promise).
LEMMA ValidCommon ==
    ASSUME NEW st, Sound(st), PhaseOK("Prepare", st.cache), NEW valid, valid = Valid(st.cache),
           NEW log, Tied(log, st), NEW lead \in Seq(Commands), NEW led \in BOOLEAN,
           Agree(log, lead, led, st.cache.decided), st.cache.round = Round => Starts(log, lead)
    PROVE  valid \in Nat /\ valid <= Len(lead) /\ \A i \in 1..valid : log[i] = lead[i]
<1>1. valid \in Nat /\ valid + Ss(st.cache.stopsign) <= st.cache.accepted
    BY ValidHeld
<1>2. PICK n, l : n = Len(log) /\ l = Len(lead)
    OBVIOUS
<1>3. n \in Nat /\ l \in Nat /\ st.cache.accepted = n + Ss(st.cache.stopsign)
    BY <1>2, TiedCounts, LenProperties
<1>4. valid <= n
    BY <1>1, <1>3, SoundNumbers DEF Ss
<1>5. CASE st.cache.round = Round
  <2>1. n <= l /\ \A i \in 1..n : log[i] = lead[i]
    BY <1>2, <1>5, Zenon DEF Starts
  <2> QED BY <1>1, <1>2, <1>3, <1>4, <2>1
<1>6. CASE st.cache.round # Round
  <2>1. valid = st.cache.decided
    BY <1>6 DEF Valid
  <2>2. \A i \in 1..valid : (i <= n <=> i <= l) /\ (i <= n => log[i] = lead[i])
    BY <1>2, <2>1, Zenon DEF Agree
  <2>3. \A i \in 1..valid : i <= n
    BY <1>1, <1>3, <1>4
  <2>4. valid <= l
    <3>1. CASE valid = 0
      BY <1>3, <3>1
    <3>2. CASE valid # 0
      <4>1. valid \in 1..valid
        BY <1>1, <3>2
      <4> QED BY <2>2, <2>3, <4>1
    <3> QED BY <3>1, <3>2
  <2> QED BY <1>1, <1>2, <2>2, <2>3, <2>4
<1> QED BY <1>5, <1>6

\* The answer to a promise has the entries that the follower lacks (create_log_sync).
LEMMA AnswerHas ==
    ASSUME NEW us \in BOOLEAN, NEW own, Sound(own), NEW a, LeaderOK(us, own, a), NEW st, Sound(st),
           PhaseOK("Prepare", st.cache), AckedOK(st.cache, a),
           NEW lead, Tied(lead, own), NEW log, Tied(log, st),
           Agree(log, lead, own.cache.stopsign, st.cache.decided), st.cache.round = Round => Starts(log, lead),
           NEW sync, sync = CreateLogSync(own, us, Valid(st.cache), st.cache.decided),
           NEW m, m.sync = sync, m.log = lead
    PROVE  SyncHas(m, log)
<1>1. PICK valid, d : valid = Valid(st.cache) /\ d = own.cache.decided
    OBVIOUS
<1>2. lead \in Seq(Commands) /\ Len(lead) \in Nat /\ own.cache.accepted = Len(lead) + Ss(own.cache.stopsign)
    BY TiedCounts
<1>3. /\ d \in Nat /\ own.cache.accepted \in Nat /\ own.cache.compacted \in Nat
      /\ own.cache.stopsign \in BOOLEAN /\ d <= own.cache.accepted
    BY <1>1, SoundNumbers
<1>4. valid \in Nat /\ valid <= Len(lead) /\ \A i \in 1..valid : log[i] = lead[i]
    BY <1>1, <1>2, <1>3, ValidCommon
<1>5. CASE us /\ d > valid
  <2>1. PICK idx, diff : idx = DecidedWithoutStopSign(own.cache) /\ diff = CreateDiffSnapshot(own, st.cache.decided)
    OBVIOUS
  <2>2. PICK suffix : suffix = GetSuffix(own.disk, d)
    OBVIOUS
  <2>3. sync.decidedSnapshot = diff /\ sync.suffix = suffix /\ sync.syncIdx = idx
    BY <1>1, <1>5, <2>1, <2>2 DEF CreateLogSync
  <2>4. own.cache.compacted <= d /\ (own.disk.snapshot = NoSnapshot => own.cache.compacted = 0)
    BY <1>1, <1>5 DEF LeaderOK
  <2>5. Behind(lead, idx, suffix)
    <3>1. CASE StopSignIsDecided(own.cache)
      <4>1. idx = Len(lead) /\ d = Len(lead) + 1
        BY <1>1, <1>2, <1>3, <2>1, <3>1 DEF DecidedWithoutStopSign, StopSignIsDecided, Ss
      <4>2. PICK end : end = own.cache.accepted - Ss(own.cache.stopsign)
        OBVIOUS
      <4>3. end = Len(lead)
        BY <1>2, <1>3, <4>2 DEF Ss
      <4>4. suffix \in Seq(Commands) /\ Len(suffix) = IF d <= end THEN end - d ELSE 0
        BY <1>1, <1>3, <2>2, <2>4, <4>2, SuffixOf
      <4>5. Len(suffix) = 0
        BY <1>2, <4>1, <4>3, <4>4
      <4>6. Len(lead) = idx + Len(suffix)
        BY <1>2, <4>1, <4>5
      <4>7. \A i \in 1..Len(suffix) : suffix[i] = lead[idx + i]
        BY <4>5
      <4> QED BY <1>2, <4>6, <4>7 DEF Behind
    <3>2. CASE ~StopSignIsDecided(own.cache)
      <4>1. idx = d /\ d <= Len(lead)
        BY <1>1, <1>2, <1>3, <2>1, <3>2 DEF DecidedWithoutStopSign, StopSignIsDecided, Ss
      <4> QED BY <1>1, <1>3, <2>2, <2>4, <4>1, SuffixBehind
    <3> QED BY <3>1, <3>2
  <2>6. ASSUME diff.type \notin {"Complete", "Delta"} PROVE idx = 0
    <3>1. ~(st.cache.decided > own.cache.compacted)
      BY <2>1, <2>6 DEF CreateDiffSnapshot
    <3>2. ~(own.cache.compacted < idx)
      BY <2>1, <2>6, <3>1 DEF CreateDiffSnapshot
    <3>3. own.disk.snapshot = NoSnapshot
      BY <2>1, <2>6, <3>1, <3>2 DEF CreateDiffSnapshot
    <3>4. idx \in Nat
      BY <1>1, <1>3, <2>1, <1>2 DEF DecidedWithoutStopSign, StopSignIsDecided, Ss
    <3> QED BY <2>4, <3>2, <3>3, <3>4
  <2>7. diff.type \notin {"Complete", "Delta"} => \A i \in 1..idx : log[i] = lead[i]
    BY <2>6
  <2> QED BY <2>3, <2>5, <2>7, Zenon DEF SyncHas
<1>6. CASE ~(us /\ d > valid)
  <2>1. PICK suffix : suffix = GetSuffix(own.disk, valid)
    OBVIOUS
  <2>2. sync.suffix = suffix /\ sync.syncIdx = valid
    BY <1>1, <1>6, <2>1 DEF CreateLogSync
  <2>3. own.cache.compacted <= valid
    <3>1. CASE us
      BY <1>1, <1>3, <1>4, <1>6, <3>1 DEF LeaderOK
    <3>2. CASE ~us
      <4>1. own.cache.compacted <= a
        BY <3>2 DEF LeaderOK
      <4>2. st.cache.round = Round => st.cache.accepted <= valid
        BY <1>1, ValidHeld
      <4>3. a <= valid
        BY <1>4, <4>2, SoundNumbers DEF AckedOK
      <4>4. a \in Nat
        BY DEF AckedOK
      <4> QED BY <1>3, <1>4, <4>1, <4>3, <4>4
    <3> QED BY <3>1, <3>2
  <2>4. Behind(lead, valid, suffix)
    BY <1>4, <2>1, <2>3, SuffixBehind
  <2> QED BY <1>4, <2>2, <2>4, Zenon DEF SyncHas
<1> QED BY <1>5, <1>6

--------------------------------------------------------------------------------
(* What the follower has of the leader's log *)

\* The leader's log after some steps: more of it until it has a stop sign
Later(lead, led, lead2, led2) ==
    /\ lead \in Seq(Commands) /\ lead2 \in Seq(Commands) /\ Starts(lead, lead2)
    /\ led => led2 /\ lead2 = lead

\* It grows, or stops.
LEMMA LaterGrown ==
    ASSUME NEW lead \in Seq(Commands), NEW es \in Seq(Commands)
    PROVE  /\ Later(lead, FALSE, lead \o es, FALSE)
           /\ \A led, led2 : (led => led2) => Later(lead, led, lead, led2)
<1>1. PICK u : u = lead \o es
    OBVIOUS
<1>2. /\ u \in Seq(Commands) /\ Len(u) = Len(lead) + Len(es) /\ Len(lead) \in Nat /\ Len(es) \in Nat
      /\ \A i \in 1..(Len(lead) + Len(es)) : u[i] = IF i <= Len(lead) THEN lead[i] ELSE es[i - Len(lead)]
    BY <1>1, ConcatProperties, LenProperties
<1>3. Starts(lead, u) /\ Starts(lead, lead)
    BY <1>2 DEF Starts
<1> QED BY <1>1, <1>2, <1>3 DEF Later

\* What starts the leader's log goes on doing so.
LEMMA FollowsStays ==
    ASSUME NEW own \in Seq(Commands), NEW stopped, NEW lead, NEW led, NEW lead2, NEW led2, Later(lead, led, lead2, led2),
           Follows(own, stopped, lead, led)
    PROVE  Follows(own, stopped, lead2, led2)
<1>1. Len(own) \in Nat /\ Len(lead) \in Nat /\ Len(lead2) \in Nat
    BY LenProperties DEF Later
<1>2. Len(own) <= Len(lead) /\ Len(lead) <= Len(lead2)
    BY DEF Later, Follows, Starts
<1>3. ASSUME NEW i \in 1..Len(own) PROVE own[i] = lead2[i]
  <2>1. i \in 1..Len(lead)
    BY <1>1, <1>2
  <2> QED BY <2>1 DEF Later, Follows, Starts
<1>4. Starts(own, lead2)
    BY <1>1, <1>2, <1>3 DEF Starts
<1> QED BY <1>4 DEF Follows, Later

\* What is decided of the leader's log stays so.
LEMMA AgreeStays ==
    ASSUME NEW own \in Seq(Commands), NEW lead, NEW led, NEW lead2, NEW led2, Later(lead, led, lead2, led2),
           NEW d \in Nat, Agree(own, lead, led, d)
    PROVE  Agree(own, lead2, led2, d)
<1>1. CASE led
    BY <1>1 DEF Later, Agree, Ss
<1>2. CASE ~led
  <2>1. PICK n, l, l2 : n = Len(own) /\ l = Len(lead) /\ l2 = Len(lead2)
    OBVIOUS
  <2>2. n \in Nat /\ l \in Nat /\ l2 \in Nat /\ l <= l2 /\ \A i \in 1..l : lead[i] = lead2[i]
    BY <2>1, LenProperties DEF Later, Starts
  <2>3. d <= l /\ \A i \in 1..d : (i <= n <=> i <= l) /\ (i <= n => own[i] = lead[i])
    BY <1>2, <2>1, <2>2 DEF Agree, Ss
  <2>4. \A i \in 1..d : i \in 1..l /\ i <= l2
    BY <2>2, <2>3
  <2>5. \A i \in 1..d : (i <= n <=> i <= l2) /\ (i <= n => own[i] = lead2[i])
    BY <2>2, <2>3, <2>4
  <2>6. d <= l2 + Ss(led2)
    BY <2>2, <2>3 DEF Ss
  <2> QED BY <2>1, <2>5, <2>6 DEF Agree
<1> QED BY <1>1, <1>2

\* A message carries what it did.
LEMMA CarriesStays ==
    ASSUME NEW m, NEW from \in Nat, NEW to, NEW lead, NEW led, NEW lead2, NEW led2, Later(lead, led, lead2, led2),
           MsgOK(m), Carries(m, from, to, lead, led)
    PROVE  Carries(m, from, to, lead2, led2)
<1>1. ASSUME m.type = "AcceptDecide"
      PROVE  to = from + Len(m.entries) /\ to <= Len(lead2) /\ \A i \in 1..Len(m.entries) : m.entries[i] = lead2[from + i]
  <2>1. PICK n, l, l2 : n = Len(m.entries) /\ l = Len(lead) /\ l2 = Len(lead2)
    OBVIOUS
  <2>2. l \in Nat /\ l2 \in Nat /\ l <= l2 /\ \A i \in 1..l : lead[i] = lead2[i]
    BY <2>1, LenProperties DEF Later, Starts
  <2>3. m.entries \in Seq(Commands) /\ n \in Nat
    BY <1>1, <2>1, LenProperties DEF MsgOK
  <2>4. to = from + n /\ to <= l /\ \A i \in 1..n : m.entries[i] = lead[from + i]
    BY <1>1, <2>1 DEF Carries
  <2>5. \A i \in 1..n : from + i \in 1..l
    BY <2>2, <2>3, <2>4
  <2> QED BY <2>1, <2>2, <2>3, <2>4, <2>5
<1>2. ASSUME m.type = "AcceptStopSign"
      PROVE  led2 /\ from = Len(lead2) /\ to = from + 1
    BY <1>2 DEF Carries, Later
<1>3. ASSUME m.type = "AcceptSync"
      PROVE  /\ m.log \in Seq(Commands) /\ Follows(m.log, m.sync.stopsign, lead2, led2)
             /\ to = Len(m.log) + Ss(m.sync.stopsign)
  <2>1. /\ m.log \in Seq(Commands) /\ Follows(m.log, m.sync.stopsign, lead, led)
        /\ to = Len(m.log) + Ss(m.sync.stopsign)
    BY <1>3 DEF Carries
  <2> QED BY <2>1, FollowsStays
<1>4. m.type = "Decide" => to = from
    BY DEF Carries
<1> QED BY <1>1, <1>2, <1>3, <1>4 DEF Carries

\* Where the leader's log ends
End(lead, led) == Len(lead) + Ss(led)

\* The leader sends what it has more.
LEMMA ChainSends ==
    ASSUME NEW ph, NEW ch, NEW fc, LinkOK(ph, ch, fc), NEW count, NEW lead, NEW led, NEW lead2, NEW led2,
           Later(lead, led, lead2, led2),
           Chain(ph, ch, count, lead, led), ph = "Accept" \/ ch # << >>, NEW m,
           Carries(m, End(lead, led), End(lead2, led2), lead2, led2)
    PROVE  Chain(ph, ch \o <<m>>, count, lead2, led2)
<1>1. PICK n, ch2 : n = Len(ch) /\ ch2 = ch \o <<m>>
    OBVIOUS
<1>2. PICK S : ch \in Seq(S)
    BY DEF LinkOK
<1>3. PICK T : T = S \cup {m}
    OBVIOUS
<1>4. ch \in Seq(T) /\ <<m>> \in Seq(T)
    BY <1>2, <1>3
<1>5. n \in Nat /\ Len(ch2) = n + 1 /\ ch2[n + 1] = m /\ \A i \in 1..n : ch2[i] = ch[i]
  <2>1. /\ Len(ch \o <<m>>) = Len(ch) + Len(<<m>>)
        /\ \A i \in 1..(Len(ch) + Len(<<m>>)) : (ch \o <<m>>)[i] = IF i <= Len(ch) THEN ch[i] ELSE <<m>>[i - Len(ch)]
    BY <1>4, ConcatProperties
  <2>2. Len(<<m>>) = 1 /\ <<m>>[1] = m
    OBVIOUS
  <2>3. n \in Nat
    BY <1>1, <1>2, LenProperties
  <2>4. Len(ch2) = n + 1 /\ \A i \in 1..(n + 1) : ch2[i] = IF i <= n THEN ch[i] ELSE <<m>>[i - n]
    BY <1>1, <2>1, <2>2
  <2>5. n + 1 \in 1..(n + 1) /\ ~(n + 1 <= n) /\ (n + 1) - n = 1 /\ \A i \in 1..n : i \in 1..(n + 1) /\ i <= n
    BY <2>3
  <2> QED BY <2>2, <2>3, <2>4, <2>5
<1>6. PICK p \in [0..n -> Nat] :
          /\ ph = "Accept" => p[0] = count
          /\ p[n] = Len(lead) + Ss(led)
          /\ \A i \in 1..n : Carries(ch[i], p[i - 1], p[i], lead, led)
    BY <1>1 DEF Chain
<1>7. PICK e : e = End(lead2, led2)
    OBVIOUS
<1>8. e \in Nat
    BY <1>7, LenProperties DEF End, Ss, Later
<1>9. PICK q : q = [i \in 0..(n + 1) |-> IF i = n + 1 THEN e ELSE p[i]]
    OBVIOUS
<1>10. q \in [0..(n + 1) -> Nat] /\ q[n + 1] = e /\ \A i \in 0..n : q[i] = p[i]
    BY <1>5, <1>6, <1>8, <1>9
<1>11. ph = "Accept" => q[0] = count
    BY <1>5, <1>6, <1>10
<1>12. ASSUME NEW i \in 1..(n + 1)
       PROVE  Carries(ch2[i], q[i - 1], q[i], lead2, led2)
  <2>1. CASE i <= n
    <3>1. i \in 1..n /\ i - 1 \in 0..n /\ i \in 0..n
      BY <1>5, <2>1
    <3>2. ch2[i] = ch[i] /\ q[i - 1] = p[i - 1] /\ q[i] = p[i] /\ p[i - 1] \in Nat
      BY <1>5, <1>6, <1>10, <3>1
    <3>3. MsgOK(ch[i])
      BY <1>1, <3>1 DEF LinkOK
    <3>4. Carries(ch[i], p[i - 1], p[i], lead, led)
      BY <1>6, <3>1
    <3>5. Carries(ch[i], p[i - 1], p[i], lead2, led2)
      BY <3>2, <3>3, <3>4, CarriesStays
    <3> QED BY <3>2, <3>5
  <2>2. CASE ~(i <= n)
    <3>1. i = n + 1 /\ i - 1 = n /\ n \in 0..n
      BY <1>5, <2>2
    <3>2. ch2[i] = m /\ q[i - 1] = End(lead, led) /\ q[i] = e
      BY <1>5, <1>6, <1>10, <3>1 DEF End
    <3> QED BY <1>7, <3>2
  <2> QED BY <2>1, <2>2
<1>13. Chain(ph, ch2, count, lead2, led2)
  <2>1. /\ q \in [0..Len(ch2) -> Nat] /\ (ph = "Accept" => q[0] = count)
        /\ q[Len(ch2)] = Len(lead2) + Ss(led2)
        /\ \A i \in 1..Len(ch2) : Carries(ch2[i], q[i - 1], q[i], lead2, led2)
    BY <1>5, <1>7, <1>10, <1>11, <1>12 DEF End
  <2> QED BY <2>1 DEF Chain
<1> QED BY <1>1, <1>13

\* Outside a session it does not matter what the follower has.
LEMMA ChainElse ==
    ASSUME NEW ph, ph # "Accept", NEW ch, NEW count, NEW count2, NEW lead, NEW led
    PROVE  /\ Chain(ph, << >>, count, lead, led)
           /\ Chain(ph, ch, count, lead, led) => Chain(ph, ch, count2, lead, led)
    BY DEF Chain

\* An AcceptSync with the leader's log brings everything.
LEMMA ChainSyncs ==
    ASSUME NEW ph, ph # "Accept", NEW count, NEW lead \in Seq(Commands), NEW led, NEW m,
           m.type = "AcceptSync", m.log = lead, m.sync.stopsign = led
    PROVE  Chain(ph, <<m>>, count, lead, led)
<1>1. PICK e : e = Len(lead) + Ss(led)
    OBVIOUS
<1>2. e \in Nat
    BY <1>1, LenProperties DEF Ss
<1>3. PICK p : p = [i \in 0..1 |-> IF i = 1 THEN e ELSE 0]
    OBVIOUS
<1>4. p \in [0..1 -> Nat] /\ p[1] = e
    BY <1>2, <1>3
<1>5. Follows(lead, led, lead, led)
    BY LenProperties DEF Follows, Starts
<1>6. \A from : Carries(m, from, e, lead, led)
    BY <1>1, <1>5 DEF Carries
<1>7. Len(<<m>>) = 1 /\ <<m>>[1] = m
    OBVIOUS
<1>8. \A i \in 1..Len(<<m>>) : Carries(<<m>>[i], p[i - 1], p[i], lead, led)
    BY <1>4, <1>6, <1>7
<1> QED BY <1>1, <1>4, <1>7, <1>8 DEF Chain

\* The follower receives the first message: the others bring the rest.
LEMMA ChainReceives ==
    ASSUME NEW ph, NEW ch, NEW fc, LinkOK(ph, ch, fc), ch # << >>, NEW count, NEW lead, NEW led,
           Chain(ph, ch, count, lead, led)
    PROVE  \E from \in Nat, to \in Nat :
              /\ Carries(Head(ch), from, to, lead, led) /\ (ph = "Accept" => from = count)
              /\ Chain("Accept", Tail(ch), to, lead, led)
<1>1. PICK S : ch \in Seq(S)
    BY DEF LinkOK
<1>2. PICK rest, n, m : rest = Tail(ch) /\ n = Len(ch) /\ m = n - 1
    OBVIOUS
<1>3. /\ n \in Nat /\ n # 0 /\ m \in Nat /\ Len(rest) = m /\ n = m + 1
      /\ \A i \in 1..m : rest[i] = ch[i + 1]
      /\ Head(ch) = ch[1]
    BY <1>1, <1>2
<1>4. PICK p \in [0..n -> Nat] :
          /\ ph = "Accept" => p[0] = count
          /\ p[n] = Len(lead) + Ss(led)
          /\ \A i \in 1..n : Carries(ch[i], p[i - 1], p[i], lead, led)
    BY <1>2 DEF Chain
<1>5. p[0] \in Nat /\ p[1] \in Nat /\ Carries(Head(ch), p[0], p[1], lead, led)
  <2>1. 1 \in 1..n /\ 0 \in 0..n /\ 1 \in 0..n /\ 1 - 1 = 0
    BY <1>3
  <2>2. Carries(ch[1], p[1 - 1], p[1], lead, led)
    BY <1>4, <2>1
  <2> QED BY <1>3, <1>4, <2>1, <2>2
<1>6. PICK q : q = [i \in 0..m |-> p[i + 1]]
    OBVIOUS
<1>7. q \in [0..m -> Nat] /\ q[0] = p[1] /\ q[m] = p[n] /\ \A i \in 1..m : q[i - 1] = p[i] /\ q[i] = p[i + 1]
  <2>1. \A i \in 0..m : i + 1 \in 0..n
    BY <1>3
  <2>2. q \in [0..m -> Nat] /\ \A i \in 0..m : q[i] = p[i + 1]
    BY <1>4, <1>6, <2>1
  <2>3. 0 \in 0..m /\ m \in 0..m /\ \A i \in 1..m : i \in 0..m /\ i - 1 \in 0..m /\ (i - 1) + 1 = i
    BY <1>3
  <2> QED BY <1>3, <2>2, <2>3
<1>8. ASSUME NEW i \in 1..m
      PROVE  Carries(rest[i], q[i - 1], q[i], lead, led)
  <2>1. PICK j : j = i + 1
    OBVIOUS
  <2>2. j \in 1..n /\ j - 1 = i
    BY <1>3, <2>1
  <2>3. Carries(ch[j], p[j - 1], p[j], lead, led)
    BY <1>4, <2>2
  <2>4. rest[i] = ch[j] /\ q[i - 1] = p[i] /\ q[i] = p[j]
    BY <1>3, <1>7, <2>1
  <2> QED BY <2>2, <2>3, <2>4
<1>9. Chain("Accept", rest, p[1], lead, led)
    BY <1>3, <1>4, <1>7, <1>8 DEF Chain
<1> QED BY <1>2, <1>4, <1>5, <1>9

\* A follower in its session has decided nothing but entries of the leader.
LEMMA HasInRound ==
    ASSUME NEW lead \in Seq(Commands), NEW led, NEW log, NEW st, Sound(st), Tied(log, st), Quiet(st),
           Follows(log \o st.cache.batch, st.cache.stopsign, lead, led)
    PROVE  Has(lead, led, log, st)
<1>1. PICK b, n, l, d, all : /\ b = st.cache.batch /\ n = Len(log) /\ l = Len(lead) /\ d = st.cache.decided
                             /\ all = log \o b
    OBVIOUS
<1>2. b \in Seq(Commands) /\ log \in Seq(Commands) /\ d \in Nat /\ d <= n + Ss(st.cache.stopsign)
    BY <1>1, SoundNumbers, TiedCounts
<1>3. n \in Nat /\ l \in Nat /\ Len(b) \in Nat
    BY <1>1, <1>2, LenProperties
<1>4. Len(all) = n + Len(b) /\ \A i \in 1..n : all[i] = log[i]
  <2>1. /\ Len(log \o b) = Len(log) + Len(b)
        /\ \A i \in 1..(Len(log) + Len(b)) : (log \o b)[i] = IF i <= Len(log) THEN log[i] ELSE b[i - Len(log)]
    BY <1>2, ConcatProperties
  <2>2. \A i \in 1..n : i \in 1..(n + Len(b)) /\ i <= n
    BY <1>3
  <2> QED BY <1>1, <2>1, <2>2
<1>5. Len(all) <= l /\ \A i \in 1..Len(all) : all[i] = lead[i]
    BY <1>1, Zenon DEF Follows, Starts
<1>6. n <= l /\ \A i \in 1..n : log[i] = lead[i]
  <2>1. n <= l /\ \A i \in 1..n : i \in 1..Len(all)
    BY <1>3, <1>4, <1>5
  <2> QED BY <1>4, <1>5, <2>1
<1>7. CASE st.cache.stopsign
  <2>1. led /\ Len(all) = l /\ b = << >>
    BY <1>1, <1>7, Zenon DEF Follows, Quiet
  <2>2. n = l /\ d <= l + 1 /\ Ss(led) = 1
    BY <1>2, <1>3, <1>4, <1>7, <2>1, EmptySeq DEF Ss
  <2>3. \A i \in 1..d : (i <= n <=> i <= l) /\ (i <= n => log[i] = lead[i])
    BY <1>2, <1>3, <1>6, <2>2
  <2>4. Agree(log, lead, led, d)
    BY <1>1, <2>2, <2>3 DEF Agree
  <2> QED BY <1>1, <2>4, Zenon DEF Has
<1>8. CASE ~st.cache.stopsign
  <2>1. d <= n
    BY <1>2, <1>3, <1>8 DEF Ss
  <2>2. \A i \in 1..d : i \in 1..n /\ i <= l
    BY <1>2, <1>3, <1>6, <2>1
  <2>3. d <= l + Ss(led)
    BY <1>2, <1>3, <1>6, <2>1 DEF Ss
  <2>4. Agree(log, lead, led, d)
    BY <1>1, <1>6, <2>2, <2>3 DEF Agree
  <2> QED BY <1>1, <2>4, Zenon DEF Has
<1> QED BY <1>7, <1>8

\* Under an earlier leader, more entries behind what is decided change nothing of it.
LEMMA AgreeGrows ==
    ASSUME NEW log \in Seq(Commands), NEW log2 \in Seq(Commands), Starts(log, log2), NEW lead, NEW led,
           NEW d \in Nat, d <= Len(log), Agree(log, lead, led, d)
    PROVE  Agree(log2, lead, led, d)
<1>1. PICK n, n2 : n = Len(log) /\ n2 = Len(log2)
    OBVIOUS
<1>2. n \in Nat /\ n2 \in Nat /\ n <= n2 /\ \A i \in 1..n : log[i] = log2[i]
    BY <1>1, LenProperties DEF Starts
<1>3. \A i \in 1..d : i \in 1..n /\ i <= n2
    BY <1>1, <1>2
<1>4. \A i \in 1..d : (i <= n <=> i <= Len(lead)) /\ (i <= n => log[i] = lead[i])
    BY <1>1 DEF Agree
<1>5. \A i \in 1..d : (i <= n2 <=> i <= Len(lead)) /\ (i <= n2 => log2[i] = lead[i])
    BY <1>2, <1>3, <1>4
<1> QED BY <1>1, <1>5 DEF Agree

\* What is not in the batch starts the leader's log, too.
LEMMA FollowsDrops ==
    ASSUME NEW log \in Seq(Commands), NEW b \in Seq(Commands), NEW stopped, stopped => b = << >>,
           NEW lead, NEW led, Follows(log \o b, stopped, lead, led)
    PROVE  Follows(log \o << >>, stopped, lead, led)
<1>1. log \o << >> = log
    BY ConcatEmptySeq
<1>2. CASE b = << >>
    BY <1>1, <1>2
<1>3. CASE b # << >>
  <2>1. PICK all, n : all = log \o b /\ n = Len(log)
    OBVIOUS
  <2>2. n \in Nat /\ Len(b) \in Nat /\ Len(all) = n + Len(b) /\ \A i \in 1..n : all[i] = log[i]
    <3>1. /\ Len(log \o b) = Len(log) + Len(b)
          /\ \A i \in 1..(Len(log) + Len(b)) : (log \o b)[i] = IF i <= Len(log) THEN log[i] ELSE b[i - Len(log)]
      BY ConcatProperties
    <3>2. n \in Nat /\ Len(b) \in Nat
      BY <2>1, LenProperties
    <3>3. \A i \in 1..n : i \in 1..(n + Len(b)) /\ i <= n
      BY <3>2
    <3> QED BY <2>1, <3>1, <3>2, <3>3
  <2>3. Len(all) <= Len(lead) /\ \A i \in 1..Len(all) : all[i] = lead[i]
    BY <2>1, Zenon DEF Follows, Starts
  <2>4. n <= Len(lead)
    <3>1. Len(all) <= Len(lead) /\ Len(all) = n + Len(b)
      BY <2>2, <2>3
    <3> QED BY <2>2, <3>1
  <2>5. \A i \in 1..n : i \in 1..Len(all)
    BY <2>2
  <2>6. Starts(log, lead)
    BY <2>1, <2>2, <2>3, <2>4, <2>5 DEF Starts
  <2> QED BY <1>1, <1>3, <2>6 DEF Follows
<1> QED BY <1>2, <1>3

--------------------------------------------------------------------------------
(* What the operations keep of the entries *)

\* Either is in its session, or is about to be.
Linked(ph, ch) == ph = "Accept" \/ ch # << >>

\* The leader tells what it has more.
LEMMA LeaderTells ==
    ASSUME NEW lead, NEW own, NEW log, NEW st, NEW ph, NEW ch, Contents(lead, own, log, st, ph, ch),
           Sound(st), LinkOK(ph, ch, st.cache), Linked(ph, ch),
           NEW lead2, NEW own2, Tied(lead2, own2), Quiet(own2),
           Later(lead, own.cache.stopsign, lead2, own2.cache.stopsign),
           NEW m, Carries(m, End(lead, own.cache.stopsign), End(lead2, own2.cache.stopsign), lead2, own2.cache.stopsign)
    PROVE  Contents(lead2, own2, log, st, ph, ch \o <<m>>)
<1>1. PICK led, led2, d, b, all, e, r, fc :
          /\ led = own.cache.stopsign /\ led2 = own2.cache.stopsign /\ d = st.cache.decided /\ b = st.cache.batch
          /\ all = log \o b /\ e = st.cache.stopsign /\ r = st.cache.round /\ fc = st.cache
    OBVIOUS
<1>2. Has(lead, led, log, st) /\ Reaches(lead, led, log, st, ph, ch)
    BY <1>1, Zenon DEF Contents
<1>3. log \in Seq(Commands) /\ b \in Seq(Commands) /\ d \in Nat /\ all \in Seq(Commands)
  <2>1. log \in Seq(Commands)
    BY <1>2, Zenon DEF Has, Tied, Behind
  <2>2. b \in Seq(Commands) /\ d \in Nat
    BY <1>1, SoundNumbers
  <2> QED BY <1>1, <2>1, <2>2, ConcatProperties
<1>4. Later(lead, led, lead2, led2)
    BY <1>1
<1>5. Has(lead2, led2, log, st)
  <2>1. /\ Tied(log, st) /\ Quiet(st) /\ Agree(log, lead, led, d)
        /\ r = Round => Follows(all, e, lead, led)
    BY <1>1, <1>2, Zenon DEF Has
  <2>2. Agree(log, lead2, led2, d)
    BY <1>3, <1>4, <2>1, AgreeStays
  <2>3. r = Round => Follows(all, e, lead2, led2)
    BY <1>3, <1>4, <2>1, FollowsStays
  <2> QED BY <1>1, <2>1, <2>2, <2>3, Zenon DEF Has
<1>6. PICK count, ch2 : count = Count(log, st) /\ ch2 = ch \o <<m>>
    OBVIOUS
<1>7. /\ ph = "Prepare" => b = << >>
      /\ ph = "Old" => r # Round
      /\ Chain(ph, ch, count, lead, led)
      /\ ph = "Prepare" /\ ch # << >> /\ Head(ch).type = "AcceptSync" => SyncHas(Head(ch), log)
    BY <1>1, <1>2, <1>6, Zenon DEF Reaches
<1>8. Chain(ph, ch2, count, lead2, led2)
  <2>1. LinkOK(ph, ch, fc) /\ (ph = "Accept" \/ ch # << >>)
    BY <1>1 DEF Linked
  <2>2. Carries(m, End(lead, led), End(lead2, led2), lead2, led2)
    BY <1>1
  <2> QED BY <1>4, <1>6, <1>7, <2>1, <2>2, ChainSends
<1>9. ch # << >> => Head(ch2) = Head(ch)
  <2>1. PICK S : ch \in Seq(S)
    BY DEF LinkOK
  <2>2. PICK T : T = S \cup {m}
    OBVIOUS
  <2>3. ch \in Seq(T) /\ <<m>> \in Seq(T)
    BY <2>1, <2>2
  <2> QED BY <1>6, <2>3
<1>10. ph = "Prepare" => ch # << >>
    BY DEF Linked
<1>11. ph = "Prepare" /\ ch2 # << >> /\ Head(ch2).type = "AcceptSync" => SyncHas(Head(ch2), log)
    BY <1>7, <1>9, <1>10
<1>12. Reaches(lead2, led2, log, st, ph, ch2)
    BY <1>1, <1>6, <1>7, <1>8, <1>11, Zenon DEF Reaches
<1> QED BY <1>1, <1>5, <1>6, <1>12, Zenon DEF Contents

\* Nobody is told what it has more, or there is nothing to tell.
LEMMA LeaderGoesOn ==
    ASSUME NEW lead, NEW own, NEW log, NEW st, NEW ph, NEW ch, Contents(lead, own, log, st, ph, ch),
           Sound(st), NEW lead2, NEW own2, Tied(lead2, own2), Quiet(own2),
           Later(lead, own.cache.stopsign, lead2, own2.cache.stopsign),
           ~Linked(ph, ch) \/ (lead2 = lead /\ own2.cache.stopsign = own.cache.stopsign)
    PROVE  Contents(lead2, own2, log, st, ph, ch)
<1>1. PICK led, led2, d, b, all, e, r :
          /\ led = own.cache.stopsign /\ led2 = own2.cache.stopsign /\ d = st.cache.decided /\ b = st.cache.batch
          /\ all = log \o b /\ e = st.cache.stopsign /\ r = st.cache.round
    OBVIOUS
<1>2. Has(lead, led, log, st) /\ Reaches(lead, led, log, st, ph, ch)
    BY <1>1, Zenon DEF Contents
<1>3. log \in Seq(Commands) /\ b \in Seq(Commands) /\ d \in Nat /\ all \in Seq(Commands)
  <2>1. log \in Seq(Commands)
    BY <1>2, Zenon DEF Has, Tied, Behind
  <2>2. b \in Seq(Commands) /\ d \in Nat
    BY <1>1, SoundNumbers
  <2> QED BY <1>1, <2>1, <2>2, ConcatProperties
<1>4. Later(lead, led, lead2, led2)
    BY <1>1
<1>5. Has(lead2, led2, log, st)
  <2>1. /\ Tied(log, st) /\ Quiet(st) /\ Agree(log, lead, led, d)
        /\ r = Round => Follows(all, e, lead, led)
    BY <1>1, <1>2, Zenon DEF Has
  <2>2. Agree(log, lead2, led2, d)
    BY <1>3, <1>4, <2>1, AgreeStays
  <2>3. r = Round => Follows(all, e, lead2, led2)
    BY <1>3, <1>4, <2>1, FollowsStays
  <2> QED BY <1>1, <2>1, <2>2, <2>3, Zenon DEF Has
<1>6. PICK count : count = Count(log, st)
    OBVIOUS
<1>7. /\ ph = "Prepare" => b = << >>
      /\ ph = "Old" => r # Round
      /\ Chain(ph, ch, count, lead, led)
      /\ ph = "Prepare" /\ ch # << >> /\ Head(ch).type = "AcceptSync" => SyncHas(Head(ch), log)
    BY <1>1, <1>2, <1>6, Zenon DEF Reaches
<1>8. Chain(ph, ch, count, lead2, led2)
  <2>1. CASE ~Linked(ph, ch)
    BY <2>1 DEF Chain, Linked
  <2>2. CASE lead2 = lead /\ led2 = led
    BY <1>7, <2>2
  <2> QED BY <1>1, <2>1, <2>2
<1>9. Reaches(lead2, led2, log, st, ph, ch)
    BY <1>1, <1>6, <1>7, <1>8, Zenon DEF Reaches
<1> QED BY <1>1, <1>5, <1>9, Zenon DEF Contents

\* What Send does
Sent(ph, ch, msgs) == IF Linked(ph, ch) THEN ch \o msgs ELSE ch

\* The leader flushes entries (send_acceptdecide).
LEMMA LeaderFlushes ==
    ASSUME NEW lead, NEW own, NEW log, NEW st, NEW ph, NEW ch, Contents(lead, own, log, st, ph, ch),
           Sound(st), LinkOK(ph, ch, st.cache), NEW lead2, NEW own2, Tied(lead2, own2), Quiet(own2),
           NEW es \in Seq(Commands), lead2 = lead \o es, own2.cache.stopsign = own.cache.stopsign,
           own.cache.stopsign => es = << >>, NEW d
    PROVE  Contents(lead2, own2, log, st, ph, Sent(ph, ch, AcceptDecide(es, d)))
<1>1. lead \in Seq(Commands)
    BY Zenon DEF Contents, Tied, Behind
<1>2. CASE es = << >>
  <2>1. lead2 = lead
    BY <1>1, <1>2, ConcatEmptySeq
  <2>2. Later(lead, own.cache.stopsign, lead2, own2.cache.stopsign)
    BY <1>1, <2>1, LaterGrown
  <2>3. Contents(lead2, own2, log, st, ph, ch)
    BY <2>1, <2>2, LeaderGoesOn
  <2>4. Sent(ph, ch, AcceptDecide(es, d)) = ch
    <3>1. AcceptDecide(es, d) = << >>
      BY <1>2 DEF AcceptDecide
    <3>2. PICK S : ch \in Seq(S)
      BY DEF LinkOK
    <3>3. ch \o << >> = ch
      BY <3>2, ConcatEmptySeq
    <3> QED BY <3>1, <3>3 DEF Sent
  <2> QED BY <2>3, <2>4
<1>3. CASE es # << >>
  <2>1. ~own.cache.stopsign
    BY <1>3
  <2>2. PICK n, u, q : n = Len(lead) /\ u = Len(lead2) /\ q = Len(es)
    OBVIOUS
  <2>3. /\ n \in Nat /\ q \in Nat /\ u = n + q /\ lead2 \in Seq(Commands)
        /\ \A i \in 1..(n + q) : lead2[i] = IF i <= n THEN lead[i] ELSE es[i - n]
    BY <1>1, <2>2, ConcatProperties, LenProperties
  <2>4. Later(lead, own.cache.stopsign, lead2, own2.cache.stopsign)
    <3>1. n <= u /\ \A i \in 1..n : i \in 1..(n + q) /\ i <= n
      BY <2>3
    <3>2. Starts(lead, lead2)
      BY <2>2, <2>3, <3>1 DEF Starts
    <3> QED BY <1>1, <2>1, <2>3, <3>2 DEF Later
  <2>5. CASE Linked(ph, ch)
    <3>1. PICK m : m = [type |-> "AcceptDecide", entries |-> es, decided |-> d]
      OBVIOUS
    <3>2. m.type = "AcceptDecide" /\ m.entries = es
      BY <3>1
    <3>3. \A i \in 1..q : es[i] = lead2[n + i]
      <4> TAKE i \in 1..q
      <4>1. PICK j : j = n + i
        OBVIOUS
      <4>2. j \in 1..(n + q) /\ ~(j <= n) /\ j - n = i
        BY <2>3, <4>1
      <4> QED BY <2>3, <4>1, <4>2
    <3>4. End(lead, own.cache.stopsign) = n /\ End(lead2, own2.cache.stopsign) = u
      BY <2>1, <2>2, <2>3 DEF End, Ss
    <3>5. Carries(m, n, u, lead2, own2.cache.stopsign)
      BY <2>2, <2>3, <3>2, <3>3 DEF Carries
    <3>6. Contents(lead2, own2, log, st, ph, ch \o <<m>>)
      BY <2>4, <2>5, <3>4, <3>5, LeaderTells
    <3> QED BY <1>3, <2>5, <3>1, <3>6 DEF Sent, AcceptDecide
  <2>6. CASE ~Linked(ph, ch)
    <3>1. Contents(lead2, own2, log, st, ph, ch)
      BY <2>4, <2>6, LeaderGoesOn
    <3> QED BY <2>6, <3>1 DEF Sent
  <2> QED BY <2>5, <2>6
<1> QED BY <1>2, <1>3

\* The leader appends the stop sign, or decides.
LEMMA LeaderSigns ==
    ASSUME NEW lead, NEW own, NEW log, NEW st, NEW ph, NEW ch, Contents(lead, own, log, st, ph, ch),
           Sound(st), LinkOK(ph, ch, st.cache), NEW own2, Tied(lead, own2), Quiet(own2)
    PROVE  /\ ~own.cache.stopsign /\ own2.cache.stopsign =>
                  Contents(lead, own2, log, st, ph, Sent(ph, ch, <<AcceptStopSign>>))
           /\ own2.cache.stopsign = own.cache.stopsign =>
                  \A d : Contents(lead, own2, log, st, ph, Sent(ph, ch, <<Decide(d)>>))
<1>1. lead \in Seq(Commands)
    BY Zenon DEF Contents, Tied, Behind
<1>2. ASSUME ~own.cache.stopsign, own2.cache.stopsign
      PROVE  Contents(lead, own2, log, st, ph, Sent(ph, ch, <<AcceptStopSign>>))
  <2>1. Later(lead, own.cache.stopsign, lead, own2.cache.stopsign)
    BY <1>1, <1>2, LaterGrown
  <2>2. CASE Linked(ph, ch)
    <3>1. PICK m : m = AcceptStopSign
      OBVIOUS
    <3>2. m.type = "AcceptStopSign"
      BY <3>1 DEF AcceptStopSign
    <3>3. End(lead, own.cache.stopsign) = Len(lead) /\ End(lead, own2.cache.stopsign) = Len(lead) + 1
      BY <1>1, <1>2, LenProperties DEF End, Ss
    <3>4. Carries(m, Len(lead), Len(lead) + 1, lead, own2.cache.stopsign)
      BY <1>2, <3>2 DEF Carries
    <3>5. Contents(lead, own2, log, st, ph, ch \o <<m>>)
      BY <2>1, <2>2, <3>3, <3>4, LeaderTells
    <3> QED BY <2>2, <3>1, <3>5 DEF Sent
  <2>3. CASE ~Linked(ph, ch)
    <3>1. Contents(lead, own2, log, st, ph, ch)
      BY <2>1, <2>3, LeaderGoesOn
    <3> QED BY <2>3, <3>1 DEF Sent
  <2> QED BY <2>2, <2>3
<1>3. ASSUME own2.cache.stopsign = own.cache.stopsign, NEW d
      PROVE  Contents(lead, own2, log, st, ph, Sent(ph, ch, <<Decide(d)>>))
  <2>1. Later(lead, own.cache.stopsign, lead, own2.cache.stopsign)
    BY <1>1, <1>3, LaterGrown
  <2>2. CASE Linked(ph, ch)
    <3>1. PICK m : m = Decide(d)
      OBVIOUS
    <3>2. m.type = "Decide"
      BY <3>1 DEF Decide
    <3>3. End(lead, own2.cache.stopsign) = End(lead, own.cache.stopsign)
      BY <1>3
    <3>4. Carries(m, End(lead, own.cache.stopsign), End(lead, own2.cache.stopsign), lead, own2.cache.stopsign)
      BY <3>2, <3>3 DEF Carries
    <3>5. Contents(lead, own2, log, st, ph, ch \o <<m>>)
      BY <2>1, <2>2, <3>4, LeaderTells
    <3> QED BY <2>2, <3>1, <3>5 DEF Sent
  <2>3. CASE ~Linked(ph, ch)
    <3>1. Contents(lead, own2, log, st, ph, ch)
      BY <2>1, <2>3, LeaderGoesOn
    <3> QED BY <2>3, <3>1 DEF Sent
  <2> QED BY <2>2, <2>3
<1> QED BY <1>2, <1>3

\* Compaction at either server
LEMMA CompactionKeeps ==
    ASSUME NEW lead, NEW own, NEW log, NEW st, NEW ph, NEW ch, Contents(lead, own, log, st, ph, ch), Sound(st)
    PROVE  /\ \A own2 : Tied(lead, own2) /\ Kept(own, own2) => Contents(lead, own2, log, st, ph, ch)
           /\ \A st2 : Tied(log, st2) /\ Kept(st, st2) => Contents(lead, own, log, st2, ph, ch)
<1>1. ASSUME NEW own2, Tied(lead, own2), Kept(own, own2)
      PROVE  Contents(lead, own2, log, st, ph, ch)
  <2>1. own2.cache.stopsign = own.cache.stopsign /\ own2.cache.batch = own.cache.batch
    BY <1>1, Zenon DEF Kept
  <2>2. Quiet(own2)
    BY <2>1, Zenon DEF Contents, Quiet
  <2>3. Has(lead, own2.cache.stopsign, log, st) /\ Reaches(lead, own2.cache.stopsign, log, st, ph, ch)
    BY <2>1, Zenon DEF Contents
  <2> QED BY <1>1, <2>2, <2>3, Zenon DEF Contents
<1>2. ASSUME NEW st2, Tied(log, st2), Kept(st, st2)
      PROVE  Contents(lead, own, log, st2, ph, ch)
  <2>1. /\ st2.cache.batch = st.cache.batch /\ st2.cache.stopsign = st.cache.stopsign
        /\ st2.cache.decided = st.cache.decided /\ st2.cache.round = st.cache.round
    BY <1>2, Zenon DEF Kept
  <2>2. Quiet(st2)
    BY <2>1, Zenon DEF Contents, Has, Quiet
  <2>3. Has(lead, own.cache.stopsign, log, st2)
    BY <1>2, <2>1, <2>2, Zenon DEF Contents, Has
  <2>4. Count(log, st2) = Count(log, st)
    BY <2>1, Zenon DEF Count
  <2>5. Reaches(lead, own.cache.stopsign, log, st2, ph, ch)
    BY <2>1, <2>4, Zenon DEF Contents, Reaches
  <2> QED BY <2>3, <2>5, Zenon DEF Contents
<1> QED BY <1>1, <1>2

\* A follower that is not in its session
LEMMA FollowerElse ==
    ASSUME NEW lead, NEW own, NEW log, NEW st, NEW ph, NEW ch, Contents(lead, own, log, st, ph, ch),
           NEW log2, NEW st2, Has(lead, own.cache.stopsign, log2, st2)
    PROVE  /\ ph = "Old" /\ st2.cache.round # Round => Contents(lead, own, log2, st2, ph, ch)
           /\ Contents(lead, own, log2, st2, "Recover", << >>)
           /\ st2.cache.batch = << >> => Contents(lead, own, log2, st2, "Prepare", << >>)
<1>1. PICK led, c, c2 : led = own.cache.stopsign /\ c = Count(log, st) /\ c2 = Count(log2, st2)
    OBVIOUS
<1>2. Tied(lead, own) /\ Quiet(own) /\ Reaches(lead, led, log, st, ph, ch)
    BY <1>1, Zenon DEF Contents
<1>3. ASSUME ph = "Old", st2.cache.round # Round
      PROVE  Contents(lead, own, log2, st2, ph, ch)
  <2>1. Chain(ph, ch, c, lead, led) /\ ph # "Accept" /\ ph # "Prepare"
    BY <1>1, <1>2, <1>3 DEF Reaches
  <2>2. Chain(ph, ch, c2, lead, led)
    BY <2>1, ChainElse
  <2>3. Reaches(lead, led, log2, st2, ph, ch)
    BY <1>1, <1>3, <2>1, <2>2, Zenon DEF Reaches
  <2> QED BY <1>1, <1>2, <2>3, Zenon DEF Contents
<1>4. Chain("Recover", << >>, c2, lead, led) /\ Chain("Prepare", << >>, c2, lead, led)
    BY ChainElse
<1>5. Reaches(lead, led, log2, st2, "Recover", << >>)
    BY <1>1, <1>4 DEF Reaches
<1>6. st2.cache.batch = << >> => Reaches(lead, led, log2, st2, "Prepare", << >>)
    BY <1>1, <1>4 DEF Reaches
<1> QED BY <1>1, <1>2, <1>3, <1>5, <1>6, Zenon DEF Contents

\* Under an earlier leader: more entries, or a stop sign behind them
LEMMA HasBefore ==
    ASSUME NEW lead, NEW led, NEW log, NEW st, Has(lead, led, log, st), Sound(st), st.cache.round # Round,
           NEW log2, NEW st2, Tied(log2, st2), Quiet(st2), st2.cache.round = st.cache.round,
           st2.cache.decided = st.cache.decided, Starts(log, log2), st.cache.stopsign => log2 = log
    PROVE  Has(lead, led, log2, st2)
<1>1. PICK d, r : d = st.cache.decided /\ r = st.cache.round
    OBVIOUS
<1>2. d \in Nat /\ d <= Len(log) + Ss(st.cache.stopsign) /\ log \in Seq(Commands) /\ Len(log) \in Nat
    BY <1>1, SoundNumbers, TiedCounts DEF Has
<1>3. log2 \in Seq(Commands) /\ Agree(log, lead, led, d)
    BY <1>1, Zenon DEF Has, Tied, Behind
<1>4. Agree(log2, lead, led, d)
  <2>1. CASE st.cache.stopsign
    BY <1>3, <2>1
  <2>2. CASE ~st.cache.stopsign
    <3>1. d <= Len(log)
      BY <1>2, <2>2 DEF Ss
    <3> QED BY <1>2, <1>3, <3>1, AgreeGrows
  <2> QED BY <2>1, <2>2
<1> QED BY <1>1, <1>4, Zenon DEF Has

\* The same entries, some of which may be flushed now
LEMMA HasFlushed ==
    ASSUME NEW lead \in Seq(Commands), NEW led, NEW log, NEW st, Has(lead, led, log, st), Sound(st),
           NEW log2, NEW st2, Sound(st2), Tied(log2, st2), Moved(log, st.cache.batch, log2, st2.cache.batch),
           st2.cache.round = st.cache.round, st2.cache.stopsign = st.cache.stopsign,
           st.cache.round # Round => st2.cache.decided = st.cache.decided
    PROVE  Has(lead, led, log2, st2) /\ Count(log2, st2) = Count(log, st)
<1>1. PICK b, b2, e : b = st.cache.batch /\ b2 = st2.cache.batch /\ e = st.cache.stopsign
    OBVIOUS
<1>2. log \in Seq(Commands) /\ b \in Seq(Commands) /\ Moved(log, b, log2, b2)
    BY <1>1, SoundNumbers, Zenon DEF Has, Tied, Behind
<1>3. log2 \o b2 = log \o b /\ log2 \in Seq(Commands) /\ b2 \in Seq(Commands) /\ Starts(log, log2)
    BY <1>2, MovedAll, Zenon
<1>4. Quiet(st) /\ (st.cache.round = Round => Follows(log \o b, e, lead, led))
    BY <1>1, Zenon DEF Has
<1>5. e => log2 = log /\ b2 = << >>
  <2>1. e => b = << >>
    BY <1>1, <1>4, Zenon DEF Quiet
  <2> QED BY <1>2, <2>1, ConcatEmptySeq DEF Moved
<1>6. Quiet(st2)
    BY <1>1, <1>5, Zenon DEF Quiet
<1>7. Has(lead, led, log2, st2)
  <2>1. CASE st.cache.round = Round
    <3>1. Follows(log2 \o st2.cache.batch, st2.cache.stopsign, lead, led)
      BY <1>1, <1>3, <1>4, <2>1, Zenon
    <3> QED BY <1>6, <3>1, HasInRound
  <2>2. CASE st.cache.round # Round
    BY <1>1, <1>3, <1>5, <1>6, <2>2, HasBefore
  <2> QED BY <2>1, <2>2
<1> QED BY <1>1, <1>3, <1>7, Zenon DEF Count

\* A restart loses the batch.
LEMMA OpenTied ==
    ASSUME NEW st, Sound(st), NEW lg, Tied(lg, st), NEW new, new = Opened(st.disk)
    PROVE  /\ Tied(lg, new) /\ new.cache.batch = << >> /\ new.cache.stopsign = st.cache.stopsign
           /\ new.cache.decided = st.cache.decided /\ new.cache.round = st.cache.round
<1>1. PICK log, snap, b, r, d, a, k, e :
          st = StorageOf(log, snap, b, r, d, a, k, e) /\ Counts(log, b, r, d, a, k, e)
    BY SoundParts
<1>2. /\ st.cache.decided = d /\ st.cache.compacted = k /\ st.cache.stopsign = e /\ st.cache.round = r
      /\ st.disk.memory.log = log /\ st.disk = DiskOf(log, k, r, d, e, snap)
    BY <1>1, StorageFields
<1>3. log \in Seq(Commands) /\ k \in Nat
    BY <1>1 DEF Counts
<1>4. PICK v, none : v = Len(log) + k + Ss(e) /\ none = << >>
    OBVIOUS
<1>5. new = StorageOf(log, snap, none, r, d, v, k, e)
    BY <1>2, <1>3, <1>4, OpenedFrom
<1>6. /\ new.disk.memory.log = log /\ new.cache.batch = none /\ new.cache.compacted = k
      /\ new.cache.stopsign = e /\ new.cache.decided = d /\ new.cache.round = r
    BY <1>5, StorageFields
<1>7. Tied(lg, new)
    BY <1>2, <1>6, Zenon DEF Tied
<1> QED BY <1>2, <1>4, <1>6, <1>7

\* What was flushed is still the leader's.
LEMMA HasOpened ==
    ASSUME NEW lead \in Seq(Commands), NEW led, NEW log, NEW st, Has(lead, led, log, st), Sound(st)
    PROVE  Has(lead, led, log, Opened(st.disk))
<1>1. PICK new, b, e : new = Opened(st.disk) /\ b = st.cache.batch /\ e = st.cache.stopsign
    OBVIOUS
<1>2. Tied(log, st) /\ Quiet(st) /\ Agree(log, lead, led, st.cache.decided)
      /\ (st.cache.round = Round => Follows(log \o b, e, lead, led))
    BY <1>1, Zenon DEF Has
<1>3. /\ Tied(log, new) /\ new.cache.batch = << >> /\ new.cache.stopsign = e
      /\ new.cache.decided = st.cache.decided /\ new.cache.round = st.cache.round
    BY <1>1, <1>2, OpenTied
<1>4. Quiet(new)
    BY <1>3, Zenon DEF Quiet
<1>5. new.cache.round = Round => Follows(log \o new.cache.batch, new.cache.stopsign, lead, led)
  <2>1. log \in Seq(Commands) /\ b \in Seq(Commands) /\ (e => b = << >>)
    BY <1>1, <1>2, SoundNumbers, Zenon DEF Tied, Behind, Quiet
  <2>2. Follows(log \o b, e, lead, led) => Follows(log \o << >>, e, lead, led)
    BY <2>1, FollowsDrops
  <2> QED BY <1>2, <1>3, <2>2, Zenon
<1> QED BY <1>1, <1>2, <1>3, <1>4, <1>5, Zenon DEF Has

\* A follower in its session gets what it needs to go on with.
LEMMA AcceptsInRound ==
    ASSUME NEW lead, NEW own, NEW log, NEW st, NEW ph, NEW ch, Contents(lead, own, log, st, ph, ch),
           NEW log2, NEW st2, Sound(st2), Tied(log2, st2), Quiet(st2), st2.cache.round = Round,
           Follows(log2 \o st2.cache.batch, st2.cache.stopsign, lead, own.cache.stopsign),
           NEW ch2, Chain("Accept", ch2, Count(log2, st2), lead, own.cache.stopsign)
    PROVE  Contents(lead, own, log2, st2, "Accept", ch2)
<1>1. PICK led : led = own.cache.stopsign
    OBVIOUS
<1>2. Tied(lead, own) /\ Quiet(own) /\ lead \in Seq(Commands)
    BY Zenon DEF Contents, Tied, Behind
<1>3. Has(lead, led, log2, st2)
    BY <1>1, <1>2, HasInRound
<1>4. Reaches(lead, led, log2, st2, "Accept", ch2)
    BY <1>1 DEF Reaches
<1> QED BY <1>1, <1>2, <1>3, <1>4, Zenon DEF Contents

\* handle_acceptdecide
LEMMA AcceptsEntries ==
    ASSUME NEW lead, NEW own, NEW log, NEW st, NEW ch, Contents(lead, own, log, st, "Accept", ch), Sound(st),
           st.cache.round = Round, LinkOK("Accept", ch, st.cache), ch # << >>, NEW m, m = Head(ch),
           m.type = "AcceptDecide", NEW log2, NEW st2, Sound(st2), Tied(log2, st2),
           Moved(log, st.cache.batch \o m.entries, log2, st2.cache.batch),
           st2.cache.round = Round, st2.cache.stopsign = st.cache.stopsign
    PROVE  Contents(lead, own, log2, st2, "Accept", Tail(ch))
<1>1. PICK led, b, b2, e, es, count :
          /\ led = own.cache.stopsign /\ b = st.cache.batch /\ b2 = st2.cache.batch /\ e = st.cache.stopsign
          /\ es = m.entries /\ count = Count(log, st)
    OBVIOUS
<1>2. MsgOK(m)
    BY LinkReceives
<1>3. es \in Seq(Commands)
    BY <1>1, <1>2 DEF MsgOK
<1>4. log \in Seq(Commands) /\ b \in Seq(Commands) /\ lead \in Seq(Commands)
    BY <1>1, SoundNumbers, Zenon DEF Contents, Has, Tied, Behind
<1>5. PICK all, c, all2 : all = log \o b /\ c = b \o es /\ all2 = log2 \o b2
    OBVIOUS
<1>6. Follows(all, e, lead, led) /\ Chain("Accept", ch, count, lead, led)
    BY <1>1, <1>5, Zenon DEF Contents, Has, Reaches
<1>7. PICK from \in Nat, to \in Nat :
          /\ Carries(m, from, to, lead, led) /\ from = count /\ Chain("Accept", Tail(ch), to, lead, led)
  <2>1. \E from \in Nat, to \in Nat :
              /\ Carries(Head(ch), from, to, lead, led) /\ ("Accept" = "Accept" => from = count)
              /\ Chain("Accept", Tail(ch), to, lead, led)
    BY <1>6, ChainReceives
  <2> QED BY <2>1
<1>8. all2 = all \o es /\ all2 \in Seq(Commands) /\ all \in Seq(Commands)
  <2>1. c \in Seq(Commands) /\ all \in Seq(Commands)
    BY <1>3, <1>4, <1>5, ConcatProperties
  <2>2. Moved(log, c, log2, b2)
    BY <1>1, <1>5
  <2>3. all2 = log \o c
    <3>1. log2 \o b2 = log \o c /\ log2 \in Seq(Commands) /\ b2 \in Seq(Commands) /\ Starts(log, log2)
      BY <1>4, <2>1, <2>2, MovedAll, Zenon
    <3> QED BY <1>5, <3>1
  <2>4. (log \o b) \o es = log \o (b \o es)
    BY <1>3, <1>4, ConcatAssociative
  <2>5. all2 = all \o es
    BY <1>5, <2>3, <2>4
  <2> QED BY <1>3, <2>1, <2>5, ConcatProperties
<1>9. PICK n, q, l : n = Len(all) /\ q = Len(es) /\ l = Len(lead)
    OBVIOUS
<1>10. /\ n \in Nat /\ q \in Nat /\ l \in Nat /\ Len(all2) = n + q
       /\ \A i \in 1..(n + q) : all2[i] = IF i <= n THEN all[i] ELSE es[i - n]
  <2>1. /\ Len(all \o es) = Len(all) + Len(es)
        /\ \A i \in 1..(Len(all) + Len(es)) : (all \o es)[i] = IF i <= Len(all) THEN all[i] ELSE es[i - Len(all)]
    BY <1>3, <1>8, ConcatProperties
  <2>2. n \in Nat /\ q \in Nat /\ l \in Nat
    BY <1>3, <1>4, <1>8, <1>9, LenProperties
  <2> QED BY <1>8, <1>9, <2>1, <2>2
<1>11. from = n + Ss(e)
    BY <1>1, <1>5, <1>7, <1>9 DEF Count
<1>12. to = from + q /\ to <= l /\ \A i \in 1..q : es[i] = lead[from + i]
    BY <1>1, <1>7, <1>9 DEF Carries
<1>13. n <= l /\ (\A i \in 1..n : all[i] = lead[i]) /\ (e => n = l)
    BY <1>6, <1>9 DEF Follows, Starts
<1>14. ~e
  <2> SUFFICES ASSUME e PROVE FALSE
    OBVIOUS
  <2>1. from = n + 1 /\ n = l
    BY <1>11, <1>13 DEF Ss
  <2> QED BY <1>10, <1>12, <2>1
<1>15. from = n /\ to = n + q
    BY <1>10, <1>11, <1>12, <1>14 DEF Ss
<1>16. ASSUME NEW i \in 1..(n + q)
       PROVE  all2[i] = lead[i]
  <2>1. CASE i <= n
    <3>1. i \in 1..n
      BY <1>10, <2>1
    <3> QED BY <1>10, <1>13, <2>1, <3>1
  <2>2. CASE ~(i <= n)
    <3>1. PICK x : x = i - n
      OBVIOUS
    <3>2. x \in 1..q /\ n + x = i
      BY <1>10, <2>2, <3>1
    <3>3. es[x] = lead[i]
      BY <1>12, <1>15, <3>2
    <3> QED BY <1>10, <2>2, <3>1, <3>3
  <2> QED BY <2>1, <2>2
<1>17. Starts(all2, lead)
  <2>1. Len(all2) <= Len(lead)
    BY <1>9, <1>10, <1>12, <1>15
  <2> QED BY <1>10, <1>16, <2>1 DEF Starts
<1>18. ~st2.cache.stopsign
    BY <1>1, <1>14
<1>19. Follows(log2 \o b2, st2.cache.stopsign, lead, led) /\ Quiet(st2)
    BY <1>5, <1>17, <1>18, Zenon DEF Follows, Quiet
<1>20. Count(log2, st2) = to
    BY <1>1, <1>5, <1>10, <1>15, <1>18 DEF Count, Ss
<1>21. Chain("Accept", Tail(ch), Count(log2, st2), lead, led)
    BY <1>7, <1>20
<1> QED BY <1>1, <1>19, <1>21, AcceptsInRound

\* handle_decide, handle_accept_stopsign, flush_batch_follower
LEMMA AcceptsRest ==
    ASSUME NEW lead, NEW own, NEW log, NEW st, NEW ch, Contents(lead, own, log, st, "Accept", ch), Sound(st),
           st.cache.round = Round, LinkOK("Accept", ch, st.cache),
           NEW log2, NEW st2, Sound(st2), Tied(log2, st2), Moved(log, st.cache.batch, log2, st2.cache.batch),
           st2.cache.round = Round
    PROVE  /\ st2.cache.stopsign = st.cache.stopsign => Contents(lead, own, log2, st2, "Accept", ch)
           /\ ch # << >> /\ Head(ch).type = "Decide" /\ st2.cache.stopsign = st.cache.stopsign =>
                  Contents(lead, own, log2, st2, "Accept", Tail(ch))
           /\ ch # << >> /\ Head(ch).type = "AcceptStopSign" /\ st2.cache.stopsign /\ st2.cache.batch = << >> =>
                  Contents(lead, own, log2, st2, "Accept", Tail(ch))
<1>1. PICK led, b, b2, e, count :
          /\ led = own.cache.stopsign /\ b = st.cache.batch /\ b2 = st2.cache.batch /\ e = st.cache.stopsign
          /\ count = Count(log, st)
    OBVIOUS
<1>2. log \in Seq(Commands) /\ b \in Seq(Commands) /\ lead \in Seq(Commands) /\ Moved(log, b, log2, b2)
    BY <1>1, SoundNumbers, Zenon DEF Contents, Has, Tied, Behind
<1>3. PICK all : all = log \o b
    OBVIOUS
<1>4. Follows(all, e, lead, led) /\ Chain("Accept", ch, count, lead, led) /\ (e => b = << >>)
    BY <1>1, <1>3, Zenon DEF Contents, Has, Reaches, Quiet
<1>5. log2 \o b2 = all
  <2>1. log2 \o b2 = log \o b /\ log2 \in Seq(Commands) /\ b2 \in Seq(Commands) /\ Starts(log, log2)
    BY <1>2, MovedAll, Zenon
  <2> QED BY <1>3, <2>1
<1>6. b = << >> => b2 = << >>
    BY <1>2, ConcatEmptySeq DEF Moved
<1>7. ASSUME st2.cache.stopsign = e
      PROVE  Quiet(st2) /\ Follows(log2 \o b2, st2.cache.stopsign, lead, led) /\ Count(log2, st2) = count
  <2>1. Quiet(st2)
    BY <1>1, <1>4, <1>6, <1>7, Zenon DEF Quiet
  <2>2. Follows(log2 \o b2, st2.cache.stopsign, lead, led)
    BY <1>4, <1>5, <1>7
  <2>3. Count(log2, st2) = count
    BY <1>1, <1>3, <1>5, <1>7, Zenon DEF Count
  <2> QED BY <2>1, <2>2, <2>3
<1>8. ASSUME st2.cache.stopsign = e
      PROVE  Contents(lead, own, log2, st2, "Accept", ch)
  <2>1. Chain("Accept", ch, Count(log2, st2), lead, led)
    BY <1>4, <1>7, <1>8
  <2> QED BY <1>1, <1>7, <1>8, <2>1, AcceptsInRound
<1>9. ASSUME ch # << >>
      PROVE  \E from \in Nat, to \in Nat :
                 Carries(Head(ch), from, to, lead, led) /\ from = count /\ Chain("Accept", Tail(ch), to, lead, led)
  <2>1. \E from \in Nat, to \in Nat :
              /\ Carries(Head(ch), from, to, lead, led) /\ ("Accept" = "Accept" => from = count)
              /\ Chain("Accept", Tail(ch), to, lead, led)
    BY <1>4, <1>9, ChainReceives
  <2> QED BY <2>1
<1>10. ASSUME ch # << >>, Head(ch).type = "Decide", st2.cache.stopsign = e
       PROVE  Contents(lead, own, log2, st2, "Accept", Tail(ch))
  <2>1. PICK from \in Nat, to \in Nat :
            Carries(Head(ch), from, to, lead, led) /\ from = count /\ Chain("Accept", Tail(ch), to, lead, led)
    BY <1>9, <1>10
  <2>2. to = count
    BY <1>10, <2>1 DEF Carries
  <2>3. Chain("Accept", Tail(ch), Count(log2, st2), lead, led)
    BY <1>7, <1>10, <2>1, <2>2
  <2> QED BY <1>1, <1>7, <1>10, <2>3, AcceptsInRound
<1>11. ASSUME ch # << >>, Head(ch).type = "AcceptStopSign", st2.cache.stopsign, b2 = << >>
       PROVE  Contents(lead, own, log2, st2, "Accept", Tail(ch))
  <2>1. PICK from \in Nat, to \in Nat :
            Carries(Head(ch), from, to, lead, led) /\ from = count /\ Chain("Accept", Tail(ch), to, lead, led)
    BY <1>9, <1>11
  <2>2. led /\ from = Len(lead) /\ to = from + 1
    BY <1>11, <2>1 DEF Carries
  <2>3. count = Len(all) + Ss(e)
    BY <1>1, <1>3 DEF Count
  <2>4. Len(all) <= Len(lead) /\ (e => Len(all) = Len(lead)) /\ Len(all) \in Nat /\ Starts(all, lead)
    <3>1. all \in Seq(Commands)
      BY <1>2, <1>3, ConcatProperties
    <3> QED BY <1>4, <3>1, LenProperties DEF Follows, Starts
  <2>5. Len(all) = Len(lead)
    <3>1. CASE e
      BY <2>4, <3>1
    <3>2. CASE ~e
      <4>1. Ss(e) = 0
        BY <3>2 DEF Ss
      <4>2. PICK n : n = Len(all)
        OBVIOUS
      <4>3. n \in Nat
        BY <2>4, <4>2
      <4>4. from = count /\ from = Len(lead) /\ count = n + 0
        BY <2>1, <2>2, <2>3, <4>1, <4>2
      <4>5. n + 0 = n
        BY <4>3
      <4>6. Len(lead) = n
        BY <4>4, <4>5, Zenon
      <4> QED BY <4>2, <4>6
    <3> QED BY <3>1, <3>2
  <2>6. Quiet(st2)
    BY <1>1, <1>11, Zenon DEF Quiet
  <2>7. Follows(log2 \o b2, st2.cache.stopsign, lead, led)
    BY <1>5, <2>2, <2>4, <2>5 DEF Follows
  <2>8. Count(log2, st2) = to
    BY <1>1, <1>5, <1>11, <2>2, <2>4, <2>5 DEF Count, Ss
  <2>9. Chain("Accept", Tail(ch), Count(log2, st2), lead, led)
    BY <2>1, <2>8
  <2> QED BY <1>1, <2>6, <2>7, <2>9, AcceptsInRound
<1> QED BY <1>1, <1>8, <1>10, <1>11

--------------------------------------------------------------------------------
(* What every step keeps of the entries *)

\* A batch that is put in a storage, and flushed
LEMMA BatchPut ==
    ASSUME NEW st, Sound(st), NEW c \in Seq(Commands)
    PROVE  PutBatch(st, c).cache.batch = c /\ FlushBatch(PutBatch(st, c)).cache.batch = << >>
<1>1. PICK log, snap, b, r, d, a, k, e :
          st = StorageOf(log, snap, b, r, d, a, k, e) /\ Counts(log, b, r, d, a, k, e)
    BY SoundParts
<1>2. log \in Seq(Commands) /\ k \in Nat
    BY <1>1 DEF Counts
<1>3. PICK new, flushed : new = PutBatch(st, c) /\ flushed = FlushBatch(new)
    OBVIOUS
<1>4. new = StorageOf(log, snap, c, r, d, a, k, e)
    BY <1>1, <1>3, BatchedIn
<1>5. PICK l, v, none : l = log \o c /\ v = a + Len(c) /\ none = << >>
    OBVIOUS
<1>6. flushed = StorageOf(l, snap, none, r, d, v, k, e)
    BY <1>2, <1>3, <1>4, <1>5, FlushedIn
<1>7. new.cache.batch = c
    BY <1>4, StorageFields
<1>8. flushed.cache.batch = none
    BY <1>6, StorageFields
<1> QED BY <1>3, <1>5, <1>7, <1>8

\* What is flushed is what the log takes in.
LEMMA FlushedMoves ==
    ASSUME NEW st, Sound(st), NEW es \in Seq(Commands), NEW new, new = AppendWithBatching(st, es),
           NEW lg \in Seq(Commands), NEW c, c = st.cache.batch \o es, NEW lg2, Moved(lg, c, lg2, new.cache.batch)
    PROVE  Flushed(st, es) \in Seq(Commands) /\ lg2 = lg \o Flushed(st, es)
<1>3. c \in Seq(Commands)
    BY SoundNumbers, ConcatProperties
<1>4. PICK sent, none : sent = Flushed(st, es) /\ none = << >>
    OBVIOUS
<1>5. sent = c \/ sent = none
    BY <1>4, Zenon DEF Flushed
<1>6. none \in Seq(Commands) /\ lg \o none = lg
    BY <1>4, EmptySeq, ConcatEmptySeq
<1>7. [st EXCEPT !.cache.batch = @ \o es] = PutBatch(st, c)
    BY Zenon DEF PutBatch
<1>8. PutBatch(st, c).cache.batch = c /\ FlushBatch(PutBatch(st, c)).cache.batch = none
    BY <1>3, <1>4, BatchPut
<1>9. CASE sent = none
  <2>1. new = PutBatch(st, c)
    BY <1>4, <1>7, <1>9, Zenon DEF AppendWithBatching
  <2>2. new.cache.batch = c
    BY <1>8, <2>1
  <2>3. lg2 = lg
    <3>1. PICK b2 : b2 = new.cache.batch
      OBVIOUS
    <3>2. CASE lg2 = lg \o c /\ b2 = none
      BY <1>6, <2>2, <3>1, <3>2
    <3>3. CASE lg2 = lg /\ b2 = c
      BY <3>3
    <3> QED BY <1>4, <3>1, <3>2, <3>3, Zenon DEF Moved
  <2> QED BY <1>4, <1>6, <1>9, <2>3
<1>10. CASE sent # none
  <2>1. new = FlushBatch(PutBatch(st, c))
    BY <1>4, <1>7, <1>10, Zenon DEF AppendWithBatching
  <2>3. new.cache.batch = none
    BY <1>8, <2>1
  <2>4. sent = c
    BY <1>5, <1>10
  <2>5. lg2 = lg \o c
    <3>1. PICK b2 : b2 = new.cache.batch
      OBVIOUS
    <3>2. CASE lg2 = lg /\ b2 = c
      BY <1>10, <2>3, <2>4, <3>1, <3>2
    <3> QED BY <3>1, <3>2, Zenon DEF Moved
  <2> QED BY <1>3, <1>4, <2>4, <2>5
<1> QED BY <1>9, <1>10

\* A write to one storage, and the history of its log
LEMMA StoredBoth ==
    ASSUME DOMAIN store = Server, DOMAIN logs = Server, NEW s \in Server, NEW st, NEW es, Stored(s, st, es),
           NEW all, all = (logs[s] \o store[s].cache.batch) \o es
    PROVE  /\ DOMAIN logs' = Server /\ store'[s] = st /\ logs'[s] = Prefix(all, Len(all) - Len(st.cache.batch))
           /\ \A q \in Server \ {s} : store'[q] = store[q] /\ logs'[q] = logs[q]
<1>1. store' = [store EXCEPT ![s] = st]
    BY DEF Stored
<1>2. logs' = [logs EXCEPT ![s] = Prefix(all, Len(all) - Len(st.cache.batch))]
    BY DEF Stored
<1>3. PICK lg : lg = Prefix(all, Len(all) - Len(st.cache.batch))
    OBVIOUS
<1>4. logs' = [logs EXCEPT ![s] = lg]
    BY <1>2, <1>3
<1>5. DOMAIN logs' = Server /\ logs'[s] = lg /\ \A q \in Server \ {s} : logs'[q] = logs[q]
    BY <1>4
<1>6. store'[s] = st /\ \A q \in Server \ {s} : store'[q] = store[q]
    BY <1>1
<1> QED BY <1>3, <1>5, <1>6

\* The parts of the invariants
LEMMA InvParts ==
    ASSUME StorageInv
    PROVE  /\ DOMAIN store = Server /\ Sound(store["leader"]) /\ Sound(store["follower"])
           /\ LinkOK(phase, channel, store["follower"].cache) /\ PhaseOK(phase, store["follower"].cache)
           /\ LeaderOK(useSnapshots, store["leader"], acked) /\ AckedOK(store["follower"].cache, acked)
           /\ PromiseOK(phase, promise, channel, store["follower"].cache)
BY DEF StorageInv, Holds

\* A write of the leader: its history, and what stays
LEMMA LeaderWrites ==
    ASSUME StorageInv, ContentsInv, NEW new, NEW es \in Seq(Commands), Extends(store["leader"], new, es),
           Stored("leader", new, es)
    PROVE  /\ store["leader"].cache.batch \o es \in Seq(Commands) /\ Tied(logs'["leader"], new)
           /\ Moved(logs["leader"], store["leader"].cache.batch \o es, logs'["leader"], new.cache.batch)
           /\ logs["leader"] \in Seq(Commands) /\ DOMAIN logs' = Server /\ store'["leader"] = new
           /\ store'["follower"] = store["follower"] /\ logs'["follower"] = logs["follower"]
<1>0. PICK own, lead, c : own = store["leader"] /\ lead = logs["leader"] /\ c = own.cache.batch \o es
    OBVIOUS
<1>1. Sound(own) /\ DOMAIN store = Server
    BY <1>0, InvParts
<1>2. DOMAIN logs = Server /\ Tied(lead, own)
    BY <1>0 DEF ContentsInv, Contents, Has
<1>3. lead \in Seq(Commands)
    BY <1>2, Zenon DEF Tied, Behind
<1>4. PICK all, lg : all = (lead \o own.cache.batch) \o es /\ lg = Prefix(all, Len(all) - Len(new.cache.batch))
    OBVIOUS
<1>5. "leader" \in Server /\ "follower" \in Server \ {"leader"}
    BY DEF Server
<1>6. /\ DOMAIN logs' = Server /\ store'["leader"] = new /\ logs'["leader"] = lg
      /\ \A q \in Server \ {"leader"} : store'[q] = store[q] /\ logs'[q] = logs[q]
    BY <1>0, <1>1, <1>2, <1>4, <1>5, StoredBoth
<1>7. c \in Seq(Commands) /\ Moved(lead, c, lg, new.cache.batch) /\ Tied(lg, new)
  <2>1. Extends(own, new, es)
    BY <1>0
  <2> QED BY <1>0, <1>1, <1>2, <1>4, <2>1, StoredTied
<1>8. store'["follower"] = store["follower"] /\ logs'["follower"] = logs["follower"]
    BY <1>5, <1>6
<1> QED BY <1>0, <1>3, <1>6, <1>7, <1>8, Zenon

\* A write of the follower likewise
LEMMA FollowerWrites ==
    ASSUME StorageInv, ContentsInv, NEW new, NEW es \in Seq(Commands), Extends(store["follower"], new, es),
           Stored("follower", new, es)
    PROVE  /\ store["follower"].cache.batch \o es \in Seq(Commands) /\ Tied(logs'["follower"], new)
           /\ Moved(logs["follower"], store["follower"].cache.batch \o es, logs'["follower"], new.cache.batch)
           /\ logs["follower"] \in Seq(Commands) /\ DOMAIN logs' = Server /\ store'["follower"] = new
           /\ store'["leader"] = store["leader"] /\ logs'["leader"] = logs["leader"]
<1>0. PICK st, log, c : st = store["follower"] /\ log = logs["follower"] /\ c = st.cache.batch \o es
    OBVIOUS
<1>1. Sound(st) /\ DOMAIN store = Server
    BY <1>0, InvParts
<1>2. DOMAIN logs = Server /\ Tied(log, st)
    BY <1>0 DEF ContentsInv, Contents, Has
<1>3. log \in Seq(Commands)
    BY <1>2, Zenon DEF Tied, Behind
<1>4. PICK all, lg : all = (log \o st.cache.batch) \o es /\ lg = Prefix(all, Len(all) - Len(new.cache.batch))
    OBVIOUS
<1>5. "follower" \in Server /\ "leader" \in Server \ {"follower"}
    BY DEF Server
<1>6. /\ DOMAIN logs' = Server /\ store'["follower"] = new /\ logs'["follower"] = lg
      /\ \A q \in Server \ {"follower"} : store'[q] = store[q] /\ logs'[q] = logs[q]
    BY <1>0, <1>1, <1>2, <1>4, <1>5, StoredBoth
<1>7. c \in Seq(Commands) /\ Moved(log, c, lg, new.cache.batch) /\ Tied(lg, new)
  <2>1. Extends(st, new, es)
    BY <1>0
  <2> QED BY <1>0, <1>1, <1>2, <1>4, <2>1, StoredTied
<1>8. store'["leader"] = store["leader"] /\ logs'["leader"] = logs["leader"]
    BY <1>5, <1>6
<1> QED BY <1>0, <1>3, <1>6, <1>7, <1>8, Zenon

\* What a write of the leader leads to
LEMMA LeaderKeeps ==
    ASSUME NEW lead, lead = logs'["leader"], NEW own, own = store'["leader"], NEW ch, ch = channel',
           Contents(lead, own, logs["follower"], store["follower"], phase, ch), DOMAIN logs' = Server,
           store'["follower"] = store["follower"], logs'["follower"] = logs["follower"], phase' = phase
    PROVE  ContentsInv'
<1>1. PICK log, st, ph : log = logs["follower"] /\ st = store["follower"] /\ ph = phase
    OBVIOUS
<1>2. Contents(lead, own, log, st, ph, ch)
    BY <1>1
<1>3. log = logs'["follower"] /\ st = store'["follower"] /\ ph = phase'
    BY <1>1
<1>4. Contents(logs'["leader"], store'["leader"], logs'["follower"], store'["follower"], phase', channel')
    BY <1>2, <1>3
<1> QED BY <1>4 DEF ContentsInv

\* Sending twice
LEMMA SentTwice ==
    ASSUME NEW ph, NEW S1, NEW ch \in Seq(S1), NEW S2, NEW one \in Seq(S2), NEW S3, NEW two \in Seq(S3)
    PROVE  Sent(ph, Sent(ph, ch, one), two) = Sent(ph, ch, one \o two)
<1>1. PICK S : S = (S1 \cup S2) \cup S3
    OBVIOUS
<1>2. ch \in Seq(S) /\ one \in Seq(S) /\ two \in Seq(S)
    BY <1>1
<1>3. (ch \o one) \o two = ch \o (one \o two)
    BY <1>2, ConcatAssociative
<1>4. CASE Linked(ph, ch)
  <2>1. PICK mid : mid = ch \o one
    OBVIOUS
  <2>2. Linked(ph, mid)
    <3>1. ch # << >> => mid # << >>
      <4>1. mid \in Seq(S) /\ Len(mid) = Len(ch) + Len(one) /\ Len(ch) \in Nat /\ Len(one) \in Nat
        BY <1>2, <2>1, ConcatProperties, LenProperties
      <4>2. ch # << >> => Len(ch) # 0
        BY <1>2, EmptySeq
      <4>3. mid = << >> => Len(mid) = 0
        BY EmptySeq
      <4> QED BY <4>1, <4>2, <4>3
    <3> QED BY <1>4, <3>1 DEF Linked
  <2>3. Sent(ph, ch, one) = mid
    BY <1>4, <2>1 DEF Sent
  <2>4. Sent(ph, mid, two) = mid \o two
    BY <2>2 DEF Sent
  <2>5. Sent(ph, ch, one \o two) = ch \o (one \o two)
    BY <1>4 DEF Sent
  <2> QED BY <1>3, <2>1, <2>3, <2>4, <2>5
<1>5. CASE ~Linked(ph, ch)
    BY <1>5 DEF Sent
<1> QED BY <1>4, <1>5

\* The leader's storage with another decided index
LEMMA DecidedKeeps ==
    ASSUME NEW st, Sound(st), NEW v
    PROVE  SetDecided(st, v).cache.batch = st.cache.batch /\ SetDecided(st, v).cache.round = st.cache.round
<1>1. PICK log, snap, b, r, d, a, k, e :
          st = StorageOf(log, snap, b, r, d, a, k, e) /\ Counts(log, b, r, d, a, k, e)
    BY SoundParts
<1>2. PICK new : new = SetDecided(st, v) /\ new = StorageOf(log, snap, b, r, v, a, k, e)
    BY <1>1, DecidedIn
<1>3. st.cache.batch = b /\ st.cache.round = r /\ new.cache.batch = b /\ new.cache.round = r
    BY <1>1, <1>2, StorageFields
<1> QED BY <1>2, <1>3

\* A flushed batch is what the log takes in.
LEMMA MovedOut ==
    ASSUME NEW lg \in Seq(Commands), NEW c, NEW lg2, NEW b2, Moved(lg, c, lg2, b2)
    PROVE  b2 = << >> => lg2 = lg \o c
<1>1. lg \o << >> = lg
    BY ConcatEmptySeq
<1> QED BY <1>1 DEF Moved

\* accept_entry_leader, flush_batch_leader
LEMMA LeaderAppends ==
    ASSUME StopSignCases = {}, StorageInv, ContentsInv
    PROVE  (\E cmd \in Commands : LeaderAppend(cmd)) \/ FlushLeader => ContentsInv'
<1>1. PICK own, lead, log, st, ph, ch : /\ own = store["leader"] /\ lead = logs["leader"] /\ log = logs["follower"]
                                        /\ st = store["follower"] /\ ph = phase /\ ch = channel
    OBVIOUS
<1>2. Contents(lead, own, log, st, ph, ch) /\ Sound(own) /\ Sound(st) /\ LinkOK(ph, ch, st.cache)
    BY <1>1, InvParts DEF ContentsInv
<1>3. own.cache.batch \in Seq(Commands)
    BY <1>2, SoundNumbers
<1>4. PICK d : d = own.cache.decided
    OBVIOUS
<1>5. ASSUME NEW cmd \in Commands, LeaderAppend(cmd) PROVE ContentsInv'
  <2>1. PICK es, new : es = <<cmd>> /\ new = AppendWithBatching(own, es)
    OBVIOUS
  <2>2. es \in Seq(Commands)
    BY <2>1
  <2>3. Extends(own, new, es) /\ new.cache.stopsign = own.cache.stopsign
    BY <1>2, <2>1, <2>2, AppendExtends
  <2>4. PICK sent, msgs : sent = Flushed(own, es) /\ msgs = AcceptDecide(sent, d)
    OBVIOUS
  <2>5. /\ ~own.cache.stopsign /\ Stored("leader", new, es) /\ phase' = phase
        /\ channel' = Sent(ph, ch, msgs)
    BY <1>1, <1>4, <1>5, <2>1, <2>4 DEF LeaderAppend, MayAppend, Send, Sent, InSession, Linked, ByLeader
  <2>6. PICK c : c = own.cache.batch \o es
    OBVIOUS
  <2>0. PICK lead2 : lead2 = logs'["leader"]
    OBVIOUS
  <2>7. /\ c \in Seq(Commands) /\ Tied(lead2, new)
        /\ Moved(lead, c, lead2, new.cache.batch) /\ lead \in Seq(Commands)
        /\ DOMAIN logs' = Server /\ store'["leader"] = new
        /\ store'["follower"] = store["follower"] /\ logs'["follower"] = logs["follower"]
    <3>1. Extends(store["leader"], new, es)
      BY <1>1, <2>3
    <3>2. /\ store["leader"].cache.batch \o es \in Seq(Commands) /\ Tied(logs'["leader"], new)
          /\ Moved(logs["leader"], store["leader"].cache.batch \o es, logs'["leader"], new.cache.batch)
          /\ logs["leader"] \in Seq(Commands) /\ DOMAIN logs' = Server /\ store'["leader"] = new
          /\ store'["follower"] = store["follower"] /\ logs'["follower"] = logs["follower"]
      BY <2>2, <2>5, <3>1, LeaderWrites
    <3> QED BY <1>1, <2>0, <2>6, <3>2
  <2>8. sent \in Seq(Commands) /\ lead2 = lead \o sent
    <3>0. /\ Sound(own) /\ es \in Seq(Commands) /\ new = AppendWithBatching(own, es) /\ lead \in Seq(Commands)
          /\ c = own.cache.batch \o es /\ Moved(lead, c, lead2, new.cache.batch)
      BY <1>2, <2>1, <2>2, <2>6, <2>7
    <3>1. Flushed(own, es) \in Seq(Commands) /\ lead2 = lead \o Flushed(own, es)
      BY <3>0, FlushedMoves
    <3> QED BY <2>4, <3>1
  <2>9. Quiet(new)
    BY <2>3, <2>5 DEF Quiet
  <2>10. PICK ch2 : ch2 = Sent(ph, ch, msgs)
    OBVIOUS
  <2>11. Contents(lead2, new, log, st, ph, ch2)
    BY <1>2, <2>3, <2>4, <2>5, <2>7, <2>8, <2>9, <2>10, LeaderFlushes
  <2> QED BY <1>1, <2>5, <2>7, <2>10, <2>11, <2>0, LeaderKeeps
<1>6. ASSUME FlushLeader PROVE ContentsInv'
  <2>1. PICK new, msgs, sent : new = FlushBatch(own) /\ sent = own.cache.batch /\ msgs = AcceptDecide(sent, d)
    OBVIOUS
  <2>2. Extends(own, new, << >>) /\ new.cache.batch = << >> /\ new.cache.stopsign = own.cache.stopsign
    BY <1>2, <2>1, FlushExtends, FlushGrows
  <2>3. /\ sent # << >> /\ Stored("leader", new, << >>) /\ phase' = phase
        /\ channel' = Sent(ph, ch, msgs)
    BY <1>1, <1>4, <1>6, <2>1 DEF FlushLeader, Send, Sent, InSession, Linked, ByLeader
  <2>4. ~own.cache.stopsign
    BY <1>2, <2>1, <2>3 DEF Contents, Quiet
  <2>5. PICK es, c : es = << >> /\ es \in Seq(Commands) /\ c = own.cache.batch \o es
    BY EmptySeq
  <2>6. /\ es \in Seq(Commands) /\ Extends(own, new, es) /\ Stored("leader", new, es) /\ c = own.cache.batch \o es
        /\ own = store["leader"] /\ lead = logs["leader"]
    BY <1>1, <2>2, <2>3, <2>5
  <2>0. PICK lead2 : lead2 = logs'["leader"]
    OBVIOUS
  <2>7. /\ c \in Seq(Commands) /\ Tied(lead2, new)
        /\ Moved(lead, c, lead2, new.cache.batch) /\ lead \in Seq(Commands)
        /\ DOMAIN logs' = Server /\ store'["leader"] = new
        /\ store'["follower"] = store["follower"] /\ logs'["follower"] = logs["follower"]
    <3>1. Extends(store["leader"], new, es)
      BY <1>1, <2>6
    <3>2. /\ store["leader"].cache.batch \o es \in Seq(Commands) /\ Tied(logs'["leader"], new)
          /\ Moved(logs["leader"], store["leader"].cache.batch \o es, logs'["leader"], new.cache.batch)
          /\ logs["leader"] \in Seq(Commands) /\ DOMAIN logs' = Server /\ store'["leader"] = new
          /\ store'["follower"] = store["follower"] /\ logs'["follower"] = logs["follower"]
      BY <2>6, <3>1, LeaderWrites
    <3> QED BY <1>1, <2>0, <2>6, <3>2
  <2>8. lead2 = lead \o sent
    <3>1. c = sent
      BY <1>3, <2>1, <2>5, ConcatEmptySeq
    <3>2. lead2 = lead \o c
      BY <2>2, <2>7, MovedOut
    <3> QED BY <3>1, <3>2
  <2>9. Quiet(new)
    BY <2>2 DEF Quiet
  <2>10. PICK ch2 : ch2 = Sent(ph, ch, msgs)
    OBVIOUS
  <2>11. Contents(lead2, new, log, st, ph, ch2)
    BY <1>2, <1>3, <2>1, <2>2, <2>4, <2>7, <2>8, <2>9, <2>10, LeaderFlushes
  <2> QED BY <1>1, <2>3, <2>7, <2>10, <2>11, <2>0, LeaderKeeps
<1> QED BY <1>5, <1>6

\* What is not flushed leaves the log alone.
LEMMA MovedNot ==
    ASSUME NEW lg \in Seq(Commands), NEW c, NEW lg2, NEW b2, Moved(lg, c, lg2, b2)
    PROVE  b2 = c => lg2 = lg
<1>1. lg \o << >> = lg
    BY ConcatEmptySeq
<1> QED BY <1>1 DEF Moved

\* Messages can be sent in any session.
LEMMA LinkSent ==
    ASSUME NEW ph, NEW ch, NEW fc, LinkOK(ph, ch, fc), NEW msgs, Sendable(msgs)
    PROVE  LinkOK(ph, Sent(ph, ch, msgs), fc)
<1>1. CASE Linked(ph, ch)
  <2>1. ph = "Prepare" => ch # << >>
    BY <1>1 DEF Linked
  <2>2. LinkOK(ph, ch \o msgs, fc)
    BY <2>1, LinkSends
  <2> QED BY <1>1, <2>2 DEF Sent
<1>2. CASE ~Linked(ph, ch)
    BY <1>2 DEF Sent
<1> QED BY <1>1, <1>2

\* The stop sign goes behind what was batched (append_stopsign).
LEMMA StopSignTied ==
    ASSUME NEW own, Sound(own), NEW lead, Tied(lead, own), NEW mid, mid = FlushBatch(own),
           NEW new, new = AppendStopSign(own)
    PROVE  /\ Sound(mid) /\ Extends(own, mid, << >>) /\ mid.cache.batch = << >>
           /\ mid.cache.stopsign = own.cache.stopsign
           /\ Extends(own, new, << >>) /\ new.cache.batch = << >> /\ new.cache.stopsign
<1>1. /\ Sound(mid) /\ Extends(own, mid, << >>) /\ mid.cache.batch = << >>
      /\ mid.cache.stopsign = own.cache.stopsign
    BY FlushGrows, FlushExtends DEF Grown
<1>2. \A t, v : /\ Extends(mid, Stopped(mid, t, v), << >>) /\ Stopped(mid, t, v).cache.stopsign = t
                /\ Stopped(mid, t, v).cache.batch = mid.cache.batch
    BY <1>1, FieldsExtend
<1>3. PICK t, v : t = TRUE /\ new = Stopped(mid, t, v)
  <2>1. new = Stopped(mid, TRUE, mid.cache.accepted + 1)
    BY Zenon DEF AppendStopSign, Stopped
  <2> QED BY <2>1
<1>4. /\ Extends(mid, new, << >>) /\ new.cache.stopsign = t /\ new.cache.batch = mid.cache.batch
  <2>1. new = Stopped(mid, t, v)
    BY <1>3
  <2> QED BY <1>2, <2>1
<1>5. Extends(own, new, << >>)
    BY <1>1, <1>4, ExtendsTwice, EmptySeq
<1>6. new.cache.stopsign
    BY <1>3, <1>4
<1>7. new.cache.batch = << >>
    BY <1>1, <1>4
<1> QED BY <1>1, <1>5, <1>6, <1>7

\* accept_stopsign_leader
LEMMA LeaderStops ==
    ASSUME StorageInv, ContentsInv, LeaderStopSign
    PROVE  ContentsInv'
<1>1. PICK own, lead, log, st, ph, ch : /\ own = store["leader"] /\ lead = logs["leader"] /\ log = logs["follower"]
                                        /\ st = store["follower"] /\ ph = phase /\ ch = channel
    OBVIOUS
<1>2. Contents(lead, own, log, st, ph, ch) /\ Sound(own) /\ Sound(st) /\ LinkOK(ph, ch, st.cache) /\ Tied(lead, own)
    BY <1>1, InvParts DEF ContentsInv, Contents
<1>3. own.cache.batch \in Seq(Commands) /\ own.cache.decided \in Nat
    BY <1>2, SoundNumbers
<1>4. PICK es, c : es = << >> /\ es \in Seq(Commands) /\ c = own.cache.batch \o es
    BY EmptySeq
<1>5. c = own.cache.batch
    BY <1>3, <1>4, ConcatEmptySeq
<1>6. PICK mid, new : mid = FlushBatch(own) /\ new = AppendStopSign(own)
    OBVIOUS
<1>7. PICK d, sent, first : d = own.cache.decided /\ sent = own.cache.batch /\ first = AcceptDecide(sent, d)
    OBVIOUS
<1>8. PICK two : two = <<AcceptStopSign>>
    OBVIOUS
<1>9. /\ ~own.cache.stopsign /\ Stored("leader", new, es) /\ phase' = phase
      /\ channel' = Sent(ph, ch, first \o two)
    BY <1>1, <1>4, <1>6, <1>7, <1>8 DEF LeaderStopSign, Send, Sent, InSession, Linked, ByLeader
<1>10. /\ Sound(mid) /\ Extends(own, mid, es) /\ mid.cache.batch = es /\ mid.cache.stopsign = own.cache.stopsign
       /\ Extends(own, new, es) /\ new.cache.batch = es /\ new.cache.stopsign
    BY <1>2, <1>4, <1>6, StopSignTied
<1>11. PICK lead2 : lead2 = logs'["leader"]
    OBVIOUS
<1>12. /\ Tied(lead2, new) /\ Moved(lead, c, lead2, new.cache.batch) /\ lead \in Seq(Commands)
       /\ DOMAIN logs' = Server /\ store'["leader"] = new
       /\ store'["follower"] = store["follower"] /\ logs'["follower"] = logs["follower"]
  <2>1. Extends(store["leader"], new, es)
    BY <1>1, <1>10
  <2>2. /\ store["leader"].cache.batch \o es \in Seq(Commands) /\ Tied(logs'["leader"], new)
        /\ Moved(logs["leader"], store["leader"].cache.batch \o es, logs'["leader"], new.cache.batch)
        /\ logs["leader"] \in Seq(Commands) /\ DOMAIN logs' = Server /\ store'["leader"] = new
        /\ store'["follower"] = store["follower"] /\ logs'["follower"] = logs["follower"]
    BY <1>4, <1>9, <2>1, LeaderWrites
  <2> QED BY <1>1, <1>4, <1>11, <2>2
<1>13. lead2 = lead \o c
    BY <1>4, <1>10, <1>12, MovedOut
<1>14. Tied(lead2, mid)
  <2>1. PICK all, lg : all = (lead \o own.cache.batch) \o es /\ lg = Prefix(all, Len(all) - Len(mid.cache.batch))
    OBVIOUS
  <2>2. Moved(lead, c, lg, mid.cache.batch) /\ Tied(lg, mid)
    BY <1>2, <1>4, <1>10, <2>1, StoredTied
  <2>3. lg = lead \o c
    BY <1>4, <1>10, <1>12, <2>2, MovedOut
  <2> QED BY <1>13, <2>2, <2>3
<1>15. Quiet(mid) /\ Quiet(new)
    BY <1>4, <1>10 DEF Quiet
<1>16. PICK ch1, ch2 : ch1 = Sent(ph, ch, first) /\ ch2 = Sent(ph, ch1, two)
    OBVIOUS
<1>17. Contents(lead2, mid, log, st, ph, ch1)
  <2>1. sent \in Seq(Commands) /\ lead2 = lead \o sent /\ (own.cache.stopsign => sent = << >>)
    BY <1>3, <1>5, <1>7, <1>9, <1>13
  <2> QED BY <1>2, <1>7, <1>10, <1>14, <1>15, <1>16, <2>1, LeaderFlushes
<1>18. Sendable(first) /\ LinkOK(ph, ch1, st.cache)
  <2>1. Sendable(first)
    BY <1>3, <1>7, SendableEntries
  <2> QED BY <1>2, <1>16, <2>1, LinkSent
<1>19. Contents(lead2, new, log, st, ph, ch2)
  <2>1. ~mid.cache.stopsign
    BY <1>9, <1>10
  <2> QED BY <1>2, <1>8, <1>10, <1>12, <1>15, <1>16, <1>17, <1>18, <2>1, LeaderSigns
<1>20. ch2 = channel'
  <2>1. PICK S1, S2 : ch \in Seq(S1) /\ first \in Seq(S2)
    BY <1>2, <1>18 DEF LinkOK, Sendable
  <2>2. two \in Seq({AcceptStopSign})
    BY <1>8
  <2>3. Sent(ph, Sent(ph, ch, first), two) = Sent(ph, ch, first \o two)
    BY <2>1, <2>2, SentTwice
  <2> QED BY <1>9, <1>16, <2>3
<1> QED BY <1>1, <1>9, <1>11, <1>12, <1>19, <1>20, LeaderKeeps

\* handle_accepted
LEMMA LeaderDecides ==
    ASSUME StorageInv, ContentsInv, NEW idx \in Nat, LeaderDecide(idx)
    PROVE  ContentsInv'
<1>1. PICK own, lead, log, st, ph, ch : /\ own = store["leader"] /\ lead = logs["leader"] /\ log = logs["follower"]
                                        /\ st = store["follower"] /\ ph = phase /\ ch = channel
    OBVIOUS
<1>2. Contents(lead, own, log, st, ph, ch) /\ Sound(own) /\ Sound(st) /\ LinkOK(ph, ch, st.cache) /\ Quiet(own)
    BY <1>1, InvParts DEF ContentsInv, Contents
<1>3. PICK es, c : es = << >> /\ es \in Seq(Commands) /\ c = own.cache.batch \o es
    BY EmptySeq
<1>4. c = own.cache.batch
    BY <1>2, <1>3, SoundNumbers, ConcatEmptySeq
<1>5. PICK new, msgs : new = SetDecided(own, idx) /\ msgs = <<Decide(idx)>>
    OBVIOUS
<1>6. Stored("leader", new, es) /\ phase' = phase /\ channel' = Sent(ph, ch, msgs)
    BY <1>1, <1>3, <1>5 DEF LeaderDecide, Send, Sent, InSession, Linked, ByLeader
<1>7. Extends(own, new, es) /\ new.cache.batch = own.cache.batch /\ new.cache.stopsign = own.cache.stopsign
    BY <1>2, <1>3, <1>5, FieldsExtend, DecidedKeeps
<1>8. /\ Tied(logs'["leader"], new) /\ Moved(lead, c, logs'["leader"], new.cache.batch) /\ lead \in Seq(Commands)
      /\ DOMAIN logs' = Server /\ store'["leader"] = new
      /\ store'["follower"] = store["follower"] /\ logs'["follower"] = logs["follower"]
  <2>1. Extends(store["leader"], new, es)
    BY <1>1, <1>7
  <2>2. /\ store["leader"].cache.batch \o es \in Seq(Commands) /\ Tied(logs'["leader"], new)
        /\ Moved(logs["leader"], store["leader"].cache.batch \o es, logs'["leader"], new.cache.batch)
        /\ logs["leader"] \in Seq(Commands) /\ DOMAIN logs' = Server /\ store'["leader"] = new
        /\ store'["follower"] = store["follower"] /\ logs'["follower"] = logs["follower"]
    BY <1>3, <1>6, <2>1, LeaderWrites
  <2> QED BY <1>1, <1>3, <2>2
<1>9. logs'["leader"] = lead
    BY <1>4, <1>7, <1>8, MovedNot
<1>10. Quiet(new)
    BY <1>2, <1>7 DEF Quiet
<1>11. PICK ch2 : ch2 = Sent(ph, ch, msgs)
    OBVIOUS
<1>12. Contents(lead, new, log, st, ph, ch2)
  <2>1. Tied(lead, new)
    BY <1>8, <1>9
  <2> QED BY <1>2, <1>5, <1>7, <1>10, <1>11, <2>1, LeaderSigns
<1> QED BY <1>1, <1>6, <1>8, <1>9, <1>11, <1>12, LeaderKeeps

\* handle_promise
LEMMA LeaderSyncs ==
    ASSUME StorageInv, ContentsInv, SendAcceptSync
    PROVE  ContentsInv'
<1>1. PICK own, lead, log, st, pr : /\ own = store["leader"] /\ lead = logs["leader"] /\ log = logs["follower"]
                                    /\ st = store["follower"] /\ pr = promise
    OBVIOUS
<1>2. /\ Contents(lead, own, log, st, phase, channel) /\ Sound(own) /\ Sound(st)
      /\ PromiseOK(phase, pr, channel, st.cache) /\ PhaseOK(phase, st.cache)
      /\ LeaderOK(useSnapshots, own, acked) /\ AckedOK(st.cache, acked)
    BY <1>1, InvParts DEF ContentsInv
<1>3. PICK valid : valid = IF pr.round = Round THEN pr.accepted ELSE pr.decided
    OBVIOUS
<1>4. PICK sync : sync = CreateLogSync(own, useSnapshots, valid, pr.decided)
    OBVIOUS
<1>5. PICK m : m = [type |-> "AcceptSync", decided |-> own.cache.decided, log |-> lead, sync |-> sync]
    OBVIOUS
<1>6. pr # NoPromise /\ channel' = <<m>> /\ store' = store /\ phase' = phase /\ logs' = logs
    BY <1>1, <1>3, <1>4, <1>5 DEF SendAcceptSync
<1>7. /\ phase = "Prepare" /\ channel = << >>
      /\ pr = [round |-> st.cache.round, decided |-> st.cache.decided, accepted |-> st.cache.accepted]
    BY <1>2, <1>6 DEF PromiseOK
<1>8. valid = Valid(st.cache) /\ pr.decided = st.cache.decided
    BY <1>3, <1>7 DEF Valid
<1>9. m.type = "AcceptSync" /\ m.log = lead /\ m.sync = sync
    BY <1>5
<1>10. sync.stopsign = own.cache.stopsign
    BY <1>4, Zenon DEF CreateLogSync
<1>11. /\ Tied(lead, own) /\ Tied(log, st) /\ Has(lead, own.cache.stopsign, log, st)
       /\ Reaches(lead, own.cache.stopsign, log, st, phase, channel)
    BY <1>2 DEF Contents, Has
<1>12. st.cache.batch = << >>
    BY <1>7, <1>11 DEF Reaches
<1>13. lead \in Seq(Commands) /\ log \in Seq(Commands)
    BY <1>11, Zenon DEF Tied, Behind
<1>14. /\ Agree(log, lead, own.cache.stopsign, st.cache.decided)
       /\ st.cache.round = Round => Starts(log, lead)
  <2>1. log \o st.cache.batch = log
    BY <1>12, <1>13, ConcatEmptySeq
  <2> QED BY <1>11, <2>1 DEF Has, Follows
<1>15. SyncHas(m, log)
  <2>1. PICK us : us = useSnapshots /\ LeaderOK(us, own, acked)
    BY <1>2
  <2>2. us \in BOOLEAN
    BY <2>1 DEF LeaderOK
  <2>3. sync = CreateLogSync(own, us, Valid(st.cache), st.cache.decided)
    BY <1>4, <1>8, <2>1
  <2>4. PhaseOK("Prepare", st.cache) /\ AckedOK(st.cache, acked)
    BY <1>2, <1>7
  <2> QED BY <1>2, <1>9, <1>11, <1>14, <2>1, <2>2, <2>3, <2>4, AnswerHas
<1>16. PICK count, led, ch : count = Count(log, st) /\ led = own.cache.stopsign /\ ch = <<m>>
    OBVIOUS
<1>17. Chain("Prepare", ch, count, lead, led)
  <2>1. m.sync.stopsign = led /\ "Prepare" # "Accept"
    BY <1>9, <1>10, <1>16
  <2> QED BY <1>9, <1>13, <1>16, <2>1, ChainSyncs
<1>18. Head(ch) = m /\ ch # << >>
    BY <1>16
<1>19. Reaches(lead, led, log, st, "Prepare", ch)
    BY <1>12, <1>15, <1>16, <1>17, <1>18 DEF Reaches
<1>20. Contents(lead, own, log, st, "Prepare", ch)
    BY <1>2, <1>16, <1>19 DEF Contents
<1> QED BY <1>1, <1>6, <1>7, <1>16, <1>20 DEF ContentsInv

\* What a write of the follower leads to
LEMMA FollowerKeeps ==
    ASSUME NEW log, log = logs'["follower"], NEW st, st = store'["follower"], NEW ph, ph = phase',
           NEW ch, ch = channel', Contents(logs["leader"], store["leader"], log, st, ph, ch), DOMAIN logs' = Server,
           store'["leader"] = store["leader"], logs'["leader"] = logs["leader"]
    PROVE  ContentsInv'
<1>1. PICK lead, own : lead = logs["leader"] /\ own = store["leader"]
    OBVIOUS
<1>2. Contents(lead, own, log, st, ph, ch)
    BY <1>1
<1>3. lead = logs'["leader"] /\ own = store'["leader"]
    BY <1>1
<1>4. Contents(logs'["leader"], store'["leader"], logs'["follower"], store'["follower"], phase', channel')
    BY <1>2, <1>3
<1> QED BY <1>4 DEF ContentsInv

\* Compaction at either server leaves the history alone.
LEMMA CompactingKeeps ==
    ASSUME StorageInv, ContentsInv, NEW s \in Server, NEW new, Tied(logs[s], new), Kept(store[s], new),
           Compacting(s, new)
    PROVE  ContentsInv'
<1>1. PICK own, lead, log, st, ph, ch : /\ own = store["leader"] /\ lead = logs["leader"] /\ log = logs["follower"]
                                        /\ st = store["follower"] /\ ph = phase /\ ch = channel
    OBVIOUS
<1>2. Contents(lead, own, log, st, ph, ch) /\ Sound(own) /\ Sound(st)
    BY <1>1, InvParts DEF ContentsInv
<1>3. Stored(s, new, << >>) /\ phase' = ph /\ channel' = ch
    BY <1>1 DEF Compacting
<1>4. PICK lg, b, all : lg = logs[s] /\ b = store[s].cache.batch /\ all = (lg \o b) \o << >>
    OBVIOUS
<1>5. lg \in Seq(Commands) /\ b \in Seq(Commands) /\ new.cache.batch = b
  <2>1. lg \in Seq(Commands)
    BY <1>4, Zenon DEF Tied, Behind
  <2>2. Sound(store[s])
    BY StorageSound
  <2>3. b \in Seq(Commands)
    BY <1>4, <2>2, SoundNumbers
  <2> QED BY <1>4, <2>1, <2>3 DEF Kept
<1>6. Prefix(all, Len(all) - Len(b)) = lg
    BY <1>4, <1>5, StoredSame
<1>7. DOMAIN store = Server /\ DOMAIN logs = Server
    BY InvParts DEF ContentsInv
<1>8. /\ DOMAIN logs' = Server /\ store'[s] = new /\ logs'[s] = lg
      /\ \A q \in Server \ {s} : store'[q] = store[q] /\ logs'[q] = logs[q]
  <2>1. /\ DOMAIN logs' = Server /\ store'[s] = new /\ logs'[s] = Prefix(all, Len(all) - Len(new.cache.batch))
        /\ \A q \in Server \ {s} : store'[q] = store[q] /\ logs'[q] = logs[q]
    BY <1>3, <1>4, <1>7, StoredBoth
  <2> QED BY <1>5, <1>6, <2>1
<1>9. CASE s = "leader"
  <2>1. Tied(lead, new) /\ Kept(own, new)
    BY <1>1, <1>9
  <2>2. Contents(lead, new, log, st, ph, ch)
    BY <1>2, <2>1, CompactionKeeps
  <2>3. /\ store'["leader"] = new /\ logs'["leader"] = lead
        /\ store'["follower"] = store["follower"] /\ logs'["follower"] = logs["follower"]
    BY <1>1, <1>4, <1>8, <1>9 DEF Server
  <2> QED BY <1>1, <1>3, <1>8, <2>2, <2>3, LeaderKeeps
<1>10. CASE s = "follower"
  <2>1. Tied(log, new) /\ Kept(st, new)
    BY <1>1, <1>10
  <2>2. Contents(lead, own, log, new, ph, ch)
    BY <1>2, <2>1, CompactionKeeps
  <2>3. /\ store'["follower"] = new /\ logs'["follower"] = log
        /\ store'["leader"] = store["leader"] /\ logs'["leader"] = logs["leader"]
    BY <1>1, <1>4, <1>8, <1>10 DEF Server
  <2>4. Contents(logs["leader"], store["leader"], log, new, ph, ch)
    BY <1>1, <2>2
  <2> QED BY <1>3, <1>8, <2>3, <2>4, FollowerKeeps
<1> QED BY <1>9, <1>10 DEF Server

\* trim, snapshot, handle_compaction
LEMMA CompactionsKeep ==
    ASSUME StorageInv, ContentsInv, NEW idx \in Nat
    PROVE  Trim(idx) \/ ForwardedTrim(idx) \/ (\E s \in Server : Snapshot(s, idx)) => ContentsInv'
<1>1. ASSUME NEW s \in Server
      PROVE  /\ Tied(logs[s], TryTrim(store[s], idx)) /\ Kept(store[s], TryTrim(store[s], idx))
             /\ Tied(logs[s], TrySnapshot(store[s], idx)) /\ Kept(store[s], TrySnapshot(store[s], idx))
  <2>1. Sound(store[s])
    BY StorageSound
  <2>2. Tied(logs[s], store[s])
    BY DEF ContentsInv, Contents, Has, Server
  <2> QED BY <2>1, <2>2, TryTied
<1>2. "leader" \in Server /\ "follower" \in Server
    BY DEF Server
<1>3. ASSUME Trim(idx) PROVE ContentsInv'
  <2>1. Compacting("leader", TryTrim(store["leader"], idx))
    BY <1>3 DEF Trim
  <2> QED BY <1>1, <1>2, <2>1, CompactingKeeps
<1>4. ASSUME ForwardedTrim(idx) PROVE ContentsInv'
  <2>1. Compacting("follower", TryTrim(store["follower"], idx))
    BY <1>4 DEF ForwardedTrim
  <2> QED BY <1>1, <1>2, <2>1, CompactingKeeps
<1>5. ASSUME NEW s \in Server, Snapshot(s, idx) PROVE ContentsInv'
  <2>1. Compacting(s, TrySnapshot(store[s], idx))
    BY <1>5 DEF Snapshot
  <2> QED BY <1>1, <2>1, CompactingKeeps
<1> QED BY <1>3, <1>4, <1>5

\* The batch and then the stop sign (accept_stopsign of a follower)
LEMMA SetStopTied ==
    ASSUME NEW st, Sound(st), NEW new, new = SetStopSign(FlushBatch(st))
    PROVE  /\ Extends(st, new, << >>) /\ new.cache.batch = << >> /\ new.cache.stopsign
           /\ new.cache.decided = st.cache.decided /\ new.cache.round = st.cache.round /\ Sound(new)
<1>1. PICK mid : mid = FlushBatch(st)
    OBVIOUS
<1>2. /\ Sound(mid) /\ Extends(st, mid, << >>) /\ mid.cache.batch = << >>
      /\ mid.cache.decided = st.cache.decided /\ mid.cache.round = st.cache.round
    BY <1>1, FlushGrows, FlushExtends DEF Grown
<1>3. \A t, v : /\ Extends(mid, Stopped(mid, t, v), << >>) /\ Stopped(mid, t, v).cache.stopsign = t
                /\ Stopped(mid, t, v).cache.batch = mid.cache.batch
                /\ Stopped(mid, t, v).cache.decided = mid.cache.decided
    BY <1>2, FieldsExtend
<1>4. PICK t, v : t = TRUE /\ new = Stopped(mid, t, v)
  <2>1. SetStopSign(mid) = Stopped(mid, TRUE, IF mid.cache.stopsign THEN mid.cache.accepted ELSE mid.cache.accepted + 1)
    BY Zenon DEF SetStopSign, Stopped
  <2> QED BY <1>1, <2>1
<1>5. /\ Extends(mid, new, << >>) /\ new.cache.stopsign = t /\ new.cache.batch = mid.cache.batch
      /\ new.cache.decided = mid.cache.decided
  <2>1. new = Stopped(mid, t, v)
    BY <1>4
  <2> QED BY <1>3, <2>1
<1>6. Extends(st, new, << >>)
  <2>1. Extends(mid, new, << >>)
    BY <1>5
  <2> QED BY <1>2, <2>1, ExtendsTwice, EmptySeq
<1>7. new.cache.stopsign
    BY <1>4, <1>5
<1>8. new.cache.batch = << >> /\ new.cache.decided = st.cache.decided
    BY <1>2, <1>5
<1>9. Sound(new) /\ new.cache.round = st.cache.round
  <2>1. Grown(mid, SetStopSign(mid))
    BY <1>2, StopGrows
  <2> QED BY <1>1, <1>2, <2>1 DEF Grown
<1> QED BY <1>6, <1>7, <1>8, <1>9

\* What Full puts behind a log
Ending(stopped) == IF stopped THEN <<StopEntry>> ELSE << >>

\* The stop sign is behind the log and is no command.
LEMMA FullParts ==
    ASSUME NEW lg \in Seq(Commands), NEW stopped
    PROVE  LET full == lg \o Ending(stopped) IN
           /\ full \in Seq(Commands \cup {StopEntry}) /\ Len(full) = Len(lg) + Ss(stopped)
           /\ \A i \in 1..Len(full) : full[i] = IF i <= Len(lg) THEN lg[i] ELSE StopEntry
<1>1. PICK S, full : S = Commands \cup {StopEntry} /\ full = lg \o Ending(stopped)
    OBVIOUS
<1>2. lg \in Seq(S)
    BY <1>1
<1>3. PICK n : n = Len(lg)
    OBVIOUS
<1>4. n \in Nat
    BY <1>3, LenProperties
<1>5. CASE stopped
  <2>1. PICK one, stop : stop = StopEntry /\ one = <<stop>>
    OBVIOUS
  <2>2. one \in Seq(S) /\ Len(one) = 1 /\ one[1] = stop
    BY <1>1, <2>1
  <2>3. full = lg \o one
    BY <1>1, <1>5, <2>1 DEF Ending
  <2>4. /\ full \in Seq(S) /\ Len(full) = n + 1
        /\ \A i \in 1..(n + 1) : full[i] = IF i <= n THEN lg[i] ELSE one[i - n]
    <3>1. PICK all : all = lg \o one
      OBVIOUS
    <3>2. /\ all \in Seq(S) /\ Len(all) = Len(lg) + Len(one)
          /\ \A i \in 1..(Len(lg) + Len(one)) : all[i] = IF i <= Len(lg) THEN lg[i] ELSE one[i - Len(lg)]
      <4>1. one \in Seq(S)
        BY <2>2
      <4> QED BY <1>2, <3>1, <4>1, ConcatProperties
    <3> QED BY <1>3, <2>2, <2>3, <3>1, <3>2
  <2>5. \A i \in 1..(n + 1) : ~(i <= n) => i - n = 1
    BY <1>4
  <2>6. Ss(stopped) = 1
    BY <1>5 DEF Ss
  <2>7. \A i \in 1..(n + 1) : full[i] = IF i <= n THEN lg[i] ELSE stop
    BY <2>2, <2>4, <2>5
  <2> QED BY <1>1, <1>3, <2>1, <2>4, <2>6, <2>7
<1>6. CASE ~stopped
  <2>1. full = lg
    BY <1>1, <1>6, ConcatEmptySeq DEF Ending
  <2>2. Ss(stopped) = 0 /\ n + 0 = n
    BY <1>4, <1>6 DEF Ss
  <2>3. \A i \in 1..n : i <= n
    BY <1>4
  <2> QED BY <1>1, <1>2, <1>3, <2>1, <2>2, <2>3
<1> QED BY <1>5, <1>6

\* Equal starts of two logs, stop signs included, agree.
LEMMA PrefixAgree ==
    ASSUME StopEntry \notin Commands, NEW own \in Seq(Commands), NEW stopped,
           NEW lead \in Seq(Commands), NEW led,
           NEW held, held = own \o Ending(stopped), NEW full, full = lead \o Ending(led),
           NEW d \in Nat, d <= Len(held), d <= Len(full), Prefix(held, d) = Prefix(full, d)
    PROVE  Agree(own, lead, led, d)
<1>1. PICK S : S = Commands \cup {StopEntry}
    OBVIOUS
<1>2. PICK n, m : n = Len(held) /\ m = Len(full)
    OBVIOUS
<1>3. /\ held \in Seq(S) /\ \A i \in 1..n : held[i] = IF i <= Len(own) THEN own[i] ELSE StopEntry
  <2>1. /\ held \in Seq(Commands \cup {StopEntry}) /\ Len(held) = Len(own) + Ss(stopped)
        /\ \A i \in 1..Len(held) : held[i] = IF i <= Len(own) THEN own[i] ELSE StopEntry
    BY FullParts
  <2> QED BY <1>1, <1>2, <2>1
<1>4. /\ full \in Seq(S) /\ m = Len(lead) + Ss(led)
      /\ \A i \in 1..m : full[i] = IF i <= Len(lead) THEN lead[i] ELSE StopEntry
  <2>1. /\ full \in Seq(Commands \cup {StopEntry}) /\ Len(full) = Len(lead) + Ss(led)
        /\ \A i \in 1..Len(full) : full[i] = IF i <= Len(lead) THEN lead[i] ELSE StopEntry
    BY FullParts
  <2> QED BY <1>1, <1>2, <2>1
<1>5. n \in Nat /\ m \in Nat /\ d <= n /\ d <= m
    BY <1>2, <1>3, <1>4, LenProperties
<1>6. ASSUME NEW i \in 1..d PROVE held[i] = full[i]
  <2>1. PICK u, v : u = SubSeq(held, 1, d) /\ v = SubSeq(full, 1, d)
    OBVIOUS
  <2>2. u[i] = held[i] /\ v[i] = full[i]
    <3>1. i \in 1..d /\ d \in 0..n /\ d \in 0..m
      BY <1>5
    <3>2. \A j \in 1..d : u[j] = held[j]
      <4>1. held \in Seq(S) /\ d \in Nat /\ n \in Nat /\ d <= n /\ n = Len(held)
        BY <1>2, <1>3, <1>5
      <4> QED BY <2>1, <4>1, SubSeqProperties
    <3>3. \A j \in 1..d : v[j] = full[j]
      <4>1. full \in Seq(S) /\ d \in Nat /\ m \in Nat /\ d <= m /\ m = Len(full)
        BY <1>2, <1>4, <1>5
      <4> QED BY <2>1, <4>1, SubSeqProperties
    <3> QED BY <3>2, <3>3
  <2>3. u = v
    BY <2>1 DEF Prefix
  <2> QED BY <2>2, <2>3
<1>7. ASSUME NEW i \in 1..d
      PROVE  (i <= Len(own) <=> i <= Len(lead)) /\ (i <= Len(own) => own[i] = lead[i])
  <2>1. i \in 1..n /\ i \in 1..m
    BY <1>5
  <2>2. /\ held[i] = IF i <= Len(own) THEN own[i] ELSE StopEntry
        /\ held[i] = IF i <= Len(lead) THEN lead[i] ELSE StopEntry
    BY <1>3, <1>4, <1>6, <2>1
  <2>3. (i <= Len(own) => own[i] \in Commands) /\ (i <= Len(lead) => lead[i] \in Commands)
    <3>1. \A lg \in Seq(Commands) : \A j \in 1..Len(lg) : lg[j] \in Commands
      BY LenProperties
    <3>2. Len(own) \in Nat /\ Len(lead) \in Nat
      BY LenProperties
    <3>3. (i <= Len(own) => i \in 1..Len(own)) /\ (i <= Len(lead) => i \in 1..Len(lead))
      BY <3>2
    <3> QED BY <3>1, <3>3
  <2> QED BY <2>2, <2>3
<1> QED BY <1>2, <1>4, <1>5, <1>7 DEF Agree

\* The entries under an earlier leader
LEMMA OldKeeps ==
    ASSUME StorageInv, ContentsInv, phase = "Old", NEW st, NEW log, log = logs'["follower"],
           st.cache.round = store["follower"].cache.round,
           Has(logs["leader"], store["leader"].cache.stopsign, log, st),
           DOMAIN logs' = Server, store'["follower"] = st, phase' = phase, channel' = channel,
           store'["leader"] = store["leader"], logs'["leader"] = logs["leader"]
    PROVE  ContentsInv'
<1>1. PICK own, lead, log1, st1, ch : /\ own = store["leader"] /\ lead = logs["leader"] /\ log1 = logs["follower"]
                                      /\ st1 = store["follower"] /\ ch = channel
    OBVIOUS
<1>2. Contents(lead, own, log1, st1, "Old", ch)
    BY <1>1 DEF ContentsInv
<1>3. st.cache.round # Round
    BY <1>1, <1>2 DEF Contents, Reaches
<1>4. Has(lead, own.cache.stopsign, log, st)
    BY <1>1
<1>5. Contents(lead, own, log, st, "Old", ch)
    BY <1>2, <1>3, <1>4, FollowerElse
<1> QED BY <1>1, <1>5, FollowerKeeps

\* The earlier leader's messages: entries and a stop sign
LEMMA OldAppends ==
    ASSUME StopSignCases = {}, StorageInv, ContentsInv
    PROVE  (\E cmd \in Commands : OldAppend(cmd)) \/ OldStopSign => ContentsInv'
<1>1. PICK own, lead, log, st : /\ own = store["leader"] /\ lead = logs["leader"] /\ log = logs["follower"]
                                /\ st = store["follower"]
    OBVIOUS
<1>2. PICK led : led = own.cache.stopsign
    OBVIOUS
<1>3. /\ Sound(own) /\ Sound(st) /\ Has(lead, led, log, st)
      /\ phase = "Old" => st.cache.round # Round
    BY <1>1, <1>2, InvParts DEF ContentsInv, Contents, Reaches
<1>4. ASSUME NEW new, NEW es \in Seq(Commands), Extends(st, new, es), Stored("follower", new, es), phase = "Old",
             Quiet(new), new.cache.round = st.cache.round, new.cache.decided = st.cache.decided,
             ~st.cache.stopsign, phase' = phase, channel' = channel
      PROVE  ContentsInv'
  <2>1. PICK log2, c : log2 = logs'["follower"] /\ c = st.cache.batch \o es
    OBVIOUS
  <2>2. /\ c \in Seq(Commands) /\ Tied(log2, new) /\ Moved(log, c, log2, new.cache.batch) /\ log \in Seq(Commands)
        /\ DOMAIN logs' = Server /\ store'["follower"] = new
        /\ store'["leader"] = store["leader"] /\ logs'["leader"] = logs["leader"]
    <3>1. Extends(store["follower"], new, es)
      BY <1>1, <1>4
    <3>2. /\ store["follower"].cache.batch \o es \in Seq(Commands) /\ Tied(logs'["follower"], new)
          /\ Moved(logs["follower"], store["follower"].cache.batch \o es, logs'["follower"], new.cache.batch)
          /\ logs["follower"] \in Seq(Commands) /\ DOMAIN logs' = Server /\ store'["follower"] = new
          /\ store'["leader"] = store["leader"] /\ logs'["leader"] = logs["leader"]
      BY <1>4, <3>1, FollowerWrites
    <3> QED BY <1>1, <2>1, <3>2
  <2>3. Starts(log, log2)
    <3>1. PICK b2 : b2 = new.cache.batch
      OBVIOUS
    <3>2. Moved(log, c, log2, b2)
      BY <2>2, <3>1
    <3>3. log2 \o b2 = log \o c /\ log2 \in Seq(Commands) /\ b2 \in Seq(Commands) /\ Starts(log, log2)
      BY <2>2, <3>2, MovedAll, Zenon
    <3> QED BY <3>3
  <2>4. Has(lead, led, log2, new)
    BY <1>3, <1>4, <2>2, <2>3, HasBefore
  <2> QED BY <1>1, <1>2, <1>4, <2>1, <2>2, <2>4, OldKeeps
<1>5. ASSUME NEW cmd \in Commands, OldAppend(cmd) PROVE ContentsInv'
  <2>1. PICK es, new : es = <<cmd>> /\ new = AppendWithBatching(st, es)
    OBVIOUS
  <2>2. es \in Seq(Commands)
    BY <2>1
  <2>3. /\ ~st.cache.stopsign /\ Stored("follower", new, es) /\ phase = "Old" /\ phase' = phase /\ channel' = channel
    BY <1>1, <1>5, <2>1 DEF OldAppend, MayAppend
  <2>4. /\ Extends(st, new, es) /\ new.cache.stopsign = st.cache.stopsign /\ new.cache.decided = st.cache.decided
        /\ new.cache.round = st.cache.round
    BY <1>3, <2>1, <2>2, AppendExtends, AppendGrows DEF Grown
  <2>5. Quiet(new)
    BY <2>3, <2>4 DEF Quiet
  <2> QED BY <1>4, <2>2, <2>3, <2>4, <2>5
<1>6. ASSUME OldStopSign PROVE ContentsInv'
  <2>1. PICK es, new : es = << >> /\ new = SetStopSign(FlushBatch(st))
    OBVIOUS
  <2>2. /\ ~st.cache.stopsign /\ Stored("follower", new, es) /\ phase = "Old" /\ phase' = phase /\ channel' = channel
    BY <1>1, <1>6, <2>1 DEF OldStopSign
  <2>3. /\ Extends(st, new, << >>) /\ new.cache.batch = << >> /\ new.cache.stopsign
        /\ new.cache.decided = st.cache.decided /\ new.cache.round = st.cache.round
    BY <1>3, <2>1, SetStopTied
  <2>4. Quiet(new)
    BY <2>3 DEF Quiet
  <2>5. Extends(st, new, es) /\ es \in Seq(Commands)
    BY <2>1, <2>3, EmptySeq
  <2> QED BY <1>4, <2>2, <2>3, <2>4, <2>5
<1> QED BY <1>5, <1>6

\* The earlier leader's decisions are in the leader's log.
LEMMA OldDecides ==
    ASSUME StopEntry \notin Commands, StorageInv, ContentsInv, NEW idx \in Nat, OldDecide(idx)
    PROVE  ContentsInv'
<1>1. PICK own, lead, log, st : /\ own = store["leader"] /\ lead = logs["leader"] /\ log = logs["follower"]
                                /\ st = store["follower"]
    OBVIOUS
<1>2. PICK led, stopped : led = own.cache.stopsign /\ stopped = st.cache.stopsign
    OBVIOUS
<1>3. Sound(own) /\ Sound(st) /\ Has(lead, led, log, st) /\ Tied(lead, own) /\ Tied(log, st) /\ Quiet(st)
    BY <1>1, <1>2, InvParts DEF ContentsInv, Contents, Has
<1>4. lead \in Seq(Commands) /\ log \in Seq(Commands)
    BY <1>3, Zenon DEF Tied, Behind
<1>5. PICK held, full : held = log \o Ending(stopped) /\ full = lead \o Ending(led)
    OBVIOUS
<1>6. held = Full("follower") /\ full = Full("leader")
    BY <1>1, <1>2, <1>5 DEF Full, Ending, StopEntry
<1>7. PICK new, es, c : new = SetDecided(st, idx) /\ es = << >> /\ es \in Seq(Commands) /\ c = st.cache.batch \o es
    BY EmptySeq
<1>8. /\ phase = "Old" /\ st.cache.decided < idx /\ idx <= Len(held) /\ idx <= Len(full)
      /\ Prefix(held, idx) = Prefix(full, idx) /\ Stored("follower", UpdateDecided(st, idx), es)
      /\ phase' = phase /\ channel' = channel
    BY <1>1, <1>6, <1>7 DEF OldDecide
<1>9. idx <= st.cache.accepted
  <2>1. st.cache.accepted = Len(log) + Ss(stopped)
    BY <1>2, <1>3, TiedCounts
  <2>2. Len(held) = Len(log) + Ss(stopped)
    BY <1>4, <1>5, FullParts
  <2> QED BY <1>8, <2>1, <2>2
<1>10. UpdateDecided(st, idx) = new
  <2>1. ~(idx <= st.cache.decided) /\ ~(idx > st.cache.accepted)
    <3>1. st.cache.decided \in Nat /\ st.cache.accepted \in Nat
      BY <1>3, SoundNumbers
    <3> QED BY <1>8, <1>9, <3>1
  <2> QED BY <1>7, <2>1 DEF UpdateDecided
<1>11. /\ Extends(st, new, es) /\ new.cache.batch = st.cache.batch /\ new.cache.stopsign = st.cache.stopsign
       /\ new.cache.decided = idx /\ new.cache.round = st.cache.round
    BY <1>3, <1>7, FieldsExtend, DecidedKeeps
<1>12. c = st.cache.batch
    BY <1>3, <1>7, SoundNumbers, ConcatEmptySeq
<1>13. /\ Tied(logs'["follower"], new) /\ Moved(log, c, logs'["follower"], new.cache.batch)
       /\ DOMAIN logs' = Server /\ store'["follower"] = new
       /\ store'["leader"] = store["leader"] /\ logs'["leader"] = logs["leader"]
  <2>1. Extends(store["follower"], new, es) /\ Stored("follower", new, es)
    BY <1>1, <1>8, <1>10, <1>11
  <2>2. /\ store["follower"].cache.batch \o es \in Seq(Commands) /\ Tied(logs'["follower"], new)
        /\ Moved(logs["follower"], store["follower"].cache.batch \o es, logs'["follower"], new.cache.batch)
        /\ logs["follower"] \in Seq(Commands) /\ DOMAIN logs' = Server /\ store'["follower"] = new
        /\ store'["leader"] = store["leader"] /\ logs'["leader"] = logs["leader"]
    BY <1>7, <2>1, FollowerWrites
  <2> QED BY <1>1, <1>7, <2>2
<1>14. PICK log2 : log2 = logs'["follower"]
    OBVIOUS
<1>15. log2 = log /\ Tied(log2, new)
    BY <1>4, <1>11, <1>12, <1>13, <1>14, MovedNot
<1>16. Has(lead, led, log2, new)
  <2>1. Agree(log, lead, led, idx)
    BY <1>4, <1>5, <1>8, PrefixAgree
  <2>2. Quiet(new)
    BY <1>3, <1>11 DEF Quiet
  <2>3. new.cache.round # Round
    BY <1>1, <1>8, <1>11 DEF ContentsInv, Contents, Reaches
  <2> QED BY <1>11, <1>15, <2>1, <2>2, <2>3 DEF Has
<1> QED BY <1>1, <1>2, <1>8, <1>11, <1>13, <1>14, <1>16, OldKeeps

\* handle_prepare
LEMMA PrepareKeeps ==
    ASSUME StorageInv, ContentsInv, ReceivePrepare
    PROVE  ContentsInv'
<1>1. PICK own, lead, log, st, ph, ch : /\ own = store["leader"] /\ lead = logs["leader"] /\ log = logs["follower"]
                                        /\ st = store["follower"] /\ ph = phase /\ ch = channel
    OBVIOUS
<1>2. PICK led : led = own.cache.stopsign
    OBVIOUS
<1>3. Sound(st) /\ Contents(lead, own, log, st, ph, ch) /\ Has(lead, led, log, st) /\ Tied(lead, own) /\ Tied(log, st)
    BY <1>1, <1>2, InvParts DEF ContentsInv, Contents, Has
<1>4. lead \in Seq(Commands) /\ log \in Seq(Commands)
    BY <1>3, Zenon DEF Tied, Behind
<1>5. PICK new, es, c : new = FlushBatch(st) /\ es = << >> /\ es \in Seq(Commands) /\ c = st.cache.batch \o es
    BY EmptySeq
<1>6. Stored("follower", new, es) /\ phase' = "Prepare" /\ channel' = << >>
    BY <1>1, <1>5 DEF ReceivePrepare
<1>7. /\ Extends(st, new, es) /\ new.cache.batch = << >> /\ new.cache.stopsign = st.cache.stopsign
      /\ new.cache.decided = st.cache.decided /\ new.cache.round = st.cache.round /\ Sound(new)
    BY <1>3, <1>5, FlushExtends, FlushGrows DEF Grown
<1>8. c = st.cache.batch
    BY <1>3, <1>5, SoundNumbers, ConcatEmptySeq
<1>9. PICK log2 : log2 = logs'["follower"]
    OBVIOUS
<1>10. /\ Tied(log2, new) /\ Moved(log, st.cache.batch, log2, new.cache.batch)
       /\ DOMAIN logs' = Server /\ store'["follower"] = new
       /\ store'["leader"] = store["leader"] /\ logs'["leader"] = logs["leader"]
  <2>1. Extends(store["follower"], new, es)
    BY <1>1, <1>7
  <2>2. /\ store["follower"].cache.batch \o es \in Seq(Commands) /\ Tied(logs'["follower"], new)
        /\ Moved(logs["follower"], store["follower"].cache.batch \o es, logs'["follower"], new.cache.batch)
        /\ logs["follower"] \in Seq(Commands) /\ DOMAIN logs' = Server /\ store'["follower"] = new
        /\ store'["leader"] = store["leader"] /\ logs'["leader"] = logs["leader"]
    BY <1>5, <1>6, <2>1, FollowerWrites
  <2> QED BY <1>1, <1>5, <1>8, <1>9, <2>2
<1>11. Has(lead, led, log2, new)
    BY <1>3, <1>4, <1>7, <1>10, HasFlushed
<1>12. Contents(lead, own, log2, new, "Prepare", << >>)
    BY <1>2, <1>3, <1>7, <1>11, FollowerElse
<1> QED BY <1>1, <1>6, <1>9, <1>10, <1>12, FollowerKeeps

\* A restart of the follower leaves the leader alone.
LEMMA RestartKeeps ==
    ASSUME StorageInv, NEW st, Sound(st), NEW log, log = logs'["follower"],
           NEW log1, NEW st1, NEW ph1, NEW ch1,
           Contents(logs["leader"], store["leader"], log1, st1, ph1, ch1),
           Has(logs["leader"], store["leader"].cache.stopsign, log, st),
           store'["follower"] = Opened(st.disk), phase' = "Recover", channel' = << >>,
           DOMAIN logs' = Server, store'["leader"] = store["leader"], logs'["leader"] = logs["leader"]
    PROVE  ContentsInv'
<1>1. PICK own, lead, new, led : /\ own = store["leader"] /\ lead = logs["leader"] /\ new = Opened(st.disk)
                                 /\ led = own.cache.stopsign
    OBVIOUS
<1>2. Contents(lead, own, log1, st1, ph1, ch1) /\ Has(lead, led, log, st)
    BY <1>1
<1>3. lead \in Seq(Commands)
    BY <1>2, Zenon DEF Contents, Tied, Behind
<1>4. Has(lead, led, log, new)
    BY <1>1, <1>2, <1>3, HasOpened
<1>5. Contents(lead, own, log, new, "Recover", << >>)
    BY <1>1, <1>2, <1>4, FollowerElse
<1> QED BY <1>1, <1>5, FollowerKeeps

\* Crashes, also between the writes of handle_acceptdecide
LEMMA CrashesKeep ==
    ASSUME StorageInv, ContentsInv
    PROVE  Crash \/ CrashInAcceptDecide => ContentsInv'
<1>1. PICK own, lead, log, st, ch : /\ own = store["leader"] /\ lead = logs["leader"] /\ log = logs["follower"]
                                    /\ st = store["follower"] /\ ch = channel
    OBVIOUS
<1>2. PICK led : led = own.cache.stopsign
    OBVIOUS
<1>3. /\ Sound(st) /\ Contents(lead, own, log, st, phase, ch) /\ Has(lead, led, log, st) /\ Tied(log, st)
      /\ LinkOK(phase, ch, st.cache) /\ PhaseOK(phase, st.cache) /\ DOMAIN store = Server /\ DOMAIN logs = Server
    BY <1>1, <1>2, InvParts DEF ContentsInv, Contents, Has
<1>4. "follower" \in Server /\ "leader" \in Server \ {"follower"}
    BY DEF Server
<1>5. ASSUME Crash PROVE ContentsInv'
  <2>1. PICK new : new = Opened(st.disk)
    OBVIOUS
  <2>2. /\ store' = [store EXCEPT !["follower"] = new] /\ logs' = logs
        /\ phase' = "Recover" /\ channel' = << >>
    BY <1>1, <1>5, <2>1 DEF Crash
  <2>3. store'["follower"] = new /\ store'["leader"] = store["leader"]
    BY <1>3, <1>4, <2>2
  <2>4. Has(logs["leader"], store["leader"].cache.stopsign, log, st) /\ log = logs'["follower"]
        /\ Contents(logs["leader"], store["leader"], log, st, phase, ch)
    BY <1>1, <1>2, <1>3, <2>2
  <2> QED BY <1>3, <2>1, <2>2, <2>3, <2>4, RestartKeeps
<1>6. ASSUME CrashInAcceptDecide PROVE ContentsInv'
  <2>1. PICK msg, es, appended : msg = Head(channel) /\ es = msg.entries /\ appended = AppendWithBatching(st, es)
    OBVIOUS
  <2>2. PICK all : all = (log \o st.cache.batch) \o es
    OBVIOUS
  <2>3. PICK mid : /\ mid \in {appended, FlushBatch(appended)}
                   /\ store' = [store EXCEPT !["follower"] = Opened(mid.disk)]
                   /\ logs' = [logs EXCEPT !["follower"] = Prefix(all, Len(all) - Len(mid.cache.batch))]
    BY <1>1, <1>6, <2>1, <2>2 DEF CrashInAcceptDecide
  <2>4. /\ ch # << >> /\ msg.type = "AcceptDecide" /\ phase = "Accept" /\ msg = Head(ch)
        /\ phase' = "Recover" /\ channel' = << >>
    BY <1>1, <1>6, <2>1 DEF CrashInAcceptDecide
  <2>5. es \in Seq(Commands)
    BY <1>1, <2>1, <2>4, HeadOK DEF MsgOK
  <2>6. /\ Sound(appended) /\ Extends(st, appended, es) /\ appended.cache.stopsign = st.cache.stopsign
        /\ appended.cache.round = st.cache.round
    BY <1>3, <2>1, <2>5, AppendExtends, AppendGrows DEF Grown
  <2>7. PICK flushed : flushed = FlushBatch(appended)
    OBVIOUS
  <2>8. /\ Sound(flushed) /\ Extends(appended, flushed, << >>) /\ flushed.cache.stopsign = st.cache.stopsign
        /\ flushed.cache.round = st.cache.round
    BY <2>6, <2>7, FlushExtends, FlushGrows DEF Grown
  <2>9. Extends(st, flushed, es)
    BY <1>3, <2>5, <2>6, <2>8, ExtendsTwice
  <2>10. /\ Sound(mid) /\ Extends(st, mid, es) /\ mid.cache.stopsign = st.cache.stopsign
         /\ mid.cache.round = st.cache.round
    BY <2>3, <2>6, <2>7, <2>8, <2>9
  <2>11. PICK log2, c : log2 = Prefix(all, Len(all) - Len(mid.cache.batch)) /\ c = st.cache.batch \o es
    OBVIOUS
  <2>12. Moved(log, c, log2, mid.cache.batch) /\ Tied(log2, mid)
    BY <1>3, <2>2, <2>5, <2>10, <2>11, StoredTied
  <2>13. Has(lead, led, log2, mid)
    <3>1. st.cache.round = Round /\ LinkOK("Accept", ch, st.cache) /\ Contents(lead, own, log, st, "Accept", ch)
      BY <1>3, <2>4 DEF PhaseOK
    <3>2. Moved(log, st.cache.batch \o msg.entries, log2, mid.cache.batch) /\ mid.cache.round = Round
      BY <2>1, <2>10, <2>11, <2>12, <3>1
    <3>3. Contents(lead, own, log2, mid, "Accept", Tail(ch))
      BY <1>3, <2>4, <2>10, <2>12, <3>1, <3>2, AcceptsEntries
    <3> QED BY <1>2, <3>3 DEF Contents
  <2>14. PICK new : new = Opened(mid.disk)
    OBVIOUS
  <2>15. /\ store'["follower"] = new /\ store'["leader"] = store["leader"]
         /\ DOMAIN logs' = Server /\ logs'["follower"] = log2 /\ logs'["leader"] = logs["leader"]
    <3>1. store' = [store EXCEPT !["follower"] = new] /\ logs' = [logs EXCEPT !["follower"] = log2]
      BY <2>3, <2>11, <2>14
    <3> QED BY <1>3, <1>4, <3>1
  <2>16. Has(logs["leader"], store["leader"].cache.stopsign, log2, mid)
         /\ Contents(logs["leader"], store["leader"], log, st, phase, ch)
    BY <1>1, <1>2, <1>3, <2>13
  <2> QED BY <2>4, <2>10, <2>14, <2>15, <2>16, RestartKeeps
<1> QED BY <1>5, <1>6

\* handle_acceptsync
LEMMA SyncKeeps ==
    ASSUME StorageInv, ContentsInv, ReceiveAcceptSync
    PROVE  ContentsInv'
<1>1. PICK own, lead, log, st, ch : /\ own = store["leader"] /\ lead = logs["leader"] /\ log = logs["follower"]
                                    /\ st = store["follower"] /\ ch = channel
    OBVIOUS
<1>2. PICK led : led = own.cache.stopsign
    OBVIOUS
<1>3. /\ Sound(st) /\ Contents(lead, own, log, st, phase, ch) /\ Tied(log, st)
      /\ Reaches(lead, led, log, st, phase, ch)
      /\ LinkOK(phase, ch, st.cache) /\ DOMAIN store = Server /\ DOMAIN logs = Server
    BY <1>1, <1>2, InvParts DEF ContentsInv, Contents, Has
<1>4. PICK msg, sync, new : msg = Head(ch) /\ sync = msg.sync /\ new = SyncLog(st, Round, msg.decided, sync)
    OBVIOUS
<1>5. /\ ch # << >> /\ msg.type = "AcceptSync" /\ phase = "Prepare" /\ phase' = "Accept"
      /\ channel' = Tail(ch) /\ store' = [store EXCEPT !["follower"] = new]
      /\ logs' = [logs EXCEPT !["follower"] = msg.log]
    BY <1>1, <1>4 DEF ReceiveAcceptSync, Receives
<1>6. SyncFits(sync, st.cache) /\ SyncOK(msg.decided, sync)
  <2>1. MsgOK(msg)
    BY <1>1, <1>4, <1>5, HeadOK
  <2> QED BY <1>3, <1>4, <1>5, <2>1 DEF LinkOK, MsgOK
<1>7. SyncHas(msg, log) /\ st.cache.batch = << >>
    BY <1>3, <1>4, <1>5 DEF Reaches
<1>8. PICK log2 : log2 = msg.log
    OBVIOUS
<1>9. /\ Tied(log2, new) /\ new.cache.batch = << >> /\ new.cache.stopsign = sync.stopsign
      /\ new.cache.round = Round /\ Sound(new)
    BY <1>3, <1>4, <1>6, <1>7, <1>8, SyncTied, SyncLogSound
<1>10. log2 \in Seq(Commands)
    BY <1>9, Zenon DEF Tied, Behind
<1>11. log2 \o new.cache.batch = log2
    BY <1>9, <1>10, ConcatEmptySeq
<1>12. Follows(log2 \o new.cache.batch, new.cache.stopsign, lead, led) /\ Chain("Accept", Tail(ch), Count(log2, new), lead, led)
  <2>1. PICK count : count = Count(log, st)
    OBVIOUS
  <2>2. Chain(phase, ch, count, lead, led)
    BY <1>3, <2>1 DEF Reaches
  <2>3. PICK from \in Nat, to \in Nat : /\ Carries(Head(ch), from, to, lead, led)
                                        /\ Chain("Accept", Tail(ch), to, lead, led)
    BY <1>3, <1>5, <2>2, ChainReceives
  <2>4. Follows(log2, sync.stopsign, lead, led) /\ to = Len(log2) + Ss(sync.stopsign)
    BY <1>4, <1>5, <1>8, <2>3 DEF Carries
  <2>5. Count(log2, new) = to
    BY <1>9, <1>11, <2>4 DEF Count
  <2> QED BY <1>9, <1>11, <2>3, <2>4, <2>5
<1>13. Quiet(new)
    BY <1>9 DEF Quiet
<1>14. Contents(lead, own, log2, new, "Accept", Tail(ch))
    BY <1>2, <1>3, <1>9, <1>12, <1>13, AcceptsInRound
<1>15. /\ store'["follower"] = new /\ store'["leader"] = store["leader"]
       /\ DOMAIN logs' = Server /\ logs'["follower"] = log2 /\ logs'["leader"] = logs["leader"]
  <2>1. "follower" \in Server /\ "leader" \in Server \ {"follower"}
    BY DEF Server
  <2>2. logs' = [logs EXCEPT !["follower"] = log2]
    BY <1>5, <1>8
  <2> QED BY <1>3, <1>5, <2>1, <2>2
<1> QED BY <1>1, <1>5, <1>14, <1>15, FollowerKeeps

\* handle_acceptdecide, handle_decide, handle_accept_stopsign, flush_batch_follower
LEMMA AcceptsKeep ==
    ASSUME StorageInv, ContentsInv
    PROVE  ReceiveAcceptDecide \/ ReceiveDecide \/ ReceiveAcceptStopSign \/ FlushFollower => ContentsInv'
<1>1. PICK own, lead, log, st, ch, msg : /\ own = store["leader"] /\ lead = logs["leader"] /\ log = logs["follower"]
                                         /\ st = store["follower"] /\ ch = channel /\ msg = Head(ch)
    OBVIOUS
<1>2. PICK none : none = << >> /\ none \in Seq(Commands)
    BY EmptySeq
<1>3. /\ Sound(st) /\ Contents(lead, own, log, st, phase, ch) /\ LinkOK(phase, ch, st.cache)
      /\ PhaseOK(phase, st.cache)
    BY <1>1, InvParts DEF ContentsInv
<1>4. ASSUME phase = "Accept"
      PROVE  Contents(lead, own, log, st, "Accept", ch) /\ LinkOK("Accept", ch, st.cache) /\ st.cache.round = Round
    BY <1>3, <1>4 DEF PhaseOK
<1>5. ASSUME NEW new, NEW es \in Seq(Commands), Extends(st, new, es), Accepting(new, es)
      PROVE  /\ Tied(logs'["follower"], new) /\ Moved(log, st.cache.batch \o es, logs'["follower"], new.cache.batch)
             /\ DOMAIN logs' = Server /\ store'["follower"] = new /\ phase = "Accept" /\ phase' = "Accept"
             /\ store'["leader"] = store["leader"] /\ logs'["leader"] = logs["leader"]
  <2>1. Extends(store["follower"], new, es) /\ Stored("follower", new, es) /\ phase = "Accept" /\ phase' = "Accept"
    BY <1>1, <1>5 DEF Accepting
  <2>2. /\ store["follower"].cache.batch \o es \in Seq(Commands) /\ Tied(logs'["follower"], new)
        /\ Moved(logs["follower"], store["follower"].cache.batch \o es, logs'["follower"], new.cache.batch)
        /\ logs["follower"] \in Seq(Commands) /\ DOMAIN logs' = Server /\ store'["follower"] = new
        /\ store'["leader"] = store["leader"] /\ logs'["leader"] = logs["leader"]
    BY <1>5, <2>1, FollowerWrites
  <2> QED BY <1>1, <2>1, <2>2
<1>6. st.cache.batch \o none = st.cache.batch
    BY <1>2, <1>3, SoundNumbers, ConcatEmptySeq
<1>7. PICK log2 : log2 = logs'["follower"]
    OBVIOUS
<1>8. ASSUME ReceiveAcceptDecide PROVE ContentsInv'
  <2>1. PICK es, appended, new : /\ es = msg.entries /\ appended = AppendWithBatching(st, es)
                                 /\ new = UpdateDecided(appended, msg.decided)
    OBVIOUS
  <2>2. ch # << >> /\ msg.type = "AcceptDecide" /\ channel' = Tail(ch) /\ Accepting(new, es)
    BY <1>1, <1>8, <2>1 DEF ReceiveAcceptDecide, Receives
  <2>3. es \in Seq(Commands) /\ msg.decided \in Nat
    BY <1>1, <2>1, <2>2, HeadOK DEF MsgOK
  <2>4. /\ Sound(appended) /\ Extends(st, appended, es) /\ appended.cache.stopsign = st.cache.stopsign
        /\ appended.cache.round = st.cache.round
    BY <1>3, <2>1, <2>3, AppendExtends, AppendGrows DEF Grown
  <2>5. /\ Sound(new) /\ Extends(appended, new, << >>) /\ new.cache.stopsign = st.cache.stopsign
        /\ new.cache.round = st.cache.round
    BY <2>1, <2>3, <2>4, UpdateExtends, UpdateGrows DEF Grown
  <2>6. Extends(st, new, es)
    BY <1>3, <2>3, <2>4, <2>5, ExtendsTwice
  <2>7. /\ Tied(log2, new) /\ Moved(log, st.cache.batch \o es, log2, new.cache.batch)
        /\ DOMAIN logs' = Server /\ store'["follower"] = new /\ phase = "Accept" /\ phase' = "Accept"
        /\ store'["leader"] = store["leader"] /\ logs'["leader"] = logs["leader"]
    BY <1>5, <1>7, <2>2, <2>3, <2>6
  <2>8. Contents(lead, own, log2, new, "Accept", Tail(ch))
    <3>1. Moved(log, st.cache.batch \o msg.entries, log2, new.cache.batch) /\ new.cache.round = Round
      BY <1>4, <2>1, <2>5, <2>7
    <3> QED BY <1>1, <1>3, <1>4, <2>2, <2>5, <2>7, <3>1, AcceptsEntries
  <2> QED BY <1>1, <1>7, <2>2, <2>7, <2>8, FollowerKeeps
<1>9. ASSUME NEW new, Sound(new), Extends(st, new, none), new.cache.round = st.cache.round, Accepting(new, none)
      PROVE  /\ phase = "Accept" /\ st.cache.round = Round /\ new.cache.round = Round /\ Tied(log2, new)
             /\ Moved(log, st.cache.batch, log2, new.cache.batch)
             /\ Contents(lead, own, log, st, "Accept", ch) /\ LinkOK("Accept", ch, st.cache)
             /\ Contents(lead, own, log2, new, "Accept", channel') => ContentsInv'
  <2>1. /\ Tied(log2, new) /\ Moved(log, st.cache.batch \o none, log2, new.cache.batch)
        /\ DOMAIN logs' = Server /\ store'["follower"] = new /\ phase = "Accept" /\ phase' = "Accept"
        /\ store'["leader"] = store["leader"] /\ logs'["leader"] = logs["leader"]
    BY <1>2, <1>5, <1>7, <1>9
  <2>2. Contents(lead, own, log2, new, "Accept", channel') => ContentsInv'
    BY <1>1, <1>7, <2>1, FollowerKeeps
  <2> QED BY <1>4, <1>6, <1>9, <2>1, <2>2
<1>10. ASSUME ReceiveDecide PROVE ContentsInv'
  <2>1. PICK new : new = UpdateDecided(st, msg.decided)
    OBVIOUS
  <2>2. ch # << >> /\ msg.type = "Decide" /\ channel' = Tail(ch) /\ Accepting(new, none)
    BY <1>1, <1>2, <1>10, <2>1 DEF ReceiveDecide, Receives
  <2>3. msg.decided \in Nat
    BY <1>1, <2>2, HeadOK DEF MsgOK
  <2>4. /\ Sound(new) /\ Extends(st, new, none) /\ new.cache.stopsign = st.cache.stopsign
        /\ new.cache.round = st.cache.round
    BY <1>2, <1>3, <2>1, <2>3, UpdateExtends, UpdateGrows DEF Grown
  <2>5. Contents(lead, own, log2, new, "Accept", Tail(ch))
    BY <1>1, <1>3, <1>9, <2>2, <2>4, AcceptsRest
  <2> QED BY <1>9, <2>2, <2>4, <2>5
<1>11. ASSUME ReceiveAcceptStopSign PROVE ContentsInv'
  <2>1. PICK new : new = SetStopSign(FlushBatch(st))
    OBVIOUS
  <2>2. ch # << >> /\ msg.type = "AcceptStopSign" /\ channel' = Tail(ch) /\ Accepting(new, none)
    BY <1>1, <1>2, <1>11, <2>1 DEF ReceiveAcceptStopSign, Receives
  <2>3. /\ Extends(st, new, << >>) /\ new.cache.batch = << >> /\ new.cache.stopsign
        /\ new.cache.round = st.cache.round /\ Sound(new)
    BY <1>3, <2>1, SetStopTied
  <2>4. Extends(st, new, none)
    BY <1>2, <2>3
  <2>5. Contents(lead, own, log2, new, "Accept", Tail(ch))
    BY <1>1, <1>3, <1>9, <2>2, <2>3, <2>4, AcceptsRest
  <2> QED BY <1>9, <2>2, <2>3, <2>4, <2>5
<1>12. ASSUME FlushFollower PROVE ContentsInv'
  <2>1. PICK new : new = FlushBatch(st)
    OBVIOUS
  <2>2. channel' = ch /\ Accepting(new, none)
    BY <1>1, <1>2, <1>12, <2>1 DEF FlushFollower
  <2>3. /\ Sound(new) /\ Extends(st, new, none) /\ new.cache.stopsign = st.cache.stopsign
        /\ new.cache.round = st.cache.round
    BY <1>2, <1>3, <2>1, FlushExtends, FlushGrows DEF Grown
  <2>4. Contents(lead, own, log2, new, "Accept", ch)
    BY <1>3, <1>9, <2>2, <2>3, AcceptsRest
  <2> QED BY <1>9, <2>2, <2>3, <2>4
<1> QED BY <1>8, <1>10, <1>11, <1>12

\* New storages have nothing.
LEMMA InitContents == Init => ContentsInv
<1> SUFFICES ASSUME Init PROVE ContentsInv
    OBVIOUS
<1>1. PICK st, none : st = Opened(NewDisk) /\ none = << >>
    OBVIOUS
<1>2. /\ st.cache.batch = none /\ st.cache.round = 0 /\ st.cache.decided = 0 /\ st.cache.stopsign = FALSE
      /\ st.cache.compacted = 0 /\ st.disk.memory.log = none
  <2>1. PICK disk : disk = Reopened(NewDisk)
    OBVIOUS
  <2>2. /\ disk.memory = Memory!New /\ disk.round = 0 /\ disk.decided = 0 /\ disk.stopsign = FALSE
    BY <2>1 DEF Reopened, NewDisk
  <2>3. disk.memory.log = none /\ disk.memory.compacted = 0
    BY <1>1, <2>2 DEF Memory!New
  <2>4. st.disk = disk /\ st.cache = LoadCache(disk)
    BY <1>1, <2>1 DEF Opened
  <2>5. /\ st.cache.batch = none /\ st.cache.round = disk.round /\ st.cache.decided = disk.decided
        /\ st.cache.stopsign = disk.stopsign /\ st.cache.compacted = disk.memory.compacted
    BY <1>1, <2>4 DEF LoadCache, GetCompactedIdx
  <2> QED BY <2>2, <2>3, <2>4, <2>5
<1>3. none \in Seq(Commands) /\ Len(none) = 0
    BY <1>1, EmptySeq
<1>4. Tied(none, st)
  <2>1. PICK k, h : k = st.cache.compacted /\ h = st.disk.memory.log
    OBVIOUS
  <2>2. k = 0 /\ h = none
    BY <1>2, <2>1
  <2>3. Behind(none, k, h)
    BY <1>3, <2>2 DEF Behind
  <2> QED BY <2>1, <2>3 DEF Tied
<1>5. Quiet(st)
    BY <1>2 DEF Quiet
<1>6. PICK led : led = st.cache.stopsign
    OBVIOUS
<1>7. Agree(none, none, led, st.cache.decided)
  <2>1. Ss(led) = 0
    BY <1>2, <1>6 DEF Ss
  <2>2. PICK d : d = st.cache.decided
    OBVIOUS
  <2>3. d = 0
    BY <1>2, <2>2
  <2>4. Agree(none, none, led, d)
    BY <1>3, <2>1, <2>3 DEF Agree
  <2> QED BY <2>2, <2>4
<1>8. st.cache.round # Round
    BY <1>2 DEF Round
<1>9. Has(none, led, none, st)
    BY <1>4, <1>5, <1>7, <1>8 DEF Has
<1>10. Reaches(none, led, none, st, "Old", << >>)
  <2>1. PICK count : count = Count(none, st)
    OBVIOUS
  <2>2. Chain("Old", << >>, count, none, led)
    BY ChainElse
  <2> QED BY <1>8, <2>1, <2>2 DEF Reaches
<1>11. Contents(none, st, none, st, "Old", << >>)
    BY <1>4, <1>5, <1>6, <1>9, <1>10 DEF Contents
<1>12. /\ DOMAIN logs = Server /\ logs["leader"] = none /\ logs["follower"] = none
       /\ store["leader"] = st /\ store["follower"] = st /\ phase = "Old" /\ channel = << >>
    BY <1>1 DEF Init, Server
<1> QED BY <1>11, <1>12 DEF ContentsInv

\* Every step
LEMMA NextKeeps ==
    ASSUME StopSignCases = {}, StopEntry \notin Commands, StorageInv, ContentsInv, [Next]_vars
    PROVE  ContentsInv'
<1>1. CASE \E cmd \in Commands : LeaderAppend(cmd) \/ OldAppend(cmd)
    BY <1>1, LeaderAppends, OldAppends
<1>2. ASSUME NEW idx \in 1..(MaxLog + 1),
             \/ LeaderDecide(idx) \/ OldDecide(idx) \/ Trim(idx) \/ ForwardedTrim(idx)
             \/ \E s \in Server : Snapshot(s, idx)
      PROVE  ContentsInv'
  <2>1. idx \in Nat
    OBVIOUS
  <2> QED BY <1>2, <2>1, LeaderDecides, OldDecides, CompactionsKeep
<1>3. CASE FlushLeader
    BY <1>3, LeaderAppends
<1>4. CASE LeaderStopSign
    BY <1>4, LeaderStops
<1>5. CASE SendAcceptSync
    BY <1>5, LeaderSyncs
<1>6. CASE OldStopSign
    BY <1>6, OldAppends
<1>7. CASE ReceivePrepare
    BY <1>7, PrepareKeeps
<1>8. CASE Crash \/ CrashInAcceptDecide
    BY <1>8, CrashesKeep
<1>9. CASE FlushFollower \/ ReceiveAcceptDecide \/ ReceiveDecide \/ ReceiveAcceptStopSign
    BY <1>9, AcceptsKeep
<1>10. CASE ReceiveAcceptSync
    BY <1>10, SyncKeeps
<1>11. CASE UNCHANGED vars
    BY <1>11 DEF vars, ContentsInv
<1> QED BY <1>1, <1>2, <1>3, <1>4, <1>5, <1>6, <1>7, <1>8, <1>9, <1>10, <1>11 DEF Next

\* Whatever is batched, synchronised, compacted or lost in a crash, each storage holds its log, and
\* what the follower has or is sent is the leader's. Without the two cases around a stop sign in which
\* the code does not ensure it (see Cases), and with commands that are not mistaken for one.
THEOREM ContentsHold ==
    ASSUME StopSignCases = {}, StopEntry \notin Commands
    PROVE  Spec => []ContentsInv
<1>1. Init => ContentsInv
    BY InitContents
<1>2. StorageInv /\ ContentsInv /\ [Next]_vars => ContentsInv'
    BY NextKeeps
<1>3. Spec => []StorageInv
    BY StorageIsSound
<1> QED BY <1>1, <1>2, <1>3, PTL DEF Spec

\* What both invariants say of one storage
LEMMA StorageTied ==
    ASSUME StorageInv, ContentsInv, NEW s \in Server
    PROVE  Sound(store[s]) /\ Tied(logs[s], store[s])
BY StorageSound DEF ContentsInv, Contents, Has, Server

\* The back end holds the whole log behind the compacted index, and nothing else.
THEOREM StoreHolds ==
    ASSUME StopSignCases = {}, StopEntry \notin Commands
    PROVE  Spec => []StoreHoldsLog
<1>1. StorageInv /\ ContentsInv => StoreHoldsLog
  <2> SUFFICES ASSUME StorageInv, ContentsInv, NEW s \in Server, NEW disk, disk = store[s].disk,
                      NEW k, k = GetCompactedIdx(disk)
               PROVE  k <= Len(logs[s]) /\ GetSuffix(disk, k) = Rest(logs[s], k)
    BY DEF StoreHoldsLog
  <2>1. PICK st, lg : st = store[s] /\ lg = logs[s]
    OBVIOUS
  <2>2. Sound(st) /\ Tied(lg, st)
    BY <2>1, StorageTied
  <2>3. PICK log, snap, b, r, d, a, c, e :
            st = StorageOf(log, snap, b, r, d, a, c, e) /\ Counts(log, b, r, d, a, c, e)
    BY <2>2, SoundParts
  <2>4. st.cache.compacted = c /\ st.disk.memory = MemoryAt(log, c) /\ st.disk.memory.log = log
    BY <2>3, StorageFields
  <2>5. k = c
    BY <2>1, <2>4 DEF GetCompactedIdx, MemoryAt
  <2>6. log \in Seq(Commands) /\ c \in Nat /\ Len(log) \in Nat
    BY <2>3, LenProperties DEF Counts
  <2>7. lg \in Seq(Commands) /\ Len(lg) \in Nat /\ Len(lg) = c + Len(log) /\ \A i \in 1..Len(log) : log[i] = lg[c + i]
    <3>1. Behind(lg, c, log)
      BY <2>2, <2>4 DEF Tied
    <3>2. lg \in Seq(Commands) /\ Len(lg) = c + Len(log) /\ \A i \in 1..Len(log) : log[i] = lg[c + i]
      BY <3>1, Zenon DEF Behind
    <3> QED BY <2>6, <3>2
  <2>8. GetSuffix(disk, c) = log
    <3>1. PICK to : to = c + Len(log)
      OBVIOUS
    <3>2. disk.memory = MemoryAt(log, c)
      BY <2>1, <2>4
    <3>3. GetSuffix(disk, c) = SubSeq(log, c - c + 1, to - c)
      <4>1. Memory!GetSuffix(MemoryAt(log, c), c) = Memory!GetEntries(MemoryAt(log, c), c, to)
        BY <3>1 DEF Memory!GetSuffix, MemoryAt
      <4>2. Memory!GetEntries(MemoryAt(log, c), c, to) = SubSeq(log, c - c + 1, to - c)
        BY <2>6, <3>1 DEF Memory!GetEntries, MemoryAt
      <4> QED BY <3>2, <4>1, <4>2 DEF GetSuffix
    <3>4. c - c + 1 = 1 /\ to - c = Len(log)
      BY <2>6, <3>1
    <3>5. SubSeq(log, 1, Len(log)) = log
      BY <2>6
    <3> QED BY <3>3, <3>4, <3>5
  <2>9. Rest(lg, c) = log
    <3>1. PICK rest, n : rest = SubSeq(lg, c + 1, n) /\ n = Len(lg)
      OBVIOUS
    <3>2. rest \in Seq(Commands) /\ Len(rest) = n - (c + 1) + 1 /\ \A i \in 1..(n - (c + 1) + 1) : rest[i] = lg[(c + 1) + i - 1]
      <4>1. c + 1 \in 1..(n + 1) /\ n \in 0..n
        BY <2>6, <2>7, <3>1
      <4> QED BY <2>7, <3>1, <4>1, SubSeqProperties
    <3>3. n - (c + 1) + 1 = Len(log) /\ \A i \in 1..Len(log) : (c + 1) + i - 1 = c + i
      BY <2>6, <2>7, <3>1
    <3>4. Len(rest) = Len(log) /\ \A i \in 1..Len(log) : rest[i] = log[i]
      BY <2>7, <3>2, <3>3
    <3>5. rest = log
      BY <2>6, <3>2, <3>4, SeqEqual
    <3> QED BY <3>1, <3>5 DEF Rest
  <2> QED BY <2>1, <2>5, <2>6, <2>7, <2>8, <2>9
<1>2. (Spec => []StorageInv) /\ (Spec => []ContentsInv)
    BY StorageIsSound, ContentsHold
<1> QED BY <1>1, <1>2, PTL

\* Two logs that start with the same entries have the same prefix.
LEMMA PrefixSame ==
    ASSUME NEW S, NEW a \in Seq(S), NEW b \in Seq(S), NEW n \in Nat, n <= Len(a), n <= Len(b),
           \A i \in 1..n : a[i] = b[i]
    PROVE  Prefix(a, n) = Prefix(b, n)
<1>1. PICK u, v, k, l : u = SubSeq(a, 1, n) /\ v = SubSeq(b, 1, n) /\ k = Len(a) /\ l = Len(b)
    OBVIOUS
<1>2. k \in Nat /\ l \in Nat /\ n - 1 + 1 = n /\ 1 \in 1..(k + 1) /\ 1 \in 1..(l + 1) /\ n \in 0..k /\ n \in 0..l
    BY <1>1, LenProperties
<1>3. u \in Seq(S) /\ Len(u) = n /\ \A i \in 1..n : u[i] = a[i]
  <2>1. a \in Seq(S) /\ n \in Nat /\ k \in Nat /\ n <= k /\ k = Len(a)
    BY <1>1, <1>2
  <2> QED BY <1>1, <2>1, SubSeqProperties
<1>4. v \in Seq(S) /\ Len(v) = n /\ \A i \in 1..n : v[i] = b[i]
  <2>1. b \in Seq(S) /\ n \in Nat /\ l \in Nat /\ n <= l /\ l = Len(b)
    BY <1>1, <1>2
  <2> QED BY <1>1, <2>1, SubSeqProperties
<1>5. \A i \in 1..n : u[i] = v[i]
    BY <1>3, <1>4
<1>6. u = v
    BY <1>3, <1>4, <1>5, SeqEqual
<1> QED BY <1>1, <1>6 DEF Prefix

\* The whole of a log is a prefix of it.
LEMMA PrefixWhole ==
    ASSUME NEW S, NEW a \in Seq(S)
    PROVE  Prefix(a, Len(a)) = a
<1>1. SubSeq(a, 1, Len(a)) = a
    OBVIOUS
<1> QED BY <1>1 DEF Prefix

\* What a follower of this round has starts the leader's log, stop signs included.
LEMMA HeldStarts ==
    ASSUME NEW log \in Seq(Commands), NEW b \in Seq(Commands), NEW lead \in Seq(Commands),
           NEW stopped, NEW led, stopped => b = << >>, Follows(log \o b, stopped, lead, led)
    PROVE  LET held == (log \o Ending(stopped)) \o b
               full == lead \o Ending(led)
           IN  Len(held) <= Len(full) /\ held = Prefix(full, Len(held))
<1> SUFFICES ASSUME NEW held, held = (log \o Ending(stopped)) \o b, NEW full, full = lead \o Ending(led)
             PROVE  Len(held) <= Len(full) /\ held = Prefix(full, Len(held))
    OBVIOUS
<1>1. PICK S : S = Commands \cup {StopEntry}
    OBVIOUS
<1>2. PICK n : n = Len(lead)
    OBVIOUS
<1>3. /\ full \in Seq(S) /\ Len(full) = n + Ss(led)
      /\ \A i \in 1..Len(full) : full[i] = IF i <= n THEN lead[i] ELSE StopEntry
  <2>1. /\ full \in Seq(Commands \cup {StopEntry}) /\ Len(full) = Len(lead) + Ss(led)
        /\ \A i \in 1..Len(full) : full[i] = IF i <= Len(lead) THEN lead[i] ELSE StopEntry
    BY FullParts
  <2> QED BY <1>1, <1>2, <2>1
<1>4. n \in Nat
    BY <1>2, LenProperties
<1>5. PICK whole, m : whole = log \o b /\ m = Len(whole)
    OBVIOUS
<1>6. whole \in Seq(Commands) /\ m \in Nat
    BY <1>5, ConcatProperties, LenProperties
<1>7. m <= n /\ (\A i \in 1..m : whole[i] = lead[i]) /\ (stopped => led /\ m = n)
    BY <1>2, <1>5 DEF Follows, Starts
<1>8. /\ held \in Seq(S) /\ Len(held) <= Len(full)
      /\ \A i \in 1..Len(held) : held[i] = full[i]
  <2>1. CASE ~stopped
    <3>1. held = whole
      <4>1. log \o << >> = log
        BY ConcatEmptySeq
      <4> QED BY <1>5, <2>1, <4>1 DEF Ending
    <3>2. held \in Seq(S) /\ Len(held) = m
      <4>1. whole \in Seq(S)
        BY <1>1, <1>6
      <4> QED BY <1>5, <3>1, <4>1
    <3>3. Ss(led) \in {0, 1} /\ m <= Len(full)
      <4>1. Ss(led) \in {0, 1}
        BY DEF Ss
      <4> QED BY <1>3, <1>4, <1>6, <1>7, <4>1
    <3>4. ASSUME NEW i \in 1..m PROVE held[i] = full[i]
      <4>1. i <= n /\ i \in 1..Len(full)
        BY <1>3, <1>4, <1>6, <1>7, <3>3
      <4> QED BY <1>3, <1>7, <3>1, <4>1
    <3> QED BY <3>2, <3>3, <3>4
  <2>2. CASE stopped
    <3>1. PICK one : one = log \o Ending(stopped)
      OBVIOUS
    <3>2. whole = log /\ Len(log) = n /\ Ss(stopped) = Ss(led)
      <4>1. log \o << >> = log
        BY ConcatEmptySeq
      <4> QED BY <1>5, <1>7, <2>2, <4>1 DEF Ss
    <3>3. /\ one \in Seq(S) /\ Len(one) = n + Ss(led)
          /\ \A i \in 1..Len(one) : one[i] = IF i <= n THEN log[i] ELSE StopEntry
      <4>1. /\ one \in Seq(Commands \cup {StopEntry}) /\ Len(one) = Len(log) + Ss(stopped)
            /\ \A i \in 1..Len(one) : one[i] = IF i <= Len(log) THEN log[i] ELSE StopEntry
        BY <3>1, FullParts
      <4> QED BY <1>1, <3>2, <4>1
    <3>4. held = one
      BY <2>2, <3>1, <3>3, ConcatEmptySeq
    <3>5. Len(one) = Len(full) /\ Len(full) \in Nat
      BY <1>3, <3>3, LenProperties
    <3>6. ASSUME NEW i \in 1..Len(one) PROVE one[i] = full[i]
      <4>1. i <= n => i \in 1..m
        BY <1>4, <1>7, <2>2, <3>5
      <4>2. i <= n => log[i] = lead[i]
        BY <1>7, <3>2, <4>1
      <4>3. full[i] = IF i <= n THEN lead[i] ELSE StopEntry
        BY <1>3, <3>5
      <4> QED BY <3>3, <4>2, <4>3
    <3>7. Len(one) <= Len(full)
      BY <3>5
    <3> QED BY <3>3, <3>4, <3>6, <3>7
  <2> QED BY <2>1, <2>2
<1>9. PICK k : k = Len(held)
    OBVIOUS
<1>10. Prefix(held, k) = Prefix(full, k)
  <2>1. held \in Seq(S) /\ full \in Seq(S) /\ k <= Len(full) /\ \A i \in 1..k : held[i] = full[i]
    BY <1>3, <1>8, <1>9, Zenon
  <2>2. Len(held) \in Nat
    BY <1>8, LenProperties, Zenon
  <2>3. k \in Nat /\ k <= Len(held)
    BY <1>9, <2>2
  <2> QED BY <2>1, <2>3, PrefixSame
<1>11. Prefix(held, k) = held
    BY <1>8, <1>9, PrefixWhole
<1> QED BY <1>8, <1>9, <1>10, <1>11

\* What a follower has decided starts the leader's log, stop signs included.
LEMMA DecidedStarts ==
    ASSUME NEW log \in Seq(Commands), NEW b \in Seq(Commands), NEW lead \in Seq(Commands),
           NEW stopped, NEW led, NEW d \in Nat, d <= Len(log) + Ss(stopped), Agree(log, lead, led, d)
    PROVE  LET held == (log \o Ending(stopped)) \o b
               full == lead \o Ending(led)
           IN  d <= Len(log \o Ending(stopped)) /\ Prefix(held, d) = Prefix(full, d)
<1> SUFFICES ASSUME NEW held, held = (log \o Ending(stopped)) \o b, NEW full, full = lead \o Ending(led)
             PROVE  d <= Len(log \o Ending(stopped)) /\ Prefix(held, d) = Prefix(full, d)
    OBVIOUS
<1>1. PICK S, n : S = Commands \cup {StopEntry} /\ n = Len(lead)
    OBVIOUS
<1>2. PICK one, m : one = log \o Ending(stopped) /\ m = Len(log)
    OBVIOUS
<1>3. n \in Nat /\ m \in Nat
    BY <1>1, <1>2, LenProperties
<1>4. /\ full \in Seq(S) /\ Len(full) = n + Ss(led)
      /\ \A i \in 1..Len(full) : full[i] = IF i <= n THEN lead[i] ELSE StopEntry
  <2>1. /\ full \in Seq(Commands \cup {StopEntry}) /\ Len(full) = Len(lead) + Ss(led)
        /\ \A i \in 1..Len(full) : full[i] = IF i <= Len(lead) THEN lead[i] ELSE StopEntry
    BY FullParts
  <2> QED BY <1>1, <2>1
<1>5. /\ one \in Seq(S) /\ Len(one) = m + Ss(stopped)
      /\ \A i \in 1..Len(one) : one[i] = IF i <= m THEN log[i] ELSE StopEntry
  <2>1. /\ one \in Seq(Commands \cup {StopEntry}) /\ Len(one) = Len(log) + Ss(stopped)
        /\ \A i \in 1..Len(one) : one[i] = IF i <= Len(log) THEN log[i] ELSE StopEntry
    BY <1>2, FullParts
  <2> QED BY <1>1, <1>2, <2>1
<1>6. PICK p, q : p = Len(one) /\ q = Len(full)
    OBVIOUS
<1>7. p \in Nat /\ q \in Nat /\ d <= p /\ d <= q
  <2>1. d <= n + Ss(led)
    BY <1>1 DEF Agree
  <2> QED BY <1>2, <1>4, <1>5, <1>6, <2>1, LenProperties
<1>8. held \in Seq(S) /\ Len(held) \in Nat /\ p <= Len(held) /\ \A i \in 1..p : held[i] = one[i]
  <2>1. b \in Seq(S) /\ Len(b) \in Nat
    BY <1>1, LenProperties
  <2>2. PICK all : all = one \o b
    OBVIOUS
  <2>3. /\ all \in Seq(S) /\ Len(all) = p + Len(b)
        /\ \A i \in 1..(p + Len(b)) : all[i] = IF i <= p THEN one[i] ELSE b[i - p]
    BY <1>5, <1>6, <2>1, <2>2, ConcatProperties
  <2>4. \A i \in 1..p : i \in 1..(p + Len(b)) /\ i <= p
    BY <1>7, <2>1
  <2>5. held = all
    BY <1>2, <2>2
  <2>6. \A i \in 1..p : all[i] = one[i]
    BY <2>3, <2>4
  <2>7. p + Len(b) \in Nat /\ p <= p + Len(b)
    BY <1>7, <2>1
  <2> QED BY <2>3, <2>5, <2>6, <2>7
<1>9. ASSUME NEW i \in 1..d PROVE held[i] = full[i]
  <2>1. i \in 1..p /\ i \in 1..q
    BY <1>7
  <2>2. (i <= m <=> i <= n) /\ (i <= m => log[i] = lead[i])
    BY <1>1, <1>2 DEF Agree
  <2>3. one[i] = (IF i <= m THEN log[i] ELSE StopEntry) /\ full[i] = IF i <= n THEN lead[i] ELSE StopEntry
    BY <1>4, <1>5, <1>6, <2>1
  <2> QED BY <1>8, <2>1, <2>2, <2>3
<1>10. Prefix(held, d) = Prefix(full, d)
  <2>1. /\ held \in Seq(S) /\ full \in Seq(S) /\ d <= Len(held) /\ d <= Len(full)
        /\ \A i \in 1..d : held[i] = full[i]
    BY <1>4, <1>6, <1>7, <1>8, <1>9
  <2> QED BY <2>1, PrefixSame
<1> QED BY <1>2, <1>6, <1>7, <1>10

\* The follower's decided entries are the leader's, and once it has synchronised with the leader
\* all it has starts the leader's log.
THEOREM FollowerHolds ==
    ASSUME StopSignCases = {}, StopEntry \notin Commands
    PROVE  Spec => []FollowerHoldsPrefix
<1>1. StorageInv /\ ContentsInv => FollowerHoldsPrefix
  <2> SUFFICES ASSUME StorageInv, ContentsInv
               PROVE  FollowerHoldsPrefix
    OBVIOUS
  <2>1. PICK own, lead, log, st : /\ own = store["leader"] /\ lead = logs["leader"] /\ log = logs["follower"]
                                  /\ st = store["follower"]
    OBVIOUS
  <2>2. PICK led, stopped, b, d : /\ led = own.cache.stopsign /\ stopped = st.cache.stopsign
                                  /\ b = st.cache.batch /\ d = st.cache.decided
    OBVIOUS
  <2>3. Sound(own) /\ Sound(st) /\ Has(lead, led, log, st) /\ Tied(lead, own)
    BY <2>1, <2>2, InvParts DEF ContentsInv, Contents
  <2>4. Tied(log, st) /\ Quiet(st) /\ Agree(log, lead, led, d)
    BY <2>2, <2>3 DEF Has
  <2>5. lead \in Seq(Commands) /\ log \in Seq(Commands)
    BY <2>3, <2>4, Zenon DEF Tied, Behind
  <2>6. PICK held, full : held = (log \o Ending(stopped)) \o b /\ full = lead \o Ending(led)
    OBVIOUS
  <2>7. Full("follower") = log \o Ending(stopped) /\ full = Full("leader")
    BY <2>1, <2>2, <2>6 DEF Full, Ending, StopEntry
  <2>8. b \in Seq(Commands) /\ d \in Nat
    BY <2>2, <2>3, SoundNumbers
  <2>9. d <= Len(log) + Ss(stopped)
    <3>1. st.cache.accepted = Len(log) + Ss(stopped)
      BY <2>2, <2>3, <2>4, TiedCounts
    <3>2. d <= st.cache.accepted
      BY <2>2, <2>3, SoundNumbers
    <3> QED BY <3>1, <3>2
  <2>10. d <= Len(log \o Ending(stopped)) /\ Prefix(held, d) = Prefix(full, d)
    <3>1. /\ lead \in Seq(Commands) /\ log \in Seq(Commands) /\ b \in Seq(Commands) /\ d \in Nat
          /\ d <= Len(log) + Ss(stopped) /\ Agree(log, lead, led, d)
      BY <2>4, <2>5, <2>8, <2>9
    <3>2. /\ d <= Len(log \o Ending(stopped))
          /\ Prefix((log \o Ending(stopped)) \o b, d) = Prefix(lead \o Ending(led), d)
      BY <3>1, DecidedStarts
    <3> QED BY <2>6, <3>2
  <2>11. stopped => b = << >>
    BY <2>2, <2>4 DEF Quiet
  <2>12. ASSUME phase = "Accept" PROVE Len(held) <= Len(full) /\ held = Prefix(full, Len(held))
    <3>1. st.cache.round = Round
      BY <2>1, <2>12, InvParts DEF PhaseOK
    <3>2. Follows(log \o b, stopped, lead, led)
      BY <2>2, <2>3, <3>1 DEF Has
    <3>3. /\ lead \in Seq(Commands) /\ log \in Seq(Commands) /\ b \in Seq(Commands)
          /\ (stopped => b = << >>) /\ Follows(log \o b, stopped, lead, led)
      BY <2>5, <2>8, <2>11, <3>2
    <3>4. PICK h, f : h = (log \o Ending(stopped)) \o b /\ f = lead \o Ending(led)
      OBVIOUS
    <3>5. Len(h) <= Len(f) /\ h = Prefix(f, Len(h))
      BY <3>3, <3>4, HeldStarts
    <3> QED BY <2>6, <3>4, <3>5
  <2>13. held = Full("follower") \o store["follower"].cache.batch /\ d = store["follower"].cache.decided
    BY <2>1, <2>2, <2>6, <2>7
  <2> QED BY <2>7, <2>10, <2>12, <2>13 DEF FollowerHoldsPrefix
<1>2. (Spec => []StorageInv) /\ (Spec => []ContentsInv)
    BY StorageIsSound, ContentsHold
<1> QED BY <1>1, <1>2, PTL

================================================================================
