---------------------------- MODULE LogReplication ----------------------------
(***************************************************************************)
(* The storage of a leader and of one follower as Sequence Paxos uses them:   *)
(* batches, log synchronisation from any earlier log, stop sign, trimming,    *)
(* snapshots and crashes, with the entries as commands on keys. What the rest *)
(* of the cluster makes possible (decisions) is up to the environment.        *)
(***************************************************************************)
EXTENDS LogStorage

CONSTANTS
    Commands,       \* commands of clients
    SnapshotModes,  \* values of use_snapshots() to check
    MaxLog,         \* bound on the leader's log
    MaxOld,         \* bound on what the follower has from an earlier leader
    MaxSessions,    \* bound on promises of the follower, that is synchronisations
    StopSignCases   \* what may happen around a stop sign, see Cases

Server == {"leader", "follower"}

\* "again": a follower that has the leader's stop sign synchronises once more;
\* "append": the leader still releases proposals when it has accepted the stop sign
Cases == {"again", "append"}

ASSUME ReplicationAssumption ==
    /\ MaxLog \in Nat /\ MaxOld \in Nat /\ MaxSessions \in Nat
    /\ SnapshotModes \subseteq BOOLEAN /\ StopSignCases \subseteq Cases

VARIABLES
    useSnapshots,   \* T::Snapshot::use_snapshots()
    store,          \* store[s]: InternalStorage
    phase,          \* the follower's: "Old" with an earlier leader, "Recover", "Prepare", "Accept"
    promise,        \* the follower's promise on its way to the leader, or NoPromise
    channel,        \* messages of the leader to the follower since AcceptSync
    acked,          \* the leader's accepted index of the follower
    trimmed,        \* the largest index of the leader's Compaction messages
    sessions,       \* number of promises so far
    logs,           \* history: logs[s], all entries s ever flushed and not overwrote
    byDelta         \* history: a delta is part of the follower's snapshot

vars == <<useSnapshots, store, phase, promise, channel, acked, trimmed, sessions, logs, byDelta>>

NoPromise == << >>
Round == 1      \* the leader's; 0 is an earlier one

Init ==
    /\ useSnapshots \in SnapshotModes
    /\ store = [s \in Server |-> Opened(NewDisk)]
    /\ phase = "Old" /\ promise = NoPromise /\ channel = << >> /\ acked = 0 /\ trimmed = 0 /\ sessions = 0
    /\ logs = [s \in Server |-> << >>]
    /\ byDelta = FALSE

\* s has the storage st, after these entries were appended to log and batch
Stored(s, st, entries) ==
    LET all == logs[s] \o store[s].cache.batch \o entries
    IN  /\ store' = [store EXCEPT ![s] = st]
        /\ logs' = [logs EXCEPT ![s] = Prefix(all, Len(all) - Len(st.cache.batch))]

\* The log with its stop sign
Full(s) == logs[s] \o (IF store[s].cache.stopsign THEN << [op |-> "StopSign", key |-> 0, value |-> 0] >> ELSE << >>)

--------------------------------------------------------------------------------
\* The leader

InSession == phase = "Accept" \/ channel # << >>
Send(msgs) == channel' = IF InSession THEN channel \o msgs ELSE channel

AcceptDecide(entries, decided) ==
    IF entries = << >> THEN << >>
    ELSE << [type |-> "AcceptDecide", entries |-> entries, decided |-> decided] >>
AcceptStopSign == [type |-> "AcceptStopSign"]
Decide(decided) == [type |-> "Decide", decided |-> decided]

ByLeader == UNCHANGED <<useSnapshots, phase, promise, acked, trimmed, sessions, byDelta>>

\* append_with_id refuses entries at an accepted stop sign; what the DOM buffer held before
\* is released until the stop sign is decided.
MayAppend(cache) ==
    /\ ~StopSignIsDecided(cache)
    /\ cache.stopsign => "append" \in StopSignCases

\* accept_entry_leader
LeaderAppend(cmd) ==
    LET own == store["leader"] IN
    /\ MayAppend(own.cache) /\ Len(logs["leader"]) + Len(own.cache.batch) < MaxLog
    /\ Stored("leader", AppendWithBatching(own, <<cmd>>), <<cmd>>)
    /\ Send(AcceptDecide(Flushed(own, <<cmd>>), own.cache.decided))
    /\ ByLeader

\* flush_batch_leader
FlushLeader ==
    LET own == store["leader"] IN
    /\ own.cache.batch # << >>
    /\ Stored("leader", FlushBatch(own), << >>)
    /\ Send(AcceptDecide(own.cache.batch, own.cache.decided))
    /\ ByLeader

\* accept_stopsign_leader
LeaderStopSign ==
    LET own == store["leader"] IN
    /\ ~own.cache.stopsign
    /\ Stored("leader", AppendStopSign(own), << >>)
    /\ Send(AcceptDecide(own.cache.batch, own.cache.decided) \o <<AcceptStopSign>>)
    /\ ByLeader

\* handle_accepted: a majority, with or without this follower, has accepted idx
LeaderDecide(idx) ==
    LET own == store["leader"] IN
    /\ own.cache.decided < idx /\ idx <= own.cache.accepted
    /\ Stored("leader", SetDecided(own, idx), << >>)
    /\ Send(<<Decide(idx)>>)
    /\ ByLeader

\* handle_promise_accept with send_accsync; another round's entries are not trusted
SendAcceptSync ==
    LET own == store["leader"]
        valid == IF promise.round = Round THEN promise.accepted ELSE promise.decided
    IN  /\ promise # NoPromise
        /\ promise' = NoPromise
        /\ channel' = << [type |-> "AcceptSync", decided |-> own.cache.decided, log |-> logs["leader"],
                          sync |-> CreateLogSync(own, useSnapshots, valid, promise.decided)] >>
        /\ UNCHANGED <<useSnapshots, store, phase, acked, trimmed, sessions, logs, byDelta>>

--------------------------------------------------------------------------------
\* Compaction, at either server

Compacting(s, st) ==
    /\ Stored(s, st, << >>)
    /\ UNCHANGED <<useSnapshots, phase, promise, channel, acked, sessions, byDelta>>

\* Mutant of Trim: the leader forgets that the follower may lack the entries.
TrimDecided(idx) ==
    /\ ~useSnapshots /\ idx <= store["leader"].cache.decided
    /\ Compacting("leader", TryTrim(store["leader"], idx))
    /\ trimmed' = Larger(trimmed, idx)

\* trim at the leader, up to what every server has accepted
Trim(idx) ==
    /\ ~useSnapshots /\ idx <= store["leader"].cache.decided
    /\ idx <= acked /\ idx <= store["leader"].cache.accepted
    /\ Compacting("leader", TryTrim(store["leader"], idx))
    /\ trimmed' = Larger(trimmed, idx)

\* handle_compaction of the leader's Trim
ForwardedTrim(idx) ==
    /\ idx <= trimmed
    /\ Compacting("follower", TryTrim(store["follower"], idx))
    /\ UNCHANGED trimmed

\* snapshot, called by the user or by handle_compaction
Snapshot(s, idx) ==
    /\ useSnapshots
    /\ Compacting(s, TrySnapshot(store[s], idx))
    /\ UNCHANGED trimmed

--------------------------------------------------------------------------------
\* The follower

\* Under an earlier leader, whose decisions the present one has
OldAppend(cmd) ==
    LET own == store["follower"] IN
    /\ phase = "Old" /\ MayAppend(own.cache) /\ Len(logs["follower"]) + Len(own.cache.batch) < MaxOld
    /\ Stored("follower", AppendWithBatching(own, <<cmd>>), <<cmd>>)
    /\ UNCHANGED <<useSnapshots, phase, promise, channel, acked, trimmed, sessions, byDelta>>

OldStopSign ==
    LET own == store["follower"] IN
    /\ phase = "Old" /\ ~own.cache.stopsign /\ Len(logs["follower"]) + Len(own.cache.batch) < MaxOld
    /\ Stored("follower", SetStopSign(FlushBatch(own)), << >>)
    /\ UNCHANGED <<useSnapshots, phase, promise, channel, acked, trimmed, sessions, byDelta>>

OldDecide(idx) ==
    LET own == store["follower"] IN
    /\ phase = "Old" /\ own.cache.decided < idx /\ idx <= Len(Full("follower"))
    /\ idx <= Len(Full("leader")) /\ Prefix(Full("follower"), idx) = Prefix(Full("leader"), idx)
    /\ Stored("follower", UpdateDecided(own, idx), << >>)
    /\ UNCHANGED <<useSnapshots, phase, promise, channel, acked, trimmed, sessions, byDelta>>

\* The stop sign is in the prefix that the leader takes for common.
StopSignInPrefix(cache) ==
    StopSignIsDecided(cache) \/ (cache.stopsign /\ cache.round = Round)

\* handle_prepare, at first or after a lost connection; what is under way is then ignored
ReceivePrepare ==
    LET own == FlushBatch(store["follower"]) IN
    /\ "again" \in StopSignCases \/ ~StopSignInPrefix(own.cache)
    /\ sessions < MaxSessions /\ sessions' = sessions + 1
    /\ Stored("follower", own, << >>)
    /\ phase' = "Prepare" /\ channel' = << >>
    /\ promise' = [round |-> own.cache.round, decided |-> own.cache.decided,
                   accepted |-> own.cache.accepted]
    /\ UNCHANGED <<useSnapshots, acked, trimmed, byDelta>>

Crash ==
    /\ phase # "Recover" /\ sessions < MaxSessions
    /\ store' = [store EXCEPT !["follower"] = Opened(@.disk)]
    /\ phase' = "Recover" /\ channel' = << >> /\ promise' = NoPromise
    /\ UNCHANGED <<useSnapshots, acked, trimmed, sessions, logs, byDelta>>

\* A crash between the writes of handle_acceptdecide: entries are appended, and perhaps the
\* batch is flushed, but the decided index is not written.
CrashInAcceptDecide ==
    LET msg == Head(channel)
        appended == AppendWithBatching(store["follower"], msg.entries)
        all == logs["follower"] \o store["follower"].cache.batch \o msg.entries
    IN  /\ channel # << >> /\ msg.type = "AcceptDecide" /\ phase = "Accept"
        /\ sessions < MaxSessions
        /\ \E st \in {appended} \cup (IF msg.decided > appended.cache.accepted
                                     THEN {FlushBatch(appended)} ELSE {}) :
              /\ store' = [store EXCEPT !["follower"] = Opened(st.disk)]
              /\ logs' = [logs EXCEPT !["follower"] = Prefix(all, Len(all) - Len(st.cache.batch))]
        /\ phase' = "Recover" /\ channel' = << >> /\ promise' = NoPromise
        /\ UNCHANGED <<useSnapshots, acked, trimmed, sessions, byDelta>>

Receives(type) ==
    /\ channel # << >> /\ Head(channel).type = type
    /\ channel' = Tail(channel)
    /\ UNCHANGED <<useSnapshots, promise, trimmed, sessions>>

\* Accepted tells the leader what is flushed
Acknowledge(st) == acked' = st.cache.accepted

ReceiveAcceptSync ==
    LET msg == Head(channel) IN
    /\ Receives("AcceptSync") /\ phase = "Prepare" /\ phase' = "Accept"
    /\ \E st \in {SyncLog(store["follower"], Round, msg.decided, msg.sync)} :
          store' = [store EXCEPT !["follower"] = st] /\ Acknowledge(st)
    /\ logs' = [logs EXCEPT !["follower"] = msg.log]
    /\ byDelta' = CASE msg.sync.decidedSnapshot.type = "Delta" -> TRUE
                    [] msg.sync.decidedSnapshot.type = "Complete" -> FALSE
                    [] OTHER -> byDelta

Accepting(st, entries) ==
    /\ phase = "Accept"
    /\ Stored("follower", st, entries) /\ Acknowledge(st)
    /\ UNCHANGED <<phase, byDelta>>

ReceiveAcceptDecide ==
    /\ Receives("AcceptDecide")
    /\ LET msg == Head(channel)
       IN  Accepting(UpdateDecided(AppendWithBatching(store["follower"], msg.entries), msg.decided),
                     msg.entries)

ReceiveDecide ==
    /\ Receives("Decide")
    /\ Accepting(UpdateDecided(store["follower"], Head(channel).decided), << >>)

\* handle_accept_stopsign
ReceiveAcceptStopSign ==
    /\ Receives("AcceptStopSign")
    /\ Accepting(SetStopSign(FlushBatch(store["follower"])), << >>)

\* flush_batch_follower
FlushFollower ==
    /\ store["follower"].cache.batch # << >>
    /\ Accepting(FlushBatch(store["follower"]), << >>)
    /\ UNCHANGED <<useSnapshots, promise, channel, trimmed, sessions>>

--------------------------------------------------------------------------------
Next ==
    \/ \E cmd \in Commands : LeaderAppend(cmd) \/ OldAppend(cmd)
    \/ \E idx \in 1..(MaxLog + 1) :
          \/ LeaderDecide(idx) \/ OldDecide(idx) \/ Trim(idx) \/ ForwardedTrim(idx)
          \/ \E s \in Server : Snapshot(s, idx)
    \/ FlushLeader \/ LeaderStopSign \/ SendAcceptSync
    \/ OldStopSign \/ ReceivePrepare \/ Crash \/ CrashInAcceptDecide \/ FlushFollower
    \/ ReceiveAcceptSync \/ ReceiveAcceptDecide \/ ReceiveDecide \/ ReceiveAcceptStopSign

Spec == Init /\ [][Next]_vars

--------------------------------------------------------------------------------
\* Properties

\* The state cache is what a restart would load from the back end, except for the batch.
CacheIsStore ==
    \A s \in Server : [store[s].cache EXCEPT !.batch = << >>] = LoadCache(store[s].disk)

\* The back end holds the whole log behind the compacted index, and nothing else.
StoreHoldsLog ==
    \A s \in Server :
        LET disk == store[s].disk
            compacted == GetCompactedIdx(disk)
        IN  compacted <= Len(logs[s]) /\ GetSuffix(disk, compacted) = Rest(logs[s], compacted)

\* The two back ends stand for the same log, and PersistentStorage finds its next key again
\* when it is opened, whatever was trimmed, overwritten or replaced by a snapshot before
\* (open, batch_append_on_prefix, batch_trim).
BackEndsAgree ==
    \A s \in Server :
        LET memory == store[s].disk.memory
            rocks == store[s].disk.rocks
        IN  /\ SameLog(memory, rocks) /\ Rocks!Open(rocks) = rocks
            /\ Rocks!GetSuffix(rocks, rocks.trim) = memory.log

\* A follower in its session has a prefix of the leader's log, stop sign and batch
\* included, and what it has decided at any time is in the leader's log.
FollowerHoldsPrefix ==
    LET decided == store["follower"].cache.decided
        held == Full("follower") \o store["follower"].cache.batch
        led == Full("leader")
    IN  /\ decided <= Len(Full("follower"))
        /\ Prefix(held, decided) = Prefix(led, decided)
        /\ phase = "Accept" => Len(held) <= Len(led) /\ held = Prefix(led, Len(held))

\* A snapshot is the result of all commands up to the compacted index, unless a delta was
\* merged into it, apart from deletions that KVSnapshot::create hides (HiddenDeletions).
SnapshotIsReplay ==
    useSnapshots =>
        \A s \in Server :
            LET disk == store[s].disk
                cmds == Prefix(logs[s], GetCompactedIdx(disk))
            IN  (GetCompactedIdx(disk) > 0 /\ ~(s = "follower" /\ byDelta)) =>
                    /\ disk.snapshot # NoSnapshot
                    /\ AgreeExcept(HiddenDeletions(cmds), disk.snapshot[1].snapshotted, Replay(cmds))

\* The snapshot a follower gets by a delta ("snapshotted changes since an earlier snapshot")
\* is the result of all commands up to the compacted index, too.
DeltaCompletesSnapshot ==
    useSnapshots =>
        LET disk == store["follower"].disk
            cmds == Prefix(logs["follower"], GetCompactedIdx(disk))
        IN  byDelta =>
            AgreeExcept(HiddenDeletions(cmds), disk.snapshot[1].snapshotted, Replay(cmds))

\* Reading any range gives each entry of it once, in order and with its decidedness; what
\* is compacted is replaced by one entry that names the compacted index.
ReadsAreComplete ==
    \A s \in Server : \A to \in 1..Len(Full(s)) : \A from \in 0..(to - 1) :
        LET result == Read(store[s], from, to)
            compacted == GetCompactedIdx(store[s].disk)
            read == SelectSeq(result, LAMBDA e : e[1] \in {"Decided", "Undecided", "StopSign"})
            first == IF from < compacted THEN compacted ELSE from
        IN  /\ from < compacted <=> result # << >> /\ Head(result)[1] \in {"Snapshotted", "Trimmed"}
            /\ Len(result) = Len(read) + (IF from < compacted THEN 1 ELSE 0)
            /\ Len(read) = IF first < to THEN to - first ELSE 0
            /\ \A i \in DOMAIN read :
                  IF first + i > Len(logs[s])
                  THEN read[i] = <<"StopSign", store[s].cache.decided = first + i>>
                  ELSE read[i] = <<IF first + i <= store[s].cache.decided
                                   THEN "Decided" ELSE "Undecided", logs[s][first + i]>>
===============================================================================
