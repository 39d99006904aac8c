-------------------------- MODULE SequencePaxosHistory -------------------------
(***************************************************************************)
(* What the slow path has agreed on: the inductive invariant behind agreement,*)
(* and the steps up to the start of a ballot: messages, the prepare phase, the *)
(* majority of promises, and crashes, also one in the middle of that start.   *)
(*                                                                         *)
(* The invariant speaks of a history that the servers do not keep: the log of *)
(* every ballot's leader, how much of it each server has held, and the length *)
(* of that log at every sequence number the leader has used.  It says that    *)
(* some history fits the present state, so no variable is added.  The fast    *)
(* path being off, nobody has unsynced entries, so what a leader adopts is the *)
(* most recent log promised to it.                                           *)
(***************************************************************************)
EXTENDS SequencePaxosProofs

--------------------------------------------------------------------------------
\* Logs that agree

\* l and m have at least k entries, and the first k are the same.
Same(l, m, k) == k <= Len(l) /\ k <= Len(m) /\ \A i \in 1..k : l[i] = m[i]

\* Putting sync on log yields the first k entries of target (sync_log).
Synced(log, sync, target, k) ==
    /\ Same(log, target, sync.idx) /\ k <= Len(target)
    /\ k = sync.idx + Len(sync.suffix)
    /\ \A i \in DOMAIN sync.suffix : sync.suffix[i] = target[sync.idx + i]

\* The order of sequence numbers.
SeqLeq(p, q) == p.session < q.session \/ (p.session = q.session /\ p.counter <= q.counter)

--------------------------------------------------------------------------------
\* Histories

\* started: the ballots whose leader has adopted a log; base: how long it was then;
\* log: the longest log of the ballot's leader; voted: the longest log each server has
\* had in the ballot; top: how long the leader's log was at each of its sequence numbers.
History == [started : SUBSET Ballot, base : [Ballot -> Nat], log : [Ballot -> Seq(EntryId)],
            voted : [Server -> [Ballot -> Nat]],
            top : [Server -> [Ballot -> [SeqNum -> Nat]]]]

\* A quorum has accepted i entries in ballot b.
Chosen(h, b, i) ==
    \E W \in SUBSET Server : /\ IsAcceptQuorum(Quorum, Cardinality(W))
                             /\ \A t \in W : h.voted[t][b] >= i

\* A quorum has, or may still have.
Choosable(h, b, i) ==
    \E W \in SUBSET Server : /\ IsAcceptQuorum(Quorum, Cardinality(W))
                             /\ \A t \in W : h.voted[t][b] >= i \/ store[t].promise <= b

\* d entries were decided in ballot r or below.
DecidedBy(h, r, d) == \E c \in h.started : c <= r /\ Chosen(h, c, d)

\* The history's own coherence.
HistoryOK(h) ==
    /\ 0 \in h.started
    /\ \A b \in Ballot :
        /\ b \in h.started => h.base[b] <= Len(h.log[b])
        /\ b \notin h.started => Len(h.log[b]) = 0
        /\ \A t \in Server : h.voted[t][b] <= Len(h.log[b])
        /\ b \in h.started /\ b # 0 => b <= store[Owner[b]].promise

\* What may be decided below a ballot, the ballot's leader adopted.
Safe(h) ==
    \A n \in h.started, b \in Ballot : b < n => \A i \in Nat :
        Choosable(h, b, i) => i <= h.base[n] /\ Same(h.log[n], h.log[b], i)

--------------------------------------------------------------------------------
\* How a state fits a history

\* A server's log is a prefix of its ballot's.
StoreFits(h, t) ==
    LET st == store[t] IN
    /\ st.accRound \in h.started
    /\ h.base[st.accRound] <= Len(st.log)
    /\ Same(st.log, h.log[st.accRound], Len(st.log))
    /\ h.voted[t][st.accRound] = Len(st.log)
    /\ \A b \in Ballot : b > st.accRound => h.voted[t][b] = 0
    /\ st.decided <= Len(st.log)
    /\ DecidedBy(h, st.accRound, st.decided)

\* What f said of itself when it promised n is true of everything below n for good,
\* and of its log until it accepts in n.
Known(h, f, n, p) ==
    /\ n <= store[f].promise
    /\ p.nAccepted \in h.started /\ p.nAccepted <= n
    /\ h.base[p.nAccepted] <= p.accIdx /\ p.accIdx <= Len(h.log[p.nAccepted])
    /\ p.decided <= p.accIdx /\ DecidedBy(h, p.nAccepted, p.decided)
    /\ p.nAccepted < n => /\ h.voted[f][p.nAccepted] = p.accIdx
                          /\ \A b \in Ballot : p.nAccepted < b /\ b < n => h.voted[f][b] = 0
    /\ store[f].promise = n /\ store[f].accRound # n =>
           store[f].accRound = p.nAccepted /\ Len(store[f].log) = p.accIdx
    /\ store[f].promise = n /\ p.nAccepted = n => p.accIdx <= Len(store[f].log)

Own(l) == [nAccepted |-> store[l].accRound, accIdx |-> Len(store[l].log)]

\* A leader that prepares knows the most recent log promised so far, or has it.
Prepared(h, l, ls) ==
    /\ ls.n \notin h.started
    /\ l \in HasPromised(ls)
    /\ ls.maxMeta.nAccepted \in h.started /\ ls.maxMeta.nAccepted < ls.n
    /\ h.base[ls.maxMeta.nAccepted] <= ls.maxMeta.accIdx
    /\ \A t \in HasPromised(ls) : /\ Known(h, t, ls.n, ls.promises[t])
                                  /\ ~MoreUpToDate(ls.promises[t], ls.maxMeta)
    /\ IF ls.maxSync = None THEN ls.maxMeta = Own(l)
       ELSE Synced(store[l].log, ls.maxSync, h.log[ls.maxMeta.nAccepted], ls.maxMeta.accIdx)
Preparing(h, l) == Prepared(h, l, lead[l])

\* A leader that accepts has its ballot's whole log, which starts with the log it
\* adopted, and every promised follower's sequence number stands for all of it.
Accepting(h, l) ==
    LET ls == lead[l] IN
    /\ store[l].accRound = ls.n
    /\ Len(store[l].log) = Len(h.log[ls.n])
    /\ ls.maxMeta.nAccepted \in h.started /\ ls.maxMeta.nAccepted < ls.n
    /\ h.base[ls.n] = ls.maxMeta.accIdx
    /\ Same(h.log[ls.n], h.log[ls.maxMeta.nAccepted], h.base[ls.n])
    /\ \A f \in PromisedFollowers(ls) : h.top[f][ls.n][ls.seqs[f]] = Len(store[l].log)

LeaderFits(h, l) ==
    state[l].role = "Leader" =>
        /\ \A t \in Server : lead[l].accIdx[t] <= h.voted[t][lead[l].n]
        /\ state[l].phase = "Prepare" => Preparing(h, l)
        /\ state[l].phase = "Accept" => Accepting(h, l)

\* A promise brings the log it speaks of, unless the leader's own is as recent.
SyncFits(h, l, m) ==
    IsLeader(l, "Prepare") /\ lead[l].n = m.n =>
        IF m.sync = None THEN ~MoreUpToDate(m, Own(l))
        ELSE Synced(store[l].log, m.sync, h.log[m.nAccepted], m.accIdx)

PromiseFits(h, f, l, m) ==
    PidOf(m.n) = l /\ m.n <= store[l].promise /\ Known(h, f, m.n, m) /\ SyncFits(h, l, m)

PrepareFits(l, m) ==
    /\ PidOf(m.n) = l /\ m.n <= store[l].promise
    /\ IsLeader(l, "Prepare") /\ lead[l].n = m.n =>
           m.nAccepted = store[l].accRound /\ m.accIdx = Len(store[l].log) /\ m.decided = store[l].decided

\* How long the leader's log was when it sent m.
Top(h, f, m) == h.top[f][m.n][m.seq]

\* A leader's message is a part of the ballot's log, and follows the messages before it.
LeaderMsgFits(h, l, f, m) ==
    /\ l # f /\ PidOf(m.n) = l /\ m.n \in h.started
    /\ h.base[m.n] <= Top(h, f, m) /\ Top(h, f, m) <= Len(h.log[m.n])
    /\ DecidedBy(h, m.n, m.decided)
    /\ store[f].promise = m.n /\ store[f].accRound = m.n => Len(store[f].log) <= Top(h, f, m)
    /\ state[l].role = "Leader" /\ lead[l].n = m.n => SeqLeq(m.seq, lead[l].seqs[f])
    /\ m.type = "AcceptSync" =>
          /\ m.decided <= Top(h, f, m)
          /\ store[f].promise = m.n =>
                 /\ Synced(store[f].log, m.sync, h.log[m.n], Top(h, f, m))
                 /\ store[f].accRound # m.n => m.sync.idx <= h.base[m.n]
    /\ m.type \in {"AcceptDecide", "Decide"} =>
          \A q \in SeqNum : q.session = m.seq.session /\ m.seq.counter = q.counter + 1 =>
              Top(h, f, m) = h.top[f][m.n][q] + IF m.type = "Decide" THEN 0 ELSE 1
    /\ m.type = "AcceptDecide" => Top(h, f, m) > 0 /\ m.e[2] = h.log[m.n][Top(h, f, m)]

MsgFits(h, a, b, m) ==
    /\ m.type = "Prepare" => PrepareFits(a, m)
    /\ m.type = "Promise" => PromiseFits(h, a, b, m)
    /\ m.type \in FromLeader => LeaderMsgFits(h, a, b, m)
    /\ m.type = "Accepted" => m.accIdx <= h.voted[a][m.n]

\* A channel holds a leader's messages in the order of its log.
Ordered(h, a, b) ==
    \A i, j \in DOMAIN net[a][b] :
        LET m == net[a][b][i]
            k == net[a][b][j]
        IN  i < j /\ m.type \in FromLeader /\ k.type \in FromLeader /\ m.n = k.n
                => Top(h, b, m) <= Top(h, b, k)

\* An accepting follower's sequence number stands for its log.
SessionFits(h, f) ==
    IsFollower(f, "Accept") /\ PidOf(store[f].promise) # f =>
        LET n == store[f].promise
            l == PidOf(n)
        IN  /\ l \in Server /\ Len(store[f].log) = h.top[f][n][state[f].seq]
            /\ state[l].role = "Leader" /\ lead[l].n = n => SeqLeq(state[f].seq, lead[l].seqs[f])
CachedFits(h, f) ==
    state[f].cached # None =>
        PidOf(state[f].cached.n) \in Server /\ PromiseFits(h, f, PidOf(state[f].cached.n), state[f].cached)
FollowerFits(h, f) == SessionFits(h, f) /\ CachedFits(h, f)

ServersFit(h) == \A t \in Server : StoreFits(h, t) /\ LeaderFits(h, t) /\ FollowerFits(h, t)
ChannelsFit(h) ==
    \A a, b \in Server : /\ \A m \in Range(net[a][b]) : MsgFits(h, a, b, m)
                         /\ Ordered(h, a, b)
Fits(h) == HistoryOK(h) /\ Safe(h) /\ ServersFit(h) /\ ChannelsFit(h)

\* Without the fast path nobody has unsynced entries.
NoUnsynced == \A s \in Server : /\ DOMAIN fast[s].unsynced = {}
                                /\ state[s].cached # None => DOMAIN state[s].cached.unsync = {}
                                /\ \A t \in Server : /\ DOMAIN lead[s].unsynced[t] = {}
                                                     /\ \A m \in Range(net[s][t]) :
                                                            m.type = "Promise" => DOMAIN m.unsync = {}

AgreementInv == BallotInv /\ NoUnsynced /\ \E h \in History : Fits(h)

--------------------------------------------------------------------------------
\* Lemmas about logs

Logs == Seq(EntryId)

\* Agreement on k entries is agreement on fewer, both ways, and transitive.
LEMMA SameFacts ==
    ASSUME NEW l \in Logs, NEW m \in Logs, NEW p \in Logs, NEW k \in Nat
    PROVE  /\ \A j \in Nat : Same(l, m, k) /\ j <= k => Same(l, m, j)
           /\ Same(l, m, k) => Same(m, l, k)
           /\ Same(l, m, k) /\ Same(m, p, k) => Same(l, p, k)
           /\ k <= Len(l) => Same(l, l, k)
           /\ Same(l, m, 0)
BY LenProperties DEF Same, Logs

\* The lesser of two numbers.
LEMMA MinFacts ==
    ASSUME NEW a \in Nat, NEW b \in Nat
    PROVE  /\ Min({a, b}) \in Nat /\ Min({a, b}) <= a /\ Min({a, b}) <= b
           /\ a <= b => Min({a, b}) = a
<1>1. \E x \in {a, b} : \A y \in {a, b} : x =< y
    OBVIOUS
<1>2. Min({a, b}) \in {a, b} /\ \A y \in {a, b} : Min({a, b}) =< y
    BY <1>1 DEF Min
<1> QED BY <1>2

\* What sync_log makes of a log that fits.
LEMMA SyncedLog ==
    ASSUME NEW log \in Logs, NEW sync \in LogSync, NEW target \in Logs, NEW k \in Nat,
           Synced(log, sync, target, k)
    PROVE  LET after == SubSeq(log, 1, Min({sync.idx, Len(log)})) \o sync.suffix IN
           after \in Logs /\ Len(after) = k /\ Same(after, target, k)
<1> DEFINE pre == SubSeq(log, 1, sync.idx)
           after == pre \o sync.suffix
<1>1. sync.idx \in Nat /\ sync.suffix \in Logs /\ Len(log) \in Nat /\ sync.idx <= Len(log)
      /\ Len(sync.suffix) \in Nat /\ Len(target) \in Nat
    BY LenProperties DEF LogSync, Logs, Synced, Same
<1>2. Min({sync.idx, Len(log)}) = sync.idx
    BY <1>1, MinFacts
<1>3. pre \in Logs /\ Len(pre) = sync.idx /\ \A i \in 1..sync.idx : pre[i] = log[i]
    BY <1>1, SubSeqProperties DEF Logs
<1>4. /\ after \in Logs /\ Len(after) = sync.idx + Len(sync.suffix)
      /\ \A i \in 1..sync.idx : after[i] = pre[i]
      /\ \A i \in 1..Len(after) : i > sync.idx => after[i] = sync.suffix[i - sync.idx]
    <2> HIDE DEF pre
    <2> QED BY SMTT(30), <1>1, <1>3, ConcatProperties DEF Logs
<1> HIDE DEF pre, after
<1>5. Len(after) = k /\ k <= Len(target)
    BY <1>4 DEF Synced
<1>6. ASSUME NEW i \in 1..k PROVE after[i] = target[i]
    <2>1. CASE i <= sync.idx
        BY <1>1, <1>3, <1>4, <2>1 DEF Synced, Same
    <2>2. CASE i > sync.idx
        <3>1. after[i] = sync.suffix[i - sync.idx]
            BY <1>4, <1>5, <2>2
        <3>2. i - sync.idx \in DOMAIN sync.suffix
            BY <1>1, <1>5, <1>4, <2>2, LenProperties DEF Logs
        <3>3. sync.suffix[i - sync.idx] = target[sync.idx + (i - sync.idx)]
            BY <3>2 DEF Synced
        <3> QED BY <1>1, <3>1, <3>3
    <2> QED BY <1>1, <2>1, <2>2
<1>7. Same(after, target, k)
    BY <1>5, <1>6 DEF Same
<1> QED BY <1>2, <1>4, <1>5, <1>7 DEF after, pre

\* A suffix of a log fits whatever agrees with the log up to where it starts.
LEMMA CreatedSync ==
    ASSUME NEW source \in Logs, NEW idx \in Nat, NEW log \in Logs, NEW target \in Logs,
           Same(log, target, idx), idx <= Len(source), Same(source, target, Len(source))
    PROVE  Synced(log, CreateLogSync(source, idx), target, Len(source))
<1> DEFINE suffix == SubSeq(source, idx + 1, Len(source))
           sync == CreateLogSync(source, idx)
<1>1. Len(source) \in Nat /\ Len(target) \in Nat /\ \A i \in 1..Len(source) : source[i] \in EntryId
    BY LenProperties, ElementOfSeq DEF Logs
<1>2. suffix \in Logs /\ Len(suffix) = Len(source) - idx /\ DOMAIN suffix = 1..(Len(source) - idx)
      /\ \A i \in 1..(Len(source) - idx) : suffix[i] = source[idx + i]
    <2>1. \A i \in (idx + 1)..Len(source) : source[i] \in EntryId
        BY <1>1
    <2>2. /\ suffix \in Seq(EntryId)
          /\ Len(suffix) = IF idx + 1 <= Len(source) THEN Len(source) - (idx + 1) + 1 ELSE 0
          /\ \A i \in 1..(Len(source) - (idx + 1) + 1) : suffix[i] = source[idx + 1 + i - 1]
        BY <1>1, <2>1, SubSeqProperties
    <2>3. Len(suffix) = Len(source) - idx
        BY <1>1, <2>2
    <2>4. \A i \in 1..(Len(source) - idx) : suffix[i] = source[idx + i]
        BY <1>1, <2>2
    <2>5. DOMAIN suffix = 1..Len(suffix)
        BY <2>2, LenProperties
    <2> QED BY <2>2, <2>3, <2>4, <2>5 DEF Logs
<1>3. sync.idx = idx /\ sync.suffix = suffix
    BY DEF CreateLogSync
<1> HIDE DEF suffix, sync
<1>4. ASSUME NEW i \in DOMAIN suffix PROVE suffix[i] = target[idx + i]
    <2>1. i \in 1..(Len(source) - idx) /\ idx + i \in 1..Len(source)
        BY <1>1, <1>2
    <2> QED BY <1>2, <2>1 DEF Same
<1>5. Len(source) = idx + Len(suffix) /\ Len(source) <= Len(target)
    BY <1>1, <1>2 DEF Same
<1>6. Synced(log, sync, target, Len(source))
    BY <1>3, <1>4, <1>5 DEF Synced
<1> QED BY <1>6 DEF sync

\* A log that fits still fits when the target has grown, and when another log takes its
\* place that agrees with the target as far.
LEMMA SyncedGrows ==
    ASSUME NEW log \in Logs, NEW after \in Logs, NEW sync \in LogSync, NEW target \in Logs,
           NEW grown \in Logs, NEW k \in Nat, Synced(log, sync, target, k),
           Same(grown, target, Len(target)), Same(after, grown, sync.idx)
    PROVE  Synced(after, sync, grown, k)
<1>1. sync.idx \in Nat /\ sync.suffix \in Logs /\ Len(sync.suffix) \in Nat
      /\ DOMAIN sync.suffix = 1..Len(sync.suffix) /\ Len(target) \in Nat /\ Len(grown) \in Nat
    BY LenProperties DEF LogSync, Logs
<1>2. k <= Len(grown) /\ k = sync.idx + Len(sync.suffix)
    BY <1>1 DEF Synced, Same
<1>3. ASSUME NEW i \in DOMAIN sync.suffix PROVE sync.suffix[i] = grown[sync.idx + i]
    <2>1. sync.suffix[i] = target[sync.idx + i]
        BY DEF Synced
    <2>2. sync.idx + i \in 1..Len(target)
        BY <1>1, <1>2 DEF Synced
    <2> QED BY <2>1, <2>2 DEF Same
<1> QED BY <1>2, <1>3 DEF Synced

--------------------------------------------------------------------------------
\* What every step does

\* What a step of s may do to the stores, the states and the leader states.
LocalStep(s) ==
    /\ \A t \in Server \ {s} : store'[t] = store[t] /\ state'[t] = state[t] /\ lead'[t] = lead[t]
    /\ store[s].promise <= store'[s].promise
    /\ \/ store'[s].accRound = store[s].accRound /\ store'[s].log = store[s].log
       \/ /\ store'[s].promise = store[s].promise /\ store'[s].accRound = store[s].promise
          /\ store[s].accRound = store[s].promise => Len(store[s].log) <= Len(store'[s].log)
    /\ state'[s].role = "Leader" =>
          \/ /\ state[s].role = "Leader" /\ lead'[s].n = lead[s].n
             /\ \A f \in Server : SeqLeq(lead[s].seqs[f], lead'[s].seqs[f])
          \/ lead'[s].n > store[s].promise
    /\ state'[s].role = "Leader" /\ state'[s].phase = "Prepare" =>
          \/ /\ state[s].role = "Leader" /\ state[s].phase = "Prepare" /\ lead'[s].n = lead[s].n
             /\ store'[s].accRound = store[s].accRound /\ store'[s].log = store[s].log
             /\ store'[s].decided = store[s].decided
          \/ lead'[s].n > store[s].promise

\* How the history grows with it: only in the ballots of s, and at sequence numbers that
\* s has not used.
HistoryStep(s, h, g) ==
    /\ h.started \subseteq g.started
    /\ \A b \in Ballot :
        /\ b \in h.started => g.base[b] = h.base[b]
        /\ Same(g.log[b], h.log[b], Len(h.log[b]))
        /\ PidOf(b) # s => g.log[b] = h.log[b] /\ (b \in g.started => b \in h.started)
        /\ \A t \in Server : /\ h.voted[t][b] <= g.voted[t][b]
                             /\ g.voted[t][b] # h.voted[t][b] => t = s /\ b = store[s].promise
        /\ \A f \in Server, q \in SeqNum : g.top[f][b][q] # h.top[f][b][q] =>
               state[s].role = "Leader" /\ lead[s].n = b /\ ~SeqLeq(q, lead[s].seqs[f])

\* A history that goes on from another.
Extends(h, g) ==
    /\ h.started \subseteq g.started
    /\ \A b \in Ballot : /\ Same(g.log[b], h.log[b], Len(h.log[b]))
                          /\ \A t \in Server : h.voted[t][b] <= g.voted[t][b]

\* What the channels hold was there, in the same order, or was just sent and is last.
ChannelStep(s, out) ==
    \A a, b \in Server : \E d \in Nat : \A i \in DOMAIN net'[a][b] :
        \/ i + d \in DOMAIN net[a][b] /\ net'[a][b][i] = net[a][b][i + d]
        \/ i = Len(net'[a][b]) /\ a = s /\ b # s /\ net'[a][b][i] \in Range(out[b])

\* If s has put entries in its log, no message under way to it is behind.
NotOvertaken(s, h) ==
    \/ store'[s].accRound = store[s].accRound /\ store'[s].log = store[s].log
    \/ PidOf(store[s].promise) = s
    \/ \A a \in Server : \A m \in Range(net'[a][s]) :
           m.type \in FromLeader /\ m.n = store[s].promise => Len(store'[s].log) <= Top(h, s, m)

\* The types of what a server stores,
LEMMA StoreFacts ==
    ASSUME TypeOK, NEW t \in Server
    PROVE  /\ store[t].promise \in Ballot /\ store[t].promise \in Nat
           /\ store[t].accRound \in Ballot /\ store[t].accRound \in Nat
           /\ store[t].accRound <= store[t].promise
           /\ store[t].decided \in Nat /\ store[t].log \in Logs /\ Len(store[t].log) \in Nat
           /\ DOMAIN store[t].log = 1..Len(store[t].log)
<1>1. store[t] \in Stored /\ store[t].accRound <= store[t].promise
    BY DEF TypeOK, StoreOK, BallotsOrdered
<1> QED BY <1>1, LenProperties DEF Stored, Ballot, Logs

\* and after a step,
LEMMA StoreFactsNext ==
    ASSUME TypeOK', NEW t \in Server
    PROVE  /\ store'[t].promise \in Ballot /\ store'[t].promise \in Nat
           /\ store'[t].accRound \in Ballot /\ store'[t].accRound \in Nat
           /\ store'[t].accRound <= store'[t].promise
           /\ store'[t].decided \in Nat /\ store'[t].log \in Logs /\ Len(store'[t].log) \in Nat
           /\ DOMAIN store'[t].log = 1..Len(store'[t].log)
<1>1. store'[t] \in Stored /\ store'[t].accRound <= store'[t].promise
    BY DEF TypeOK, StoreOK, BallotsOrdered
<1> QED BY <1>1, LenProperties DEF Stored, Ballot, Logs

\* of what a leader knows,
LEMMA LeadFacts ==
    ASSUME TypeOK, NEW l \in Server
    PROVE  /\ lead[l].n \in Ballot /\ lead[l].n \in Nat
           /\ lead[l].maxMeta \in [nAccepted : Ballot, accIdx : Nat]
           /\ lead[l].maxMeta.nAccepted \in Nat /\ lead[l].maxMeta.accIdx \in Nat
           /\ lead[l].maxSync \in LogSync \cup {None}
           /\ \A t \in Server : /\ lead[l].seqs[t] \in SeqNum
                                /\ lead[l].accIdx[t] \in Nat
                                /\ lead[l].promises[t] \in PromiseState
           /\ state[l].role = "Leader" => lead[l].n = store[l].promise /\ PidOf(lead[l].n) = l
<1>1. IsLeaderState(lead[l])
    BY DEF TypeOK, LeadOK
<1> QED BY <1>1 DEF IsLeaderState, TypeOK, BallotsOrdered, Ballot

\* and of a history.
LEMMA HistoryFacts ==
    ASSUME NEW h \in History, NEW b \in Ballot
    PROVE  /\ h.base[b] \in Nat /\ h.log[b] \in Logs /\ Len(h.log[b]) \in Nat
           /\ \A t \in Server : h.voted[t][b] \in Nat
           /\ \A f \in Server, q \in SeqNum : h.top[f][b][q] \in Nat
           /\ h.started \subseteq Ballot
           /\ b \in Nat
<1>1. /\ h.started \in SUBSET Ballot /\ h.base \in [Ballot -> Nat] /\ h.log \in [Ballot -> Logs]
      /\ h.voted \in [Server -> [Ballot -> Nat]]
      /\ h.top \in [Server -> [Ballot -> [SeqNum -> Nat]]]
    BY DEF History, Logs
<1>2. h.log[b] \in Logs
    BY <1>1
<1>3. Len(h.log[b]) \in Nat
    BY <1>2, LenProperties DEF Logs
<1>4. \A f \in Server, q \in SeqNum : h.top[f][b][q] \in Nat
    BY <1>1
<1>5. b \in Nat
    BY BallotAssumption DEF Ballot
<1>6. \A t \in Server : h.voted[t][b] \in Nat
    BY <1>1
<1>7. h.base[b] \in Nat /\ h.started \subseteq Ballot
    BY <1>1
<1> QED BY <1>2, <1>3, <1>4, <1>5, <1>6, <1>7

\* What is recorded of a server that has promised.
LEMMA PromisedFacts ==
    ASSUME TypeOK, NEW l \in Server, NEW t \in HasPromised(lead[l])
    PROVE  /\ t \in Server
           /\ lead[l].promises[t] \in [type : {"Promised"}, nAccepted : Ballot, accIdx : Nat, decided : Nat]
           /\ lead[l].promises[t].nAccepted \in Nat
BY LeadFacts DEF HasPromised, PromiseState, None, PromisedHigher, Ballot

\* Comparing sequence numbers.
LEMMA SeqLeqFacts ==
    ASSUME NEW p \in SeqNum, NEW q \in SeqNum, NEW r \in SeqNum
    PROVE  /\ SeqLeq(p, p)
           /\ SeqLeq(p, q) /\ SeqLeq(q, r) => SeqLeq(p, r)
           /\ p.session = q.session /\ q.counter = p.counter + 1 => SeqLeq(p, q)
BY DEF SeqNum, SeqLeq

\* The growth of a history.
LEMMA HistoryGrows ==
    ASSUME TypeOK, TypeOK', NEW h \in History, NEW g \in History, NEW s \in Server,
           LocalStep(s), HistoryStep(s, h, g)
    PROVE  /\ \A t \in Server : store[t].promise <= store'[t].promise
           /\ \A b \in Ballot, i \in Nat : Chosen(h, b, i) => Chosen(g, b, i)
           /\ \A r \in Nat, d \in Nat : DecidedBy(h, r, d) => DecidedBy(g, r, d)
           /\ \A b \in Ballot, i \in Nat : Choosable(g, b, i)' => Choosable(h, b, i)
<1>1. \A t \in Server : store[t].promise <= store'[t].promise
      /\ store[t].promise \in Nat /\ store'[t].promise \in Nat
    <2>1. \A t \in Server : store[t].promise \in Nat
        BY StoreFacts
    <2>2. \A t \in Server : store'[t].promise \in Nat
        BY DEF TypeOK, StoreOK, Stored, Ballot
    <2>3. \A t \in Server : t # s => store'[t] = store[t]
        BY DEF LocalStep
    <2>4. store[s].promise <= store'[s].promise
        BY DEF LocalStep
    <2> QED BY <2>1, <2>2, <2>3, <2>4
<1>2. \A b \in Ballot, t \in Server : h.voted[t][b] \in Nat /\ g.voted[t][b] \in Nat /\ b \in Nat
    BY HistoryFacts
<1>3. ASSUME NEW b \in Ballot, NEW i \in Nat, Chosen(h, b, i) PROVE Chosen(g, b, i)
    <2>1. PICK W \in SUBSET Server : /\ IsAcceptQuorum(Quorum, Cardinality(W))
                                     /\ \A t \in W : h.voted[t][b] >= i
        BY <1>3 DEF Chosen
    <2>2. \A t \in W : g.voted[t][b] >= i
        BY <1>2, <2>1 DEF HistoryStep
    <2> QED BY <2>1, <2>2 DEF Chosen
<1>4. ASSUME NEW r \in Nat, NEW d \in Nat, DecidedBy(h, r, d) PROVE DecidedBy(g, r, d)
    <2>1. PICK c \in h.started : c <= r /\ Chosen(h, c, d)
        BY <1>4 DEF DecidedBy
    <2>2. c \in Ballot /\ c \in g.started
        BY HistoryFacts DEF History, HistoryStep
    <2> QED BY <1>3, <2>1, <2>2 DEF DecidedBy
<1>5. ASSUME NEW b \in Ballot, NEW i \in Nat, Choosable(g, b, i)' PROVE Choosable(h, b, i)
    <2>1. PICK W \in SUBSET Server : /\ IsAcceptQuorum(Quorum, Cardinality(W))
                                     /\ \A t \in W : g.voted[t][b] >= i \/ store'[t].promise <= b
        BY <1>5 DEF Choosable
    <2>2. ASSUME NEW t \in W PROVE h.voted[t][b] >= i \/ store[t].promise <= b
        <3>1. CASE g.voted[t][b] = h.voted[t][b]
            BY <1>1, <1>2, <2>1, <3>1
        <3>2. CASE g.voted[t][b] # h.voted[t][b]
            BY <1>1, <1>2, <3>2 DEF HistoryStep
        <3> QED BY <3>1, <3>2
    <2> QED BY <2>1, <2>2 DEF Choosable
<1> QED BY <1>1, <1>3, <1>4, <1>5

\* A decision is one of everything before it.
LEMMA DecidedLess ==
    ASSUME NEW h \in History, NEW r \in Nat, NEW q \in Nat, NEW d \in Nat, NEW e \in Nat,
           DecidedBy(h, r, d), e <= d, r <= q
    PROVE  DecidedBy(h, q, e)
<1>1. PICK c \in h.started : c <= r /\ Chosen(h, c, d)
    BY DEF DecidedBy
<1>2. c \in Ballot /\ c <= q
    BY <1>1 DEF History, Ballot
<1>3. PICK W \in SUBSET Server : /\ IsAcceptQuorum(Quorum, Cardinality(W))
                                 /\ \A t \in W : h.voted[t][c] >= d
    BY <1>1 DEF Chosen
<1>4. \A t \in W : h.voted[t][c] >= e
    BY <1>2, <1>3, HistoryFacts
<1> QED BY <1>2, <1>3, <1>4 DEF DecidedBy, Chosen

\* The logs of a history only grow, so what agrees goes on agreeing.
LEMMA SameGrows ==
    ASSUME NEW h \in History, NEW g \in History, NEW s, HistoryStep(s, h, g),
           NEW b \in Ballot, NEW c \in Ballot, NEW i \in Nat
    PROVE  /\ Same(h.log[b], h.log[c], i) => Same(g.log[b], g.log[c], i)
           /\ \A log \in Logs : Same(log, h.log[b], i) => Same(log, g.log[b], i)
           /\ Len(h.log[b]) <= Len(g.log[b])
<1>1. /\ h.log[b] \in Logs /\ h.log[c] \in Logs /\ g.log[b] \in Logs /\ g.log[c] \in Logs
      /\ Len(h.log[b]) \in Nat /\ Len(h.log[c]) \in Nat /\ Len(g.log[b]) \in Nat /\ Len(g.log[c]) \in Nat
    BY HistoryFacts
<1>2. Same(g.log[b], h.log[b], Len(h.log[b])) /\ Same(g.log[c], h.log[c], Len(h.log[c]))
    BY DEF HistoryStep
<1> QED BY SMTT(30), <1>1, <1>2 DEF Same

\* As long as no ballot starts, what may be decided stays adopted.
LEMMA SafeKept ==
    ASSUME TypeOK, TypeOK', NEW h \in History, NEW g \in History, NEW s \in Server,
           LocalStep(s), HistoryStep(s, h, g), g.started = h.started, Safe(h)
    PROVE  Safe(g)'
<1> SUFFICES ASSUME NEW n \in g.started, NEW b \in Ballot, b < n, NEW i \in Nat, Choosable(g, b, i)'
             PROVE  i <= g.base[n] /\ Same(g.log[n], g.log[b], i)
    BY DEF Safe
<1>1. n \in Ballot /\ n \in h.started
    BY DEF History
<1>2. Choosable(h, b, i)
    BY HistoryGrows
<1>3. i <= h.base[n] /\ Same(h.log[n], h.log[b], i)
    BY <1>1, <1>2 DEF Safe
<1> QED BY SMTT(30), <1>1, <1>3, SameGrows DEF HistoryStep

\* A server that does not write its log still fits.
LEMMA StoreFitsKept ==
    ASSUME TypeOK, TypeOK', NEW h \in History, NEW g \in History, NEW s \in Server,
           LocalStep(s), HistoryStep(s, h, g), NEW t \in Server, StoreFits(h, t),
           store'[t].accRound = store[t].accRound, store'[t].log = store[t].log,
           \A b \in Ballot : g.voted[t][b] = h.voted[t][b],
           \/ store'[t].decided = store[t].decided
           \/ /\ store'[t].decided <= Len(store'[t].log)
              /\ DecidedBy(g, store'[t].accRound, store'[t].decided)
    PROVE  StoreFits(g, t)'
<1> DEFINE r == store[t].accRound
           log == store[t].log
<1>1. r \in Ballot /\ r \in Nat /\ log \in Logs /\ Len(log) \in Nat /\ store[t].decided \in Nat
    BY StoreFacts
<1>2. /\ r \in h.started /\ h.base[r] <= Len(log) /\ Same(log, h.log[r], Len(log))
      /\ h.voted[t][r] = Len(log)
      /\ \A b \in Ballot : b > r => h.voted[t][b] = 0
      /\ store[t].decided <= Len(log) /\ DecidedBy(h, r, store[t].decided)
    BY DEF StoreFits
<1>3. r \in g.started /\ g.base[r] = h.base[r]
    BY <1>1, <1>2 DEF HistoryStep
<1>4. Same(log, g.log[r], Len(log))
    BY <1>1, <1>2, SameGrows
<1>5. store'[t].decided <= Len(log) /\ DecidedBy(g, r, store'[t].decided)
    BY <1>1, <1>2, HistoryGrows
<1>6. store'[t].accRound = r /\ store'[t].log = log
    OBVIOUS
<1> HIDE DEF r, log
<1> QED BY <1>1, <1>2, <1>3, <1>4, <1>5, <1>6 DEF StoreFits

\* What a server has said of itself stays true.
LEMMA KnownKept ==
    ASSUME TypeOK, TypeOK', NEW h \in History, NEW g \in History, NEW s \in Server,
           LocalStep(s), HistoryStep(s, h, g), NEW f \in Server, NEW n \in Nat, NEW p,
           p.nAccepted \in Ballot, p.accIdx \in Nat, p.decided \in Nat, Known(h, f, n, p)
    PROVE  Known(g, f, n, p)'
<1> DEFINE a == p.nAccepted
<1>1. /\ a \in Nat /\ store[f].promise \in Nat /\ store'[f].promise \in Nat
      /\ store[f].promise <= store'[f].promise
      /\ Len(store[f].log) \in Nat /\ Len(store'[f].log) \in Nat
      /\ store[f].accRound \in Nat /\ store[f].accRound <= store[f].promise
    <2>1. store'[f].promise \in Nat /\ store'[f].log \in Seq(EntryId)
        BY SMTT(30) DEF TypeOK, StoreOK, Stored, Ballot
    <2> QED BY <2>1, StoreFacts, HistoryGrows, LenProperties DEF Ballot
<1>2. n <= store'[f].promise
    BY <1>1 DEF Known
<1>3. a \in g.started /\ a <= n /\ g.base[a] <= p.accIdx /\ p.accIdx <= Len(g.log[a])
    <2>1. a \in h.started /\ a <= n /\ h.base[a] <= p.accIdx /\ p.accIdx <= Len(h.log[a])
        BY DEF Known
    <2>2. Len(h.log[a]) <= Len(g.log[a]) /\ Len(h.log[a]) \in Nat /\ Len(g.log[a]) \in Nat
        BY SameGrows, HistoryFacts
    <2> QED BY SMTT(30), <2>1, <2>2 DEF HistoryStep
<1>4. p.decided <= p.accIdx /\ DecidedBy(g, a, p.decided)
    BY <1>1, HistoryGrows DEF Known
<1>5. \A b \in Ballot : b < n => g.voted[f][b] = h.voted[f][b]
    BY <1>1, HistoryFacts DEF HistoryStep, Known
<1>6. a < n => /\ g.voted[f][a] = p.accIdx
               /\ \A b \in Ballot : a < b /\ b < n => g.voted[f][b] = 0
    BY <1>5 DEF Known
<1>7. store'[f].promise = n => store[f].promise = n
    BY <1>1 DEF Known
<1>8. \/ store'[f].accRound = store[f].accRound /\ store'[f].log = store[f].log
      \/ /\ store'[f].promise = store[f].promise /\ store'[f].accRound = store[f].promise
         /\ store[f].accRound = store[f].promise => Len(store[f].log) <= Len(store'[f].log)
    BY DEF LocalStep
<1>9. store'[f].promise = n /\ store'[f].accRound # n =>
          store'[f].accRound = a /\ Len(store'[f].log) = p.accIdx
    BY <1>7, <1>8 DEF Known
<1>10. store'[f].promise = n /\ a = n => p.accIdx <= Len(store'[f].log)
    <2> SUFFICES ASSUME store'[f].promise = n, a = n PROVE p.accIdx <= Len(store'[f].log)
        OBVIOUS
    <2>1. store[f].accRound = n /\ p.accIdx <= Len(store[f].log)
        BY <1>7 DEF Known
    <2> QED BY <1>1, <1>7, <1>8, <2>1
<1> HIDE DEF a
<1> QED BY <1>2, <1>3, <1>4, <1>6, <1>9, <1>10 DEF Known, a

\* A leader that prepares did so before, with the same log, or has a ballot above
\* everything said so far.
LEMMA StillPreparing ==
    ASSUME TypeOK, TypeOK', NEW s \in Server, LocalStep(s), NEW l \in Server,
           NEW n \in Nat, n <= store[l].promise, IsLeader(l, "Prepare")', lead'[l].n = n
    PROVE  /\ IsLeader(l, "Prepare") /\ lead[l].n = n
           /\ store'[l].accRound = store[l].accRound /\ store'[l].log = store[l].log
           /\ store'[l].decided = store[l].decided
<1>1. store[l].promise \in Nat
    BY StoreFacts
<1> QED BY <1>1 DEF LocalStep, IsLeader

\* What a sync puts on a log that did not change still fits.
LEMMA SyncedKept ==
    ASSUME NEW h \in History, NEW g \in History, NEW s, HistoryStep(s, h, g),
           NEW log \in Logs, NEW sync \in LogSync, NEW a \in Ballot, NEW k \in Nat,
           Synced(log, sync, h.log[a], k)
    PROVE  Synced(log, sync, g.log[a], k)
<1>1. h.log[a] \in Logs /\ g.log[a] \in Logs /\ sync.idx \in Nat
    BY HistoryFacts DEF LogSync
<1>2. Same(g.log[a], h.log[a], Len(h.log[a]))
    BY DEF HistoryStep
<1>3. Same(log, g.log[a], sync.idx)
    BY <1>1, SameGrows DEF Synced
<1> QED BY <1>1, <1>2, <1>3, SyncedGrows

\* A promise under way, or kept to be sent again, holds.
LEMMA PromiseFitsKept ==
    ASSUME TypeOK, TypeOK', NEW h \in History, NEW g \in History, NEW s \in Server,
           LocalStep(s), HistoryStep(s, h, g), NEW f \in Server, NEW l \in Server,
           NEW m, IsPromise(m), PromiseFits(h, f, l, m)
    PROVE  PromiseFits(g, f, l, m)'
<1>1. m.n \in Nat /\ m.nAccepted \in Ballot /\ m.accIdx \in Nat /\ m.decided \in Nat
      /\ m.sync \in LogSync \cup {None} /\ m.nAccepted \in Nat
    BY DEF IsPromise, Ballot
<1>2. PidOf(m.n) = l /\ m.n <= store[l].promise /\ Known(h, f, m.n, m) /\ SyncFits(h, l, m)
    BY DEF PromiseFits
<1>3. m.n <= store'[l].promise
    <2>1. store[l].promise \in Nat /\ store[l].promise <= store'[l].promise
        BY StoreFacts, HistoryGrows
    <2>2. store'[l].promise \in Nat
        BY DEF TypeOK, StoreOK, Stored, Ballot
    <2> QED BY <1>1, <1>2, <2>1, <2>2
<1>4. Known(g, f, m.n, m)'
    BY <1>1, <1>2, KnownKept
<1>5. SyncFits(g, l, m)'
    <2> SUFFICES ASSUME IsLeader(l, "Prepare")', lead'[l].n = m.n
                 PROVE  IF m.sync = None THEN ~MoreUpToDate(m, Own(l))'
                        ELSE Synced(store[l].log, m.sync, g.log[m.nAccepted], m.accIdx)'
        BY DEF SyncFits
    <2>1. /\ IsLeader(l, "Prepare") /\ lead[l].n = m.n
          /\ store'[l].accRound = store[l].accRound /\ store'[l].log = store[l].log
        BY <1>1, <1>2, StillPreparing
    <2>2. CASE m.sync = None
        BY <1>2, <2>1, <2>2 DEF SyncFits, Own, MoreUpToDate
    <2>3. CASE m.sync # None
        <3>1. Synced(store[l].log, m.sync, h.log[m.nAccepted], m.accIdx)
            BY <1>2, <2>1, <2>3 DEF SyncFits
        <3>2. Synced(store[l].log, m.sync, g.log[m.nAccepted], m.accIdx)
            BY <1>1, <2>3, <3>1, SyncedKept, StoreFacts
        <3> QED BY <2>1, <2>3, <3>2
    <2> QED BY <2>2, <2>3
<1> QED BY <1>2, <1>3, <1>4, <1>5 DEF PromiseFits

\* So does a Prepare,
LEMMA PrepareFitsKept ==
    ASSUME TypeOK, TypeOK', NEW h \in History, NEW g \in History, NEW s \in Server,
           LocalStep(s), HistoryStep(s, h, g), NEW l \in Server,
           NEW m, m.n \in Nat, PrepareFits(l, m)
    PROVE  PrepareFits(l, m)'
<1>1. PidOf(m.n) = l /\ m.n <= store[l].promise
    BY DEF PrepareFits
<1>2. m.n <= store'[l].promise
    <2>1. store[l].promise \in Nat /\ store[l].promise <= store'[l].promise
        BY StoreFacts, HistoryGrows
    <2>2. store'[l].promise \in Nat
        BY DEF TypeOK, StoreOK, Stored, Ballot
    <2> QED BY <1>1, <2>1, <2>2
<1>3. ASSUME IsLeader(l, "Prepare")', lead'[l].n = m.n
      PROVE  m.nAccepted = store'[l].accRound /\ m.accIdx = Len(store'[l].log) /\ m.decided = store'[l].decided
    BY <1>1, <1>3, StillPreparing DEF PrepareFits
<1> QED BY <1>1, <1>2, <1>3 DEF PrepareFits

\* A sequence number in use keeps its meaning.
LEMMA TopKept ==
    ASSUME TypeOK, NEW h \in History, NEW g \in History, NEW s \in Server,
           HistoryStep(s, h, g), NEW f \in Server, NEW b \in Ballot, NEW q \in SeqNum,
           state[PidOf(b)].role = "Leader" /\ lead[PidOf(b)].n = b
               => SeqLeq(q, lead[PidOf(b)].seqs[f])
    PROVE  g.top[f][b][q] = h.top[f][b][q]
<1> SUFFICES ASSUME g.top[f][b][q] # h.top[f][b][q] PROVE FALSE
    OBVIOUS
<1>1. state[s].role = "Leader" /\ lead[s].n = b /\ ~SeqLeq(q, lead[s].seqs[f])
    BY DEF HistoryStep
<1>2. PidOf(b) = s
    BY <1>1, LeadFacts
<1> QED BY <1>1, <1>2

\* What the proofs read of a leader's message.
IsLeaderMsg(m) == /\ m.n \in Ballot /\ m.seq \in SeqNum /\ m.decided \in Nat
                  /\ m.type = "AcceptSync" => m.sync \in LogSync

\* A message's sequence number keeps its meaning.
LEMMA MsgTopKept ==
    ASSUME TypeOK, NEW h \in History, NEW g \in History, NEW s \in Server,
           HistoryStep(s, h, g), NEW l \in Server, NEW f \in Server,
           NEW m, IsLeaderMsg(m), LeaderMsgFits(h, l, f, m)
    PROVE  /\ Top(g, f, m) = Top(h, f, m) /\ Top(h, f, m) \in Nat
           /\ m.type \in {"AcceptDecide", "Decide"} =>
                \A q \in SeqNum : q.session = m.seq.session /\ m.seq.counter = q.counter + 1 =>
                    g.top[f][m.n][q] = h.top[f][m.n][q]
<1>1. m.n \in Ballot /\ m.seq \in SeqNum
    BY DEF IsLeaderMsg
<1>2. PidOf(m.n) = l /\ (state[l].role = "Leader" /\ lead[l].n = m.n => SeqLeq(m.seq, lead[l].seqs[f]))
    BY DEF LeaderMsgFits
<1>3. g.top[f][m.n][m.seq] = h.top[f][m.n][m.seq]
    BY <1>1, <1>2, TopKept
<1>4. ASSUME NEW q \in SeqNum, q.session = m.seq.session, m.seq.counter = q.counter + 1
      PROVE  g.top[f][m.n][q] = h.top[f][m.n][q]
    <2>1. SeqLeq(q, m.seq)
        BY <1>1, <1>4, SeqLeqFacts
    <2>2. lead[l].seqs[f] \in SeqNum
        BY LeadFacts
    <2>3. state[l].role = "Leader" /\ lead[l].n = m.n => SeqLeq(q, lead[l].seqs[f])
        BY <1>1, <1>2, <2>1, <2>2, SeqLeqFacts
    <2> QED BY <1>1, <1>2, <2>3, TopKept
<1> QED BY <1>1, <1>3, <1>4, HistoryFacts DEF Top

\* A leader's message under way still follows the messages before it, and its part of
\* the log still fits the log of its receiver.
LEMMA LeaderMsgFitsKept ==
    ASSUME TypeOK, TypeOK', NEW h \in History, NEW g \in History, NEW s \in Server,
           LocalStep(s), HistoryStep(s, h, g), HistoryOK(h), NotOvertaken(s, h), StoreFits(g, s)',
           NEW l \in Server, NEW f \in Server, NEW m \in Range(net'[l][f]), m.type \in FromLeader,
           IsLeaderMsg(m), m.n <= store[f].promise, LeaderMsgFits(h, l, f, m)
    PROVE  LeaderMsgFits(g, l, f, m)'
<1> DEFINE n == m.n
           top == Top(h, f, m)
<1>1. n \in Ballot /\ n \in Nat /\ m.seq \in SeqNum /\ m.decided \in Nat
    BY DEF IsLeaderMsg, Ballot
<1>2. Top(g, f, m) = top /\ top \in Nat
    BY MsgTopKept
<1>3. /\ store[f].promise \in Nat /\ store[f].accRound \in Nat /\ store[f].accRound <= store[f].promise
      /\ store[f].log \in Logs /\ Len(store[f].log) \in Nat
      /\ store'[f].promise \in Nat /\ store'[f].log \in Logs /\ Len(store'[f].log) \in Nat
      /\ store[f].promise <= store'[f].promise
    <2>1. store'[f].promise \in Nat /\ store'[f].log \in Logs
        BY StoreFactsNext
    <2> QED BY <2>1, StoreFacts, StoreFactsNext, HistoryGrows
<1>4. /\ h.log[n] \in Logs /\ g.log[n] \in Logs /\ Len(h.log[n]) \in Nat /\ Len(g.log[n]) \in Nat
      /\ h.base[n] \in Nat
    BY <1>1, HistoryFacts
<1>5. Same(g.log[n], h.log[n], Len(h.log[n])) /\ Len(h.log[n]) <= Len(g.log[n])
    BY <1>1, SameGrows DEF HistoryStep
<1>6. l # f /\ PidOf(n) = l /\ n \in g.started /\ n \in h.started /\ g.base[n] = h.base[n]
    BY <1>1 DEF LeaderMsgFits, HistoryStep
<1>7. g.base[n] <= top /\ top <= Len(g.log[n]) /\ top <= Len(h.log[n])
    BY <1>2, <1>4, <1>5, <1>6 DEF LeaderMsgFits
<1>8. DecidedBy(g, n, m.decided)
    BY <1>1, HistoryGrows DEF LeaderMsgFits
<1>9. store'[f].promise = n => store[f].promise = n
    BY <1>1, <1>3
<1>10. \/ store'[f].accRound = store[f].accRound /\ store'[f].log = store[f].log
       \/ /\ f = s /\ store'[f].accRound = store[f].promise
          /\ store[f].accRound = store[f].promise => Len(store[f].log) <= Len(store'[f].log)
          /\ store[f].promise = n => Len(store'[f].log) <= top
    BY <1>6 DEF LocalStep, NotOvertaken
<1>11. ASSUME store'[f].promise = n, store'[f].accRound = n PROVE Len(store'[f].log) <= top
    BY <1>9, <1>10, <1>11 DEF LeaderMsgFits
<1>12. ASSUME state'[l].role = "Leader", lead'[l].n = n PROVE SeqLeq(m.seq, lead'[l].seqs[f])
    <2>1. n <= store[l].promise
        <3>1. n # 0
            BY <1>6, ServerAssumption DEF PidOf
        <3>2. Owner[n] = l
            BY <1>6, <3>1 DEF PidOf
        <3> QED BY <1>1, <1>6, <3>1, <3>2 DEF HistoryOK
    <2>2. ~(lead'[l].n > store[l].promise)
        BY <1>1, <1>12, <2>1, StoreFacts
    <2>3. /\ state[l].role = "Leader" /\ lead[l].n = n
          /\ lead[l].seqs[f] = lead'[l].seqs[f] \/ SeqLeq(lead[l].seqs[f], lead'[l].seqs[f])
        BY <1>12, <2>2 DEF LocalStep
    <2>4. SeqLeq(m.seq, lead[l].seqs[f])
        BY <2>3 DEF LeaderMsgFits
    <2>5. lead[l].seqs[f] \in SeqNum /\ lead'[l].seqs[f] \in SeqNum
        BY LeadFacts DEF TypeOK, LeadOK, IsLeaderState
    <2> QED BY <1>1, <2>3, <2>4, <2>5, SeqLeqFacts
<1>13. ASSUME m.type = "AcceptSync"
       PROVE  /\ m.decided <= top
              /\ store'[f].promise = n =>
                     /\ Synced(store'[f].log, m.sync, g.log[n], top)
                     /\ store'[f].accRound # n => m.sync.idx <= g.base[n]
    <2>1. m.sync \in LogSync /\ m.sync.idx \in Nat
        BY <1>13 DEF IsLeaderMsg, LogSync
    <2>2. m.decided <= top
        BY <1>13 DEF LeaderMsgFits
    <2> SUFFICES ASSUME store'[f].promise = n
                 PROVE  /\ Synced(store'[f].log, m.sync, g.log[n], top)
                        /\ store'[f].accRound # n => m.sync.idx <= g.base[n]
        BY <2>2
    <2>3. /\ store[f].promise = n /\ Synced(store[f].log, m.sync, h.log[n], top)
          /\ store[f].accRound # n => m.sync.idx <= h.base[n]
        BY <1>9, <1>13 DEF LeaderMsgFits
    <2>4. CASE store'[f].accRound = store[f].accRound /\ store'[f].log = store[f].log
        BY <1>1, <1>2, <1>3, <1>6, <2>1, <2>3, <2>4, SyncedKept
    <2>5. CASE ~(store'[f].accRound = store[f].accRound /\ store'[f].log = store[f].log)
        <3>1. f = s /\ store'[f].accRound = n
            BY <1>10, <2>3, <2>5
        <3>2. g.base[n] <= Len(store'[f].log) /\ Same(store'[f].log, g.log[n], Len(store'[f].log))
            BY <3>1 DEF StoreFits
        <3>3. m.sync.idx <= Len(store'[f].log)
            <4>1. CASE store[f].accRound = n
                <5>1. m.sync.idx <= Len(store[f].log)
                    BY <2>3 DEF Synced, Same
                <5>2. Len(store[f].log) <= Len(store'[f].log)
                    BY <1>10, <2>3, <2>5, <4>1
                <5> QED BY <1>3, <2>1, <5>1, <5>2
            <4>2. CASE store[f].accRound # n
                BY <1>3, <1>4, <1>6, <2>1, <2>3, <3>2, <4>2
            <4> QED BY <4>1, <4>2
        <3>4. Same(store'[f].log, g.log[n], m.sync.idx)
            BY <1>3, <1>4, <2>1, <3>2, <3>3, SameFacts
        <3>5. Synced(store'[f].log, m.sync, g.log[n], top)
            BY SMTT(30), <1>2, <1>3, <1>4, <1>5, <2>1, <2>3, <3>4, SyncedGrows
        <3> QED BY <3>1, <3>5
    <2> QED BY <2>4, <2>5
<1>14. m.type \in {"AcceptDecide", "Decide"} =>
          \A q \in SeqNum : q.session = m.seq.session /\ m.seq.counter = q.counter + 1 =>
              Top(g, f, m) = g.top[f][n][q] + IF m.type = "Decide" THEN 0 ELSE 1
    <2> SUFFICES ASSUME m.type \in {"AcceptDecide", "Decide"}, NEW q \in SeqNum,
                        q.session = m.seq.session, m.seq.counter = q.counter + 1
                 PROVE  Top(g, f, m) = g.top[f][n][q] + IF m.type = "Decide" THEN 0 ELSE 1
        OBVIOUS
    <2>1. g.top[f][n][q] = h.top[f][n][q]
        BY MsgTopKept
    <2>2. top = h.top[f][n][q] + IF m.type = "Decide" THEN 0 ELSE 1
        BY DEF LeaderMsgFits
    <2> QED BY <1>2, <2>1, <2>2
<1>15. m.type = "AcceptDecide" => top > 0 /\ m.e[2] = g.log[n][top]
    <2> SUFFICES ASSUME m.type = "AcceptDecide" PROVE top > 0 /\ m.e[2] = g.log[n][top]
        OBVIOUS
    <2>1. top > 0 /\ m.e[2] = h.log[n][top]
        BY DEF LeaderMsgFits
    <2>2. top \in 1..Len(h.log[n])
        BY <1>2, <1>4, <1>7, <2>1
    <2> QED BY <1>5, <2>1, <2>2 DEF Same
<1> HIDE DEF top
<1> QED BY <1>2, <1>6, <1>7, <1>8, <1>11, <1>12, <1>13, <1>14, <1>15 DEF LeaderMsgFits

\* The types of a message under way.
LEMMA MsgFacts ==
    ASSUME TypeOK, NEW a \in Server, NEW b \in Server, NEW m \in Range(net[a][b])
    PROVE  /\ IsMessage(m)
           /\ m.type = "Promise" => IsPromise(m)
           /\ m.type = "Prepare" => m.n \in Nat
           /\ m.type \in FromLeader => IsLeaderMsg(m)
           /\ m.type = "Accepted" => m.n \in Ballot /\ m.n \in Nat /\ m.accIdx \in Nat
<1>1. IsMessage(m)
    BY DEF TypeOK, NetOK
<1>2. /\ m.type = "Prepare" => m.n \in Ballot
      /\ m.type \in FromLeader => IsLeaderMsg(m)
      /\ m.type = "Accepted" => m.n \in Ballot /\ m.accIdx \in Nat
    BY <1>1, MessageFields DEF FromLeader, IsLeaderMsg
<1> QED BY <1>1, <1>2, MessageFields DEF Ballot

\* Every message that was under way still fits.
LEMMA MsgFitsKept ==
    ASSUME BallotInv, TypeOK', NEW h \in History, NEW g \in History, NEW s \in Server,
           LocalStep(s), HistoryStep(s, h, g), HistoryOK(h), NotOvertaken(s, h), StoreFits(g, s)',
           NEW a \in Server, NEW b \in Server,
           NEW m \in Range(net'[a][b]), m \in Range(net[a][b]), MsgFits(h, a, b, m)
    PROVE  MsgFits(g, a, b, m)'
<1>1. TypeOK
    BY DEF BallotInv
<1>2. m.type = "Prepare" => PrepareFits(a, m)'
    BY <1>1, MsgFacts, PrepareFitsKept DEF MsgFits
<1>3. m.type = "Promise" => PromiseFits(g, a, b, m)'
    BY <1>1, MsgFacts, PromiseFitsKept DEF MsgFits
<1>4. m.type \in FromLeader => LeaderMsgFits(g, a, b, m)'
    <2> SUFFICES ASSUME m.type \in FromLeader PROVE LeaderMsgFits(g, a, b, m)'
        OBVIOUS
    <2>1. m.n <= store[b].promise
        BY DEF BallotInv, PromisesHold
    <2> QED BY <1>1, <2>1, MsgFacts, LeaderMsgFitsKept DEF MsgFits
<1>5. m.type = "Accepted" => m.accIdx <= g.voted[a][m.n]
    <2> SUFFICES ASSUME m.type = "Accepted" PROVE m.accIdx <= g.voted[a][m.n]
        OBVIOUS
    <2>1. m.n \in Ballot /\ m.accIdx \in Nat /\ m.accIdx <= h.voted[a][m.n]
        BY <1>1, MsgFacts DEF MsgFits
    <2>2. h.voted[a][m.n] <= g.voted[a][m.n] /\ h.voted[a][m.n] \in Nat /\ g.voted[a][m.n] \in Nat
        BY <2>1, HistoryFacts DEF HistoryStep
    <2> QED BY <2>1, <2>2
<1> QED BY <1>2, <1>3, <1>4, <1>5 DEF MsgFits

\* What a step sends fits, and a leader's message stands for its whole log.
SentFits(s, out, g) ==
    \A b \in Server \ {s} : \A m \in Range(out[b]) :
        /\ MsgFits(g, s, b, m)'
        /\ m.type \in FromLeader => m.n \in Ballot /\ Top(g, b, m) = Len(g.log[m.n])

\* The channels fit after a step if what is sent does.
LEMMA ChannelsFitKept ==
    ASSUME BallotInv, TypeOK', NEW h \in History, NEW g \in History, NEW s \in Server, NEW out,
           LocalStep(s), HistoryStep(s, h, g), HistoryOK(h), NotOvertaken(s, h), StoreFits(g, s)',
           ChannelStep(s, out), ChannelsFit(h), SentFits(s, out, g)
    PROVE  ChannelsFit(g)'
<1> TypeOK
    BY DEF BallotInv
<1> SUFFICES ASSUME NEW a \in Server, NEW b \in Server
             PROVE  (\A m \in Range(net'[a][b]) : MsgFits(g, a, b, m)') /\ Ordered(g, a, b)'
    BY DEF ChannelsFit
<1> DEFINE q == net[a][b]
           r == net'[a][b]
<1>1. /\ \A m \in Range(q) : MsgFits(h, a, b, m)
      /\ Ordered(h, a, b)
    BY DEF ChannelsFit
<1>2. PICK d \in Nat : \A i \in DOMAIN r :
        \/ i + d \in DOMAIN q /\ r[i] = q[i + d]
        \/ i = Len(r) /\ a = s /\ b # s /\ r[i] \in Range(out[b])
    BY DEF ChannelStep
<1>3. r \in Seq(Range(r)) /\ q \in Seq(Range(q))
    BY DEF TypeOK, NetOK
<1>4. DOMAIN r = 1..Len(r) /\ Len(r) \in Nat /\ DOMAIN q = 1..Len(q) /\ Len(q) \in Nat
    BY <1>3, LenProperties
<1>5. \A i \in DOMAIN r : r[i] \in Range(r)
    BY DEF Range
<1>6. \A i \in DOMAIN q : q[i] \in Range(q)
    BY DEF Range
<1>7. ASSUME NEW m \in Range(r) PROVE MsgFits(g, a, b, m)'
    <2>1. PICK i \in DOMAIN r : m = r[i]
        BY DEF Range
    <2>2. CASE i + d \in DOMAIN q /\ r[i] = q[i + d]
        BY <1>1, <1>6, <2>1, <2>2, MsgFitsKept
    <2>3. CASE i = Len(r) /\ a = s /\ b # s /\ r[i] \in Range(out[b])
        BY <2>1, <2>3 DEF SentFits
    <2> QED BY <1>2, <2>2, <2>3
<1>8. ASSUME NEW i \in DOMAIN r, NEW j \in DOMAIN r, i < j,
             r[i].type \in FromLeader, r[j].type \in FromLeader, r[i].n = r[j].n
      PROVE  Top(g, b, r[i]) <= Top(g, b, r[j])
    <2>1. i + d \in DOMAIN q /\ r[i] = q[i + d] /\ r[i] \in Range(q)
        BY SMTT(30), <1>2, <1>4, <1>6, <1>8
    <2>2. IsLeaderMsg(r[i]) /\ LeaderMsgFits(h, a, b, r[i])
        BY <1>1, <1>8, <2>1, MsgFacts DEF MsgFits
    <2>3. Top(g, b, r[i]) = Top(h, b, r[i])
        BY <2>2, MsgTopKept
    <2>4. CASE j + d \in DOMAIN q /\ r[j] = q[j + d]
        <3>1. r[j] \in Range(q)
            BY <1>6, <2>4
        <3>2. IsLeaderMsg(r[j]) /\ LeaderMsgFits(h, a, b, r[j])
            BY <1>1, <1>8, <3>1, MsgFacts DEF MsgFits
        <3>3. Top(g, b, r[j]) = Top(h, b, r[j])
            BY <3>2, MsgTopKept
        <3>4. i + d < j + d
            BY <1>4, <1>8
        <3>5. Top(h, b, q[i + d]) <= Top(h, b, q[j + d])
            BY <1>1, <1>8, <2>1, <2>4, <3>4 DEF Ordered
        <3> QED BY <2>1, <2>3, <2>4, <3>3, <3>5
    <2>5. CASE j = Len(r) /\ a = s /\ b # s /\ r[j] \in Range(out[b])
        <3>1. r[j].n \in Ballot /\ Top(g, b, r[j]) = Len(g.log[r[j].n])
            BY <1>8, <2>5 DEF SentFits
        <3>2. Top(h, b, r[i]) <= Len(h.log[r[i].n])
            BY <2>2 DEF LeaderMsgFits
        <3>3. Top(h, b, r[i]) \in Nat
            BY <2>2, MsgTopKept
        <3>4. Len(h.log[r[j].n]) <= Len(g.log[r[j].n])
              /\ Len(h.log[r[j].n]) \in Nat /\ Len(g.log[r[j].n]) \in Nat
            BY SMTT(30), <3>1, SameGrows, HistoryFacts
        <3> QED BY SMTT(30), <1>8, <2>3, <3>1, <3>2, <3>3, <3>4
    <2> QED BY <1>2, <2>4, <2>5
<1> HIDE DEF r
<1>9. Ordered(g, a, b)'
    BY ZenonT(60), <1>8 DEF Ordered, Top, r
<1> QED BY <1>7, <1>9 DEF r

\* A leader that neither hears nor does anything still fits.
LEMMA LeaderFitsKept ==
    ASSUME TypeOK, TypeOK', NEW h \in History, NEW g \in History, NEW s \in Server,
           LocalStep(s), HistoryStep(s, h, g), NEW l \in Server, StoreFits(h, l), LeaderFits(h, l),
           state'[l].role = "Leader" =>
               /\ state[l].role = "Leader" /\ state'[l].phase = state[l].phase
               /\ g.log[lead[l].n] = h.log[lead[l].n]
               /\ lead[l].n \in g.started => lead[l].n \in h.started,
           lead'[l] = lead[l], store'[l].accRound = store[l].accRound, store'[l].log = store[l].log
    PROVE  LeaderFits(g, l)'
<1> SUFFICES ASSUME state'[l].role = "Leader" PROVE LeaderFits(g, l)'
    BY DEF LeaderFits
<1> DEFINE ls == lead[l]
           n == lead[l].n
           a == lead[l].maxMeta.nAccepted
<1>1. /\ state[l].role = "Leader" /\ state'[l].phase = state[l].phase
      /\ g.log[n] = h.log[n] /\ (n \in g.started => n \in h.started)
    OBVIOUS
<1>2. /\ n \in Ballot /\ n \in Nat /\ a \in Ballot /\ ls.maxMeta.accIdx \in Nat
      /\ ls.maxSync \in LogSync \cup {None}
      /\ \A t \in Server : ls.seqs[t] \in SeqNum /\ ls.accIdx[t] \in Nat
      /\ PidOf(n) = l
    BY <1>1, LeadFacts
<1>3. \A t \in Server : lead'[l].accIdx[t] <= g.voted[t][n]
    <2>1. \A t \in Server : ls.accIdx[t] <= h.voted[t][n]
        BY <1>1 DEF LeaderFits
    <2>2. \A t \in Server : h.voted[t][n] <= g.voted[t][n] /\ h.voted[t][n] \in Nat /\ g.voted[t][n] \in Nat
        BY <1>2, HistoryFacts DEF HistoryStep
    <2> QED BY <1>2, <2>1, <2>2
<1>4. ASSUME state'[l].phase = "Prepare" PROVE Preparing(g, l)'
    <2>1. Preparing(h, l)
        BY <1>1, <1>4 DEF LeaderFits
    <2>2. n \notin g.started
        BY <1>1, <2>1 DEF Preparing, Prepared
    <2>3. a \in g.started /\ a < n /\ g.base[a] <= ls.maxMeta.accIdx
        BY <1>2, <2>1 DEF Preparing, Prepared, HistoryStep
    <2>4. ASSUME NEW t \in HasPromised(ls)
          PROVE  Known(g, t, n, ls.promises[t])' /\ ~MoreUpToDate(ls.promises[t], ls.maxMeta)
        <3>1. Known(h, t, n, ls.promises[t]) /\ ~MoreUpToDate(ls.promises[t], ls.maxMeta)
            BY <2>1 DEF Preparing, Prepared
        <3>2. t \in Server /\ ls.promises[t].nAccepted \in Ballot
              /\ ls.promises[t].accIdx \in Nat /\ ls.promises[t].decided \in Nat
            BY PromisedFacts
        <3>3. PICK p : p = ls.promises[t]
            OBVIOUS
        <3>4. Known(g, t, n, p)'
            BY <1>2, <3>1, <3>2, <3>3, KnownKept
        <3> QED BY <3>1, <3>3, <3>4
    <2>5. IF ls.maxSync = None THEN ls.maxMeta = Own(l)'
          ELSE Synced(store'[l].log, ls.maxSync, g.log[a], ls.maxMeta.accIdx)
        <3>1. CASE ls.maxSync = None
            BY <2>1, <3>1 DEF Preparing, Prepared, Own
        <3>2. CASE ls.maxSync # None
            <4>1. Synced(store[l].log, ls.maxSync, h.log[a], ls.maxMeta.accIdx)
                BY <2>1, <3>2 DEF Preparing, Prepared
            <4>2. Synced(store[l].log, ls.maxSync, g.log[a], ls.maxMeta.accIdx)
                BY SMTT(30), <1>2, <3>2, <4>1, SyncedKept, StoreFacts
            <4> QED BY <3>2, <4>2
        <3> QED BY <3>1, <3>2
    <2>6. l \in HasPromised(ls)
        BY <2>1 DEF Preparing, Prepared
    <2> QED BY <2>2, <2>3, <2>4, <2>5, <2>6 DEF Preparing, Prepared, HasPromised
<1>5. ASSUME state'[l].phase = "Accept" PROVE Accepting(g, l)'
    <2>1. Accepting(h, l)
        BY SMTT(30), <1>1, <1>5 DEF LeaderFits
    <2>2. a \in h.started /\ a < n /\ a \in g.started
        BY SMTT(30), <2>1 DEF Accepting, HistoryStep
    <2>3. /\ store[l].accRound = n /\ Len(store[l].log) = Len(h.log[n])
          /\ h.base[n] = ls.maxMeta.accIdx /\ Same(h.log[n], h.log[a], h.base[n])
        BY <2>1 DEF Accepting
    <2>4. Same(g.log[n], g.log[a], h.base[n])
        BY <1>2, <2>3, SameGrows, HistoryFacts
    <2>5. g.base[n] = h.base[n] \/ n \notin h.started
        BY <1>2 DEF HistoryStep
    <2>6. ASSUME NEW f \in PromisedFollowers(ls)
          PROVE  g.top[f][n][ls.seqs[f]] = Len(store[l].log)
        <3>1. f \in Server /\ h.top[f][n][ls.seqs[f]] = Len(store[l].log)
            BY <2>1 DEF Accepting, PromisedFollowers, HasPromised
        <3>2. SeqLeq(ls.seqs[f], ls.seqs[f])
            BY <1>2, <3>1, SeqLeqFacts
        <3> QED BY ZenonT(60), <1>2, <3>1, <3>2, TopKept
    <2>7. n \in h.started
        BY <2>3 DEF StoreFits
    <2> QED BY <1>1, <2>2, <2>3, <2>4, <2>5, <2>6, <2>7 DEF Accepting, PromisedFollowers, HasPromised
<1> QED BY <1>3, <1>4, <1>5 DEF LeaderFits

\* A promise kept to be sent again still fits.
LEMMA CachedFitsKept ==
    ASSUME TypeOK, TypeOK', NEW h \in History, NEW g \in History, NEW s \in Server,
           LocalStep(s), HistoryStep(s, h, g), NEW f \in Server, FollowerFits(h, f),
           state'[f].cached = state[f].cached, state[f].cached # None
    PROVE  /\ PidOf(state'[f].cached.n) \in Server
           /\ PromiseFits(g, f, PidOf(state[f].cached.n), state[f].cached)'
<1>1. PICK m : m = state[f].cached
    OBVIOUS
<1>2. IsPromise(m)
    BY <1>1 DEF TypeOK, StateOK
<1>3. PidOf(m.n) \in Server /\ PromiseFits(h, f, PidOf(m.n), m)
    BY <1>1 DEF FollowerFits, SessionFits, CachedFits
<1>4. PICK l \in Server : l = PidOf(m.n)
    BY <1>3
<1>5. PromiseFits(g, f, l, m)'
    BY <1>2, <1>3, <1>4, PromiseFitsKept
<1> QED BY <1>1, <1>3, <1>4, <1>5

\* A sequence number that a follower has seen still stands for its log.
LEMMA SeqFitsKept ==
    ASSUME TypeOK, TypeOK', AcceptsInPromise, NEW h \in History, NEW g \in History, NEW s \in Server,
           LocalStep(s), HistoryStep(s, h, g), HistoryOK(h),
           NEW f \in Server, StoreFits(h, f), FollowerFits(h, f),
           IsFollower(f, "Accept"), PidOf(store[f].promise) # f
    PROVE  LET n == store[f].promise
               l == PidOf(n)
           IN  /\ l \in Server /\ Len(store[f].log) = g.top[f][n][state[f].seq]
               /\ state'[l].role = "Leader" /\ lead'[l].n = n => SeqLeq(state[f].seq, lead'[l].seqs[f])
<1> DEFINE n == store[f].promise
           l == PidOf(n)
           q == state[f].seq
<1>1. n \in Ballot /\ n \in Nat /\ q \in SeqNum
    BY StoreFacts DEF TypeOK, StateOK
<1>2. /\ l \in Server /\ Len(store[f].log) = h.top[f][n][q]
      /\ state[l].role = "Leader" /\ lead[l].n = n => SeqLeq(q, lead[l].seqs[f])
    BY DEF FollowerFits, SessionFits, CachedFits
<1>3. g.top[f][n][q] = h.top[f][n][q]
    BY ZenonT(60), <1>1, <1>2, TopKept
<1>4. ASSUME state'[l].role = "Leader", lead'[l].n = n PROVE SeqLeq(q, lead'[l].seqs[f])
    <2>1. n <= store[l].promise
        <3>1. n # 0
            BY <1>2, ServerAssumption DEF PidOf
        <3>2. Owner[n] = l
            BY <3>1 DEF PidOf
        <3>3. n \in h.started
            BY DEF StoreFits, AcceptsInPromise, IsFollower
        <3> QED BY <1>1, <3>1, <3>2, <3>3 DEF HistoryOK
    <2>2. ~(lead'[l].n > store[l].promise)
        BY <1>1, <1>2, <1>4, <2>1, StoreFacts
    <2>3. /\ state[l].role = "Leader" /\ lead[l].n = n
          /\ lead[l].seqs[f] = lead'[l].seqs[f] \/ SeqLeq(lead[l].seqs[f], lead'[l].seqs[f])
        BY <1>2, <1>4, <2>2 DEF LocalStep
    <2>4. lead[l].seqs[f] \in SeqNum /\ lead'[l].seqs[f] \in SeqNum
        BY <1>2, LeadFacts DEF TypeOK, LeadOK, IsLeaderState
    <2> QED BY <1>1, <1>2, <2>3, <2>4, SeqLeqFacts
<1> HIDE DEF n, l, q
<1> QED BY <1>2, <1>3, <1>4 DEF n, l, q

\* A server to which nothing happens but a change of role or phase still fits.
LEMMA FollowerFitsKept ==
    ASSUME TypeOK, TypeOK', AcceptsInPromise, NEW h \in History, NEW g \in History, NEW s \in Server,
           LocalStep(s), HistoryStep(s, h, g), HistoryOK(h),
           NEW f \in Server, StoreFits(h, f), FollowerFits(h, f),
           state'[f].cached = state[f].cached \/ state'[f].cached = None,
           IsFollower(f, "Accept")' /\ PidOf(store'[f].promise) # f =>
               /\ IsFollower(f, "Accept") /\ state'[f].seq = state[f].seq
               /\ store'[f].promise = store[f].promise /\ store'[f].log = store[f].log
    PROVE  FollowerFits(g, f)'
<1>1. ASSUME IsFollower(f, "Accept")', PidOf(store'[f].promise) # f
      PROVE  LET n == store'[f].promise
                 l == PidOf(n)
             IN  /\ l \in Server /\ Len(store'[f].log) = g.top[f][n][state'[f].seq]
                 /\ state'[l].role = "Leader" /\ lead'[l].n = n => SeqLeq(state'[f].seq, lead'[l].seqs[f])
    BY ZenonT(60), <1>1, SeqFitsKept
<1>2. state'[f].cached # None =>
           /\ PidOf(state'[f].cached.n) \in Server
           /\ PromiseFits(g, f, PidOf(state[f].cached.n), state[f].cached)'
    BY CachedFitsKept
<1>3. SessionFits(g, f)'
    BY <1>1 DEF SessionFits
<1>4. CachedFits(g, f)'
    BY <1>2 DEF CachedFits
<1> QED BY <1>3, <1>4 DEF FollowerFits

--------------------------------------------------------------------------------
\* From the acting server to the whole state

\* A server that does not act still fits.
LEMMA OthersFit ==
    ASSUME BallotInv, TypeOK', NEW h \in History, NEW g \in History, NEW s \in Server,
           LocalStep(s), HistoryStep(s, h, g), HistoryOK(h), ServersFit(h),
           NEW t \in Server \ {s}
    PROVE  (StoreFits(g, t) /\ LeaderFits(g, t) /\ FollowerFits(g, t))'
<1>1. TypeOK /\ AcceptsInPromise /\ StoreFits(h, t) /\ LeaderFits(h, t) /\ FollowerFits(h, t)
    BY DEF BallotInv, ServersFit
<1>2. store'[t] = store[t] /\ state'[t] = state[t] /\ lead'[t] = lead[t]
    BY DEF LocalStep
<1>3. StoreFits(g, t)'
    <2>1. \A b \in Ballot : g.voted[t][b] = h.voted[t][b]
        BY DEF HistoryStep
    <2> QED BY <1>1, <1>2, <2>1, StoreFitsKept
<1>4. LeaderFits(g, t)'
    <2>1. state[t].role = "Leader" => PidOf(lead[t].n) # s /\ lead[t].n \in Ballot
        BY <1>1, LeadFacts
    <2>2. state[t].role = "Leader" =>
              /\ g.log[lead[t].n] = h.log[lead[t].n]
              /\ lead[t].n \in g.started => lead[t].n \in h.started
        BY <2>1 DEF HistoryStep
    <2> QED BY <1>1, <1>2, <2>2, LeaderFitsKept
<1>5. FollowerFits(g, t)'
    BY <1>1, <1>2, FollowerFitsKept DEF IsFollower
<1> QED BY <1>3, <1>4, <1>5

\* If the acting server and what it sends fit, everything does.
LEMMA AllFit ==
    ASSUME BallotInv, TypeOK', NEW h \in History, NEW g \in History, NEW s \in Server, NEW out,
           Fits(h), LocalStep(s), HistoryStep(s, h, g), NotOvertaken(s, h),
           ChannelStep(s, out), SentFits(s, out, g), HistoryOK(g)', Safe(g)',
           StoreFits(g, s)', LeaderFits(g, s)', FollowerFits(g, s)'
    PROVE  Fits(g)'
<1>1. HistoryOK(h) /\ ServersFit(h) /\ ChannelsFit(h)
    BY DEF Fits
<1>2. ServersFit(g)'
    BY <1>1, OthersFit DEF ServersFit
<1>3. ChannelsFit(g)'
    BY <1>1, ChannelsFitKept
<1> QED BY <1>2, <1>3 DEF Fits

\* A history is a growth of itself.
LEMMA SameHistory ==
    ASSUME NEW h \in History, NEW s
    PROVE  HistoryStep(s, h, h)
<1>1. \A b \in Ballot : Same(h.log[b], h.log[b], Len(h.log[b]))
    BY HistoryFacts, SameFacts
<1>2. \A b \in Ballot, t \in Server : h.voted[t][b] <= h.voted[t][b]
    BY HistoryFacts
<1> QED BY <1>1, <1>2 DEF HistoryStep

\* A step of any server extends the history.
LEMMA StepExtends ==
    ASSUME NEW h, NEW g, NEW s, HistoryStep(s, h, g)
    PROVE  Extends(h, g)
BY DEF HistoryStep, Extends

\* A history extends itself.
LEMMA SelfExtends ==
    ASSUME NEW h \in History
    PROVE  Extends(h, h)
BY SameHistory, StepExtends

\* It stays coherent as promises rise.
LEMMA HistoryKept ==
    ASSUME TypeOK, TypeOK', NEW h \in History, NEW s \in Server, LocalStep(s), HistoryOK(h)
    PROVE  HistoryOK(h)'
<1>1. HistoryStep(s, h, h)
    BY SameHistory
<1>2. ASSUME NEW b \in Ballot, b \in h.started, b # 0 PROVE b <= store'[Owner[b]].promise
    <2>1. Owner[b] \in Server /\ b \in Nat
        BY <1>2, BallotAssumption DEF Ballot
    <2>2. store[Owner[b]].promise \in Nat /\ store'[Owner[b]].promise \in Nat
        BY <2>1, StoreFacts, StoreFactsNext
    <2>3. store[Owner[b]].promise <= store'[Owner[b]].promise /\ b <= store[Owner[b]].promise
        BY <1>1, <1>2, <2>1, HistoryGrows DEF HistoryOK
    <2> QED BY <2>1, <2>2, <2>3
<1> QED BY <1>2 DEF HistoryOK

\* The steps that add nothing to the history.
LEMMA SameHistoryFits ==
    ASSUME BallotInv, TypeOK', NEW h \in History, NEW s \in Server, NEW out,
           Fits(h), LocalStep(s), ChannelStep(s, out), SentFits(s, out, h),
           store'[s].accRound = store[s].accRound, store'[s].log = store[s].log,
           \/ store'[s].decided = store[s].decided
           \/ /\ store'[s].decided <= Len(store'[s].log)
              /\ DecidedBy(h, store'[s].accRound, store'[s].decided),
           LeaderFits(h, s)', FollowerFits(h, s)'
    PROVE  Fits(h)'
<1>1. TypeOK /\ HistoryOK(h) /\ Safe(h) /\ StoreFits(h, s)
    BY DEF BallotInv, Fits, ServersFit
<1>2. HistoryStep(s, h, h)
    BY SameHistory
<1>3. HistoryOK(h)' /\ Safe(h)'
    BY <1>1, <1>2, HistoryKept, SafeKept
<1>4. StoreFits(h, s)'
    BY <1>1, <1>2, StoreFitsKept
<1>5. NotOvertaken(s, h)
    BY DEF NotOvertaken
<1> QED BY <1>2, <1>3, <1>4, <1>5, AllFit

\* The steps that do not change the leader state or the store either.
LEMMA QuietFits ==
    ASSUME BallotInv, TypeOK', NEW h \in History, NEW s \in Server, NEW out,
           Fits(h), UNCHANGED <<store, lead>>, ChannelStep(s, out), SentFits(s, out, h),
           \A t \in Server \ {s} : state'[t] = state[t],
           state'[s].cached = state[s].cached, state'[s].seq = state[s].seq,
           \/ state'[s].role = state[s].role /\ state'[s].phase = state[s].phase
           \/ state'[s].role = "Follower" /\ state'[s].phase # "Accept"
           \/ /\ state[s].role = "Leader" /\ state'[s].role = "Follower"
              /\ state'[s].phase = state[s].phase
    PROVE  Fits(h)'
<1>1. /\ TypeOK /\ AcceptsInPromise /\ HistoryOK(h) /\ StoreFits(h, s) /\ LeaderFits(h, s)
      /\ FollowerFits(h, s)
    BY DEF BallotInv, Fits, ServersFit
<1>2. LocalStep(s)
    <2>1. store[s].promise <= store[s].promise /\ Len(store[s].log) <= Len(store[s].log)
        BY <1>1, StoreFacts
    <2>2. \A f \in Server : SeqLeq(lead[s].seqs[f], lead[s].seqs[f])
        BY <1>1, LeadFacts, SeqLeqFacts
    <2> QED BY <2>1, <2>2 DEF LocalStep
<1>3. HistoryStep(s, h, h)
    BY SameHistory
<1>4. LeaderFits(h, s)'
    BY <1>1, <1>2, <1>3, LeaderFitsKept
<1>5. IsFollower(s, "Accept")' /\ PidOf(store'[s].promise) # s => IsFollower(s, "Accept")
    BY <1>1, LeadFacts DEF IsFollower
<1>6. FollowerFits(h, s)'
    BY <1>1, <1>2, <1>3, <1>5, FollowerFitsKept
<1> QED BY <1>2, <1>4, <1>6, SameHistoryFits

--------------------------------------------------------------------------------
\* The channels after a step

\* At most one message to each server.
Short(out) == IsOut(out) /\ \A t \in Server : out[t] = <<>> \/ \E m : out[t] = <<m>>

\* Sending appends.
LEMMA DeliverOrder ==
    ASSUME NEW ch, IsChannels(ch), NEW s \in Server, NEW out, Short(out),
           NEW a \in Server, NEW b \in Server, NEW i \in DOMAIN Deliver(ch, s, out)[a][b]
    PROVE  \/ i \in DOMAIN ch[a][b] /\ Deliver(ch, s, out)[a][b][i] = ch[a][b][i]
           \/ /\ i = Len(Deliver(ch, s, out)[a][b]) /\ a = s /\ b # s
              /\ Deliver(ch, s, out)[a][b][i] \in Range(out[b])
<1>1. Deliver(ch, s, out)[a][b] = IF a = s /\ b # s THEN ch[a][b] \o out[b] ELSE ch[a][b]
    BY DEF Deliver, IsChannels, IsOut
<1>2. CASE ~(a = s /\ b # s)
    BY <1>1, <1>2
<1>3. CASE a = s /\ b # s
    <2> DEFINE q == ch[a][b]
               r == q \o out[b]
    <2>1. q \in Seq(Range(q)) /\ Len(q) \in Nat /\ DOMAIN q = 1..Len(q)
        BY LenProperties DEF IsChannels, IsOut, IsQueue
    <2>2. CASE out[b] = <<>>
        <3>1. r = q
            BY <2>1, <2>2, ConcatEmptySeq
        <3> QED BY <1>1, <1>3, <3>1
    <2>3. CASE \E m : out[b] = <<m>>
        <3>1. PICK m : out[b] = <<m>>
            BY <2>3
        <3> DEFINE T == Range(q) \cup {m}
        <3>2. q \in Seq(T) /\ <<m>> \in Seq(T)
            BY <2>1
        <3>3. /\ Len(r) = Len(q) + 1 /\ DOMAIN r = 1..Len(r)
              /\ \A j \in 1..Len(q) : r[j] = q[j]
              /\ r[Len(q) + 1] = m
            <4>1. r \in Seq(T) /\ Len(r) = Len(q) + Len(<<m>>) /\ Len(<<m>>) = 1
                BY <3>1, <3>2, ConcatProperties
            <4>2. DOMAIN r = 1..Len(r)
                BY <4>1, LenProperties
            <4>3. \A j \in 1..Len(q) : r[j] = q[j]
                BY <2>1, <3>1, <3>2, ConcatProperties
            <4>4. \A j \in 1..(Len(q) + 1) : j > Len(q) => r[j] = <<m>>[j - Len(q)]
                BY <2>1, <3>1, <3>2, <4>1, ConcatProperties
            <4>5. Len(q) + 1 \in 1..(Len(q) + 1) /\ Len(q) + 1 > Len(q) /\ (Len(q) + 1) - Len(q) = 1
                BY <2>1
            <4>6. r[Len(q) + 1] = <<m>>[1]
                BY <4>4, <4>5
            <4> QED BY <4>1, <4>2, <4>3, <4>6
        <3>4. m \in Range(out[b])
            BY <3>1, SingletonQueue
        <3>5. i \in DOMAIN r
            BY <1>1, <1>3
        <3> HIDE DEF r, q
        <3>6. \/ i \in DOMAIN q /\ r[i] = q[i]
              \/ i = Len(r) /\ r[i] \in Range(out[b])
            BY <2>1, <3>3, <3>4, <3>5
        <3> QED BY <1>1, <1>3, <3>6 DEF q, r
    <2> QED BY <2>2, <2>3 DEF Short
<1> QED BY <1>2, <1>3

\* Taking a message moves the others up.
LEMMA TakenOrder ==
    ASSUME TypeOK, NEW from \in Server, NEW s \in Server, net[from][s] # <<>>,
           NEW a \in Server, NEW b \in Server
    PROVE  LET taken == [net EXCEPT ![from][s] = Tail(@)] IN
           \E d \in Nat : \A i \in DOMAIN taken[a][b] :
               i + d \in DOMAIN net[a][b] /\ taken[a][b][i] = net[a][b][i + d]
<1> DEFINE taken == [net EXCEPT ![from][s] = Tail(@)]
<1>1. IsChannels(net)
    BY DEF TypeOK, NetOK, IsChannels, IsOut, IsQueue
<1>2. /\ taken[from][s] = Tail(net[from][s])
      /\ a # from \/ b # s => taken[a][b] = net[a][b]
    BY <1>1 DEF IsChannels, IsOut
<1> HIDE DEF taken
<1>3. net[a][b] \in Seq(Range(net[a][b]))
    BY <1>1 DEF IsChannels, IsOut, IsQueue
<1>4. CASE a = from /\ b = s
    <2> DEFINE q == net[a][b]
    <2>1. q # <<>> /\ q \in Seq(Range(q))
        BY <1>3, <1>4
    <2> HIDE DEF q
    <2>2. /\ Tail(q) \in Seq(Range(q)) /\ Len(Tail(q)) = Len(q) - 1
          /\ \A i \in 1..Len(Tail(q)) : Tail(q)[i] = q[i + 1]
        BY <2>1, HeadTailProperties
    <2>3. DOMAIN q = 1..Len(q) /\ Len(q) \in Nat /\ DOMAIN Tail(q) = 1..Len(Tail(q))
        BY <2>1, <2>2, LenProperties
    <2>4. taken[a][b] = Tail(q)
        BY <1>2, <1>4 DEF q
    <2>5. \A i \in DOMAIN taken[a][b] : i + 1 \in DOMAIN q /\ taken[a][b][i] = q[i + 1]
        BY <2>2, <2>3, <2>4
    <2> QED BY <2>5 DEF q, taken
<1>5. CASE ~(a = from /\ b = s)
    <2>1. taken[a][b] = net[a][b] /\ \A i \in DOMAIN net[a][b] : i + 0 = i
        BY <1>2, <1>3, <1>5, LenProperties
    <2>2. \A i \in DOMAIN taken[a][b] :
              i + 0 \in DOMAIN net[a][b] /\ taken[a][b][i] = net[a][b][i + 0]
        BY <2>1
    <2> QED BY <2>2 DEF taken
<1> QED BY <1>4, <1>5

\* A step of the network: s sends, or takes a message and sends.
Moves(s, out) == Short(out) /\ FreeStep(s, out)

\* The order of the channels after it.
LEMMA MovesChannels ==
    ASSUME TypeOK, NEW s \in Server, NEW out, Moves(s, out)
    PROVE  ChannelStep(s, out)
<1>1. IsChannels(net)
    BY DEF TypeOK, NetOK, IsChannels, IsOut, IsQueue
<1>2. CASE Send(s, out)
    <2> SUFFICES ASSUME NEW a \in Server, NEW b \in Server
                 PROVE  \E d \in Nat : \A i \in DOMAIN net'[a][b] :
                            \/ i + d \in DOMAIN net[a][b] /\ net'[a][b][i] = net[a][b][i + d]
                            \/ i = Len(net'[a][b]) /\ a = s /\ b # s /\ net'[a][b][i] \in Range(out[b])
        BY DEF ChannelStep
    <2>1. \A i \in DOMAIN net[a][b] : i + 0 = i
        BY <1>1, LenProperties DEF IsChannels, IsOut, IsQueue
    <2>2. \A i \in DOMAIN net'[a][b] :
              \/ i + 0 \in DOMAIN net[a][b] /\ net'[a][b][i] = net[a][b][i + 0]
              \/ i = Len(net'[a][b]) /\ a = s /\ b # s /\ net'[a][b][i] \in Range(out[b])
        BY <1>1, <1>2, <2>1, DeliverOrder DEF Send, Moves
    <2> QED BY <2>2
<1>3. CASE \E from \in Server : net[from][s] # <<>> /\ Receive(from, s, out)
    <2>1. PICK from \in Server : net[from][s] # <<>> /\ Receive(from, s, out)
        BY <1>3
    <2> DEFINE taken == [net EXCEPT ![from][s] = Tail(@)]
    <2>2. IsChannels(taken) /\ net' = Deliver(taken, s, out)
        BY <1>1, <2>1, TakeQueues DEF Receive
    <2> HIDE DEF taken
    <2> SUFFICES ASSUME NEW a \in Server, NEW b \in Server
                 PROVE  \E d \in Nat : \A i \in DOMAIN net'[a][b] :
                            \/ i + d \in DOMAIN net[a][b] /\ net'[a][b][i] = net[a][b][i + d]
                            \/ i = Len(net'[a][b]) /\ a = s /\ b # s /\ net'[a][b][i] \in Range(out[b])
        BY DEF ChannelStep
    <2>4. \A i \in DOMAIN net'[a][b] :
              \/ i \in DOMAIN taken[a][b] /\ net'[a][b][i] = taken[a][b][i]
              \/ i = Len(net'[a][b]) /\ a = s /\ b # s /\ net'[a][b][i] \in Range(out[b])
        BY <2>2, DeliverOrder DEF Moves
    <2>5. \E d \in Nat : \A i \in DOMAIN taken[a][b] :
              i + d \in DOMAIN net[a][b] /\ taken[a][b][i] = net[a][b][i + d]
        BY SMTT(30), <2>1, TakenOrder DEF taken
    <2> QED BY <2>4, <2>5
<1> QED BY <1>2, <1>3 DEF Moves, FreeStep

\* One message to some servers, to one, or none to anybody.
LEMMA ShortOuts ==
    ASSUME NEW m, NEW T, NEW p
    PROVE  Short(ToAll(T, m)) /\ Short(To(p, m)) /\ Short(Silent)
<1>1. \A S : Short(ToAll(S, m))
    <2> SUFFICES ASSUME NEW S PROVE Short(ToAll(S, m))
        OBVIOUS
    <2>1. IsOut(ToAll(S, m))
        BY ToAllOut
    <2>2. \A t \in Server : ToAll(S, m)[t] = <<>> \/ ToAll(S, m)[t] = <<m>>
        BY DEF ToAll
    <2> QED BY <2>1, <2>2 DEF Short
<1>2. Short(Silent)
    BY SilentOut DEF Short, Silent
<1> QED BY <1>1, <1>2 DEF To

\* Messages that say nothing of a log.
IsIdle(m) == m.type \notin {"Prepare", "Promise", "Accepted"} \cup FromLeader
IsIdleOut(out) == Short(out) /\ \A t \in Server : \A m \in Range(out[t]) : IsIdle(m)

\* They fit any history.
LEMMA IdleSent ==
    ASSUME NEW s, NEW out, IsIdleOut(out), NEW h
    PROVE  SentFits(s, out, h)
BY DEF IsIdleOut, IsIdle, SentFits, MsgFits

\* Such messages to some servers, to one, or to none.
LEMMA IdleOuts ==
    ASSUME NEW m, IsIdle(m), NEW T, NEW p
    PROVE  IsIdleOut(ToAll(T, m)) /\ IsIdleOut(To(p, m)) /\ IsIdleOut(Silent)
<1>1. IsIdleOut(ToAll(T, m))
    <2>1. Short(ToAll(T, m))
          /\ \A t \in Server : Range(ToAll(T, m)[t]) = IF t \in T THEN {m} ELSE {}
        BY ToAllOut, ShortOuts
    <2> QED BY <2>1 DEF IsIdleOut
<1>2. IsIdleOut(To(p, m))
    BY ToOut, ShortOuts DEF IsIdleOut
<1> QED BY <1>1, <1>2, ShortOuts, SilentOut DEF IsIdleOut

\* Silence is idle.
LEMMA SilentIdle == IsIdleOut(Silent)
BY ShortOuts, SilentOut DEF IsIdleOut

--------------------------------------------------------------------------------
\* The steps that change neither a store nor a leader state

\* A quiet step that sends nothing, or idle messages.
LEMMA QuietMoveFits ==
    ASSUME BallotInv, TypeOK', NEW h \in History, NEW s \in Server, NEW out,
           Fits(h), UNCHANGED <<store, lead>>, FreeStep(s, out), IsIdleOut(out),
           \/ UNCHANGED state
           \/ state' = [state EXCEPT ![s].role = "Follower", ![s].phase = "Recover"]
           \/ state' = [state EXCEPT ![s].phase = "Recover"] /\ state[s].role = "Follower"
    PROVE  Fits(h)'
<1>1. ChannelStep(s, out)
    BY MovesChannels DEF Moves, IsIdleOut, BallotInv
<1>2. SentFits(s, out, h)
    BY IdleSent
<1>3. /\ \A t \in Server \ {s} : state'[t] = state[t]
      /\ state'[s].cached = state[s].cached /\ state'[s].seq = state[s].seq
      /\ \/ state'[s].role = state[s].role /\ state'[s].phase = state[s].phase
         \/ state'[s].role = "Follower" /\ state'[s].phase # "Accept"
    BY DEF BallotInv, TypeOK, StateOK
<1> QED BY <1>1, <1>2, <1>3, QuietFits

\* Nothing is sent when the channels are left alone.
LEMMA NetUnchanged ==
    ASSUME TypeOK, NEW s \in Server, UNCHANGED net
    PROVE  ChannelStep(s, Silent)
<1> SUFFICES ASSUME NEW a \in Server, NEW b \in Server
             PROVE  \E d \in Nat : \A i \in DOMAIN net'[a][b] :
                        \/ i + d \in DOMAIN net[a][b] /\ net'[a][b][i] = net[a][b][i + d]
                        \/ i = Len(net'[a][b]) /\ a = s /\ b # s /\ net'[a][b][i] \in Range(Silent[b])
    BY DEF ChannelStep
<1>1. net[a][b] \in Seq(Range(net[a][b]))
    BY DEF TypeOK, NetOK
<1>2. \A i \in DOMAIN net[a][b] : i + 0 = i
    BY <1>1, LenProperties
<1>3. \A i \in DOMAIN net'[a][b] : i + 0 \in DOMAIN net[a][b] /\ net'[a][b][i] = net[a][b][i + 0]
    BY <1>2
<1> QED BY <1>3

\* Appending an entry says nothing of any log.
LEMMA AppendFits ==
    ASSUME BallotInv, TypeOK', NEW h \in History, Fits(h), NEW s \in Server, NEW id \in EntryId,
           NEW deadline \in 1..MaxDeadline, NEW ext \in Extensions, AppendWithId(s, id, deadline, ext)
    PROVE  Fits(h)'
<1> DEFINE x == <<deadline, id>>
           out == Proposals(s, <<x>>)
<1>1. <<x>> \in Seq(Key)
    BY BoundAssumption DEF Key
<1>2. IsOut(out) /\ \A t \in Server : \A m \in Range(out[t]) : m.type = "DomPropose"
    BY <1>1, ProposalsOut
<1>3. \A t \in Server : out[t] = <<>> \/ out[t] = <<DomPropose(x)>>
    <2> HIDE DEF x
    <2>1. \A t \in Server : out[t] = IF Timely \/ t = s THEN <<>>
                                     ELSE [k \in DOMAIN <<x>> |-> DomPropose(<<x>>[k])]
        BY DEF Proposals
    <2>2. [k \in DOMAIN <<x>> |-> DomPropose(<<x>>[k])] = <<DomPropose(x)>>
        OBVIOUS
    <2> HIDE DEF out
    <2> QED BY <2>1, <2>2
<1>4. IsIdleOut(out)
    BY <1>2, <1>3 DEF IsIdleOut, Short, IsIdle, FromLeader
<1>5. FreeStep(s, out) /\ UNCHANGED <<store, state, lead>>
    BY DEF AppendWithId, FreeStep
<1> HIDE DEF out
<1> QED BY <1>4, <1>5, QuietMoveFits

\* Neither a deposed leader nor a dropped proposal changes any log.
LEMMA FollowFits ==
    ASSUME BallotInv, TypeOK', NEW h \in History, Fits(h), NEW s \in Server, NEW b, NEW e,
           BecomeFollower(s, b) \/ ReleaseNothing(s, e)
    PROVE  Fits(h)'
<1>1. ChannelStep(s, Silent) /\ SentFits(s, Silent, h)
    BY NetUnchanged, SilentIdle, IdleSent DEF BallotInv, BecomeFollower, ReleaseNothing
<1>2. UNCHANGED <<store, lead>>
    BY DEF BecomeFollower, ReleaseNothing
<1>3. /\ \A t \in Server \ {s} : state'[t] = state[t]
      /\ state'[s].cached = state[s].cached /\ state'[s].seq = state[s].seq
      /\ \/ state'[s].role = state[s].role /\ state'[s].phase = state[s].phase
         \/ /\ state[s].role = "Leader" /\ state'[s].role = "Follower"
            /\ state'[s].phase = state[s].phase
    BY DEF BecomeFollower, ReleaseNothing, BallotInv, TypeOK, StateOK
<1> HIDE DEF Silent
<1> QED BY <1>1, <1>2, <1>3, QuietFits

\* Messages that say nothing of a log, by type.
LEMMA IdleMessages ==
    /\ \A s \in Server : IsIdle(PrepareReqMsg(s))
    /\ \A n : IsIdle([type |-> "NotAccepted", n |-> n])
BY DEF IsIdle, FromLeader, PrepareReqMsg

\* The handlers that only take a message, and at most ask or refuse.
LEMMA QuietHandlersFit ==
    ASSUME BallotInv, TypeOK', NEW h \in History, Fits(h), NEW from \in Server, NEW s \in Server,
           \/ \E ext \in Extensions : ReceiveDomPropose(from, s, ext)
           \/ Ignore(from, s) \/ RejectOldBallot(from, s) \/ DetectDropped(from, s)
    PROVE  Fits(h)'
<1>1. CASE \E ext \in Extensions : ReceiveDomPropose(from, s, ext)
    <2>1. FreeStep(s, Silent)
        BY <1>1 DEF ReceiveDomPropose, FreeStep, Arrives
    <2> HIDE DEF Silent
    <2> QED BY <1>1, <2>1, SilentIdle, QuietMoveFits DEF ReceiveDomPropose
<1>2. CASE Ignore(from, s)
    <2>1. FreeStep(s, Silent)
        BY <1>2 DEF Ignore, FreeStep
    <2> QED BY <1>2, <2>1, SilentIdle, QuietMoveFits DEF Ignore
<1>3. CASE RejectOldBallot(from, s)
    <2> DEFINE msg == [type |-> "NotAccepted", n |-> store[s].promise]
               out == To(PidOf(Msg(from, s).n), msg)
    <2>1. FreeStep(s, out)
        BY <1>3 DEF RejectOldBallot, FreeStep, Arrives
    <2>2. IsIdle(msg)
        BY IdleMessages
    <2> HIDE DEF msg
    <2>3. IsIdleOut(out)
        BY <2>2, IdleOuts
    <2> HIDE DEF out
    <2> QED BY <1>3, <2>1, <2>3, QuietMoveFits DEF RejectOldBallot
<1>4. CASE DetectDropped(from, s)
    <2> DEFINE out == To(PidOf(Msg(from, s).n), PrepareReqMsg(s))
    <2>1. FreeStep(s, out)
        BY <1>4 DEF DetectDropped, FreeStep, Arrives
    <2>2. IsIdleOut(out)
        BY IdleMessages, IdleOuts
    <2> HIDE DEF out
    <2>3. UNCHANGED state \/ state' = [state EXCEPT ![s].role = "Follower", ![s].phase = "Recover"]
        BY <1>4 DEF DetectDropped, Reconnect
    <2> QED BY <1>4, <2>1, <2>2, <2>3, QuietMoveFits DEF DetectDropped
<1> QED BY <1>1, <1>2, <1>3, <1>4

\* The timers and reconnections that only ask.
LEMMA QuietTimersFit ==
    ASSUME BallotInv, TypeOK', NEW h \in History, Fits(h), NEW s \in Server,
           ResendPrepareReq(s) \/ \E pid \in Server : Reconnected(s, pid)
    PROVE  Fits(h)'
<1>2. CASE ResendPrepareReq(s)
    <2> DEFINE out == ToAll(Peers(s), PrepareReqMsg(s))
    <2>1. FreeStep(s, out)
        BY <1>2 DEF ResendPrepareReq, FreeStep
    <2>2. IsIdleOut(out)
        BY IdleMessages, IdleOuts
    <2> HIDE DEF out
    <2> QED BY <1>2, <2>1, <2>2, QuietMoveFits DEF ResendPrepareReq, IsFollower
<1>3. CASE \E pid \in Server : Reconnected(s, pid)
    <2>1. PICK pid \in Server : Reconnected(s, pid)
        BY <1>3
    <2> DEFINE out == To(pid, PrepareReqMsg(s))
    <2>2. FreeStep(s, out)
        BY <2>1 DEF Reconnected, FreeStep
    <2>3. IsIdleOut(out)
        BY IdleMessages, IdleOuts
    <2> HIDE DEF out
    <2>4. UNCHANGED state \/ state' = [state EXCEPT ![s].role = "Follower", ![s].phase = "Recover"]
        BY <2>1 DEF Reconnected, Reconnect
    <2> QED BY <2>1, <2>2, <2>3, <2>4, QuietMoveFits DEF Reconnected
<1> QED BY <1>2, <1>3

\* Nor does losing a message.
LEMMA LoseFits ==
    ASSUME BallotInv, TypeOK', NEW h \in History, Fits(h), NEW from \in Server, NEW s \in Server,
           Lose(from, s)
    PROVE  Fits(h)'
<1>1. ChannelStep(s, Silent)
    <2>1. TypeOK /\ net[from][s] # <<>> /\ net' = [net EXCEPT ![from][s] = Tail(@)]
        BY DEF Lose, BallotInv
    <2> DEFINE taken == [net EXCEPT ![from][s] = Tail(@)]
    <2>2. \A a, b \in Server : \E d \in Nat : \A i \in DOMAIN taken[a][b] :
              i + d \in DOMAIN net[a][b] /\ taken[a][b][i] = net[a][b][i + d]
        BY <2>1, TakenOrder
    <2>3. net' = taken
        BY <2>1
    <2> HIDE DEF taken
    <2> SUFFICES ASSUME NEW a \in Server, NEW b \in Server
                 PROVE  \E d \in Nat : \A i \in DOMAIN net'[a][b] :
                            \/ i + d \in DOMAIN net[a][b] /\ net'[a][b][i] = net[a][b][i + d]
                            \/ i = Len(net'[a][b]) /\ a = s /\ b # s /\ net'[a][b][i] \in Range(Silent[b])
        BY DEF ChannelStep
    <2>4. PICK d \in Nat : \A i \in DOMAIN taken[a][b] :
              i + d \in DOMAIN net[a][b] /\ taken[a][b][i] = net[a][b][i + d]
        BY <2>2
    <2> QED BY <2>3, <2>4
<1>2. UNCHANGED <<store, state, lead>> /\ \A t \in Server \ {s} : state'[t] = state[t]
    BY DEF Lose
<1>3. SentFits(s, Silent, h)
    BY SilentIdle, IdleSent
<1> HIDE DEF Silent
<1> QED BY <1>1, <1>2, <1>3, QuietFits

--------------------------------------------------------------------------------
\* What was decided is in every later log

\* What was chosen is choosable.
LEMMA ChosenChoosable ==
    ASSUME NEW h, NEW b, NEW i, Chosen(h, b, i)
    PROVE  Choosable(h, b, i)
BY DEF Chosen, Choosable

\* What was decided in ballot r or below is in the log of r and of every later ballot.
LEMMA DecidedHeld ==
    ASSUME NEW h \in History, Safe(h), NEW r \in h.started, NEW d \in Nat,
           DecidedBy(h, r, d), d <= Len(h.log[r])
    PROVE  \E c \in h.started :
               /\ c <= r /\ Chosen(h, c, d) /\ Same(h.log[r], h.log[c], d)
               /\ \A n \in h.started : c < n => d <= h.base[n] /\ Same(h.log[n], h.log[c], d)
<1>1. PICK c \in h.started : c <= r /\ Chosen(h, c, d)
    BY DEF DecidedBy
<1>2. c \in Ballot /\ r \in Ballot /\ h.started \subseteq Ballot /\ c \in Nat /\ r \in Nat
    BY <1>1 DEF History, Ballot
<1>3. Choosable(h, c, d)
    BY <1>1, ChosenChoosable
<1>4. \A n \in h.started : c < n => d <= h.base[n] /\ Same(h.log[n], h.log[c], d)
    BY <1>2, <1>3 DEF Safe
<1>5. Same(h.log[r], h.log[c], d)
    <2>1. CASE c = r
        BY <1>2, <2>1, HistoryFacts, SameFacts
    <2>2. CASE c < r
        BY <1>4, <2>2
    <2> QED BY <1>1, <1>2, <2>1, <2>2
<1> QED BY <1>1, <1>4, <1>5

\* What a server promises at n, its log as it is, is known of it.
LEMMA PromiseKnown ==
    ASSUME TypeOK, TypeOK', NEW h \in History, NEW s \in Server, StoreFits(h, s),
           NEW n \in Nat, store[s].promise <= n, store'[s].promise = n,
           store'[s].accRound = store[s].accRound, store'[s].log = store[s].log,
           NEW p, p.nAccepted = store[s].accRound, p.accIdx = Len(store[s].log),
           p.decided = store[s].decided
    PROVE  Known(h, s, n, p)'
<1> DEFINE r == store[s].accRound
           log == store[s].log
<1>1. r \in Ballot /\ r \in Nat /\ r <= n /\ log \in Logs /\ Len(log) \in Nat /\ n <= n
    BY StoreFacts
<1>2. /\ r \in h.started /\ h.base[r] <= Len(log) /\ Same(log, h.log[r], Len(log))
      /\ h.voted[s][r] = Len(log)
      /\ \A b \in Ballot : b > r => h.voted[s][b] = 0
      /\ store[s].decided <= Len(log) /\ DecidedBy(h, r, store[s].decided)
    BY DEF StoreFits
<1>3. Len(log) <= Len(h.log[r])
    BY <1>2 DEF Same
<1>4. p.nAccepted = r /\ p.accIdx = Len(log) /\ p.decided = store[s].decided
      /\ store'[s].accRound = r /\ store'[s].log = log
    OBVIOUS
<1> HIDE DEF r, log
<1>5. \A b \in Ballot : r < b => b > r
    BY <1>1 DEF Ballot
<1> QED BY <1>1, <1>2, <1>3, <1>4, <1>5 DEF Known

\* How much of the follower's log AcceptSync takes for valid, given its promise p and the
\* best one of the leader, meta.
ValidUpTo(n, meta, p) ==
    IF p.nAccepted = n THEN p.accIdx
    ELSE IF p.nAccepted = meta.nAccepted THEN Min({meta.accIdx, p.accIdx})
    ELSE p.decided

\* The log that AcceptSync brings fits the follower's, whatever the follower has made of
\* its own since it promised: r is the ballot of the follower's log flog, p its promise.
LEMMA AcceptSyncFits ==
    ASSUME NEW h \in History, Safe(h), NEW n \in h.started, NEW log \in Logs,
           Len(log) = Len(h.log[n]), Same(log, h.log[n], Len(log)), h.base[n] <= Len(log),
           NEW meta \in [nAccepted : Ballot, accIdx : Nat],
           meta.nAccepted \in h.started, meta.nAccepted < n, h.base[n] = meta.accIdx,
           Same(h.log[n], h.log[meta.nAccepted], h.base[n]),
           NEW p, p.nAccepted \in h.started, p.accIdx \in Nat, p.decided \in Nat,
           p.nAccepted <= n, p.accIdx <= Len(h.log[p.nAccepted]), p.decided <= p.accIdx,
           DecidedBy(h, p.nAccepted, p.decided),
           NEW flog \in Logs, NEW r \in h.started, Same(flog, h.log[r], Len(flog)),
           h.base[r] <= Len(flog), r # n => r = p.nAccepted /\ Len(flog) = p.accIdx,
           p.nAccepted = n => p.accIdx <= Len(flog)
    PROVE  /\ Synced(flog, CreateLogSync(log, ValidUpTo(n, meta, p)), h.log[n], Len(log))
           /\ r # n => ValidUpTo(n, meta, p) <= h.base[n]
<1> DEFINE a == p.nAccepted
           c == meta.nAccepted
           valid == IF a = n THEN p.accIdx
                    ELSE IF a = c THEN Min({meta.accIdx, p.accIdx})
                    ELSE p.decided
<1>0. valid = ValidUpTo(n, meta, p)
    BY DEF ValidUpTo
<1> HIDE DEF valid
<1> SUFFICES /\ Synced(flog, CreateLogSync(log, valid), h.log[n], Len(log))
             /\ r # n => valid <= h.base[n]
    BY <1>0
<1> USE DEF valid
<1>1. /\ a \in Ballot /\ c \in Ballot /\ n \in Ballot /\ r \in Ballot
      /\ a \in Nat /\ c \in Nat /\ n \in Nat /\ r \in Nat /\ meta.accIdx \in Nat
    BY DEF History, Ballot
<1>2. /\ h.log[a] \in Logs /\ h.log[c] \in Logs /\ h.log[n] \in Logs /\ h.log[r] \in Logs
      /\ Len(log) \in Nat /\ Len(flog) \in Nat /\ h.base[n] \in Nat
    BY <1>1, HistoryFacts, LenProperties DEF Logs
<1>3. ASSUME NEW k \in Nat, k <= Len(flog), k <= Len(log), Same(flog, h.log[n], k)
      PROVE  Synced(flog, CreateLogSync(log, k), h.log[n], Len(log))
    BY <1>2, <1>3, CreatedSync
<1>4. CASE a = n
    <2>1. valid = p.accIdx /\ r = n
        BY <1>4
    <2>2. Same(flog, h.log[n], p.accIdx)
        BY <1>2, <1>4, <2>1, SameFacts
    <2> QED BY <1>3, <1>4, <2>1, <2>2
<1>5. CASE a # n /\ a = c
    <2>1. valid = Min({meta.accIdx, p.accIdx}) /\ valid \in Nat
          /\ valid <= h.base[n] /\ valid <= p.accIdx
        <3>1. Min({meta.accIdx, p.accIdx}) \in {meta.accIdx, p.accIdx}
              /\ Min({meta.accIdx, p.accIdx}) <= meta.accIdx /\ Min({meta.accIdx, p.accIdx}) <= p.accIdx
            <4>1. \E x \in {meta.accIdx, p.accIdx} : \A y \in {meta.accIdx, p.accIdx} : x =< y
                BY <1>1
            <4> QED BY <1>1, <4>1 DEF Min
        <3> QED BY <1>1, <1>5, <3>1
    <2> HIDE DEF valid
    <2>2. valid <= Len(log)
        BY <1>2, <2>1
    <2>3. Same(h.log[c], h.log[n], valid)
        BY <1>2, <2>1, SameFacts
    <2>4. valid <= Len(flog) /\ Same(flog, h.log[n], valid)
        <3>1. CASE r = n
            <4>1. valid <= Len(flog)
                BY <1>2, <2>1, <3>1
            <4> QED BY <1>2, <2>1, <3>1, <4>1, SameFacts
        <3>2. CASE r # n
            <4>1. r = c /\ valid <= Len(flog)
                BY <1>5, <2>1, <3>2
            <4>2. Same(flog, h.log[c], valid)
                BY <1>2, <2>1, <4>1, SameFacts
            <4> QED BY <1>2, <2>1, <2>3, <4>1, <4>2, SameFacts
        <3> QED BY <3>1, <3>2
    <2>5. Synced(flog, CreateLogSync(log, valid), h.log[n], Len(log))
        BY <1>3, <2>1, <2>2, <2>4
    <2> QED BY <2>1, <2>5 DEF valid
<1>6. CASE a # n /\ a # c
    <2> DEFINE d == p.decided
    <2>1. valid = d /\ d \in Nat
        BY <1>6
    <2>2. PICK e \in h.started :
              /\ e <= a /\ Same(h.log[a], h.log[e], d)
              /\ \A m \in h.started : e < m => d <= h.base[m] /\ Same(h.log[m], h.log[e], d)
        <3>1. Len(h.log[a]) \in Nat
            BY <1>1, HistoryFacts
        <3>2. d <= Len(h.log[a])
            BY <3>1
        <3> QED BY <3>2, DecidedHeld
    <2>3. e \in Ballot /\ e \in Nat /\ h.log[e] \in Logs
        BY <2>2, HistoryFacts DEF History, Ballot
    <2>4. d <= h.base[n] /\ Same(h.log[n], h.log[e], d)
        BY <1>1, <1>6, <2>2, <2>3
    <2>5. Same(flog, h.log[n], d)
        <3>1. CASE r = n
            <4>1. d <= Len(flog)
                BY <1>2, <2>4, <3>1
            <4> QED BY <1>2, <3>1, <4>1, SameFacts
        <3>2. CASE r # n
            <4>1. r = a /\ d <= Len(flog)
                BY <3>2
            <4>2. Same(flog, h.log[a], d)
                BY <1>2, <4>1, SameFacts
            <4>3. Same(flog, h.log[e], d)
                BY <1>2, <2>2, <2>3, <4>2, SameFacts
            <4>4. Same(h.log[e], h.log[n], d)
                BY <1>2, <2>3, <2>4, SameFacts
            <4> QED BY <1>2, <2>3, <4>3, <4>4, SameFacts
        <3> QED BY <3>1, <3>2
    <2>6. d <= Len(log) /\ d <= Len(flog)
        BY <1>2, <2>4, <2>5 DEF Same
    <2> HIDE DEF d
    <2>7. Synced(flog, CreateLogSync(log, d), h.log[n], Len(log))
        BY <1>3, <2>1, <2>5, <2>6
    <2> HIDE DEF valid
    <2>8. Synced(flog, CreateLogSync(log, valid), h.log[n], Len(log)) /\ (r # n => valid <= h.base[n])
        BY <2>1, <2>4, <2>7
    <2> QED BY <2>8 DEF valid
<1> QED BY <1>4, <1>5, <1>6

--------------------------------------------------------------------------------
\* Messages sent again

\* What a leader says of itself when it asks for promises is so.
LEMMA PrepareSent ==
    ASSUME NEW s \in Server, NEW n \in Nat, PidOf(n) = s, n <= store'[s].promise,
           NEW st, st.accRound = store'[s].accRound, st.log = store'[s].log,
           st.decided = store'[s].decided, NEW h, NEW T, NEW p
    PROVE  /\ SentFits(s, ToAll(T, PrepareMsg(n, st)), h) /\ Short(ToAll(T, PrepareMsg(n, st)))
           /\ SentFits(s, To(p, PrepareMsg(n, st)), h) /\ Short(To(p, PrepareMsg(n, st)))
<1>1. PICK m : m = PrepareMsg(n, st)
    OBVIOUS
<1>2. /\ m.type = "Prepare" /\ m.n = n /\ m.nAccepted = store'[s].accRound
      /\ m.accIdx = Len(store'[s].log) /\ m.decided = store'[s].decided
    BY <1>1 DEF PrepareMsg
<1>3. PrepareFits(s, m)'
    BY <1>2 DEF PrepareFits
<1>4. \A b : MsgFits(h, s, b, m)'
    BY <1>2, <1>3 DEF MsgFits, FromLeader
<1>5. \A S : SentFits(s, ToAll(S, m), h) /\ Short(ToAll(S, m))
    <2> SUFFICES ASSUME NEW S PROVE SentFits(s, ToAll(S, m), h) /\ Short(ToAll(S, m))
        OBVIOUS
    <2>1. \A b \in Server : Range(ToAll(S, m)[b]) = IF b \in S THEN {m} ELSE {}
        BY ToAllOut
    <2> QED BY <1>2, <1>4, <2>1, ShortOuts DEF SentFits, FromLeader
<1> QED BY <1>1, <1>5 DEF To

\* A leader that asks again.
LEMMA ResendAtLeaderFits ==
    ASSUME BallotInv, TypeOK', NEW h \in History, Fits(h), NEW s \in Server, ResendAtLeader(s)
    PROVE  Fits(h)'
<1> DEFINE out == ToAll(PreparablePeers(lead[s], s), PrepareMsg(lead[s].n, store[s]))
<1>1. TypeOK /\ state[s].role = "Leader" /\ Send(s, out) /\ UNCHANGED <<store, state, lead>>
    BY DEF ResendAtLeader, BallotInv
<1>2. /\ PidOf(lead[s].n) = s /\ lead[s].n = store[s].promise /\ lead[s].n \in Nat
      /\ lead[s].n <= store'[s].promise
    BY <1>1, LeadFacts
<1>3. SentFits(s, out, h) /\ Short(out)
    BY <1>1, <1>2, PrepareSent
<1> HIDE DEF out
<1>4. ChannelStep(s, out)
    BY <1>1, <1>3, MovesChannels DEF Moves, FreeStep
<1> QED BY <1>1, <1>3, <1>4, QuietFits

\* A follower that promises again.
LEMMA ResendPromiseFits ==
    ASSUME BallotInv, TypeOK', NEW h \in History, Fits(h), NEW s \in Server, ResendPromise(s)
    PROVE  Fits(h)'
<1>1. PICK m : m = state[s].cached
    OBVIOUS
<1> DEFINE l == PidOf(m.n)
           out == To(l, m)
<1>2. TypeOK /\ m # None /\ Send(s, out) /\ UNCHANGED <<store, state, lead>>
    BY <1>1 DEF ResendPromise, BallotInv
<1>3. IsPromise(m)
    BY <1>1, <1>2 DEF TypeOK, StateOK
<1>4. l \in Server /\ PromiseFits(h, s, l, m)
    BY <1>1, <1>2 DEF Fits, ServersFit, FollowerFits, SessionFits, CachedFits
<1>5. PromiseFits(h, s, l, m)'
    BY <1>2, <1>4 DEF PromiseFits, Known, SyncFits, IsLeader, Own
<1>6. SentFits(s, out, h)
    <2>1. \A b \in Server : Range(out[b]) \subseteq IF b = l THEN {m} ELSE {}
        BY ToOut
    <2>2. MsgFits(h, s, l, m)' /\ m.type = "Promise"
        BY <1>3, <1>5 DEF MsgFits, IsPromise, FromLeader
    <2> HIDE DEF out, l
    <2> QED BY <2>1, <2>2 DEF SentFits, FromLeader
<1>7. ChannelStep(s, out)
    <2>1. Short(out)
        BY ShortOuts
    <2> HIDE DEF out
    <2> QED BY <1>2, <2>1, MovesChannels DEF Moves, FreeStep
<1> HIDE DEF out
<1> QED BY <1>2, <1>6, <1>7, QuietFits

--------------------------------------------------------------------------------
\* The steps that change only the leader's state

\* They are local,
LEMMA LeadStepLocal ==
    ASSUME TypeOK, NEW s \in Server, UNCHANGED <<store, state>>,
           \A t \in Server \ {s} : lead'[t] = lead[t], lead'[s].n = lead[s].n,
           \A f \in Server : SeqLeq(lead[s].seqs[f], lead'[s].seqs[f])
    PROVE  LocalStep(s)
<1>1. store[s].promise <= store[s].promise /\ Len(store[s].log) <= Len(store[s].log)
    BY StoreFacts
<1> QED BY <1>1 DEF LocalStep

\* and fit when the leader does.
LEMMA LeadStepFits ==
    ASSUME BallotInv, TypeOK', NEW h \in History, NEW s \in Server, NEW out,
           Fits(h), UNCHANGED <<store, state>>,
           \A t \in Server \ {s} : lead'[t] = lead[t], lead'[s].n = lead[s].n,
           \A f \in Server : SeqLeq(lead[s].seqs[f], lead'[s].seqs[f]),
           ChannelStep(s, out), SentFits(s, out, h), LeaderFits(h, s)'
    PROVE  Fits(h)'
<1>1. TypeOK /\ AcceptsInPromise /\ HistoryOK(h) /\ StoreFits(h, s) /\ FollowerFits(h, s)
    BY DEF BallotInv, Fits, ServersFit
<1>2. LocalStep(s) /\ HistoryStep(s, h, h)
    BY <1>1, LeadStepLocal, SameHistory
<1>3. FollowerFits(h, s)'
    BY <1>1, <1>2, FollowerFitsKept DEF IsFollower
<1> QED BY <1>2, <1>3, SameHistoryFits

\* A leader that takes a promise back.
LEMMA DropPromiseFits ==
    ASSUME BallotInv, TypeOK', NEW h \in History, Fits(h), NEW s \in Server, NEW from \in Peers(s),
           NEW p \in {None, PromisedHigher}, lead' = [lead EXCEPT ![s].promises[from] = p],
           UNCHANGED <<store, state>>, NEW out, ChannelStep(s, out), SentFits(s, out, h)
    PROVE  Fits(h)'
<1>1. TypeOK /\ LeaderFits(h, s) /\ from \in Server /\ from # s
    BY DEF BallotInv, Fits, ServersFit, Peers
<1> DEFINE ls == lead[s]
<1>2. PICK after : after = lead'[s]
    OBVIOUS
<1>3. IsLeaderState(ls) /\ DOMAIN lead = Server
    BY <1>1 DEF TypeOK, LeadOK
<1>4. /\ \A t \in Server \ {s} : lead'[t] = lead[t]
      /\ after = [ls EXCEPT !.promises = [@ EXCEPT ![from] = p]]
    BY <1>2, <1>3
<1>5. /\ after.n = ls.n /\ after.seqs = ls.seqs /\ after.accIdx = ls.accIdx
      /\ after.maxMeta = ls.maxMeta /\ after.maxSync = ls.maxSync
      /\ after.promises = [ls.promises EXCEPT ![from] = p]
    BY <1>3, <1>4 DEF IsLeaderState
<1>6. /\ \A t \in HasPromised(after) : t \in HasPromised(ls) /\ after.promises[t] = ls.promises[t]
      /\ s \in HasPromised(ls) => s \in HasPromised(after)
      /\ PromisedFollowers(after) \subseteq PromisedFollowers(ls)
    BY <1>1, <1>3, <1>5 DEF HasPromised, PromisedFollowers, IsLeaderState, None, PromisedHigher
<1> HIDE DEF ls
<1>7. LeaderFits(h, s)'
    <2> SUFFICES ASSUME state[s].role = "Leader" PROVE LeaderFits(h, s)'
        BY DEF LeaderFits
    <2>1. \A t \in Server : after.accIdx[t] <= h.voted[t][after.n]
        BY <1>1, <1>5 DEF LeaderFits, ls
    <2>2. ASSUME state[s].phase = "Prepare" PROVE Preparing(h, s)'
        <3>1. Prepared(h, s, ls)
            BY <1>1, <2>2 DEF LeaderFits, Preparing, ls
        <3>2. \A t \in HasPromised(after) :
                  Known(h, t, after.n, after.promises[t])' /\ ~MoreUpToDate(after.promises[t], after.maxMeta)
            BY SMTT(30), <1>2, <1>5, <1>6, <3>1 DEF Prepared, Known
        <3> QED BY SMTT(30), <1>2, <1>5, <1>6, <3>1, <3>2 DEF Prepared, Preparing, Own
    <2>3. ASSUME state[s].phase = "Accept" PROVE Accepting(h, s)'
        <3>1. Accepting(h, s)
            BY <1>1, <2>3 DEF LeaderFits
        <3> QED BY <1>2, <1>5, <1>6, <3>1 DEF Accepting, ls
    <2> QED BY <1>2, <2>1, <2>2, <2>3 DEF LeaderFits
<1>8. \A f \in Server : SeqLeq(lead[s].seqs[f], lead'[s].seqs[f])
    BY <1>1, <1>2, <1>5, LeadFacts, SeqLeqFacts DEF ls
<1> QED BY <1>2, <1>4, <1>5, <1>7, <1>8, LeadStepFits DEF ls

\* A follower asks for a Prepare, or refuses the ballot.
LEMMA DroppedPromisesFit ==
    ASSUME BallotInv, TypeOK', NEW h \in History, Fits(h), NEW s \in Server, NEW from \in Peers(s),
           ReceivePrepareReq(from, s) \/ ReceiveNotAccepted(from, s)
    PROVE  Fits(h)'
<1>1. TypeOK /\ from \in Server
    BY DEF BallotInv, Peers
<1>2. CASE ReceivePrepareReq(from, s)
    <2> DEFINE out == To(from, PrepareMsg(lead[s].n, store[s]))
    <2>1. /\ net[from][s] # <<>> /\ state[s].role = "Leader" /\ Receive(from, s, out)
          /\ lead' = [lead EXCEPT ![s].promises[from] = None] /\ UNCHANGED <<store, state>>
        BY <1>2 DEF ReceivePrepareReq, Arrives
    <2>2. /\ PidOf(lead[s].n) = s /\ lead[s].n = store[s].promise /\ lead[s].n \in Nat
          /\ lead[s].n <= store'[s].promise
        BY <1>1, <2>1, LeadFacts
    <2>3. SentFits(s, out, h) /\ Short(out)
        BY <2>1, <2>2, PrepareSent
    <2> HIDE DEF out
    <2>4. ChannelStep(s, out)
        BY <1>1, <2>1, <2>3, MovesChannels DEF Moves, FreeStep
    <2> QED BY <2>1, <2>3, <2>4, DropPromiseFits
<1>3. CASE ReceiveNotAccepted(from, s)
    <2>1. /\ FreeStep(s, Silent) /\ UNCHANGED <<store, state>>
          /\ lead' = [lead EXCEPT ![s].promises[from] = PromisedHigher]
        BY <1>1, <1>3 DEF ReceiveNotAccepted, Arrives, FreeStep
    <2>2. ChannelStep(s, Silent) /\ SentFits(s, Silent, h)
        BY <1>1, <2>1, SilentIdle, MovesChannels, IdleSent DEF Moves, IsIdleOut
    <2> HIDE DEF Silent
    <2> QED BY <2>1, <2>2, DropPromiseFits
<1> QED BY <1>2, <1>3

--------------------------------------------------------------------------------
\* The prepare phase

\* What a leader knows after a promise m, which may be the most recent.
Records(after, ls, m, from, best) ==
    /\ after.n = ls.n /\ after.seqs = ls.seqs /\ after.accIdx = ls.accIdx
    /\ after.promises = [ls.promises EXCEPT ![from] = Promised(m)]
    /\ HasPromised(after) = HasPromised(ls) \cup {from}
    /\ \A t \in HasPromised(after) :
           after.promises[t] = IF t = from THEN Promised(m) ELSE ls.promises[t]
    /\ after.unsynced = [ls.unsynced EXCEPT ![from] = m.unsync]
    /\ IF best THEN /\ after.maxMeta = [nAccepted |-> m.nAccepted, accIdx |-> m.accIdx]
                    /\ after.maxSync = m.sync
       ELSE after.maxMeta = ls.maxMeta /\ after.maxSync = ls.maxSync

\* It knows that after set_promise, before the majority and after it.
LEMMA SetPromiseFields ==
    ASSUME NEW ls, IsLeaderState(ls), NEW m, NEW from \in Server
    PROVE  /\ Records(SetPromise(ls, m, from, TRUE), ls, m, from, MoreUpToDate(m, ls.maxMeta))
           /\ Records(SetPromise(ls, m, from, FALSE), ls, m, from, FALSE)
<1>1. ASSUME NEW check \in BOOLEAN
      PROVE  Records(SetPromise(ls, m, from, check), ls, m, from, check /\ MoreUpToDate(m, ls.maxMeta))
    <2> DEFINE best == check /\ MoreUpToDate(m, ls.maxMeta)
               meta == IF best THEN [nAccepted |-> m.nAccepted, accIdx |-> m.accIdx] ELSE ls.maxMeta
               sync == IF best THEN m.sync ELSE ls.maxSync
               hash == IF best THEN m.hash ELSE ls.maxHash
               after == SetPromise(ls, m, from, check)
    <2>1. after = [ls EXCEPT !.maxMeta = meta, !.maxSync = sync, !.maxHash = hash,
                             !.promises[from] = Promised(m), !.unsynced[from] = m.unsync]
        BY DEF SetPromise
    <2> HIDE DEF meta, sync, hash, after
    <2>2. /\ after.n = ls.n /\ after.seqs = ls.seqs /\ after.accIdx = ls.accIdx
          /\ after.maxMeta = meta /\ after.maxSync = sync
          /\ after.promises = [ls.promises EXCEPT ![from] = Promised(m)]
          /\ after.unsynced = [ls.unsynced EXCEPT ![from] = m.unsync]
        BY <2>1 DEF IsLeaderState
    <2>3. /\ HasPromised(after) = HasPromised(ls) \cup {from}
          /\ \A t \in HasPromised(after) :
                 after.promises[t] = IF t = from THEN Promised(m) ELSE ls.promises[t]
        BY <2>2 DEF HasPromised, Promised, IsLeaderState
    <2>4. IF best THEN /\ after.maxMeta = [nAccepted |-> m.nAccepted, accIdx |-> m.accIdx]
                       /\ after.maxSync = m.sync
          ELSE after.maxMeta = ls.maxMeta /\ after.maxSync = ls.maxSync
        BY <2>2 DEF meta, sync
    <2> HIDE DEF best
    <2>5. Records(after, ls, m, from, best)
        BY <2>2, <2>3, <2>4 DEF Records
    <2> QED BY <2>5 DEF after, best
<1>2. Records(SetPromise(ls, m, from, TRUE), ls, m, from, TRUE /\ MoreUpToDate(m, ls.maxMeta))
    BY <1>1, Zenon
<1>3. Records(SetPromise(ls, m, from, FALSE), ls, m, from, FALSE /\ MoreUpToDate(m, ls.maxMeta))
    BY <1>1, Zenon
<1>4. /\ (TRUE /\ MoreUpToDate(m, ls.maxMeta)) = MoreUpToDate(m, ls.maxMeta)
      /\ (FALSE /\ MoreUpToDate(m, ls.maxMeta)) = FALSE
    BY DEF MoreUpToDate
<1> QED BY <1>2, <1>3, <1>4, Zenon

\* A leader starts with its own promise.
LEMMA BecomeLeaderFits ==
    ASSUME BallotInv, TypeOK', NEW h \in History, Fits(h), NEW s \in Server,
           NEW b \in 1..MaxBallot, BecomeLeader(s, b)
    PROVE  Fits(h)'
<1> DEFINE st == [store[s] EXCEPT !.promise = b]
           own == [n |-> b, nAccepted |-> st.accRound, decided |-> st.decided,
                   accIdx |-> Len(st.log), sync |-> None,
                   unsync |-> fast[s].unsynced, hash |-> fast[s].prefixHash]
           new == LeaderStateWith(b)
           ls == SetPromise(new, own, s, TRUE)
           out == ToAll(Peers(s), PrepareMsg(b, st))
           r == store[s].accRound
           len == Len(store[s].log)
<1>1. /\ TypeOK /\ AcceptsInPromise /\ HistoryOK(h) /\ StoreFits(h, s) /\ FollowerFits(h, s)
    BY DEF BallotInv, Fits, ServersFit
<1>2. b \in Ballot /\ b \in Nat /\ b # 0 /\ Owner[b] = s /\ PidOf(b) = s /\ b > store[s].promise
    BY BallotAssumption DEF BecomeLeader, Ballot, PidOf
<1>3. /\ r \in Ballot /\ r \in Nat /\ len \in Nat /\ r < b /\ store[s].promise \in Nat
      /\ store[s].promise <= b
    BY <1>1, <1>2, StoreFacts
<1>4. /\ st.promise = b /\ st.accRound = r /\ st.log = store[s].log /\ st.decided = store[s].decided
    BY <1>1 DEF TypeOK, StoreOK, Stored
<1> HIDE DEF st
<1>5. /\ own.nAccepted = r /\ own.accIdx = len /\ own.decided = store[s].decided /\ own.sync = None
    BY <1>4
<1> HIDE DEF own
<1>6. /\ IsLeaderState(new) /\ new.n = b /\ new.maxMeta = [nAccepted |-> 0, accIdx |-> 0]
      /\ new.maxSync = None /\ HasPromised(new) = {} /\ \A t \in Server : new.accIdx[t] = 0
    BY <1>2, LeaderStateWithType DEF LeaderStateWith, HasPromised, None
<1> HIDE DEF new
<1>7. /\ ls.n = b /\ ls.accIdx = new.accIdx
      /\ HasPromised(ls) = {s} /\ ls.promises[s] = Promised(own)
      /\ ls.maxMeta = [nAccepted |-> r, accIdx |-> len] /\ ls.maxSync = None
    <2>1. Records(ls, new, own, s, MoreUpToDate(own, new.maxMeta))
        BY <1>6, SetPromiseFields
    <2> HIDE DEF ls
    <2>2. MoreUpToDate(own, new.maxMeta) \/ (r = 0 /\ len = 0)
        BY <1>3, <1>5, <1>6 DEF MoreUpToDate
    <2>3. ls.maxMeta = [nAccepted |-> r, accIdx |-> len] /\ ls.maxSync = None
        BY <1>5, <1>6, <2>1, <2>2 DEF Records
    <2> QED BY <1>6, <2>1, <2>3 DEF Records
<1>8. /\ store' = [store EXCEPT ![s] = st] /\ lead' = [lead EXCEPT ![s] = ls] /\ Send(s, out)
      /\ state' = [state EXCEPT ![s].role = "Leader", ![s].phase = "Prepare"]
    BY DEF BecomeLeader, st, own, new, ls, out
<1> HIDE DEF ls
<1>9. /\ store'[s] = st /\ lead'[s] = ls
      /\ \A t \in Server \ {s} : store'[t] = store[t] /\ lead'[t] = lead[t] /\ state'[t] = state[t]
      /\ state'[s].role = "Leader" /\ state'[s].phase = "Prepare" /\ state'[s].cached = state[s].cached
    BY <1>1, <1>8 DEF TypeOK, StoreOK, LeadOK, StateOK
<1>10. LocalStep(s)
    BY <1>2, <1>3, <1>4, <1>7, <1>9 DEF LocalStep
<1>11. SentFits(s, out, h) /\ ChannelStep(s, out)
    <2>1. b <= store'[s].promise /\ st.accRound = store'[s].accRound
          /\ st.log = store'[s].log /\ st.decided = store'[s].decided
        BY <1>2, <1>4, <1>9
    <2>2. SentFits(s, out, h) /\ Short(out)
        BY <1>2, <2>1, PrepareSent
    <2> HIDE DEF out
    <2> QED BY <1>1, <1>8, <2>2, MovesChannels DEF Moves, FreeStep
<1>12. LeaderFits(h, s)'
    <2>1. b \notin h.started
        BY <1>2, <1>3 , <1>1 DEF HistoryOK
    <2>2. \A t \in Server : ls.accIdx[t] <= h.voted[t][b]
        <3>1. \A t \in Server : h.voted[t][b] \in Nat
            BY <1>2, HistoryFacts
        <3> QED BY <1>6, <1>7, <3>1
    <2>3. Known(h, s, b, lead[s].promises[s])'
        <3>1. PICK p : p = Promised(own)
            OBVIOUS
        <3>2. p.nAccepted = r /\ p.accIdx = len /\ p.decided = store[s].decided
            BY <1>5, <3>1 DEF Promised
        <3>3. Known(h, s, b, p)'
            BY <1>1, <1>2, <1>3, <1>4, <1>9, <3>2, PromiseKnown
        <3> QED BY <1>7, <1>9, <3>1, <3>3
    <2>4. ~MoreUpToDate(ls.promises[s], ls.maxMeta)
        BY <1>3, <1>5, <1>7 DEF MoreUpToDate, Promised
    <2>5. r \in h.started /\ h.base[r] <= len
        BY <1>1 DEF StoreFits
    <2>6. Preparing(h, s)'
        BY <1>3, <1>4, <1>7, <1>9, <2>1, <2>3, <2>4, <2>5 DEF Preparing, Prepared, Own
    <2> QED BY <1>7, <1>9, <2>2, <2>6 DEF LeaderFits
<1>13. FollowerFits(h, s)'
    BY <1>1, <1>9, <1>10, SameHistory, FollowerFitsKept DEF IsFollower
<1> QED BY <1>4, <1>9, <1>10, <1>11, <1>12, <1>13, SameHistoryFits

\* The part of its log that a follower promises fits the leader's: from what the leader has
\* decided, if the follower's log is of a later ballot, and from where the leader's ends, if
\* it is longer.
LEMMA PromiseSyncFits ==
    ASSUME NEW h \in History, Safe(h), NEW flog \in Logs, NEW a \in h.started,
           Same(flog, h.log[a], Len(flog)), NEW d \in Nat, d <= Len(flog), DecidedBy(h, a, d),
           NEW log \in Logs, NEW r \in h.started, h.base[r] <= Len(log), Same(log, h.log[r], Len(log))
    PROVE  /\ r > a => Synced(flog, CreateLogSync(log, d), h.log[r], Len(log))
           /\ r = a /\ Len(log) > Len(flog) =>
                  Synced(flog, CreateLogSync(log, Len(flog)), h.log[r], Len(log))
<1>1. /\ a \in Ballot /\ r \in Ballot /\ a \in Nat /\ r \in Nat
      /\ h.log[a] \in Logs /\ h.log[r] \in Logs /\ h.base[r] \in Nat
      /\ Len(log) \in Nat /\ Len(flog) \in Nat /\ Len(h.log[a]) \in Nat
    BY HistoryFacts, LenProperties DEF History, Ballot, Logs
<1>2. ASSUME r > a PROVE Synced(flog, CreateLogSync(log, d), h.log[r], Len(log))
    <2>1. d <= Len(h.log[a])
        BY <1>1 DEF Same
    <2>2. PICK c \in h.started :
              /\ c <= a /\ Same(h.log[a], h.log[c], d)
              /\ \A n \in h.started : c < n => d <= h.base[n] /\ Same(h.log[n], h.log[c], d)
        BY <2>1, DecidedHeld
    <2>3. c \in Ballot /\ c \in Nat /\ h.log[c] \in Logs
        BY <2>2, HistoryFacts DEF History, Ballot
    <2>4. d <= Len(log) /\ Same(h.log[r], h.log[c], d)
        BY <1>1, <1>2, <2>2, <2>3
    <2>5. Same(flog, h.log[a], d)
        BY <1>1, SameFacts
    <2>6. Same(flog, h.log[c], d)
        BY <1>1, <2>2, <2>3, <2>5, SameFacts
    <2>7. Same(h.log[c], h.log[r], d)
        BY <1>1, <2>3, <2>4, SameFacts
    <2>8. Same(flog, h.log[r], d)
        BY <1>1, <2>3, <2>6, <2>7, SameFacts
    <2> QED BY <1>1, <2>4, <2>8, CreatedSync
<1>3. ASSUME r = a, Len(log) > Len(flog)
      PROVE  Synced(flog, CreateLogSync(log, Len(flog)), h.log[r], Len(log))
    BY <1>1, <1>3, CreatedSync
<1> QED BY <1>2, <1>3

\* A promise fits.
LEMMA ReceivePrepareFits ==
    ASSUME BallotInv, TypeOK', NEW h \in History, Fits(h), NEW s \in Server, NEW from \in Peers(s),
           ReceivePrepare(from, s)
    PROVE  Fits(h)'
<1> DEFINE st == store[s]
           sync(m) == IF st.accRound > m.nAccepted THEN CreateLogSync(st.log, m.decided)
                      ELSE IF st.accRound = m.nAccepted /\ Len(st.log) > m.accIdx
                           THEN CreateLogSync(st.log, m.accIdx)
                      ELSE None
           promise(m) == [type |-> "Promise", n |-> m.n, nAccepted |-> st.accRound,
                          decided |-> st.decided, accIdx |-> Len(st.log), sync |-> sync(m),
                          unsync |-> fast[s].unsynced, hash |-> fast[s].prefixHash]
<1>1. /\ TypeOK /\ Safe(h) /\ StoreFits(h, s) /\ StoreFits(h, from)
      /\ from \in Server /\ from # s
    BY DEF BallotInv, Fits, ServersFit, Peers
<1>2. PICK m : m = Msg(from, s)
    OBVIOUS
<1>3. /\ m \in Range(net[from][s]) /\ m.type = "Prepare" /\ net[from][s] # <<>>
      /\ m.n \in Nat /\ IsMessage(m)
    BY <1>1, <1>2, ArrivesType, MessageFields DEF ReceivePrepare, TypeOK, Ballot
<1>4. PrepareFits(from, m)
    BY <1>1, <1>3 DEF Fits, ChannelsFit, MsgFits
<1>5. PICK p : p = promise(m)
    OBVIOUS
<1>6. /\ p.n = m.n /\ p.nAccepted = store[s].accRound /\ p.accIdx = Len(store[s].log)
      /\ p.decided = store[s].decided /\ p.sync = sync(m) /\ p.type = "Promise"
    BY <1>5
<1>7. /\ PromisesTo(s, m)
      /\ store' = [store EXCEPT ![s].promise = m.n]
      /\ state' = [state EXCEPT ![s] = [role |-> "Follower", phase |-> "Prepare",
                                        seq |-> Zero, cached |-> p]]
      /\ Receive(from, s, To(from, p)) /\ UNCHANGED lead
    BY <1>2, <1>5 DEF ReceivePrepare
<1> HIDE DEF promise
<1>8. store[s].promise <= m.n /\ store[s].promise \in Nat
    BY <1>1, <1>3, <1>7, StoreFacts DEF PromisesTo
<1>9. /\ store'[s].promise = m.n /\ store'[s].accRound = store[s].accRound
      /\ store'[s].log = store[s].log /\ store'[s].decided = store[s].decided
      /\ state'[s].role = "Follower" /\ state'[s].phase = "Prepare" /\ state'[s].cached = p
      /\ \A t \in Server \ {s} : store'[t] = store[t] /\ state'[t] = state[t] /\ lead'[t] = lead[t]
    BY <1>1, <1>7 DEF TypeOK, StoreOK, Stored, StateOK
<1>10. LocalStep(s)
    BY <1>8, <1>9 DEF LocalStep
<1>11. Known(h, s, m.n, p)'
    BY <1>1, <1>3, <1>6, <1>8, <1>9, PromiseKnown
<1>12. SyncFits(h, from, p)'
    <2> SUFFICES ASSUME IsLeader(from, "Prepare"), lead[from].n = m.n
                 PROVE  IF p.sync = None THEN ~MoreUpToDate(p, Own(from)')
                        ELSE Synced(store'[from].log, p.sync, h.log[p.nAccepted], p.accIdx)
        BY <1>1, <1>6, <1>9 DEF SyncFits, IsLeader, Own
    <2> DEFINE a == store[from].accRound
               flog == store[from].log
               d == store[from].decided
               r == store[s].accRound
               log == store[s].log
    <2>1. m.nAccepted = a /\ m.accIdx = Len(flog) /\ m.decided = d
        BY <1>4 DEF PrepareFits
    <2>2. /\ flog \in Logs /\ log \in Logs /\ d \in Nat /\ Len(flog) \in Nat /\ Len(log) \in Nat
          /\ a \in Nat /\ r \in Nat
        BY <1>1, StoreFacts
    <2>3. /\ a \in h.started /\ Same(flog, h.log[a], Len(flog)) /\ d <= Len(flog) /\ DecidedBy(h, a, d)
          /\ r \in h.started /\ h.base[r] <= Len(log) /\ Same(log, h.log[r], Len(log))
        BY <1>1 DEF StoreFits
    <2>4. p.sync = IF r > a THEN CreateLogSync(log, d)
                   ELSE IF r = a /\ Len(log) > Len(flog) THEN CreateLogSync(log, Len(flog)) ELSE None
        BY <1>6, <2>1
    <2>5. /\ r > a => Synced(flog, CreateLogSync(log, d), h.log[r], Len(log))
          /\ r = a /\ Len(log) > Len(flog) => Synced(flog, CreateLogSync(log, Len(flog)), h.log[r], Len(log))
        <3> HIDE DEF a, flog, d, r, log
        <3> QED BY <1>1, <2>2, <2>3, PromiseSyncFits
    <2>6. \A i : CreateLogSync(log, i) # None
        BY DEF CreateLogSync, None
    <2>7. store'[from].log = flog /\ Own(from)' = [nAccepted |-> a, accIdx |-> Len(flog)]
        BY <1>1, <1>9 DEF Own
    <2>8. p.nAccepted = r /\ p.accIdx = Len(log)
        BY <1>6
    <2> HIDE DEF a, flog, d, r, log
    <2>9. CASE r > a
        BY <2>4, <2>5, <2>6, <2>7, <2>8, <2>9
    <2>10. CASE ~(r > a) /\ r = a /\ Len(log) > Len(flog)
        BY <2>4, <2>5, <2>6, <2>7, <2>8, <2>10
    <2>11. CASE ~(r > a) /\ ~(r = a /\ Len(log) > Len(flog))
        BY <2>2, <2>4, <2>7, <2>8, <2>11 DEF MoreUpToDate
    <2> QED BY <2>9, <2>10, <2>11
<1>13. PromiseFits(h, s, from, p)'
    BY <1>1, <1>4, <1>6, <1>9, <1>11, <1>12 DEF PromiseFits, PrepareFits
<1>14. SentFits(s, To(from, p), h) /\ ChannelStep(s, To(from, p))
    <2>1. \A b \in Server : Range(To(from, p)[b]) \subseteq IF b = from THEN {p} ELSE {}
        BY ToOut
    <2>2. MsgFits(h, s, from, p)'
        BY <1>6, <1>13 DEF MsgFits, FromLeader
    <2>3. Short(To(from, p)) /\ FreeStep(s, To(from, p))
        BY <1>1, <1>3, <1>7, ShortOuts DEF FreeStep
    <2>4. ChannelStep(s, To(from, p))
        BY <1>1, <2>3, MovesChannels DEF Moves
    <2>5. SentFits(s, To(from, p), h)
        BY <1>6, <2>1, <2>2 DEF SentFits, FromLeader
    <2> QED BY <2>4, <2>5
<1>15. LeaderFits(h, s)' /\ FollowerFits(h, s)'
    <2>1. PidOf(state'[s].cached.n) = from
        BY <1>4, <1>6, <1>9 DEF PrepareFits
    <2> QED BY <1>1, <1>9, <1>13, <2>1 DEF LeaderFits, FollowerFits, SessionFits, CachedFits, IsFollower
<1> QED BY <1>9, <1>10, <1>14, <1>15, SameHistoryFits

\* A leader that prepares has promised its own log as it is.
LEMMA OwnPromise ==
    ASSUME TypeOK, NEW h \in History, NEW s \in Server, StoreFits(h, s), IsLeader(s, "Prepare"),
           NEW ls, ls.n = lead[s].n, Prepared(h, s, ls)
    PROVE  /\ ls.promises[s].nAccepted = store[s].accRound
           /\ ls.promises[s].accIdx = Len(store[s].log)
<1>1. store[s].promise = ls.n /\ store[s].accRound # ls.n
    BY LeadFacts DEF StoreFits, Prepared, IsLeader
<1>2. Known(h, s, ls.n, ls.promises[s])
    BY DEF Prepared
<1> QED BY <1>1, <1>2 DEF Known

\* A promise keeps the leader prepared.
LEMMA RecordedPromise ==
    ASSUME TypeOK, NEW h \in History, NEW s \in Server, NEW from \in Server,
           StoreFits(h, s), IsLeader(s, "Prepare"), Preparing(h, s),
           NEW m, IsPromise(m), m.n = lead[s].n, PromiseFits(h, from, s, m)
    PROVE  Prepared(h, s, SetPromise(lead[s], m, from, TRUE))
<1>1. PICK ls, after : ls = lead[s] /\ after = SetPromise(lead[s], m, from, TRUE)
    OBVIOUS
<1> DEFINE best == MoreUpToDate(m, ls.maxMeta)
<1>2. IsLeaderState(ls) /\ Prepared(h, s, ls) /\ ls.n = m.n /\ ls.n \in Nat
    BY <1>1, LeadFacts DEF TypeOK, LeadOK, Preparing
<1>3. Records(after, ls, m, from, best)
    BY <1>1, <1>2, SetPromiseFields
<1>4. /\ m.nAccepted \in Nat /\ m.accIdx \in Nat /\ ls.maxMeta.nAccepted \in Nat /\ ls.maxMeta.accIdx \in Nat
      /\ \A t \in HasPromised(ls) : /\ t \in Server /\ ls.promises[t].nAccepted \in Nat
                                    /\ ls.promises[t].accIdx \in Nat
    <2>1. \A t \in HasPromised(ls) :
              ls.promises[t] \in [type : {"Promised"}, nAccepted : Ballot, accIdx : Nat, decided : Nat]
        BY <1>1, PromisedFacts
    <2>2. \A t \in HasPromised(ls) : ls.promises[t].nAccepted \in Nat /\ ls.promises[t].accIdx \in Nat
        BY <2>1 DEF Ballot
    <2> QED BY <1>1, <2>2, LeadFacts DEF IsPromise, Ballot, HasPromised
<1>5. /\ ls.n \notin h.started /\ s \in HasPromised(ls)
      /\ ls.maxMeta.nAccepted \in h.started /\ ls.maxMeta.nAccepted < ls.n
      /\ h.base[ls.maxMeta.nAccepted] <= ls.maxMeta.accIdx
      /\ \A t \in HasPromised(ls) : /\ Known(h, t, ls.n, ls.promises[t])
                                    /\ ~MoreUpToDate(ls.promises[t], ls.maxMeta)
    BY <1>2 DEF Prepared
<1>6. Known(h, from, ls.n, m) /\ SyncFits(h, s, m)
    BY <1>2 DEF PromiseFits
<1>7. Known(h, from, ls.n, Promised(m))
    BY <1>6 DEF Known, Promised
<1>8. m.nAccepted \in h.started /\ m.nAccepted < ls.n /\ h.base[m.nAccepted] <= m.accIdx
    BY <1>2, <1>4, <1>5, <1>6 DEF Known
<1>9. /\ after.n = ls.n /\ HasPromised(after) = HasPromised(ls) \cup {from}
      /\ \A t \in HasPromised(after) :
             after.promises[t] = IF t = from THEN Promised(m) ELSE ls.promises[t]
    BY <1>3 DEF Records
<1>10. \A t \in HasPromised(after) : Known(h, t, after.n, after.promises[t])
    BY <1>5, <1>7, <1>9
<1>11. CASE best
    <2>1. after.maxMeta = [nAccepted |-> m.nAccepted, accIdx |-> m.accIdx] /\ after.maxSync = m.sync
        BY <1>3, <1>11 DEF Records
    <2>2. \A t \in HasPromised(after) : ~MoreUpToDate(after.promises[t], after.maxMeta)
        BY <1>4, <1>5, <1>9, <1>11, <2>1 DEF MoreUpToDate, Promised
    <2>3. m.sync # None
        <3>1. /\ ls.promises[s].nAccepted = store[s].accRound
              /\ ls.promises[s].accIdx = Len(store[s].log)
            BY <1>1, <1>2, OwnPromise
        <3>2. m.sync = None => ~MoreUpToDate(m, Own(s))
            BY <1>6 DEF SyncFits
        <3>3. MoreUpToDate(m, Own(s))
            BY <1>4, <1>5, <1>11, <3>1 DEF MoreUpToDate, Own
        <3> QED BY <3>2, <3>3
    <2>4. Synced(store[s].log, m.sync, h.log[m.nAccepted], m.accIdx)
        BY <1>6, <2>3 DEF SyncFits
    <2>5. /\ after.maxMeta.nAccepted = m.nAccepted /\ after.maxMeta.accIdx = m.accIdx
          /\ after.maxSync # None
        BY <2>1, <2>3
    <2>6. Prepared(h, s, after)
        BY <1>5, <1>8, <1>9, <1>10, <2>1, <2>2, <2>4, <2>5 DEF Prepared
    <2> QED BY <1>1, <2>6
<1>12. CASE ~best
    <2>1. after.maxMeta = ls.maxMeta /\ after.maxSync = ls.maxSync
        BY <1>3, <1>12 DEF Records
    <2>2. \A t \in HasPromised(after) : ~MoreUpToDate(after.promises[t], after.maxMeta)
        BY <1>5, <1>9, <1>12, <2>1 DEF MoreUpToDate, Promised
    <2>3. IF ls.maxSync = None THEN ls.maxMeta = Own(s)
          ELSE Synced(store[s].log, ls.maxSync, h.log[ls.maxMeta.nAccepted], ls.maxMeta.accIdx)
        BY <1>2 DEF Prepared
    <2> QED BY <1>1, <1>5, <1>9, <1>10, <2>1, <2>2, <2>3 DEF Prepared
<1> QED BY <1>11, <1>12

\* A promise received is one that fits.
LEMMA PromiseTaken ==
    ASSUME BallotInv, NEW h \in History, Fits(h), NEW from \in Server, NEW s \in Server,
           Arrives(from, s, "Promise")
    PROVE  /\ net[from][s] # <<>> /\ IsPromise(Msg(from, s))
           /\ PromiseFits(h, from, s, Msg(from, s))
<1>1. /\ net[from][s] # <<>> /\ Msg(from, s) \in Range(net[from][s])
      /\ IsPromise(Msg(from, s)) /\ Msg(from, s).type = "Promise"
    BY ArrivesType, MessageFields DEF BallotInv, TypeOK
<1>2. MsgFits(h, from, s, Msg(from, s))
    BY <1>1 DEF Fits, ChannelsFit
<1> QED BY <1>1, <1>2 DEF MsgFits

\* A promise before the majority.
LEMMA RecordPromiseFits ==
    ASSUME BallotInv, TypeOK', NEW h \in History, Fits(h), NEW from \in Server, NEW s \in Server,
           NEW ext \in Extensions, ReceivePromise(from, s, ext), ~CompletesQuorum(from, s)
    PROVE  Fits(h)'
<1>1. TypeOK /\ StoreFits(h, s) /\ LeaderFits(h, s)
    BY DEF BallotInv, Fits, ServersFit
<1>2. PICK ls, after : ls = lead[s] /\ after = SetPromise(lead[s], Msg(from, s), from, TRUE)
    OBVIOUS
<1>3. /\ Arrives(from, s, "Promise") /\ IsLeader(s, "Prepare") /\ Msg(from, s).n = lead[s].n
      /\ lead' = [lead EXCEPT ![s] = after] /\ Receive(from, s, Silent)
      /\ UNCHANGED <<store, state, fast, dom, submitted, faults>>
    BY <1>2 DEF ReceivePromise, CompletesQuorum
<1>4. /\ net[from][s] # <<>> /\ IsPromise(Msg(from, s)) /\ PromiseFits(h, from, s, Msg(from, s))
    BY <1>3, PromiseTaken
<1>5. Preparing(h, s) /\ \A t \in Server : ls.accIdx[t] <= h.voted[t][ls.n]
    BY <1>1, <1>2, <1>3 DEF LeaderFits, IsLeader
<1>6. Prepared(h, s, after)
    BY <1>1, <1>2, <1>3, <1>4, <1>5, RecordedPromise
<1>7. after.n = ls.n /\ after.seqs = ls.seqs /\ after.accIdx = ls.accIdx
    <2>1. IsLeaderState(ls)
        BY <1>1, <1>2 DEF TypeOK, LeadOK
    <2>2. Records(after, ls, Msg(from, s), from, MoreUpToDate(Msg(from, s), ls.maxMeta))
        BY <1>2, <2>1, SetPromiseFields
    <2> QED BY <2>2 DEF Records
<1>8. lead'[s] = after /\ \A t \in Server \ {s} : lead'[t] = lead[t]
    BY <1>1, <1>3 DEF TypeOK, LeadOK
<1>9. Prepared(h, s, after)'
    BY <1>3, <1>6 DEF Prepared, Known, Own
<1>10. LeaderFits(h, s)'
    BY <1>3, <1>5, <1>7, <1>8, <1>9 DEF LeaderFits, Preparing, IsLeader
<1>11. \A f \in Server : SeqLeq(lead[s].seqs[f], lead'[s].seqs[f])
    <2>1. \A f \in Server : ls.seqs[f] \in SeqNum
        BY <1>1, <1>2, LeadFacts
    <2>2. \A f \in Server : SeqLeq(ls.seqs[f], ls.seqs[f])
        BY <2>1, SeqLeqFacts
    <2> QED BY <1>2, <1>7, <1>8, <2>2
<1>12. ChannelStep(s, Silent) /\ SentFits(s, Silent, h)
    BY <1>1, <1>3, <1>4, SilentIdle, MovesChannels, IdleSent DEF Moves, IsIdleOut, FreeStep
<1> HIDE DEF Silent
<1> QED BY <1>2, <1>3, <1>7, <1>8, <1>10, <1>11, <1>12, LeadStepFits

--------------------------------------------------------------------------------
\* A majority of promises: the log that is adopted

\* What sync_log leaves.
LEMMA SyncLogFields ==
    ASSUME NEW st \in Stored, NEW n \in Ballot, NEW decided \in Nat, NEW sync \in LogSync \cup {None}
    PROVE  LET after == SyncLog(st, n, decided, sync) IN
           /\ after \in Stored /\ after.promise = st.promise /\ after.accRound = n
           /\ after.decided = decided /\ after.log \in Logs
           /\ sync = None => after.log = st.log
           /\ sync # None => after.log = SubSeq(st.log, 1, Min({sync.idx, Len(st.log)})) \o sync.suffix
<1> DEFINE log == IF sync = None THEN st.log
                  ELSE SubSeq(st.log, 1, Min({sync.idx, Len(st.log)})) \o sync.suffix
           after == SyncLog(st, n, decided, sync)
<1>1. after = [st EXCEPT !.accRound = n, !.decided = decided, !.log = log]
    BY DEF SyncLog
<1>2. after \in Stored /\ after.promise = st.promise /\ after.accRound = n
    BY SyncLogType
<1> HIDE DEF log, after
<1>3. after.decided = decided /\ after.log = log
    BY <1>1 DEF Stored
<1>4. after.log \in Logs
    BY <1>2 DEF Stored, Logs
<1> QED BY <1>2, <1>3, <1>4 DEF log, after

\* The leader adopts the most recent log promised, whole.
LEMMA AdoptedLog ==
    ASSUME TypeOK, NEW h \in History, NEW s \in Server, StoreFits(h, s),
           NEW ls, IsLeaderState(ls), Prepared(h, s, ls), NEW decided \in Nat
    PROVE  LET st == SyncLog(store[s], ls.n, decided, ls.maxSync) IN
           /\ st \in Stored /\ st.promise = store[s].promise /\ st.accRound = ls.n
           /\ st.decided = decided /\ st.log \in Logs
           /\ Len(st.log) = ls.maxMeta.accIdx
           /\ Same(st.log, h.log[ls.maxMeta.nAccepted], ls.maxMeta.accIdx)
<1> DEFINE st == SyncLog(store[s], ls.n, decided, ls.maxSync)
           k == ls.maxMeta.accIdx
           c == ls.maxMeta.nAccepted
           log == store[s].log
<1>1. /\ store[s] \in Stored /\ ls.n \in Ballot /\ ls.maxSync \in LogSync \cup {None}
      /\ k \in Nat /\ c \in Ballot /\ log \in Logs
    BY StoreFacts DEF TypeOK, StoreOK, IsLeaderState
<1>2. /\ st \in Stored /\ st.promise = store[s].promise /\ st.accRound = ls.n
      /\ st.decided = decided /\ st.log \in Logs
      /\ ls.maxSync = None => st.log = log
      /\ ls.maxSync # None =>
             st.log = SubSeq(log, 1, Min({ls.maxSync.idx, Len(log)})) \o ls.maxSync.suffix
    BY <1>1, SyncLogFields
<1> HIDE DEF st
<1>3. CASE ls.maxSync = None
    <2>1. c = store[s].accRound /\ k = Len(log)
        BY <1>3 DEF Prepared, Own
    <2> QED BY <1>2, <1>3, <2>1 DEF StoreFits, st
<1>4. CASE ls.maxSync # None
    <2>1. Synced(log, ls.maxSync, h.log[c], k)
        BY <1>4 DEF Prepared
    <2>2. h.log[c] \in Logs /\ ls.maxSync \in LogSync
        BY <1>1, <1>4, HistoryFacts
    <2>3. Len(st.log) = k /\ Same(st.log, h.log[c], k)
        BY ZenonT(60), <1>1, <1>2, <1>4, <2>1, <2>2, SyncedLog
    <2> QED BY <1>2, <2>3 DEF st
<1> QED BY <1>3, <1>4

\* Every log that may still be chosen below the ballot is a prefix of the one adopted.
LEMMA AdoptionIsSafe ==
    ASSUME TypeOK, NEW h \in History, Safe(h), NEW s \in Server,
           NEW ls, IsLeaderState(ls), Prepared(h, s, ls),
           IsPrepareQuorum(Quorum, Cardinality(HasPromised(ls))),
           NEW log \in Logs, Same(log, h.log[ls.maxMeta.nAccepted], ls.maxMeta.accIdx),
           NEW b \in Ballot, b < ls.n, NEW i \in Nat, Choosable(h, b, i)
    PROVE  i <= ls.maxMeta.accIdx /\ Same(log, h.log[b], i)
<1> DEFINE c == ls.maxMeta.nAccepted
           k == ls.maxMeta.accIdx
           n == ls.n
<1>1. /\ c \in h.started /\ c \in Ballot /\ c \in Nat /\ k \in Nat /\ n \in Nat /\ b \in Nat
      /\ c < n /\ h.base[c] <= k /\ h.base[c] \in Nat
    BY HistoryFacts DEF Prepared, IsLeaderState, Ballot
<1>2. h.log[b] \in Logs /\ h.log[c] \in Logs
    BY <1>1, HistoryFacts
<1>3. PICK W \in SUBSET Server : /\ IsAcceptQuorum(Quorum, Cardinality(W))
                                 /\ \A t \in W : h.voted[t][b] >= i \/ store[t].promise <= b
    BY DEF Choosable
<1>4. PICK t \in HasPromised(ls) : t \in W
    <2>1. HasPromised(ls) \in SUBSET Server
        BY DEF HasPromised
    <2>2. HasPromised(ls) \cap W # {}
        BY <1>3, <2>1, ServerAssumption, QuorumAssumption, QuorumsIntersect
    <2> QED BY <2>2
<1> DEFINE p == ls.promises[t]
           a == p.nAccepted
<1>5. Known(h, t, n, p) /\ ~MoreUpToDate(p, ls.maxMeta) /\ t \in Server
    BY <1>4 DEF Prepared, HasPromised
<1>6. p \in [type : {"Promised"}, nAccepted : Ballot, accIdx : Nat, decided : Nat]
    BY <1>4 DEF IsLeaderState, HasPromised, PromiseState, None, PromisedHigher
<1>7. a \in Ballot /\ a \in Nat /\ p.accIdx \in Nat
    BY <1>6 DEF Ballot
<1>8. a # n
    BY <1>5, <1>7 DEF Known, Prepared
<1>9. a < n /\ h.voted[t][a] = p.accIdx /\ \A x \in Ballot : a < x /\ x < n => h.voted[t][x] = 0
    BY <1>1, <1>5, <1>7, <1>8 DEF Known
<1>10. store[t].promise \in Nat /\ store[t].promise > b
    BY SMTT(30), <1>1, <1>5, StoreFacts DEF Known
<1>11. h.voted[t][b] >= i /\ h.voted[t][b] \in Nat
    BY <1>1, <1>3, <1>4, <1>5, <1>10, HistoryFacts
<1>12. a < c \/ (a = c /\ p.accIdx <= k)
    BY <1>1, <1>5, <1>7 DEF MoreUpToDate
<1> HIDE DEF p, a, c, k, n
<1>13. CASE i = 0
    BY <1>1, <1>2, <1>13, SameFacts DEF k
<1>14. CASE i > 0
    <2>1. b <= a
        BY <1>1, <1>7, <1>9, <1>11, <1>14 DEF n
    <2>2. b <= c
        BY <1>1, <1>7, <1>12, <2>1
    <2>3. Same(log, h.log[c], k)
        BY DEF c, k
    <2>4. CASE b = c
        <3>1. i <= k
            BY <1>1, <1>7, <1>9, <1>11, <1>12, <2>1, <2>4
        <3> QED BY <1>1, <1>2, <2>3, <2>4, <3>1, SameFacts DEF k
    <2>5. CASE b < c
        <3>1. i <= h.base[c] /\ Same(h.log[c], h.log[b], i)
            BY <1>1, <2>5 DEF Safe
        <3>2. i <= k
            BY <1>1, <3>1
        <3>3. Same(log, h.log[c], i)
            BY <1>1, <1>2, <2>3, <3>2, SameFacts
        <3>4. Same(log, h.log[b], i)
            BY <1>1, <1>2, <3>1, <3>3, SameFacts
        <3> QED BY <3>2, <3>4 DEF k
    <2> QED BY <1>1, <2>2, <2>4, <2>5
<1> QED BY <1>13, <1>14

\* What a leader takes for decided was decided below its ballot, and is in what it adopts.
LEMMA AdoptedDecided ==
    ASSUME TypeOK, NEW h \in History, Safe(h), NEW s \in Server,
           NEW ls, IsLeaderState(ls), Prepared(h, s, ls),
           IsPrepareQuorum(Quorum, Cardinality(HasPromised(ls))),
           NEW log \in Logs, Same(log, h.log[ls.maxMeta.nAccepted], ls.maxMeta.accIdx)
    PROVE  /\ MaxDecided(ls) \in Nat /\ MaxDecided(ls) <= ls.maxMeta.accIdx
           /\ DecidedBy(h, ls.n, MaxDecided(ls))
<1> DEFINE S == {ls.promises[t].decided : t \in HasPromised(ls)}
           f == [t \in HasPromised(ls) |-> ls.promises[t].decided]
<1>1. S \subseteq Nat
    BY DEF HasPromised, IsLeaderState, PromiseState, None, PromisedHigher
<1>2. IsFiniteSet(HasPromised(ls)) /\ s \in HasPromised(ls)
    BY ServerAssumption, FS_Subset DEF HasPromised, Prepared
<1>3. IsFiniteSet(S)
    <2>1. DOMAIN f = HasPromised(ls) /\ S = {f[t] : t \in HasPromised(ls)}
        OBVIOUS
    <2> HIDE DEF S, f
    <2> QED BY <1>2, <2>1, ImageFinite
<1>4. S # {}
    BY <1>2
<1> HIDE DEF f
<1>5. MaxDecided(ls) \in S
    <2>1. MaxDecided(ls) = Max(S)
        BY DEF MaxDecided
    <2> HIDE DEF S
    <2> QED BY <1>1, <1>3, <1>4, <2>1, MaxType
<1>6. PICK t \in HasPromised(ls) : MaxDecided(ls) = ls.promises[t].decided
    BY <1>5
<1> DEFINE a == ls.promises[t].nAccepted
           d == MaxDecided(ls)
<1>7. /\ Known(h, t, ls.n, ls.promises[t]) /\ d \in Nat /\ a \in Ballot /\ a \in Nat /\ ls.n \in Nat
      /\ ls.n \in Ballot /\ ls.n \notin h.started
    BY <1>1, <1>5 DEF Prepared, HasPromised, IsLeaderState, PromiseState, None, PromisedHigher, Ballot
<1>8. DecidedBy(h, a, d) /\ a <= ls.n /\ a # ls.n
    BY <1>6, <1>7 DEF Known
<1>9. PICK e \in h.started : e <= a /\ Chosen(h, e, d)
    BY <1>8 DEF DecidedBy
<1>10. e \in Ballot /\ e \in Nat /\ e < ls.n /\ e <= ls.n
    BY SMTT(30), <1>7, <1>8, <1>9 DEF History, Ballot
<1>11. Choosable(h, e, d)
    BY <1>9, ChosenChoosable
<1>12. d <= ls.maxMeta.accIdx
    BY <1>7, <1>10, <1>11, AdoptionIsSafe
<1>13. DecidedBy(h, ls.n, d)
    BY <1>9, <1>10 DEF DecidedBy
<1> QED BY <1>7, <1>12, <1>13

--------------------------------------------------------------------------------
\* A majority of promises: a ballot starts

\* With no unsynced entry promised, nothing is recovered.
LEMMA RecoveredEmpty ==
    ASSUME NEW ls, \A t \in Server : DOMAIN ls.unsynced[t] = {}, NEW len \in Nat
    PROVE  Recovered(ls, len) = <<>>
<1> DEFINE held == UNION {{ls.unsynced[t][i].e : i \in DOMAIN ls.unsynced[t]} : t \in Server}
           before(w, k) == ToSet(SubSeq(w, 1, k - 1))
           fits(w) == \A k \in DOMAIN w :
                    /\ Winners(ls, len + k, Xor(ls.maxHash, before(w, k))) = {w[k]}
                    /\ w[k][2] \notin Ids(before(w, k))
           most == Cardinality(Ids(held))
           runs == {w \in SeqOf(held, most) : fits(w)}
<1>1. held = {}
    OBVIOUS
<1>2. most = 0
    <2>1. Ids(held) = {}
        BY <1>1 DEF Ids
    <2> QED BY <2>1, FS_EmptySet
<1> HIDE DEF held, most, fits
<1>3. \A w \in SeqOf(held, most) : w = <<>>
    BY <1>1, <1>2 DEF SeqOf
<1>4. <<>> \in runs
    <2>1. <<>> \in SeqOf(held, most)
        BY <1>2 DEF SeqOf
    <2>2. fits(<<>>)
        BY DEF fits
    <2> QED BY <2>1, <2>2
<1>5. Recovered(ls, len) = CHOOSE w \in runs : \A v \in runs : Len(v) <= Len(w)
    BY DEF Recovered, held, most, fits
<1>6. \A w \in runs : w = <<>>
    BY <1>3
<1>7. \E w \in runs : \A v \in runs : Len(v) <= Len(w)
    <2>1. \A v \in runs : Len(v) <= Len(<<>>)
        BY <1>6
    <2> QED BY <1>4, <2>1
<1> HIDE DEF runs
<1>8. Recovered(ls, len) \in runs
    BY <1>5, <1>7
<1> QED BY <1>6, <1>8

\* The numbers of the servers of T are new; everything else is kept.
Numbered(next, ls, T, numbers) ==
    /\ IsLeaderState(next) /\ next.n = ls.n /\ next.promises = ls.promises
    /\ next.accIdx = ls.accIdx /\ next.maxMeta = ls.maxMeta /\ next.maxSync = ls.maxSync
    /\ next.unsynced = ls.unsynced /\ HasPromised(next) = HasPromised(ls)
    /\ PromisedFollowers(next) = PromisedFollowers(ls)
    /\ next.seqs = [t \in Server |-> IF t \in T THEN numbers[t] ELSE ls.seqs[t]]
SessionsAfter(ls) == [t \in Server |-> [session |-> ls.seqs[t].session + 1, counter |-> 1]]
CountersAfter(ls) ==
    [t \in Server |-> [session |-> ls.seqs[t].session, counter |-> ls.seqs[t].counter + 1]]

\* next_seq_num and increment_seq_num_session change the numbers only.
LEMMA NumberedNext ==
    ASSUME NEW ls, IsLeaderState(ls), NEW T
    PROVE  /\ Numbered(NextSession(ls, T), ls, T, SessionsAfter(ls))
           /\ Numbered(NextSeq(ls, T), ls, T, CountersAfter(ls))
<1> DEFINE session == [t \in Server |-> IF t \in T THEN SessionsAfter(ls)[t] ELSE ls.seqs[t]]
           counter == [t \in Server |-> IF t \in T THEN CountersAfter(ls)[t] ELSE ls.seqs[t]]
           s1 == NextSession(ls, T)
           s2 == NextSeq(ls, T)
<1>1. s1 = [ls EXCEPT !.seqs = session] /\ s2 = [ls EXCEPT !.seqs = counter]
    BY DEF NextSession, NextSeq, SessionsAfter, CountersAfter
<1>2. IsLeaderState(s1) /\ IsLeaderState(s2)
    BY NextSessionType, NextSeqType
<1> HIDE DEF session, counter, s1, s2
<1>3. /\ s1.n = ls.n /\ s1.promises = ls.promises /\ s1.accIdx = ls.accIdx /\ s1.maxMeta = ls.maxMeta
      /\ s1.maxSync = ls.maxSync /\ s1.unsynced = ls.unsynced /\ s1.seqs = session
    BY <1>1 DEF IsLeaderState
<1>4. /\ s2.n = ls.n /\ s2.promises = ls.promises /\ s2.accIdx = ls.accIdx /\ s2.maxMeta = ls.maxMeta
      /\ s2.maxSync = ls.maxSync /\ s2.unsynced = ls.unsynced /\ s2.seqs = counter
    BY <1>1 DEF IsLeaderState
<1>5. Numbered(s1, ls, T, SessionsAfter(ls))
    BY <1>2, <1>3 DEF Numbered, HasPromised, PromisedFollowers, session
<1>6. Numbered(s2, ls, T, CountersAfter(ls))
    BY <1>2, <1>4 DEF Numbered, HasPromised, PromisedFollowers, counter
<1> QED BY <1>5, <1>6 DEF s1, s2

\* A new number is above the one before, and nothing is between.
LEMMA NumbersGrow ==
    ASSUME NEW ls, IsLeaderState(ls), NEW T, NEW next, NEW numbers,
           numbers = SessionsAfter(ls) \/ numbers = CountersAfter(ls),
           Numbered(next, ls, T, numbers), NEW t \in Server
    PROVE  /\ next.seqs[t] \in SeqNum /\ ls.seqs[t] \in SeqNum
           /\ SeqLeq(ls.seqs[t], next.seqs[t])
           /\ t \in T => next.seqs[t] = numbers[t] /\ ~SeqLeq(next.seqs[t], ls.seqs[t])
           /\ t \notin T => next.seqs[t] = ls.seqs[t]
<1>1. ls.seqs[t] \in SeqNum /\ next.seqs[t] \in SeqNum
    BY DEF IsLeaderState, Numbered
<1>2. next.seqs[t] = IF t \in T THEN numbers[t] ELSE ls.seqs[t]
    BY DEF Numbered
<1>3. \/ numbers[t] = [session |-> ls.seqs[t].session + 1, counter |-> 1]
      \/ numbers[t] = [session |-> ls.seqs[t].session, counter |-> ls.seqs[t].counter + 1]
    BY DEF SessionsAfter, CountersAfter
<1>4. ls.seqs[t].session \in Nat /\ ls.seqs[t].counter \in Nat
    BY <1>1 DEF SeqNum
<1>5. SeqLeq(ls.seqs[t], numbers[t]) /\ ~SeqLeq(numbers[t], ls.seqs[t]) /\ SeqLeq(ls.seqs[t], ls.seqs[t])
    BY <1>3, <1>4 DEF SeqLeq
<1> QED BY <1>1, <1>2, <1>5

\* What handle_majority_promises does when no unsynced entry was promised: adopt the
\* log and send it to the followers.
IsStart(from, s, ls, st, next, hash, out) ==
    /\ net[from][s] # <<>>
    /\ store' = [store EXCEPT ![s] = st]
    /\ state' = [state EXCEPT ![s].phase = "Accept"]
    /\ IsLeaderState(next) /\ next.n = ls.n /\ next.promises = ls.promises
    /\ next.maxMeta = ls.maxMeta /\ next.unsynced = ls.unsynced
    /\ next.accIdx = [ls.accIdx EXCEPT ![s] = Len(st.log)]
    /\ \A t \in Server : /\ next.seqs[t] \in SeqNum
                         /\ SeqLeq(ls.seqs[t], next.seqs[t])
                         /\ t \in PromisedFollowers(ls) => ~SeqLeq(next.seqs[t], ls.seqs[t])
    /\ lead' = [lead EXCEPT ![s] = next]
    /\ DOMAIN fast'[s].unsynced = {} /\ \A t \in Server \ {s} : fast'[t] = fast[t]
    /\ Receive(from, s, out) /\ Short(out)
    /\ \A t \in Server : out[t] = IF t \in PromisedFollowers(ls) THEN <<AcceptSync(next, st, hash, t)>>
                                  ELSE <<>>

\* ReceivePromise with a read quorum, none of which promised an unsynced entry.
LEMMA EmptyMajority ==
    ASSUME TypeOK, NEW from \in Server, NEW s \in Server, NEW ext \in Extensions,
           ReceivePromise(from, s, ext), CompletesQuorum(from, s), DOMAIN fast[s].unsynced = {},
           \A t \in Server : DOMAIN SetPromise(lead[s], Msg(from, s), from, TRUE).unsynced[t] = {}
    PROVE  LET ls == SetPromise(lead[s], Msg(from, s), from, TRUE) IN
           \E next, hash, out :
               IsStart(from, s, ls, SyncLog(store[s], ls.n, MaxDecided(ls), ls.maxSync), next, hash, out)
<1> DEFINE ls == SetPromise(lead[s], Msg(from, s), from, TRUE)
           synced == SyncLog(store[s], ls.n, MaxDecided(ls), ls.maxSync)
           new == Recovered(ls, Len(synced.log))
           newIds == Ids(ToSet(new))
           st == [synced EXCEPT !.log = @ \o [i \in DOMAIN new |-> new[i][2]]]
           hash == Xor(ls.maxHash, ToSet(new))
           own == fast[s].unsynced
           left == {i \in DOMAIN own : i > Len(st.log) /\ own[i].e[2] \notin newIds}
           recovered == ls.recovered \cup (newIds \ Ids({own[i].e : i \in DOMAIN own}))
           ls2 == [ls EXCEPT !.maxSync = None, !.accIdx[s] = Len(st.log), !.recovered = recovered]
           T == PromisedFollowers(ls)
           next == NextSession(ls2, T)
           sync == [t \in Server |-> IF t \in T THEN <<AcceptSync(next, st, hash, t)>> ELSE <<>>]
<1>1. IsLeaderState(ls) /\ ls.n = lead[s].n /\ net[from][s] # <<>>
      /\ ls.promises = [lead[s].promises EXCEPT ![from] = Promised(Msg(from, s))]
    BY PromiseReceived DEF ReceivePromise
<1>2. /\ store' = [store EXCEPT ![s] = st]
      /\ lead' = [lead EXCEPT ![s] = next]
      /\ fast' = [fast EXCEPT ![s].unsynced = Restrict(own, left), ![s].prefixHash = hash]
      /\ state' = [state EXCEPT ![s].phase = "Accept"]
      /\ \E order \in SetToSeqs(left), deadline \in [left -> 1..MaxDeadline] :
           LET again == [k \in DOMAIN order |-> <<deadline[order[k]], own[order[k]].e[2]>>] IN
           Receive(from, s, Then(Proposals(s, again), sync))
    BY ZenonT(60) DEF ReceivePromise, HandleMajorityPromises, CompletesQuorum, IsLeader, SendAcceptSync
<1>3. HasPromised(ls) # {}
    <2>1. lead[s].promises \in [Server -> PromiseState]
        BY DEF TypeOK, LeadOK, IsLeaderState
    <2> HIDE DEF ls
    <2>2. ls.promises[from].type = "Promised"
        BY <1>1, <2>1 DEF Promised
    <2> QED BY <2>2 DEF HasPromised
<1>3a. \A t \in Server : DOMAIN ls.unsynced[t] = {}
    OBVIOUS
<1> HIDE DEF ls
<1>4. synced \in Stored /\ Len(synced.log) \in Nat
    <2>1. ls.n \in Ballot /\ MaxDecided(ls) \in Nat /\ ls.maxSync \in LogSync \cup {None}
        BY <1>1, <1>3, MaxDecidedType DEF IsLeaderState
    <2>2. synced \in Stored
        BY <1>1, <2>1, SyncLogType DEF TypeOK, StoreOK
    <2> QED BY <2>2, LenProperties DEF Stored
<1> HIDE DEF synced
<1>5. new = <<>>
    BY <1>3a, <1>4, RecoveredEmpty
<1> HIDE DEF new
<1>6. st = synced
    <2> DEFINE tail == [i \in DOMAIN new |-> new[i][2]]
    <2>1. tail = <<>>
        BY <1>5
    <2>2. synced.log \in Seq(EntryId) /\ st = [synced EXCEPT !.log = synced.log \o tail]
        BY <1>4 DEF Stored
    <2> HIDE DEF tail, st
    <2>3. synced.log \o tail = synced.log
        BY <2>1, <2>2
    <2>4. st = [synced EXCEPT !.log = synced.log]
        BY <2>2, <2>3
    <2> QED BY <1>4, <2>4 DEF Stored
<1>7. newIds = {}
    BY <1>5 DEF Ids, ToSet
<1>8. left = {}
    OBVIOUS
<1>9. \A order \in SetToSeqs(left) : order = <<>>
    BY <1>8, FS_EmptySet DEF SetToSeqs
<1> HIDE DEF st
<1>10. recovered = ls.recovered
    BY <1>7
<1> HIDE DEF newIds, left, recovered
<1>11. /\ IsLeaderState(ls2) /\ ls2.n = ls.n /\ ls2.promises = ls.promises /\ ls2.maxMeta = ls.maxMeta
       /\ ls2.unsynced = ls.unsynced /\ ls2.seqs = ls.seqs
       /\ ls2.accIdx = [ls.accIdx EXCEPT ![s] = Len(st.log)]
    BY <1>1, <1>4, <1>6, <1>10 DEF IsLeaderState
<1> HIDE DEF ls2
<1>12. Numbered(next, ls2, T, SessionsAfter(ls2))
    BY <1>11, NumberedNext
<1>13. \A t \in Server : /\ next.seqs[t] \in SeqNum
                         /\ SeqLeq(ls.seqs[t], next.seqs[t])
                         /\ t \in T => ~SeqLeq(next.seqs[t], ls.seqs[t])
    <2>1. \A t \in Server : /\ next.seqs[t] \in SeqNum
                            /\ SeqLeq(ls2.seqs[t], next.seqs[t])
                            /\ t \in T => ~SeqLeq(next.seqs[t], ls2.seqs[t])
        BY <1>11, <1>12, NumbersGrow
    <2> QED BY <1>11, <2>1
<1> HIDE DEF next, sync, hash, T
<1>14. PICK out : Receive(from, s, out) /\ out = Then(Proposals(s, <<>>), sync)
    <2>1. PICK order \in SetToSeqs(left), deadline \in [left -> 1..MaxDeadline] :
             LET again == [k \in DOMAIN order |-> <<deadline[order[k]], own[order[k]].e[2]>>] IN
             Receive(from, s, Then(Proposals(s, again), sync))
        BY <1>2
    <2>2. order = <<>>
        BY <1>9
    <2>3. [k \in DOMAIN order |-> <<deadline[order[k]], own[order[k]].e[2]>>] = <<>>
        BY <2>2
    <2> QED BY <2>1, <2>3
<1>15. \A t \in Server : Proposals(s, <<>>)[t] = <<>>
    BY DEF Proposals
<1>16. \A t \in Server : out[t] = IF t \in T THEN <<AcceptSync(next, st, hash, t)>> ELSE <<>>
    <2> SUFFICES ASSUME NEW t \in Server
                 PROVE  out[t] = IF t \in T THEN <<AcceptSync(next, st, hash, t)>> ELSE <<>>
        OBVIOUS
    <2>1. out[t] = <<>> \o sync[t]
        BY <1>14, <1>15 DEF Then
    <2>2. sync[t] = IF t \in T THEN <<AcceptSync(next, st, hash, t)>> ELSE <<>>
        BY DEF sync
    <2>3. <<>> \o <<>> = <<>> /\ \A m : <<>> \o <<m>> = <<m>>
        OBVIOUS
    <2> QED BY <2>1, <2>2, <2>3
<1>17. Short(out)
    <2>1. IsOut(Proposals(s, <<>>)) /\ IsOut(sync)
        <3>1. DOMAIN Proposals(s, <<>>) = Server
            BY DEF Proposals
        <3>1a. IsOut(Proposals(s, <<>>))
            BY <1>15, <3>1, EmptyQueue DEF IsOut
        <3>2. \A t \in Server : sync[t] = <<>> \/ \E m : sync[t] = <<m>>
            BY DEF sync
        <3>3. DOMAIN sync = Server
            BY DEF sync
        <3> QED BY <3>1a, <3>2, <3>3, SingletonQueue, EmptyQueue DEF IsOut
    <2>2. IsOut(out)
        BY <1>14, <2>1, ThenOut
    <2> QED BY <1>16, <2>2 DEF Short
<1>18. DOMAIN fast'[s].unsynced = {} /\ \A t \in Server \ {s} : fast'[t] = fast[t]
    <2>1. DOMAIN Restrict(own, left) = {}
        BY <1>8 DEF Restrict
    <2>2. DOMAIN fast = Server /\ DOMAIN fast[s] = {"unsynced", "prefixHash", "unsyncedHash"}
        BY DEF TypeOK, FastOK
    <2> QED BY <1>2, <2>1, <2>2
<1>19. IsStart(from, s, ls, st, next, hash, out)
    BY <1>1, <1>2, <1>11, <1>12, <1>13, <1>14, <1>16, <1>17, <1>18 DEF IsStart, Numbered, T
<1> QED BY <1>6, <1>19 DEF synced, ls

\* The history once s starts ballot n with log, numbering it seqs[f] for each f of F.
Started(h, s, n, log, F, seqs) ==
    [started |-> h.started \cup {n},
     base |-> [b \in Ballot |-> IF b = n THEN Len(log) ELSE h.base[b]],
     log |-> [b \in Ballot |-> IF b = n THEN log ELSE h.log[b]],
     voted |-> [t \in Server |-> [b \in Ballot |-> IF t = s /\ b = n THEN Len(log) ELSE h.voted[t][b]]],
     top |-> [f \in Server |-> [b \in Ballot |-> [q \in SeqNum |->
                 IF f \in F /\ b = n /\ q = seqs[f] THEN Len(log) ELSE h.top[f][b][q]]]]]

\* The fields of such a history.
LEMMA StartedHistory ==
    ASSUME NEW h \in History, NEW s \in Server, NEW n \in Ballot, NEW log \in Logs, NEW F, NEW seqs
    PROVE  LET g == Started(h, s, n, log, F, seqs) IN
           /\ g \in History /\ g.started = h.started \cup {n}
           /\ g.base[n] = Len(log) /\ g.log[n] = log /\ g.voted[s][n] = Len(log)
           /\ \A b \in Ballot : b # n => g.base[b] = h.base[b] /\ g.log[b] = h.log[b]
           /\ \A t \in Server, b \in Ballot : t # s \/ b # n => g.voted[t][b] = h.voted[t][b]
           /\ \A f \in F : f \in Server /\ seqs[f] \in SeqNum => g.top[f][n][seqs[f]] = Len(log)
           /\ \A f \in Server, b \in Ballot, q \in SeqNum :
                  g.top[f][b][q] # h.top[f][b][q] => f \in F /\ b = n /\ q = seqs[f]
<1> DEFINE g == Started(h, s, n, log, F, seqs)
<1>1. Len(log) \in Nat /\ log \in Seq(EntryId)
    BY LenProperties DEF Logs
<1>2. g.started = h.started \cup {n}
    BY DEF Started
<1>3. g.base = [b \in Ballot |-> IF b = n THEN Len(log) ELSE h.base[b]]
    BY DEF Started
<1>4. g.log = [b \in Ballot |-> IF b = n THEN log ELSE h.log[b]]
    BY DEF Started
<1>5. g.voted = [t \in Server |-> [b \in Ballot |-> IF t = s /\ b = n THEN Len(log) ELSE h.voted[t][b]]]
    BY DEF Started
<1>6. g.top = [f \in Server |-> [b \in Ballot |-> [q \in SeqNum |->
                 IF f \in F /\ b = n /\ q = seqs[f] THEN Len(log) ELSE h.top[f][b][q]]]]
    BY DEF Started
<1>7. g \in History
    <2>1. h.started \cup {n} \in SUBSET Ballot
        BY DEF History
    <2>2. g.base \in [Ballot -> Nat]
        BY <1>1, <1>3 DEF History
    <2>3. g.log \in [Ballot -> Seq(EntryId)]
        BY <1>1, <1>4 DEF History
    <2>4. g.voted \in [Server -> [Ballot -> Nat]]
        BY <1>1, <1>5 DEF History
    <2>5. g.top \in [Server -> [Ballot -> [SeqNum -> Nat]]]
        <3>1. \A f \in Server, b \in Ballot, q \in SeqNum : h.top[f][b][q] \in Nat
            BY HistoryFacts
        <3> QED BY <1>1, <1>6, <3>1
    <2>6. g = [started |-> g.started, base |-> g.base, log |-> g.log, voted |-> g.voted, top |-> g.top]
        BY DEF Started
    <2> HIDE DEF g
    <2> QED BY <1>2, <2>1, <2>2, <2>3, <2>4, <2>5, <2>6 DEF History
<1> HIDE DEF g
<1>8. \A f \in Server, b \in Ballot, q \in SeqNum :
          g.top[f][b][q] = IF f \in F /\ b = n /\ q = seqs[f] THEN Len(log) ELSE h.top[f][b][q]
    BY <1>6
<1> QED BY <1>2, <1>3, <1>4, <1>5, <1>7, <1>8 DEF g

\* A ballot that starts with a log holding all that may be chosen below it is a step of
\* the history, and keeps it safe.
LEMMA BallotStarts ==
    ASSUME TypeOK, TypeOK', NEW h \in History, NEW s \in Server, LocalStep(s),
           HistoryOK(h), Safe(h), StoreFits(h, s),
           state[s].role = "Leader", NEW n \in Ballot, n \notin h.started, lead[s].n = n,
           NEW log \in Logs, NEW F, NEW seqs, \A f \in F : ~SeqLeq(seqs[f], lead[s].seqs[f]),
           \A b \in Ballot, i \in Nat : b < n /\ Choosable(h, b, i) => i <= Len(log) /\ Same(log, h.log[b], i),
           store'[s].accRound = n, store'[s].log = log,
           store'[s].decided <= Len(log), DecidedBy(h, n, store'[s].decided),
           NEW g \in History, g = Started(h, s, n, log, F, seqs)
    PROVE  HistoryStep(s, h, g) /\ HistoryOK(g)' /\ Safe(g) /\ Safe(g)' /\ StoreFits(g, s)'
<1>1. /\ g.started = h.started \cup {n}
      /\ g.base[n] = Len(log) /\ g.log[n] = log /\ g.voted[s][n] = Len(log)
      /\ \A b \in Ballot : b # n => g.base[b] = h.base[b] /\ g.log[b] = h.log[b]
      /\ \A t \in Server, b \in Ballot : t # s \/ b # n => g.voted[t][b] = h.voted[t][b]
      /\ \A f \in Server, b \in Ballot, q \in SeqNum :
             g.top[f][b][q] # h.top[f][b][q] => f \in F /\ b = n /\ q = seqs[f]
    BY SMTT(30), StartedHistory
<1>2. PidOf(n) = s /\ n = store[s].promise /\ n \in Nat /\ Len(log) \in Nat
    BY LeadFacts, LenProperties DEF Logs
<1>3. Len(h.log[n]) = 0 /\ h.log[n] \in Logs /\ \A t \in Server : h.voted[t][n] = 0
    BY HistoryFacts DEF HistoryOK
<1>4. \A b \in Ballot : h.log[b] \in Logs /\ Len(h.log[b]) \in Nat /\ b \in Nat
                        /\ \A t \in Server : h.voted[t][b] \in Nat
    BY SMTT(30), HistoryFacts
<1>5. HistoryStep(s, h, g)
    <2> SUFFICES ASSUME NEW b \in Ballot
                 PROVE  /\ b \in h.started => g.base[b] = h.base[b]
                        /\ Same(g.log[b], h.log[b], Len(h.log[b]))
                        /\ PidOf(b) # s => g.log[b] = h.log[b] /\ (b \in g.started => b \in h.started)
                        /\ \A t \in Server : /\ h.voted[t][b] <= g.voted[t][b]
                                             /\ g.voted[t][b] # h.voted[t][b] => t = s /\ b = store[s].promise
                        /\ \A f \in Server, q \in SeqNum : g.top[f][b][q] # h.top[f][b][q] =>
                               state[s].role = "Leader" /\ lead[s].n = b /\ ~SeqLeq(q, lead[s].seqs[f])
        BY <1>1 DEF HistoryStep
    <2>1. Same(g.log[b], h.log[b], Len(h.log[b]))
        <3>1. CASE b = n
            BY <1>1, <1>2, <1>3, <3>1 DEF Same
        <3>2. CASE b # n
            BY <1>1, <1>4, <3>2, SameFacts
        <3> QED BY <3>1, <3>2
    <2>2. \A t \in Server : /\ h.voted[t][b] <= g.voted[t][b]
                            /\ g.voted[t][b] # h.voted[t][b] => t = s /\ b = store[s].promise
        <3> SUFFICES ASSUME NEW t \in Server
                     PROVE  /\ h.voted[t][b] <= g.voted[t][b]
                            /\ g.voted[t][b] # h.voted[t][b] => t = s /\ b = store[s].promise
            OBVIOUS
        <3>1. CASE t = s /\ b = n
            BY <1>1, <1>2, <1>3, <3>1
        <3>2. CASE t # s \/ b # n
            BY <1>1, <1>4, <3>2
        <3> QED BY <3>1, <3>2
    <2> QED BY <1>1, <1>2, <2>1, <2>2
<1>6. \A b \in Ballot, i \in Nat : Choosable(g, b, i) => Choosable(h, b, i)
    <2> SUFFICES ASSUME NEW b \in Ballot, NEW i \in Nat, Choosable(g, b, i)
                 PROVE  Choosable(h, b, i)
        OBVIOUS
    <2>1. \A t \in Server : g.voted[t][b] >= i => h.voted[t][b] >= i \/ store[t].promise <= b
        BY <1>1, <1>2
    <2> QED BY <2>1 DEF Choosable
<1>7. Safe(g)
    <2> SUFFICES ASSUME NEW c \in g.started, NEW b \in Ballot, b < c, NEW i \in Nat, Choosable(g, b, i)
                 PROVE  i <= g.base[c] /\ Same(g.log[c], g.log[b], i)
        BY DEF Safe
    <2>1. Choosable(h, b, i) /\ c \in Ballot
        BY <1>1, <1>6 DEF History
    <2>2. CASE c = n
        BY SMTT(30), <1>1, <1>2, <1>4, <2>1, <2>2
    <2>3. CASE c # n
        <3>1. c \in h.started
            BY <1>1, <2>3
        <3>2. i <= h.base[c] /\ Same(h.log[c], h.log[b], i)
            BY <2>1, <3>1 DEF Safe
        <3> QED BY <1>1, <1>5, <2>1, <2>3, <3>2, SameGrows
    <2> QED BY <2>2, <2>3
<1>8. Safe(g)'
    BY <1>7, SafeKept, SameHistory
<1>9. HistoryOK(g)'
    <2>1. HistoryOK(h)'
        BY HistoryKept
    <2>2. Owner[n] = s /\ n # 0 /\ n <= store'[s].promise
        BY <1>2, StoreFactsNext DEF PidOf, HistoryOK, LocalStep
    <2> SUFFICES ASSUME NEW b \in Ballot
                 PROVE  /\ b \in g.started => g.base[b] <= Len(g.log[b])
                        /\ b \notin g.started => Len(g.log[b]) = 0
                        /\ \A t \in Server : g.voted[t][b] <= Len(g.log[b])
                        /\ b \in g.started /\ b # 0 => b <= store'[Owner[b]].promise
        BY <1>1, <2>1 DEF HistoryOK
    <2>3. CASE b = n
        BY SMTT(30), <1>1, <1>2, <1>3, <2>2, <2>3
    <2>4. CASE b # n
        BY <1>1, <2>1, <2>4 DEF HistoryOK
    <2> QED BY <2>3, <2>4
<1>10. StoreFits(g, s)'
    <2>1. DecidedBy(g, n, store'[s].decided)
        BY SMTT(30), <1>2, <1>5, HistoryGrows, StoreFactsNext
    <2>2. \A b \in Ballot : b > n => g.voted[s][b] = 0
        BY SMTT(30), <1>1, <1>2, <1>4, StoreFacts DEF StoreFits
    <2>3. Same(log, log, Len(log))
        BY <1>2, SameFacts
    <2> QED BY <1>1, <1>2, <2>1, <2>2, <2>3 DEF StoreFits
<1> QED BY <1>5, <1>7, <1>8, <1>9, <1>10

\* A leader with state ls and log st that has just numbered an AcceptSync for t.
Syncs(g, t, ls, st) ==
    /\ ls.n \in g.started
    /\ Len(st.log) = Len(g.log[ls.n]) /\ Same(st.log, g.log[ls.n], Len(st.log))
    /\ ls.maxMeta.nAccepted \in g.started /\ ls.maxMeta.nAccepted < ls.n
    /\ g.base[ls.n] = ls.maxMeta.accIdx /\ g.base[ls.n] <= Len(st.log)
    /\ Same(g.log[ls.n], g.log[ls.maxMeta.nAccepted], g.base[ls.n])
    /\ st.decided <= Len(st.log) /\ DecidedBy(g, ls.n, st.decided)
    /\ g.top[t][ls.n][ls.seqs[t]] = Len(st.log)
    /\ t \in HasPromised(ls) /\ Known(g, t, ls.n, ls.promises[t])
    /\ store[t].accRound \in g.started /\ g.base[store[t].accRound] <= Len(store[t].log)
    /\ Same(store[t].log, g.log[store[t].accRound], Len(store[t].log))

\* That AcceptSync fits.
LEMMA AcceptSyncSent ==
    ASSUME TypeOK, NEW g \in History, Safe(g), NEW s \in Server, NEW t \in Server \ {s},
           NEW ls, IsLeaderState(ls), lead'[s] = ls, NEW st \in Stored, store'[t] = store[t],
           PidOf(ls.n) = s, Syncs(g, t, ls, st), NEW hash, NEW m, m = AcceptSync(ls, st, hash, t)
    PROVE  MsgFits(g, s, t, m)' /\ m.n \in Ballot /\ Top(g, t, m) = Len(g.log[m.n])
<1> USE DEF Syncs
<1> DEFINE p == ls.promises[t]
           n == ls.n
           meta == ls.maxMeta
           valid == ValidUpTo(n, meta, p)
           flog == store[t].log
           r == store[t].accRound
           len == Len(st.log)
<1>2. /\ m.type = "AcceptSync" /\ m.n = n /\ m.seq = ls.seqs[t] /\ m.decided = st.decided
      /\ m.sync = CreateLogSync(st.log, valid)
    BY DEF AcceptSync, ValidUpTo
<1>3. /\ n \in Ballot /\ meta \in [nAccepted : Ballot, accIdx : Nat] /\ ls.seqs[t] \in SeqNum
      /\ st.log \in Logs /\ len \in Nat
    BY LenProperties DEF IsLeaderState, Stored, Logs
<1>4. p \in [type : {"Promised"}, nAccepted : Ballot, accIdx : Nat, decided : Nat]
    BY DEF IsLeaderState, HasPromised, PromiseState, None, PromisedHigher
<1>5. /\ p.nAccepted \in g.started /\ p.accIdx \in Nat /\ p.decided \in Nat /\ p.nAccepted <= n
      /\ p.accIdx <= Len(g.log[p.nAccepted]) /\ p.decided <= p.accIdx
      /\ DecidedBy(g, p.nAccepted, p.decided)
    BY <1>4 DEF Known
<1>6. /\ store[t].promise = n /\ r # n => r = p.nAccepted /\ Len(flog) = p.accIdx
      /\ store[t].promise = n /\ p.nAccepted = n => p.accIdx <= Len(flog)
    BY DEF Known
<1>7. flog \in Logs /\ Len(flog) \in Nat /\ g.log[n] \in Logs
    BY <1>3, StoreFacts, HistoryFacts
<1> HIDE DEF p, n, meta, flog, r, len, valid
<1>8. store[t].promise = n =>
          /\ Synced(flog, CreateLogSync(st.log, valid), g.log[n], len)
          /\ r # n => valid <= g.base[n]
    <2> SUFFICES ASSUME store[t].promise = n
                 PROVE  /\ Synced(flog, CreateLogSync(st.log, valid), g.log[n], len)
                        /\ r # n => valid <= g.base[n]
        OBVIOUS
    <2>1. /\ n \in g.started /\ r \in g.started /\ Len(st.log) = Len(g.log[n])
          /\ Same(st.log, g.log[n], Len(st.log)) /\ g.base[n] <= Len(st.log)
          /\ meta.nAccepted \in g.started /\ meta.nAccepted < n /\ g.base[n] = meta.accIdx
          /\ Same(g.log[n], g.log[meta.nAccepted], g.base[n])
          /\ Same(flog, g.log[r], Len(flog)) /\ g.base[r] <= Len(flog)
        BY DEF n, r, meta, flog
    <2>2. r # n => r = p.nAccepted /\ Len(flog) = p.accIdx
        BY <1>6
    <2>3. p.nAccepted = n => p.accIdx <= Len(flog)
        BY <1>6
    <2>4. /\ Synced(flog, CreateLogSync(st.log, ValidUpTo(n, meta, p)), g.log[n], Len(st.log))
          /\ r # n => ValidUpTo(n, meta, p) <= g.base[n]
        BY ZenonT(60), <1>3, <1>5, <1>7, <2>1, <2>2, <2>3, AcceptSyncFits
    <2> QED BY <2>4 DEF valid, len
<1>9. Top(g, t, m) = len /\ len = Len(g.log[n]) /\ g.base[n] <= len
    BY <1>2 DEF Top, n, len
<1>10. store[t].promise = n /\ r = n => Len(flog) <= len
    BY <1>9 DEF Same, flog, r
<1>11. m.sync.idx = valid
    BY <1>2 DEF CreateLogSync
<1>12. SeqLeq(m.seq, ls.seqs[t])
    BY <1>2, <1>3, SeqLeqFacts
<1>13. /\ s # t /\ PidOf(m.n) = s /\ m.n \in g.started /\ m.decided <= len
       /\ DecidedBy(g, m.n, m.decided)
    BY <1>2 DEF n, len
<1>14. LeaderMsgFits(g, s, t, m)'
    <2>1. Top(g, t, m)' = len
        BY <1>9 DEF Top
    <2>2. store'[t].promise = m.n /\ store'[t].accRound = m.n => Len(store'[t].log) <= len
        BY <1>2, <1>10 DEF flog, r
    <2>3. store'[t].promise = m.n =>
              /\ Synced(store'[t].log, m.sync, g.log[m.n], len)
              /\ store'[t].accRound # m.n => m.sync.idx <= g.base[m.n]
        BY <1>2, <1>8, <1>11 DEF flog, r
    <2>4. lead'[s].n = m.n => SeqLeq(m.seq, lead'[s].seqs[t])
        BY <1>12
    <2>5. DecidedBy(g, m.n, m.decided)'
        BY <1>13 DEF DecidedBy, Chosen
    <2>6. m.type = "AcceptSync" /\ g.base[m.n] <= len /\ len <= Len(g.log[m.n])
        BY <1>2, <1>3, <1>9 DEF len
    <2> HIDE DEF len
    <2> QED BY <1>13, <2>1, <2>2, <2>3, <2>4, <2>5, <2>6 DEF LeaderMsgFits
<1>15. MsgFits(g, s, t, m)'
    BY <1>2, <1>14 DEF MsgFits
<1> QED BY <1>2, <1>3, <1>9, <1>15

\* A leader that enters its accept phase in the ballot it has promised.
LEMMA StartIsLocal ==
    ASSUME TypeOK, NEW s \in Server, state[s].role = "Leader", state[s].phase = "Prepare",
           NEW st, store' = [store EXCEPT ![s] = st], st.promise = store[s].promise,
           st.accRound = store[s].promise, store[s].accRound # store[s].promise,
           NEW next, lead' = [lead EXCEPT ![s] = next], next.n = lead[s].n,
           \A t \in Server : SeqLeq(lead[s].seqs[t], next.seqs[t]),
           state' = [state EXCEPT ![s].phase = "Accept"]
    PROVE  /\ LocalStep(s) /\ store'[s] = st /\ lead'[s] = next
           /\ state'[s].role = "Leader" /\ state'[s].phase = "Accept"
           /\ state'[s].cached = state[s].cached
           /\ \A t \in Server \ {s} : store'[t] = store[t] /\ state'[t] = state[t] /\ lead'[t] = lead[t]
<1>1. DOMAIN store = Server /\ DOMAIN state = Server /\ DOMAIN lead = Server
    BY DEF TypeOK, StoreOK, StateOK, LeadOK
<1>2. DOMAIN state[s] = {"role", "phase", "seq", "cached"}
    BY DEF TypeOK, StateOK
<1>3. /\ store'[s] = st /\ lead'[s] = next
      /\ \A t \in Server \ {s} : store'[t] = store[t] /\ state'[t] = state[t] /\ lead'[t] = lead[t]
    BY <1>1
<1>4. state'[s].role = "Leader" /\ state'[s].phase = "Accept" /\ state'[s].cached = state[s].cached
    BY <1>1, <1>2
<1>5. store[s].promise <= store'[s].promise
    BY <1>3, StoreFacts
<1> QED BY <1>3, <1>4, <1>5 DEF LocalStep

\* Knowing a promise does not depend on what other servers do.
LEMMA KnownElsewhere ==
    ASSUME NEW g \in History, NEW t \in Server, store'[t] = store[t], NEW n, NEW p
    PROVE  Known(g, t, n, p)' <=> Known(g, t, n, p)
BY DEF Known, DecidedBy, Chosen

\* The promise that completes a read quorum starts the ballot.
LEMMA MajorityFits ==
    ASSUME BallotInv, TypeOK', NoUnsynced, NEW h \in History, Fits(h),
           NEW from \in Server, NEW s \in Server, NEW ext \in Extensions,
           ReceivePromise(from, s, ext), CompletesQuorum(from, s)
    PROVE  \E g \in History : Extends(h, g) /\ Fits(g)'
<1>1. /\ TypeOK /\ AcceptsInPromise /\ StoreFits(h, s) /\ LeaderFits(h, s) /\ FollowerFits(h, s)
      /\ HistoryOK(h) /\ Safe(h)
    BY DEF BallotInv, Fits, ServersFit
<1>2. Arrives(from, s, "Promise") /\ IsLeader(s, "Prepare") /\ Msg(from, s).n = lead[s].n
    BY DEF ReceivePromise
<1>3. /\ net[from][s] # <<>> /\ IsPromise(Msg(from, s)) /\ PromiseFits(h, from, s, Msg(from, s))
    BY <1>2, PromiseTaken
<1>4. PICK ls : ls = SetPromise(lead[s], Msg(from, s), from, TRUE)
    OBVIOUS
<1>5. Preparing(h, s) /\ \A t \in Server : lead[s].accIdx[t] <= h.voted[t][lead[s].n]
    BY <1>1, <1>2 DEF LeaderFits, IsLeader
<1>6. Prepared(h, s, ls)
    BY <1>1, <1>2, <1>3, <1>4, <1>5, RecordedPromise
<1>7. IsLeaderState(ls) /\ IsPrepareQuorum(Quorum, Cardinality(HasPromised(ls)))
    BY <1>1, <1>2, <1>4, PromiseReceived DEF CompletesQuorum
<1>8. IsLeaderState(lead[s])
    BY <1>1 DEF TypeOK, LeadOK
<1>9. Records(ls, lead[s], Msg(from, s), from, MoreUpToDate(Msg(from, s), lead[s].maxMeta))
    BY <1>4, <1>8, SetPromiseFields
<1>10. \A t \in Server : DOMAIN ls.unsynced[t] = {}
    <2>1. Msg(from, s) \in Range(net[from][s]) /\ Msg(from, s).type = "Promise"
        BY <1>1, <1>2, ArrivesType, MessageFields DEF TypeOK
    <2>2. DOMAIN Msg(from, s).unsync = {} /\ \A t \in Server : DOMAIN lead[s].unsynced[t] = {}
        BY <2>1 DEF NoUnsynced
    <2>3. ls.unsynced = [lead[s].unsynced EXCEPT ![from] = Msg(from, s).unsync]
        BY <1>9 DEF Records
    <2>4. DOMAIN lead[s].unsynced = Server
        BY <1>8 DEF IsLeaderState
    <2> QED BY <2>2, <2>3, <2>4
<1>11. DOMAIN fast[s].unsynced = {}
    BY DEF NoUnsynced
<1>12. ls.n = lead[s].n /\ ls.seqs = lead[s].seqs /\ ls.accIdx = lead[s].accIdx
    BY <1>9 DEF Records
<1>13. PICK st, next, hash, out : /\ st = SyncLog(store[s], ls.n, MaxDecided(ls), ls.maxSync)
                                  /\ IsStart(from, s, ls, st, next, hash, out)
    BY <1>1, <1>4, <1>10, <1>11, EmptyMajority
<1>13a. PICK n, log, F, seqs : n = ls.n /\ log = st.log /\ F = PromisedFollowers(ls) /\ seqs = next.seqs
    OBVIOUS
<1>14. MaxDecided(ls) \in Nat
    BY <1>13a, <1>6, <1>7, MaxDecidedType DEF Prepared
<1>15. /\ st \in Stored /\ st.promise = store[s].promise /\ st.accRound = n
       /\ st.decided = MaxDecided(ls) /\ log \in Logs
       /\ Len(log) = ls.maxMeta.accIdx
       /\ Same(log, h.log[ls.maxMeta.nAccepted], ls.maxMeta.accIdx)
    BY <1>13a, <1>1, <1>6, <1>7, <1>13, <1>14, AdoptedLog
<1>16. st.decided <= Len(log) /\ DecidedBy(h, n, st.decided)
    BY <1>13a, <1>1, <1>6, <1>7, <1>15, AdoptedDecided
<1>17. \A b \in Ballot, i \in Nat : b < n /\ Choosable(h, b, i) => i <= Len(log) /\ Same(log, h.log[b], i)
    BY <1>13a, <1>1, <1>6, <1>7, <1>15, AdoptionIsSafe
<1>18. /\ n \in Ballot /\ n \notin h.started /\ n = store[s].promise /\ PidOf(n) = s
       /\ store[s].accRound \in h.started /\ state[s].role = "Leader" /\ state[s].phase = "Prepare"
    BY <1>13a, <1>1, <1>2, <1>6, <1>12, LeadFacts DEF Prepared, StoreFits, IsLeader
<1>19. \A t \in Server : /\ next.seqs[t] \in SeqNum /\ SeqLeq(lead[s].seqs[t], next.seqs[t])
                         /\ t \in F => ~SeqLeq(next.seqs[t], lead[s].seqs[t])
    BY <1>13a, <1>12, <1>13 DEF IsStart
<1>20. /\ store' = [store EXCEPT ![s] = st] /\ lead' = [lead EXCEPT ![s] = next]
       /\ state' = [state EXCEPT ![s].phase = "Accept"]
       /\ IsLeaderState(next) /\ next.n = n /\ next.promises = ls.promises
       /\ next.maxMeta = ls.maxMeta /\ next.accIdx = [ls.accIdx EXCEPT ![s] = Len(log)]
       /\ Receive(from, s, out) /\ Short(out)
       /\ \A t \in Server : out[t] = IF t \in F THEN <<AcceptSync(next, st, hash, t)>> ELSE <<>>
    BY <1>13a, <1>13 DEF IsStart
<1>21. F = PromisedFollowers(next) /\ HasPromised(next) = HasPromised(ls) /\ F \subseteq Server \ {s}
    BY <1>13a, <1>18, <1>20 DEF PromisedFollowers, HasPromised
<1>22. /\ LocalStep(s) /\ store'[s] = st /\ lead'[s] = next
       /\ state'[s].role = "Leader" /\ state'[s].phase = "Accept" /\ state'[s].cached = state[s].cached
       /\ \A t \in Server \ {s} : store'[t] = store[t] /\ state'[t] = state[t] /\ lead'[t] = lead[t]
    <2>1. /\ st.accRound = store[s].promise /\ st.promise = store[s].promise
          /\ next.n = lead[s].n /\ store[s].accRound # store[s].promise
        BY <1>13a, <1>12, <1>15, <1>18, <1>20
    <2>2. \A t \in Server : SeqLeq(lead[s].seqs[t], next.seqs[t])
        BY <1>13a, <1>19
    <2> QED BY <1>1, <1>18, <1>20, <2>1, <2>2, StartIsLocal
<1>23. PICK g : g = Started(h, s, n, log, F, seqs)
    OBVIOUS
<1>24. /\ g \in History /\ g.started = h.started \cup {n}
       /\ g.base[n] = Len(log) /\ g.log[n] = log /\ g.voted[s][n] = Len(log)
       /\ \A b \in Ballot : b # n => g.base[b] = h.base[b] /\ g.log[b] = h.log[b]
       /\ \A f \in F : g.top[f][n][next.seqs[f]] = Len(log)
    <2>1. /\ g \in History /\ g.started = h.started \cup {n}
          /\ g.base[n] = Len(log) /\ g.log[n] = log /\ g.voted[s][n] = Len(log)
          /\ \A b \in Ballot : b # n => g.base[b] = h.base[b] /\ g.log[b] = h.log[b]
        BY SMTT(30), <1>13a, <1>15, <1>18, <1>23, StartedHistory
    <2>2. \A f \in F : f \in Server /\ seqs[f] \in SeqNum => g.top[f][n][seqs[f]] = Len(log)
        <3>1. log \in Logs /\ n \in Ballot
            BY SMTT(30), <1>13a, <1>15, <1>18
        <3> QED BY <1>23, <3>1, StartedHistory
    <2> QED BY <1>13a, <1>19, <1>21, <2>1, <2>2
<1>25. HistoryStep(s, h, g) /\ HistoryOK(g)' /\ Safe(g) /\ Safe(g)' /\ StoreFits(g, s)'
    <2>1. \A f \in F : ~SeqLeq(next.seqs[f], lead[s].seqs[f])
        BY <1>13a, <1>19, <1>21
    <2>2. store'[s].accRound = n /\ store'[s].log = log /\ store'[s].decided <= Len(log)
          /\ DecidedBy(h, n, store'[s].decided) /\ lead[s].n = n
        BY <1>13a, <1>12, <1>15, <1>16, <1>22
    <2> QED BY ZenonT(60), <1>13a, <1>1, <1>15, <1>17, <1>18, <1>22, <1>23, <1>24, <2>1, <2>2, BallotStarts
<1> DEFINE meta == ls.maxMeta
<1>26. /\ meta.nAccepted \in h.started /\ meta.nAccepted < n /\ meta.nAccepted \in Ballot
       /\ \A t \in HasPromised(ls) : Known(h, t, n, ls.promises[t])
    BY <1>13a, <1>6 DEF Prepared, History
<1>27. /\ Same(log, log, Len(log)) /\ Len(log) \in Nat /\ g.base[n] = meta.accIdx
       /\ Same(g.log[n], g.log[meta.nAccepted], g.base[n]) /\ meta.nAccepted \in g.started
       /\ Same(log, g.log[n], Len(log))
    <2>1. Len(log) \in Nat /\ meta.nAccepted # n
        BY <1>13a, <1>15, <1>18, <1>26, LenProperties DEF Logs
    <2>2. Same(log, log, Len(log))
        BY SMTT(30), <1>13a, <1>15, <2>1, SameFacts
    <2> QED BY <1>13a, <1>15, <1>24, <1>26, <2>1, <2>2
<1>28. Accepting(g, s)'
    BY <1>13a, <1>20, <1>21, <1>22, <1>24, <1>15, <1>26, <1>27 DEF Accepting
<1>29. \A t \in Server : next.accIdx[t] <= g.voted[t][n]
    <2> SUFFICES ASSUME NEW t \in Server PROVE next.accIdx[t] <= g.voted[t][n]
        OBVIOUS
    <2>1. CASE t = s
        BY <1>13a, <1>7, <1>20, <1>24, <1>27, <2>1 DEF IsLeaderState
    <2>2. CASE t # s
        <3>1. next.accIdx[t] = lead[s].accIdx[t] /\ lead[s].accIdx[t] <= h.voted[t][n]
            BY <1>13a, <1>5, <1>7, <1>12, <1>20, <2>2 DEF IsLeaderState
        <3>2. h.voted[t][n] <= g.voted[t][n]
            BY <1>13a, <1>18, <1>25 DEF HistoryStep
        <3>3. h.voted[t][n] \in Nat /\ g.voted[t][n] \in Nat /\ lead[s].accIdx[t] \in Nat
            BY <1>13a, <1>1, <1>18, <1>24, HistoryFacts, LeadFacts
        <3> QED BY <1>13a, <3>1, <3>2, <3>3
    <2> QED BY <1>13a, <2>1, <2>2
<1>30. LeaderFits(g, s)'
    BY <1>13a, <1>20, <1>22, <1>28, <1>29 DEF LeaderFits
<1>31. FollowerFits(g, s)'
    <2>1. ~IsFollower(s, "Accept")'
        BY <1>13a, <1>22 DEF IsFollower
    <2> QED BY <1>13a, <1>1, <1>22, <1>24, <1>25, <2>1, FollowerFitsKept
<1>32. ChannelStep(s, out)
    BY <1>13a, <1>1, <1>3, <1>20, MovesChannels DEF Moves, FreeStep
<1>33. SentFits(s, out, g)
    <2> SUFFICES ASSUME NEW t \in Server \ {s}, NEW m \in Range(out[t])
                 PROVE  MsgFits(g, s, t, m)' /\ m.n \in Ballot /\ Top(g, t, m) = Len(g.log[m.n])
        BY DEF SentFits
    <2>1. t \in F /\ m = AcceptSync(next, st, hash, t)
        <3>1. out[t] = IF t \in F THEN <<AcceptSync(next, st, hash, t)>> ELSE <<>>
            BY <1>13a, <1>20
        <3> QED BY <1>13a, <3>1, EmptyQueue, SingletonQueue
    <2>2. t \in HasPromised(next) /\ store'[t] = store[t]
        BY <1>13a, <1>21, <1>22, <2>1 DEF PromisedFollowers
    <2>3. Known(g, t, n, next.promises[t])
        <3>1. ls.promises[t] \in [type : {"Promised"}, nAccepted : Ballot, accIdx : Nat, decided : Nat]
            BY <1>13a, <1>7, <1>21, <2>2 DEF IsLeaderState, HasPromised, PromiseState, None, PromisedHigher
        <3>2. Known(h, t, n, ls.promises[t]) /\ n \in Nat
            BY <1>13a, <1>18, <1>21, <1>26, <2>2 DEF Ballot
        <3>3. Known(g, t, n, ls.promises[t])'
            BY <1>13a, <1>1, <1>22, <1>24, <1>25, <3>1, <3>2, KnownKept
        <3> QED BY <1>13a, <1>20, <1>24, <2>2, <3>3, KnownElsewhere
    <2>4. StoreFits(h, t) /\ store[t].accRound \in Ballot /\ Len(store[t].log) \in Nat /\ store[t].log \in Logs
        BY <1>13a, <1>1, StoreFacts DEF Fits, ServersFit
    <2>5. /\ store[t].accRound \in g.started /\ g.base[store[t].accRound] <= Len(store[t].log)
          /\ Same(store[t].log, g.log[store[t].accRound], Len(store[t].log))
        BY <1>13a, <1>18, <1>24, <2>4 DEF StoreFits
    <2>6. DecidedBy(g, n, st.decided)
        BY SMTT(30), <1>13a, <1>1, <1>16, <1>18, <1>22, <1>24, <1>25, <1>14, <1>15, HistoryGrows DEF Ballot
    <2>7. /\ PidOf(next.n) = s /\ next.n \in g.started /\ Len(st.log) = Len(g.log[next.n])
          /\ Same(st.log, g.log[next.n], Len(st.log))
          /\ next.maxMeta.nAccepted \in g.started /\ next.maxMeta.nAccepted < next.n
          /\ g.base[next.n] = next.maxMeta.accIdx /\ g.base[next.n] <= Len(st.log)
          /\ Same(g.log[next.n], g.log[next.maxMeta.nAccepted], g.base[next.n])
          /\ st.decided <= Len(st.log) /\ DecidedBy(g, next.n, st.decided)
          /\ g.top[t][next.n][next.seqs[t]] = Len(st.log)
        BY <1>13a, <1>16, <1>18, <1>20, <1>24, <1>26, <1>27, <2>1, <2>6
    <2>8. Syncs(g, t, next, st)
        BY <1>20, <2>2, <2>3, <2>5, <2>7 DEF Syncs
    <2>9. /\ TypeOK /\ g \in History /\ Safe(g) /\ IsLeaderState(next) /\ lead'[s] = next
          /\ st \in Stored /\ PidOf(next.n) = s
        BY <1>1, <1>15, <1>20, <1>22, <1>24, <1>25, <2>7
    <2> QED BY SMTT(30), <2>1, <2>2, <2>8, <2>9, AcceptSyncSent
<1>34. NotOvertaken(s, h)
    BY <1>13a, <1>18 DEF NotOvertaken
<1>35. Fits(g)'
    BY <1>13a, <1>22, <1>24, <1>25, <1>30, <1>31, <1>32, <1>33, <1>34, AllFit
<1> QED BY <1>24, <1>25, <1>35, StepExtends

--------------------------------------------------------------------------------
\* Crashes

\* What a restart does to the channels and to the server's own state.
LEMMA RestartStep ==
    ASSUME TypeOK, NEW s \in Server, NEW st, Restart(s, st), st.promise = store[s].promise,
           \/ st.accRound = store[s].accRound /\ st.log = store[s].log
           \/ st.accRound = store[s].promise /\ store[s].accRound # store[s].promise
    PROVE  /\ \E out : IsIdleOut(out) /\ ChannelStep(s, out)
           /\ LocalStep(s) /\ store'[s] = st
           /\ \A h : LeaderFits(h, s)' /\ FollowerFits(h, s)'
<1>1. /\ state' = [state EXCEPT ![s] = [role |-> "Follower", phase |-> "Recover",
                                        seq |-> Zero, cached |-> None]]
      /\ lead' = [lead EXCEPT ![s] = LeaderStateWith(st.promise)] /\ store' = [store EXCEPT ![s] = st]
    BY DEF Restart
<1>2. DOMAIN store = Server /\ DOMAIN state = Server /\ DOMAIN lead = Server
    BY DEF TypeOK, StoreOK, StateOK, LeadOK
<1>3. /\ store'[s] = st /\ state'[s].role = "Follower" /\ state'[s].phase = "Recover"
      /\ state'[s].cached = None
      /\ \A t \in Server \ {s} : store'[t] = store[t] /\ state'[t] = state[t] /\ lead'[t] = lead[t]
    BY <1>1, <1>2
<1>4. LocalStep(s)
    BY <1>3, StoreFacts DEF LocalStep
<1>5. \A h : LeaderFits(h, s)' /\ FollowerFits(h, s)'
    BY <1>3 DEF LeaderFits, FollowerFits, SessionFits, CachedFits, IsFollower
<1> DEFINE lost == [t \in Server |-> [net[t] EXCEPT ![s] = <<>>]]
           out == ToAll(Peers(s), PrepareReqMsg(s))
<1>6. IsIdleOut(out)
    BY IdleMessages, IdleOuts
<1>7. DOMAIN lost = Server /\ \A a \in Server : DOMAIN lost[a] = Server
      /\ \A b \in Server : lost[a][b] = IF b = s THEN <<>> ELSE net[a][b]
    BY DEF TypeOK, NetOK
<1>8. net' = Deliver(lost, s, out)
    BY DEF Restart
<1> HIDE DEF lost, out
<1>9. IsChannels(lost)
    BY <1>7, EmptyQueue DEF TypeOK, NetOK, IsChannels, IsOut, IsQueue
<1>10. ChannelStep(s, out)
    <2> SUFFICES ASSUME NEW a \in Server, NEW b \in Server
                 PROVE  \E d \in Nat : \A i \in DOMAIN net'[a][b] :
                            \/ i + d \in DOMAIN net[a][b] /\ net'[a][b][i] = net[a][b][i + d]
                            \/ i = Len(net'[a][b]) /\ a = s /\ b # s /\ net'[a][b][i] \in Range(out[b])
        BY DEF ChannelStep
    <2>1. \A i \in DOMAIN net'[a][b] :
              \/ i \in DOMAIN lost[a][b] /\ net'[a][b][i] = lost[a][b][i]
              \/ i = Len(net'[a][b]) /\ a = s /\ b # s /\ net'[a][b][i] \in Range(out[b])
        BY <1>6, <1>8, <1>9, DeliverOrder DEF IsIdleOut
    <2>2. \A i \in DOMAIN lost[a][b] : /\ b # s /\ lost[a][b] = net[a][b]
                                       /\ i + 0 = i
        <3>1. lost[a][b] = IF b = s THEN <<>> ELSE net[a][b]
            BY <1>7
        <3>2. lost[a][b] \in Seq(Range(lost[a][b]))
            BY <1>9 DEF IsChannels, IsOut, IsQueue
        <3> QED BY <3>1, <3>2, LenProperties
    <2>3. \A i \in DOMAIN net'[a][b] :
              \/ i + 0 \in DOMAIN net[a][b] /\ net'[a][b][i] = net[a][b][i + 0]
              \/ i = Len(net'[a][b]) /\ a = s /\ b # s /\ net'[a][b][i] \in Range(out[b])
        BY <2>1, <2>2
    <2> QED BY <2>3
<1> QED BY <1>3, <1>4, <1>5, <1>6, <1>10

\* A crash between two handlers.
LEMMA CrashFits ==
    ASSUME BallotInv, TypeOK', NEW h \in History, Fits(h), NEW s \in Server, CrashRestart(s)
    PROVE  Fits(h)'
<1>1. TypeOK
    BY DEF BallotInv
<1>2. PICK st : st = store[s] /\ Restart(s, st)
    BY DEF CrashRestart
<1>3. /\ \E out : IsIdleOut(out) /\ ChannelStep(s, out)
      /\ LocalStep(s) /\ store'[s] = st
      /\ LeaderFits(h, s)' /\ FollowerFits(h, s)'
    BY <1>1, <1>2, RestartStep
<1>4. PICK out : IsIdleOut(out) /\ ChannelStep(s, out)
    BY <1>3
<1>5. SentFits(s, out, h)
    BY <1>4, IdleSent
<1> QED BY <1>2, <1>3, <1>4, <1>5, SameHistoryFits

\* A crash in handle_majority_promises leaves the log that was adopted: the ballot has
\* started, and nobody was told.
LEMMA CrashInRecoveryFits ==
    ASSUME BallotInv, TypeOK', NoUnsynced, NEW h \in History, Fits(h),
           NEW from \in Server, NEW s \in Server, CrashInRecovery(from, s)
    PROVE  \E g \in History : Extends(h, g) /\ Fits(g)'
<1>1. /\ TypeOK /\ AcceptsInPromise /\ StoreFits(h, s) /\ LeaderFits(h, s) /\ FollowerFits(h, s)
      /\ HistoryOK(h) /\ Safe(h)
    BY SMTT(30) DEF BallotInv, Fits, ServersFit
<1>2. Arrives(from, s, "Promise") /\ IsLeader(s, "Prepare") /\ Msg(from, s).n = lead[s].n
    BY DEF CrashInRecovery
<1>3. /\ net[from][s] # <<>> /\ IsPromise(Msg(from, s)) /\ PromiseFits(h, from, s, Msg(from, s))
    BY <1>2, PromiseTaken
<1>4. PICK ls : ls = SetPromise(lead[s], Msg(from, s), from, TRUE)
    OBVIOUS
<1>5. Preparing(h, s)
    BY <1>1, <1>2 DEF LeaderFits, IsLeader
<1>6. Prepared(h, s, ls)
    BY <1>1, <1>2, <1>3, <1>4, <1>5, RecordedPromise
<1>7. IsLeaderState(ls) /\ IsPrepareQuorum(Quorum, Cardinality(HasPromised(ls)))
    BY <1>1, <1>2, <1>4, PromiseReceived DEF CrashInRecovery
<1>8. IsLeaderState(lead[s])
    BY <1>1 DEF TypeOK, LeadOK
<1>9. Records(ls, lead[s], Msg(from, s), from, MoreUpToDate(Msg(from, s), lead[s].maxMeta))
    BY <1>4, <1>8, SetPromiseFields
<1>10. \A t \in Server : DOMAIN ls.unsynced[t] = {}
    <2>1. Msg(from, s) \in Range(net[from][s]) /\ Msg(from, s).type = "Promise"
        BY <1>1, <1>2, ArrivesType, MessageFields DEF TypeOK
    <2>2. DOMAIN Msg(from, s).unsync = {} /\ \A t \in Server : DOMAIN lead[s].unsynced[t] = {}
        BY <2>1 DEF NoUnsynced
    <2>3. ls.unsynced = [lead[s].unsynced EXCEPT ![from] = Msg(from, s).unsync]
        BY <1>9 DEF Records
    <2>4. DOMAIN lead[s].unsynced = Server
        BY <1>8 DEF IsLeaderState
    <2> QED BY <2>2, <2>3, <2>4
<1>11. MaxDecided(ls) \in Nat
    BY <1>6, <1>7, MaxDecidedType DEF Prepared
<1>12. PICK st : st = SyncLog(store[s], ls.n, MaxDecided(ls), ls.maxSync)
    OBVIOUS
<1>13. PICK n, log : n = ls.n /\ log = st.log
    OBVIOUS
<1>14. /\ st \in Stored /\ st.promise = store[s].promise /\ st.accRound = n
       /\ st.decided = MaxDecided(ls) /\ log \in Logs
       /\ Len(log) = ls.maxMeta.accIdx
       /\ Same(log, h.log[ls.maxMeta.nAccepted], ls.maxMeta.accIdx)
    BY <1>1, <1>6, <1>7, <1>11, <1>12, <1>13, AdoptedLog
<1>15. st.decided <= Len(log) /\ DecidedBy(h, n, st.decided)
    BY <1>1, <1>6, <1>7, <1>13, <1>14, AdoptedDecided
<1>16. \A b \in Ballot, i \in Nat : b < n /\ Choosable(h, b, i) => i <= Len(log) /\ Same(log, h.log[b], i)
    BY <1>1, <1>6, <1>7, <1>13, <1>14, AdoptionIsSafe
<1>17. ls.n = lead[s].n
    BY <1>9 DEF Records
<1>18. /\ n \in Ballot /\ n \notin h.started /\ n = store[s].promise /\ PidOf(n) = s /\ lead[s].n = n
       /\ store[s].accRound \in h.started /\ state[s].role = "Leader"
    BY <1>1, <1>2, <1>6, <1>13, <1>17, LeadFacts DEF Prepared, StoreFits, IsLeader
<1>19. Restart(s, st)
    <2> DEFINE new == Recovered(ls, Len(st.log))
               tail(k) == [i \in 1..k |-> new[i][2]]
    <2>1. PICK k \in 0..Len(new) : Restart(s, [st EXCEPT !.log = @ \o tail(k)])
        BY ZenonT(60), <1>4, <1>12 DEF CrashInRecovery
    <2>2. Len(st.log) \in Nat /\ st.log \in Seq(EntryId)
        BY <1>13, <1>14, LenProperties DEF Logs
    <2>3. new = <<>>
        BY <1>10, <2>2, RecoveredEmpty
    <2> HIDE DEF new
    <2>4. k = 0
        BY <2>3
    <2>5. tail(k) = <<>>
        BY <2>4
    <2> HIDE DEF tail
    <2>6. st.log \o tail(k) = st.log
        BY <2>2, <2>5
    <2>7. [st EXCEPT !.log = @ \o tail(k)] = [st EXCEPT !.log = st.log]
        BY <2>6
    <2>8. [st EXCEPT !.log = st.log] = st
        BY <1>14 DEF Stored
    <2> QED BY <2>1, <2>7, <2>8
<1>20. /\ \E out : IsIdleOut(out) /\ ChannelStep(s, out)
       /\ LocalStep(s) /\ store'[s] = st
       /\ \A g : LeaderFits(g, s)' /\ FollowerFits(g, s)'
    BY <1>1, <1>14, <1>18, <1>19, RestartStep
<1>21. PICK out : IsIdleOut(out) /\ ChannelStep(s, out)
    BY <1>20
<1>22. PICK g : g = Started(h, s, n, log, {}, <<>>)
    OBVIOUS
<1>23. g \in History
    BY <1>14, <1>18, <1>22, StartedHistory
<1>24. HistoryStep(s, h, g) /\ HistoryOK(g)' /\ Safe(g) /\ Safe(g)' /\ StoreFits(g, s)'
    <2>1. store'[s].accRound = n /\ store'[s].log = log /\ store'[s].decided <= Len(log)
          /\ DecidedBy(h, n, store'[s].decided)
        BY <1>13, <1>14, <1>15, <1>20
    <2> QED BY ZenonT(60), <1>1, <1>14, <1>16, <1>18, <1>20, <1>22, <1>23, <2>1, BallotStarts
<1>25. SentFits(s, out, g)
    BY <1>21, IdleSent
<1>26. NotOvertaken(s, h)
    BY <1>18 DEF NotOvertaken
<1>27. Fits(g)'
    BY <1>20, <1>21, <1>23, <1>24, <1>25, <1>26, AllFit
<1> QED BY <1>23, <1>24, <1>27, StepExtends

--------------------------------------------------------------------------------
\* Without the fast path nobody has unsynced entries

\* What a follower that takes a message of its leader sends: nothing, or how long its log is.
Answer(to, m, st) == To(to, [type |-> "Accepted", n |-> m.n, accIdx |-> Len(st.log)])

\* Nobody sends a promise in this step.
SendsNoPromise ==
    \A a, b \in Server : \A m \in Range(net'[a][b]) : m \in Range(net[a][b]) \/ m.type # "Promise"

\* After the step nothing unsynced is at s.
NoneLeft(s) == /\ DOMAIN fast'[s].unsynced = {}
               /\ state'[s].cached # None => DOMAIN state'[s].cached.unsync = {}
               /\ \A t \in Server : DOMAIN lead'[s].unsynced[t] = {}

\* Nothing at t is touched that may hold unsynced entries.
NoneAdded(t) == /\ fast'[t].unsynced = fast[t].unsynced
                /\ state'[t].cached = state[t].cached
                /\ lead'[t].unsynced = lead[t].unsynced

\* A step of s after which neither s nor a new message has unsynced entries.
LEMMA NoneLeftAnywhere ==
    ASSUME NoUnsynced, NEW s \in Server, \A t \in Server \ {s} : NoneAdded(t),
           NoneAdded(s) \/ NoneLeft(s),
           \A a, b \in Server : \A m \in Range(net'[a][b]) :
               m \in Range(net[a][b]) \/ (m.type = "Promise" => DOMAIN m.unsync = {})
    PROVE  NoUnsynced'
<1> SUFFICES ASSUME NEW t \in Server
             PROVE  (/\ DOMAIN fast[t].unsynced = {}
                     /\ state[t].cached # None => DOMAIN state[t].cached.unsync = {}
                     /\ \A u \in Server : /\ DOMAIN lead[t].unsynced[u] = {}
                                          /\ \A m \in Range(net[t][u]) :
                                                 m.type = "Promise" => DOMAIN m.unsync = {})'
    BY DEF NoUnsynced
<1>1. NoneLeft(t)
    BY DEF NoUnsynced, NoneAdded, NoneLeft
<1>2. \A u \in Server : \A m \in Range(net'[t][u]) : m.type = "Promise" => DOMAIN m.unsync = {}
    BY DEF NoUnsynced
<1> QED BY <1>1, <1>2 DEF NoneLeft

\* A step that sends no promise, by what it sends.
LEMMA NoPromiseSent ==
    ASSUME TypeOK, NEW s \in Server, NEW out, IsOut(out), FreeStep(s, out),
           \A t \in Server : \A m \in Range(out[t]) : m.type # "Promise"
    PROVE  SendsNoPromise
BY ZenonT(60), SendAdds, ReceiveAdds DEF FreeStep, Adds, TypeOK, SendsNoPromise

\* Such a step adds no unsynced entry when s does not.
LEMMA NoneSent ==
    ASSUME NoUnsynced, NEW s \in Server, \A t \in Server \ {s} : NoneAdded(t),
           NoneAdded(s) \/ NoneLeft(s), SendsNoPromise
    PROVE  NoUnsynced'
BY NoneLeftAnywhere DEF SendsNoPromise

\* Free messages are no promises.
LEMMA FreeNoPromise ==
    ASSUME TypeOK, NEW s \in Server, NEW out, IsFreeOut(out), FreeStep(s, out)
    PROVE  SendsNoPromise
BY NoPromiseSent DEF IsFreeOut, IsFree

\* The steps that change neither logs, promises nor leader states.
LEMMA QuietNone ==
    ASSUME TypeOK, NoUnsynced, NEW s \in Server, NEW out, IsFreeOut(out), FreeStep(s, out),
           UNCHANGED <<fast, lead>>,
           \/ UNCHANGED state
           \/ state' = [state EXCEPT ![s].role = "Follower"]
           \/ state' = [state EXCEPT ![s].role = "Follower", ![s].phase = "Recover"]
           \/ state' = [state EXCEPT ![s].phase = "Recover"]
    PROVE  NoUnsynced'
<1>1. \A t \in Server : NoneAdded(t)
    BY DEF TypeOK, StateOK, NoneAdded
<1> QED BY <1>1, FreeNoPromise, NoneSent

\* The user's entries and the follower's releases leave the logs alone.
LEMMA AppendNone ==
    ASSUME TypeOK, NoUnsynced, NEW s \in Server, NEW id \in EntryId, NEW deadline \in 1..MaxDeadline,
           NEW ext \in Extensions, AppendWithId(s, id, deadline, ext)
    PROVE  NoUnsynced'
<1> DEFINE out == Proposals(s, <<<<deadline, id>>>>)
<1>1. <<<<deadline, id>>>> \in Seq(Key)
    BY BoundAssumption DEF Key
<1>2. IsFreeOut(out)
    BY <1>1, ProposalsOut DEF IsFreeOut, IsFree, FromLeader
<1>3. FreeStep(s, out)
    BY DEF AppendWithId, FreeStep
<1> HIDE DEF out
<1> QED BY <1>2, <1>3, QuietNone DEF AppendWithId

\* Neither a deposed leader, a dropped proposal nor a lost message adds anything.
LEMMA FollowNone ==
    ASSUME TypeOK, NoUnsynced, NEW from \in Server, NEW s \in Server, NEW b, NEW e,
           BecomeFollower(s, b) \/ ReleaseNothing(s, e) \/ Lose(from, s)
    PROVE  NoUnsynced'
<1>1. \A t \in Server : NoneAdded(t)
    BY DEF BecomeFollower, ReleaseNothing, Lose, TypeOK, StateOK, NoneAdded
<1>2. SendsNoPromise
    <2>1. CASE UNCHANGED net
        BY <2>1 DEF SendsNoPromise
    <2>2. CASE Lose(from, s)
        <3> DEFINE taken == [net EXCEPT ![from][s] = Tail(@)]
        <3>1. IsChannels(net) /\ net[from][s] # <<>> /\ net' = taken
            BY <2>2 DEF Lose, TypeOK, NetOK, IsChannels, IsOut, IsQueue
        <3>2. \A a, c \in Server : Range(taken[a][c]) \subseteq Range(net[a][c])
            BY <3>1, TakeQueues
        <3> HIDE DEF taken
        <3> QED BY <3>1, <3>2 DEF SendsNoPromise
    <2> QED BY <2>1, <2>2 DEF BecomeFollower, ReleaseNothing
<1> QED BY <1>1, <1>2, NoneSent

\* Neither do the handlers and timers that only ask, refuse or ignore.
LEMMA QuietHandlersNone ==
    ASSUME TypeOK, NoUnsynced, NEW from \in Server, NEW s \in Server,
           \/ \E ext \in Extensions : ReceiveDomPropose(from, s, ext)
           \/ Ignore(from, s) \/ RejectOldBallot(from, s) \/ DetectDropped(from, s)
    PROVE  NoUnsynced'
<1>1. CASE \E ext \in Extensions : ReceiveDomPropose(from, s, ext)
    <2>1. FreeStep(s, Silent) /\ IsFreeOut(Silent)
        BY <1>1, SilentOut DEF ReceiveDomPropose, FreeStep, Arrives, IsFreeOut
    <2> QED BY <1>1, <2>1, QuietNone DEF ReceiveDomPropose
<1>2. CASE Ignore(from, s)
    <2>1. FreeStep(s, Silent) /\ IsFreeOut(Silent)
        BY <1>2, SilentOut DEF Ignore, FreeStep, IsFreeOut
    <2> QED BY <1>2, <2>1, QuietNone DEF Ignore
<1>3. CASE RejectOldBallot(from, s)
    <2> DEFINE msg == [type |-> "NotAccepted", n |-> store[s].promise]
               out == To(PidOf(Msg(from, s).n), msg)
    <2>1. FreeStep(s, out)
        BY <1>3 DEF RejectOldBallot, FreeStep, Arrives
    <2>2. IsFree(msg)
        BY FreeMessages
    <2> HIDE DEF msg
    <2>3. IsFreeOut(out)
        BY <2>2, FreeOuts
    <2> HIDE DEF out
    <2> QED BY <1>3, <2>1, <2>3, QuietNone DEF RejectOldBallot
<1>4. CASE DetectDropped(from, s)
    <2> DEFINE out == To(PidOf(Msg(from, s).n), PrepareReqMsg(s))
    <2>1. FreeStep(s, out)
        BY <1>4 DEF DetectDropped, FreeStep, Arrives
    <2>2. IsFreeOut(out)
        BY FreeMessages, FreeOuts
    <2> HIDE DEF out
    <2>3. UNCHANGED state \/ state' = [state EXCEPT ![s].role = "Follower", ![s].phase = "Recover"]
        BY <1>4 DEF DetectDropped, Reconnect
    <2> QED BY <1>4, <2>1, <2>2, <2>3, QuietNone DEF DetectDropped
<1> QED BY <1>1, <1>2, <1>3, <1>4

\* The timers send a cached promise at most, which has no unsynced entries.
LEMMA TimersNone ==
    ASSUME TypeOK, NoUnsynced, NEW s \in Server,
           \/ ResendAtLeader(s) \/ ResendPrepareReq(s) \/ ResendPromise(s)
           \/ \E pid \in Server : Reconnected(s, pid)
    PROVE  NoUnsynced'
<1>1. CASE ResendAtLeader(s)
    <2> DEFINE msg == PrepareMsg(lead[s].n, store[s])
               out == ToAll(PreparablePeers(lead[s], s), msg)
    <2>1. FreeStep(s, out)
        BY <1>1 DEF ResendAtLeader, FreeStep
    <2>2. IsFreeOut(out)
        BY FreeMessages, FreeOuts
    <2> HIDE DEF out
    <2> QED BY <1>1, <2>1, <2>2, QuietNone DEF ResendAtLeader
<1>2. CASE ResendPrepareReq(s)
    <2> DEFINE out == ToAll(Peers(s), PrepareReqMsg(s))
    <2>1. FreeStep(s, out)
        BY <1>2 DEF ResendPrepareReq, FreeStep
    <2>2. IsFreeOut(out)
        BY FreeMessages, FreeOuts
    <2> HIDE DEF out
    <2> QED BY <1>2, <2>1, <2>2, QuietNone DEF ResendPrepareReq
<1>3. CASE \E pid \in Server : Reconnected(s, pid)
    <2>1. PICK pid \in Server : Reconnected(s, pid)
        BY <1>3
    <2> DEFINE out == To(pid, PrepareReqMsg(s))
    <2>2. FreeStep(s, out)
        BY <2>1 DEF Reconnected, FreeStep
    <2>3. IsFreeOut(out)
        BY FreeMessages, FreeOuts
    <2> HIDE DEF out
    <2>4. UNCHANGED state \/ state' = [state EXCEPT ![s].role = "Follower", ![s].phase = "Recover"]
        BY <2>1 DEF Reconnected, Reconnect
    <2> QED BY <2>1, <2>2, <2>3, <2>4, QuietNone DEF Reconnected
<1>4. CASE ResendPromise(s)
    <2>1. PICK m : m = state[s].cached
        OBVIOUS
    <2> DEFINE out == To(PidOf(m.n), m)
    <2>2. Send(s, out) /\ m # None /\ DOMAIN m.unsync = {}
        BY <1>4, <2>1 DEF ResendPromise, NoUnsynced
    <2>3. IsOut(out) /\ \A t \in Server : \A x \in Range(out[t]) : x = m
        BY ToOut
    <2> HIDE DEF out
    <2>4. Adds(s, out)
        BY <2>2, <2>3, SendAdds DEF TypeOK
    <2>5. \A a, b \in Server : \A x \in Range(net'[a][b]) :
              x \in Range(net[a][b]) \/ (x.type = "Promise" => DOMAIN x.unsync = {})
        BY <2>2, <2>3, <2>4 DEF Adds
    <2>6. \A t \in Server : NoneAdded(t)
        BY <1>4 DEF ResendPromise, NoneAdded
    <2> QED BY <2>5, <2>6, NoneLeftAnywhere
<1> QED BY <1>1, <1>2, <1>3, <1>4

\* A new leader holds its own unsynced log, which is empty.
LEMMA BecomeLeaderNone ==
    ASSUME TypeOK, NoUnsynced, NEW s \in Server, NEW b \in 1..MaxBallot, BecomeLeader(s, b)
    PROVE  NoUnsynced'
<1> DEFINE st == [store[s] EXCEPT !.promise = b]
           own == [n |-> b, nAccepted |-> st.accRound, decided |-> st.decided,
                   accIdx |-> Len(st.log), sync |-> None,
                   unsync |-> fast[s].unsynced, hash |-> fast[s].prefixHash]
           new == LeaderStateWith(b)
           ls == SetPromise(new, own, s, TRUE)
           out == ToAll(Peers(s), PrepareMsg(b, st))
<1>1. /\ lead' = [lead EXCEPT ![s] = ls] /\ Send(s, out) /\ UNCHANGED fast
      /\ state' = [state EXCEPT ![s].role = "Leader", ![s].phase = "Prepare"]
    BY DEF BecomeLeader
<1>2. SendsNoPromise
    <2> HIDE DEF st
    <2>1. IsFreeOut(out)
        BY FreeMessages, FreeOuts
    <2> QED BY <1>1, <2>1, FreeNoPromise DEF FreeStep
<1>3. own.unsync = fast[s].unsynced /\ IsLeaderState(new) /\ new.unsynced = [t \in Server |-> <<>>]
    <2>1. b \in Ballot
        BY BallotAssumption DEF Ballot
    <2>2. new.unsynced = [t \in Server |-> <<>>]
        BY DEF LeaderStateWith
    <2> QED BY <2>1, <2>2, LeaderStateWithType
<1> HIDE DEF own, new, st, out
<1>4. ls.unsynced = [new.unsynced EXCEPT ![s] = own.unsync]
    <2>1. Records(ls, new, own, s, MoreUpToDate(own, new.maxMeta))
        BY <1>3, SetPromiseFields
    <2> HIDE DEF ls
    <2> QED BY <2>1 DEF Records
<1> HIDE DEF ls
<1>5. lead'[s] = ls /\ state'[s].cached = state[s].cached /\ \A t \in Server \ {s} : NoneAdded(t)
    BY <1>1 DEF TypeOK, LeadOK, StateOK, NoneAdded
<1>6. \A t \in Server : DOMAIN ls.unsynced[t] = {}
    BY <1>3, <1>4 DEF NoUnsynced
<1>7. NoneLeft(s)
    BY <1>1, <1>5, <1>6 DEF NoneLeft, NoUnsynced
<1> QED BY <1>2, <1>5, <1>7, NoneSent

\* A promise carries the follower's unsynced log, which is empty.
LEMMA ReceivePrepareNone ==
    ASSUME TypeOK, NoUnsynced, NEW from \in Server, NEW s \in Server, ReceivePrepare(from, s)
    PROVE  NoUnsynced'
<1>1. \E promise : /\ promise.unsync = fast[s].unsynced
                   /\ state' = [state EXCEPT ![s] = [role |-> "Follower", phase |-> "Prepare",
                                                     seq |-> Zero, cached |-> promise]]
                   /\ Receive(from, s, To(from, promise))
    BY DEF ReceivePrepare
<1>2. PICK promise : /\ promise.unsync = fast[s].unsynced
                     /\ state' = [state EXCEPT ![s] = [role |-> "Follower", phase |-> "Prepare",
                                                       seq |-> Zero, cached |-> promise]]
                     /\ Receive(from, s, To(from, promise))
    BY <1>1
<1> DEFINE out == To(from, promise)
<1>3. IsOut(out) /\ \A t \in Server : \A m \in Range(out[t]) : m = promise
    BY ToOut
<1>4. net[from][s] # <<>> /\ Receive(from, s, out) /\ UNCHANGED <<fast, lead>>
    BY <1>2, ArrivesType DEF ReceivePrepare, TypeOK
<1> HIDE DEF out
<1>5. Adds(s, out)
    BY <1>3, <1>4, ReceiveAdds DEF TypeOK
<1>6. DOMAIN promise.unsync = {}
    BY <1>2 DEF NoUnsynced
<1>7. \A a, b \in Server : \A m \in Range(net'[a][b]) :
          m \in Range(net[a][b]) \/ (m.type = "Promise" => DOMAIN m.unsync = {})
    BY <1>3, <1>5, <1>6 DEF Adds
<1>8. state'[s].cached = promise /\ \A t \in Server \ {s} : NoneAdded(t)
    BY <1>2, <1>4 DEF TypeOK, StateOK, NoneAdded
<1>9. NoneLeft(s)
    BY <1>4, <1>6, <1>8 DEF NoneLeft, NoUnsynced
<1> QED BY <1>7, <1>8, <1>9, NoneLeftAnywhere

\* What a leader records of a promise is empty too.
LEMMA RecordedNone ==
    ASSUME TypeOK, NoUnsynced, NEW from \in Server, NEW s \in Server, Arrives(from, s, "Promise"),
           NEW ls, \/ ls = SetPromise(lead[s], Msg(from, s), from, TRUE)
                   \/ ls = SetPromise(lead[s], Msg(from, s), from, FALSE)
    PROVE  /\ net[from][s] # <<>> /\ IsLeaderState(ls)
           /\ \A t \in Server : DOMAIN ls.unsynced[t] = {}
<1>1. /\ net[from][s] # <<>> /\ Msg(from, s) \in Range(net[from][s]) /\ Msg(from, s).type = "Promise"
    BY ArrivesType DEF TypeOK
<1>2. DOMAIN Msg(from, s).unsync = {}
    BY <1>1 DEF NoUnsynced
<1>3. IsLeaderState(lead[s])
    BY DEF TypeOK, LeadOK
<1>4. PICK m, old : m = Msg(from, s) /\ old = lead[s]
    OBVIOUS
<1>5. ls.unsynced = [old.unsynced EXCEPT ![from] = m.unsync]
    <2>1. \/ Records(ls, old, m, from, MoreUpToDate(m, old.maxMeta))
          \/ Records(ls, old, m, from, FALSE)
        BY <1>3, <1>4, SetPromiseFields
    <2> QED BY <2>1 DEF Records
<1>6. \A t \in Server : DOMAIN old.unsynced[t] = {}
    BY <1>4 DEF NoUnsynced
<1>7. IsLeaderState(ls)
    <2>1. \A check \in BOOLEAN : IsLeaderState(SetPromise(lead[s], Msg(from, s), from, check))
        BY PromiseReceived
    <2> QED BY <2>1
<1> QED BY <1>1, <1>2, <1>3, <1>4, <1>5, <1>6, <1>7 DEF IsLeaderState

\* A promise that does not complete a quorum.
LEMMA RecordPromiseNone ==
    ASSUME TypeOK, NoUnsynced, NEW from \in Server, NEW s \in Server, NEW ext \in Extensions,
           ReceivePromise(from, s, ext), ~CompletesQuorum(from, s)
    PROVE  NoUnsynced'
<1>1. PICK ls : ls = SetPromise(lead[s], Msg(from, s), from, TRUE)
    OBVIOUS
<1>2. /\ Arrives(from, s, "Promise") /\ lead' = [lead EXCEPT ![s] = ls]
      /\ Receive(from, s, Silent) /\ UNCHANGED <<state, fast>>
    BY <1>1 DEF ReceivePromise, CompletesQuorum
<1>3. net[from][s] # <<>> /\ \A t \in Server : DOMAIN ls.unsynced[t] = {}
    BY <1>1, <1>2, RecordedNone
<1>4. SendsNoPromise
    <2>1. IsOut(Silent) /\ \A t \in Server : Range(Silent[t]) = {}
        BY SilentOut
    <2>2. FreeStep(s, Silent)
        BY <1>2, <1>3 DEF FreeStep
    <2> QED BY <2>1, <2>2, NoPromiseSent
<1>5. lead'[s] = ls /\ \A t \in Server \ {s} : NoneAdded(t)
    BY <1>2 DEF TypeOK, LeadOK, NoneAdded
<1>6. NoneLeft(s)
    BY <1>2, <1>3, <1>5 DEF NoneLeft, NoUnsynced
<1> QED BY <1>4, <1>5, <1>6, NoneSent

\* AcceptSync to each server of T and nothing else, which is no promise.
SyncsTo(out, ls, st, hash, T) ==
    /\ DOMAIN out = Server
    /\ \A t \in Server : out[t] = IF t \in T THEN <<AcceptSync(ls, st, hash, t)>> ELSE <<>>

\* A leader that starts its followers sends no promise.
LEMMA AcceptSyncsOnly ==
    ASSUME NEW out, NEW ls, NEW st, NEW hash, NEW T, SyncsTo(out, ls, st, hash, T)
    PROVE  IsOut(out) /\ \A t \in Server : \A m \in Range(out[t]) : m.type # "Promise"
<1>1. \A t \in Server : AcceptSync(ls, st, hash, t).type # "Promise"
    BY DEF AcceptSync
<1>2. ASSUME NEW t \in Server
      PROVE  IsQueue(out[t]) /\ \A m \in Range(out[t]) : m.type # "Promise"
    <2>1. PICK x : x = AcceptSync(ls, st, hash, t)
        OBVIOUS
    <2>2. out[t] = <<x>> \/ out[t] = <<>>
        BY <2>1 DEF SyncsTo
    <2> QED BY ZenonT(60), <1>1, <2>1, <2>2, SingletonQueue, EmptyQueue
<1> QED BY <1>2 DEF IsOut, SyncsTo

\* The promise that completes a quorum.
LEMMA MajorityNone ==
    ASSUME TypeOK, NoUnsynced, NEW from \in Server, NEW s \in Server, NEW ext \in Extensions,
           ReceivePromise(from, s, ext), CompletesQuorum(from, s)
    PROVE  NoUnsynced'
<1>1. PICK ls : ls = SetPromise(lead[s], Msg(from, s), from, TRUE)
    OBVIOUS
<1>2. Arrives(from, s, "Promise")
    BY DEF ReceivePromise
<1>3. net[from][s] # <<>> /\ \A t \in Server : DOMAIN ls.unsynced[t] = {}
    BY <1>1, <1>2, RecordedNone
<1>4. DOMAIN fast[s].unsynced = {}
    BY DEF NoUnsynced
<1>5. PICK st, next, hash, out : IsStart(from, s, ls, st, next, hash, out)
    BY <1>1, <1>3, <1>4, EmptyMajority
<1>6. SendsNoPromise
    <2>1. PICK T : T = PromisedFollowers(ls)
        OBVIOUS
    <2>2. SyncsTo(out, next, st, hash, T)
        BY <1>5, <2>1 DEF IsStart, Short, IsOut, SyncsTo
    <2>3. IsOut(out) /\ \A t \in Server : \A m \in Range(out[t]) : m.type # "Promise"
        BY <2>2, AcceptSyncsOnly
    <2>4. FreeStep(s, out)
        BY <1>5 DEF IsStart, FreeStep
    <2> QED BY <2>3, <2>4, NoPromiseSent
<1>7. /\ lead'[s] = next /\ state'[s].cached = state[s].cached /\ next.unsynced = ls.unsynced
      /\ DOMAIN fast'[s].unsynced = {} /\ \A t \in Server \ {s} : NoneAdded(t)
    BY <1>5 DEF IsStart, TypeOK, LeadOK, StateOK, NoneAdded
<1>8. NoneLeft(s)
    BY <1>3, <1>7 DEF NoneLeft, NoUnsynced
<1> QED BY <1>6, <1>7, <1>8, NoneSent

\* A promise after the quorum.
LEMMA LatePromiseNone ==
    ASSUME TypeOK, NoUnsynced, NEW from \in Server, NEW s \in Server, ReceiveLatePromise(from, s)
    PROVE  NoUnsynced'
<1>1. PICK ls, next, T, st, hash : /\ ls = SetPromise(lead[s], Msg(from, s), from, FALSE)
                                   /\ next = NextSession(ls, T) /\ T = {from}
                                   /\ st = store[s] /\ hash = fast[s].prefixHash
    OBVIOUS
<1> DEFINE out == [t \in Server |-> IF t \in T THEN <<AcceptSync(next, st, hash, t)>> ELSE <<>>]
<1>2. /\ Arrives(from, s, "Promise") /\ lead' = [lead EXCEPT ![s] = next]
      /\ Receive(from, s, out) /\ UNCHANGED <<state, fast>>
    BY <1>1 DEF ReceiveLatePromise, SendAcceptSync
<1>3. net[from][s] # <<>> /\ IsLeaderState(ls) /\ \A t \in Server : DOMAIN ls.unsynced[t] = {}
    BY <1>1, <1>2, RecordedNone
<1>4. next.unsynced = ls.unsynced
    <2>1. Numbered(next, ls, T, SessionsAfter(ls))
        BY <1>1, <1>3, NumberedNext
    <2> QED BY <2>1 DEF Numbered
<1>5. SyncsTo(out, next, st, hash, T)
    BY DEF SyncsTo
<1> HIDE DEF out
<1>6. SendsNoPromise
    <2>1. IsOut(out) /\ \A t \in Server : \A m \in Range(out[t]) : m.type # "Promise"
        BY <1>5, AcceptSyncsOnly
    <2>2. FreeStep(s, out)
        BY <1>2, <1>3 DEF FreeStep
    <2> QED BY <2>1, <2>2, NoPromiseSent
<1>7. lead'[s] = next /\ \A t \in Server \ {s} : NoneAdded(t)
    BY <1>2 DEF TypeOK, LeadOK, NoneAdded
<1>8. NoneLeft(s)
    BY <1>2, <1>3, <1>4, <1>7 DEF NoneLeft, NoUnsynced
<1> QED BY <1>6, <1>7, <1>8, NoneSent

\* A dropped promise.
LEMMA DroppedPromisesNone ==
    ASSUME TypeOK, NoUnsynced, NEW from \in Server, NEW s \in Server,
           ReceivePrepareReq(from, s) \/ ReceiveNotAccepted(from, s)
    PROVE  NoUnsynced'
<1>1. UNCHANGED <<state, fast>> /\ \A t \in Server : lead'[t].unsynced = lead[t].unsynced
    <2>1. \E p : lead' = [lead EXCEPT ![s].promises[from] = p]
        BY DEF ReceivePrepareReq, ReceiveNotAccepted
    <2>2. PICK p : lead' = [lead EXCEPT ![s].promises[from] = p]
        BY <2>1
    <2>3. IsLeaderState(lead[s]) /\ DOMAIN lead = Server
        BY DEF TypeOK, LeadOK
    <2>4. [lead[s] EXCEPT !.promises[from] = p].unsynced = lead[s].unsynced
        BY <2>3 DEF IsLeaderState
    <2>5. lead'[s] = [lead[s] EXCEPT !.promises[from] = p] /\ \A t \in Server \ {s} : lead'[t] = lead[t]
        BY <2>2, <2>3
    <2>6. UNCHANGED <<state, fast>>
        BY DEF ReceivePrepareReq, ReceiveNotAccepted
    <2> QED BY <2>4, <2>5, <2>6
<1>2. \A t \in Server : NoneAdded(t)
    BY <1>1 DEF NoneAdded
<1>3. SendsNoPromise
    <2>1. CASE ReceivePrepareReq(from, s)
        <3> DEFINE out == To(from, PrepareMsg(lead[s].n, store[s]))
        <3>1. IsFreeOut(out)
            BY FreeMessages, FreeOuts
        <3>2. FreeStep(s, out)
            BY <2>1 DEF ReceivePrepareReq, FreeStep, Arrives
        <3> HIDE DEF out
        <3> QED BY <3>1, <3>2, FreeNoPromise
    <2>2. CASE ReceiveNotAccepted(from, s)
        <3>1. FreeStep(s, Silent) /\ IsFreeOut(Silent)
            BY <2>2, SilentOut DEF ReceiveNotAccepted, FreeStep, Arrives, IsFreeOut
        <3> QED BY <3>1, FreeNoPromise
    <2> QED BY <2>1, <2>2
<1> QED BY <1>2, <1>3, NoneSent

\* AcceptSync resets the unsynced log.
LEMMA AcceptSyncNone ==
    ASSUME TypeOK, NoUnsynced, NEW from \in Server, NEW s \in Server, ReceiveAcceptSync(from, s)
    PROVE  NoUnsynced'
<1>1. \E after, own, accIdx, n :
          /\ after.cached = None /\ own.unsynced = <<>>
          /\ state' = [state EXCEPT ![s] = after] /\ fast' = [fast EXCEPT ![s] = own]
          /\ Receive(from, s, To(from, [type |-> "Accepted", n |-> n, accIdx |-> accIdx]))
    BY DEF ReceiveAcceptSync, FreshFast
<1>2. PICK after, own, accIdx, n :
          /\ after.cached = None /\ own.unsynced = <<>>
          /\ state' = [state EXCEPT ![s] = after] /\ fast' = [fast EXCEPT ![s] = own]
          /\ Receive(from, s, To(from, [type |-> "Accepted", n |-> n, accIdx |-> accIdx]))
    BY <1>1
<1> DEFINE out == To(from, [type |-> "Accepted", n |-> n, accIdx |-> accIdx])
<1>3. SendsNoPromise
    <2>1. IsFreeOut(out)
        BY FreeMessages, FreeOuts
    <2>2. FreeStep(s, out)
        BY <1>2 DEF ReceiveAcceptSync, Arrives, FreeStep
    <2> HIDE DEF out
    <2> QED BY <2>1, <2>2, FreeNoPromise
<1>4. /\ state'[s] = after /\ fast'[s] = own /\ lead' = lead
      /\ \A t \in Server \ {s} : NoneAdded(t)
    BY <1>2 DEF ReceiveAcceptSync, TypeOK, StateOK, FastOK, NoneAdded
<1>5. NoneLeft(s)
    BY <1>2, <1>4 DEF NoneLeft, NoUnsynced
<1> QED BY <1>3, <1>4, <1>5, NoneSent

\* AcceptDecide rebuilds an unsynced log that was empty.
LEMMA AcceptDecideNone ==
    ASSUME TypeOK, NoUnsynced, NEW from \in Server, NEW s \in Server, ReceiveAcceptDecide(from, s)
    PROVE  NoUnsynced'
<1> DEFINE m == Msg(from, s)
           log == Append(store[s].log, m.e[2])
           tail == PreservedTail(fast[s].unsynced, m.e)
           own == RebuildUnsynced(Len(log), m.hash, tail)
           out == To(PidOf(m.n), [type |-> "Accepted", n |-> m.n, accIdx |-> Len(log)])
<1>1. /\ net[from][s] # <<>> /\ Receive(from, s, out) /\ UNCHANGED lead
      /\ fast' = [fast EXCEPT ![s] = own] /\ state' = [state EXCEPT ![s].seq = m.seq]
    BY DEF ReceiveAcceptDecide, Arrives
<1>2. Len(log) \in Nat
    <2>1. Msg(from, s).e \in Key
        BY ArrivesType, MessageFields DEF TypeOK, ReceiveAcceptDecide
    <2>2. store[s].log \in Seq(EntryId) /\ m.e[2] \in EntryId
        BY <2>1, StoreFacts DEF Key, Logs
    <2> QED BY <2>2, AppendProperties, LenProperties
<1>3. SendsNoPromise
    <2>1. IsFreeOut(out)
        BY FreeMessages, FreeOuts
    <2>2. FreeStep(s, out)
        BY <1>1 DEF FreeStep
    <2> HIDE DEF out
    <2> QED BY <2>1, <2>2, FreeNoPromise
<1>4. tail = {}
    BY DEF NoUnsynced, PreservedTail
<1>5. DOMAIN own.unsynced = {}
    <2>1. DOMAIN own.unsynced = (Len(log) + 1)..(Len(log) + Cardinality(tail))
        BY DEF RebuildUnsynced
    <2> HIDE DEF own, log, tail
    <2>2. Cardinality(tail) = 0
        BY <1>4, FS_EmptySet
    <2> QED BY <1>2, <2>1, <2>2
<1> HIDE DEF m, log, tail, own, out
<1>6. /\ fast'[s] = own /\ lead' = lead /\ state'[s].cached = state[s].cached
      /\ \A t \in Server \ {s} : NoneAdded(t)
    BY <1>1 DEF TypeOK, StateOK, FastOK, NoneAdded
<1>7. NoneLeft(s)
    BY <1>5, <1>6 DEF NoneLeft, NoUnsynced
<1> QED BY <1>3, <1>6, <1>7, NoneSent

\* Decide does not touch it.
LEMMA DecideNone ==
    ASSUME TypeOK, NoUnsynced, NEW from \in Server, NEW s \in Server, ReceiveDecide(from, s)
    PROVE  NoUnsynced'
<1>1. PICK m, len : m = Msg(from, s) /\ len = Len(store[s].log)
    OBVIOUS
<1> DEFINE answer == To(PidOf(m.n), [type |-> "Accepted", n |-> m.n, accIdx |-> len])
<1>2. PICK out : /\ out = answer \/ out = Silent
                 /\ net[from][s] # <<>> /\ Receive(from, s, out) /\ UNCHANGED <<fast, lead>>
                 /\ state' = [state EXCEPT ![s].seq = m.seq]
    BY <1>1 DEF ReceiveDecide, Arrives
<1>3. SendsNoPromise
    <2>1. IsFreeOut(answer) /\ IsFreeOut(Silent)
        BY FreeMessages, FreeOuts
    <2>2. FreeStep(s, out)
        BY <1>2 DEF FreeStep
    <2> HIDE DEF answer
    <2> QED BY <1>2, <2>1, <2>2, FreeNoPromise
<1>4. \A t \in Server : NoneAdded(t)
    BY <1>2 DEF TypeOK, StateOK, NoneAdded
<1> QED BY <1>3, <1>4, NoneSent

\* A decision does not touch what the leader has recorded.
LEMMA DecidedUnsynced ==
    ASSUME NEW ls, IsLeaderState(ls), NEW st, NEW idx \in Nat
    PROVE  DecideUpTo(ls, st, idx).lead.unsynced = ls.unsynced
<1>1. PICK mid, F : mid = [ls EXCEPT !.map = PruneAcceptedMap(@, idx)] /\ F = PromisedFollowers(ls)
    OBVIOUS
<1>2. DecideUpTo(ls, st, idx).lead = NextSeq(mid, F)
    BY <1>1 DEF DecideUpTo
<1>3. IsLeaderState(mid) /\ mid.unsynced = ls.unsynced
    <2>1. IsAcceptedMap(PruneAcceptedMap(ls.map, idx))
        BY PruneType DEF IsLeaderState, IsAcceptedMap
    <2> QED BY <1>1, <2>1 DEF IsLeaderState, IsAcceptedMap
<1>4. Numbered(NextSeq(mid, F), mid, F, CountersAfter(mid))
    BY <1>3, NumberedNext
<1> QED BY <1>2, <1>3, <1>4 DEF Numbered

\* An Accepted is counted.
LEMMA AcceptedNone ==
    ASSUME TypeOK, NoUnsynced, NEW from \in Server, NEW s \in Server, ReceiveAccepted(from, s)
    PROVE  NoUnsynced'
<1> DEFINE idx == Msg(from, s).accIdx
           ls == [lead[s] EXCEPT !.accIdx[from] = idx]
           chosen == idx > store[s].decided /\ IsChosen(ls, idx)
           done == IF chosen THEN DecideUpTo(ls, store[s], idx)
                   ELSE [store |-> store[s], lead |-> ls, out |-> Silent]
<1>1. /\ net[from][s] # <<>> /\ idx \in Nat /\ IsLeaderState(ls)
      /\ IsDecision(done, ls, store[s], idx)
    BY AcceptedDecision
<1>2. lead' = [lead EXCEPT ![s] = done.lead] /\ Receive(from, s, done.out) /\ UNCHANGED <<state, fast>>
    BY DEF ReceiveAccepted
<1>3. IsLeaderState(lead[s]) /\ DOMAIN lead = Server
    BY DEF TypeOK, LeadOK
<1>4. ls.unsynced = lead[s].unsynced
    BY <1>3 DEF IsLeaderState
<1>5. done.lead.unsynced = lead[s].unsynced
    <2>1. CASE chosen
        <3>1. done = DecideUpTo(ls, store[s], idx)
            BY <2>1
        <3> HIDE DEF ls, idx, done
        <3>2. DecideUpTo(ls, store[s], idx).lead.unsynced = ls.unsynced
            BY <1>1, DecidedUnsynced
        <3> QED BY <1>4, <3>1, <3>2
    <2>2. CASE ~chosen
        <3>1. done.lead = ls
            BY <2>2
        <3> HIDE DEF ls, done
        <3> QED BY <1>4, <3>1
    <2> QED BY <2>1, <2>2
<1> HIDE DEF idx, ls, chosen, done
<1>6. SendsNoPromise
    <2>1. PICK out : out = done.out
        OBVIOUS
    <2>2. IsOut(out) /\ \A t \in Server : \A m \in Range(out[t]) : m.type # "Promise"
        BY <1>1, <2>1 DEF IsDecision
    <2>3. FreeStep(s, out)
        BY <1>1, <1>2, <2>1 DEF FreeStep
    <2> QED BY <2>2, <2>3, NoPromiseSent
<1>7. \A t \in Server : NoneAdded(t)
    BY <1>2, <1>3, <1>5 DEF NoneAdded
<1> QED BY <1>6, <1>7, NoneSent

\* A restarted server begins with nothing.
LEMMA RestartNone ==
    ASSUME TypeOK, NoUnsynced, NEW s \in Server, NEW st, Restart(s, st)
    PROVE  NoUnsynced'
<1>1. \E after, own, new : /\ after.cached = None /\ own.unsynced = <<>> /\ new.unsynced = [t \in Server |-> <<>>]
                           /\ state' = [state EXCEPT ![s] = after] /\ fast' = [fast EXCEPT ![s] = own]
                           /\ lead' = [lead EXCEPT ![s] = new]
    BY DEF Restart, FreshFast, LeaderStateWith
<1>2. PICK after, own, new :
          /\ after.cached = None /\ own.unsynced = <<>> /\ new.unsynced = [t \in Server |-> <<>>]
          /\ state' = [state EXCEPT ![s] = after] /\ fast' = [fast EXCEPT ![s] = own]
          /\ lead' = [lead EXCEPT ![s] = new]
    BY <1>1
<1>3. SendsNoPromise
    BY CrashNet DEF SendsNoPromise
<1>4. /\ state'[s] = after /\ fast'[s] = own /\ lead'[s] = new
      /\ \A t \in Server \ {s} : NoneAdded(t)
    BY <1>2 DEF TypeOK, StateOK, FastOK, LeadOK, NoneAdded
<1>5. NoneLeft(s)
    BY <1>2, <1>4 DEF NoneLeft
<1> QED BY <1>3, <1>4, <1>5, NoneSent

\* Wherever it crashes.
LEMMA CrashNone ==
    ASSUME TypeOK, NoUnsynced, NEW from \in Server, NEW s \in Server,
           CrashRestart(s) \/ CrashInRecovery(from, s)
    PROVE  NoUnsynced'
BY ZenonT(60), RestartNone DEF CrashRestart, CrashInRecovery

\* A leader that releases a proposal appends it to its log.
LEMMA ReleaseAtLeaderNone ==
    ASSUME ~EnableFastPath, TypeOK, NoUnsynced, NEW s \in Server, NEW e \in dom[s].early,
           ReleaseAtLeader(s, e)
    PROVE  NoUnsynced'
<1> DEFINE map == SetAcceptedMap(lead[s].map, lead[s].accIdx[s] + 1, e, fast[s].prefixHash, s, FALSE)
           st0 == [store[s] EXCEPT !.log = Append(@, e[2])]
           mid0 == [lead[s] EXCEPT !.map = map, !.accIdx[s] = Len(st0.log)]
           next0 == NextSeq(mid0, PromisedFollowers(lead[s]))
           hash0 == Xor(fast[s].prefixHash, {e})
           accDec0(t) == [type |-> "AcceptDecide", n |-> next0.n, seq |-> next0.seqs[t],
                          decided |-> st0.decided, e |-> e, hash |-> hash0]
           sent0 == [t \in Server |-> IF t \in PromisedFollowers(next0) THEN <<accDec0(t)>> ELSE <<>>]
           done0 == TryFastDecide(s, next0, st0, Len(st0.log))
<1>1. /\ lead' = [lead EXCEPT ![s] = done0.lead] /\ Send(s, Then(sent0, done0.out)) /\ UNCHANGED state
      /\ fast' = [fast EXCEPT ![s].prefixHash = hash0]
    BY DEF ReleaseAtLeader
<1>2. done0.lead = next0 /\ done0.out = Silent
    <2> HIDE DEF st0, next0
    <2>1. ~CanFastDecide(s, next0, st0, Len(st0.log))
        BY DEF CanFastDecide
    <2> QED BY <2>1 DEF TryFastDecide
<1>3. IsLeaderState(lead[s]) /\ DOMAIN lead = Server
    BY DEF TypeOK, LeadOK
<1>4. e \in Key /\ e[2] \in EntryId
    BY DEF TypeOK, DomOK, Key
<1>5. Len(st0.log) \in Nat
    <2>1. store[s].log \in Seq(EntryId) /\ store[s] \in Stored
        BY StoreFacts DEF Logs, TypeOK, StoreOK
    <2>2. st0.log = Append(store[s].log, e[2])
        BY <2>1 DEF Stored
    <2> HIDE DEF st0
    <2> QED BY <1>4, <2>1, <2>2, AppendProperties, LenProperties
<1>6. IsAcceptedMap(map)
    <2>1. fast[s].prefixHash \in Hash /\ lead[s].accIdx[s] + 1 \in Nat /\ IsAcceptedMap(lead[s].map)
        BY <1>3 DEF TypeOK, FastOK, IsLeaderState, IsAcceptedMap
    <2> QED BY <1>4, <2>1, SetAcceptedMapType
<1> HIDE DEF map, st0, hash0, done0
<1>7. IsLeaderState(mid0) /\ mid0.unsynced = lead[s].unsynced
    BY <1>3, <1>5, <1>6 DEF IsLeaderState, IsAcceptedMap
<1>8. next0.unsynced = lead[s].unsynced
    <2> HIDE DEF mid0
    <2>1. Numbered(NextSeq(mid0, PromisedFollowers(lead[s])), mid0, PromisedFollowers(lead[s]), CountersAfter(mid0))
        BY <1>7, NumberedNext
    <2> QED BY <1>7, <2>1 DEF Numbered
<1> HIDE DEF mid0, next0
<1>9. SendsNoPromise
    <2>1. PICK out : out = Then(sent0, Silent)
        OBVIOUS
    <2>2. \A t \in Server : \E x : x.type # "Promise" /\ (out[t] = <<x>> \/ out[t] = <<>>)
        <3> SUFFICES ASSUME NEW t \in Server PROVE \E x : x.type # "Promise" /\ (out[t] = <<x>> \/ out[t] = <<>>)
            OBVIOUS
        <3>1. PICK x : x = accDec0(t)
            OBVIOUS
        <3>2. x.type = "AcceptDecide"
            BY <3>1
        <3> HIDE DEF accDec0
        <3>3. out[t] = (IF t \in PromisedFollowers(next0) THEN <<x>> ELSE <<>>) \o <<>>
            BY <2>1, <3>1 DEF Then, Silent
        <3>4. <<x>> \o <<>> = <<x>> /\ <<>> \o <<>> = <<>>
            OBVIOUS
        <3>5. out[t] = <<x>> \/ out[t] = <<>>
            BY <3>3, <3>4
        <3> QED BY <3>2, <3>5
    <2>3. IsOut(out) /\ \A t \in Server : \A m \in Range(out[t]) : m.type # "Promise"
        <3>1. DOMAIN out = Server
            BY <2>1 DEF Then
        <3> QED BY ZenonT(60), <2>2, <3>1, SingletonQueue, EmptyQueue DEF IsOut
    <2> HIDE DEF sent0
    <2>4. FreeStep(s, out)
        BY <1>1, <1>2, <2>1 DEF FreeStep
    <2> QED BY <2>3, <2>4, NoPromiseSent
<1>10. lead'[s].unsynced = lead[s].unsynced
    BY <1>1, <1>2, <1>3, <1>8
<1>11. \A t \in Server : NoneAdded(t)
    <2>1. \A t \in Server : fast'[t].unsynced = fast[t].unsynced
        BY <1>1 DEF TypeOK, FastOK
    <2>2. \A t \in Server : lead'[t].unsynced = lead[t].unsynced
        BY <1>1, <1>3, <1>10
    <2> QED BY <1>1, <2>1, <2>2 DEF NoneAdded
<1> QED BY SMTT(30), <1>9, <1>11, NoneSent

\* No step adds an unsynced entry.
LEMMA NextNone ==
    ASSUME ~EnableFastPath, TypeOK, NoUnsynced, [Next]_vars
    PROVE  NoUnsynced'
<1>1. CASE \E s \in Proposers, id \in EntryId, deadline \in 1..MaxDeadline, ext \in Extensions :
               AppendWithId(s, id, deadline, ext)
    BY <1>1, AppendNone, EntryAssumption
<1>2. CASE \E s \in Server : Elect(s)
    BY <1>2, BecomeLeaderNone, FollowNone DEF Elect
<1>3. CASE \E s \in Server : Release(s)
    <2>1. PICK s \in Server : \E e \in dom[s].early : ReleaseAtLeader(s, e) \/ ReleaseNothing(s, e)
        BY <1>3 DEF Release, ReleaseAtFollower
    <2> QED BY <2>1, ReleaseAtLeaderNone, FollowNone
<1>4. CASE \E s \in Server : \/ ResendAtLeader(s) \/ ResendPromise(s) \/ ResendPrepareReq(s)
                             \/ CrashRestart(s)
    BY <1>4, TimersNone, CrashNone
<1>5. CASE \E s \in Server : \E t \in Peers(s) : CrashInRecovery(t, s) \/ Lose(t, s) \/ Reconnected(s, t)
    BY <1>5, CrashNone, FollowNone, TimersNone DEF Peers
<1>6. ASSUME NEW s \in Server, NEW from \in Peers(s), Handle(from, s)
      PROVE  NoUnsynced'
    <2>1. from \in Server
        BY DEF Peers
    <2>2. CASE \/ \E ext \in Extensions : ReceiveDomPropose(from, s, ext)
               \/ Ignore(from, s) \/ RejectOldBallot(from, s) \/ DetectDropped(from, s)
        BY <2>1, <2>2, QuietHandlersNone
    <2>3. CASE \E ext \in Extensions : ReceivePromise(from, s, ext)
        BY <2>1, <2>3, RecordPromiseNone, MajorityNone
    <2>4. CASE \/ ReceivePrepare(from, s) \/ ReceiveLatePromise(from, s)
               \/ ReceivePrepareReq(from, s) \/ ReceiveNotAccepted(from, s)
        BY <2>1, <2>4, ReceivePrepareNone, LatePromiseNone, DroppedPromisesNone
    <2>5. CASE \/ ReceiveAcceptSync(from, s) \/ ReceiveAcceptDecide(from, s) \/ ReceiveDecide(from, s)
               \/ ReceiveAccepted(from, s)
        BY <2>1, <2>5, AcceptSyncNone, AcceptDecideNone, DecideNone, AcceptedNone
    <2>6. ~ReceiveFastAccepted(from, s)
        BY DEF ReceiveFastAccepted
    <2> QED BY <1>6, <2>2, <2>3, <2>4, <2>5, <2>6 DEF Handle
<1>7. CASE UNCHANGED vars
    BY <1>7 DEF vars, NoUnsynced
<1> QED BY <1>1, <1>2, <1>3, <1>4, <1>5, <1>6, <1>7 DEF Next
================================================================================
