----------------------------- MODULE SequencePaxos -----------------------------
(***************************************************************************)
(* The replication core: Sequence Paxos (leader and follower handlers) with *)
(* the deadline-ordered fast path.  One action per message handler, user     *)
(* call, timeout and failure.  batch_size is 1 and there is no stop sign,    *)
(* trimming or snapshot; clocks are arbitrary, so a deadline is any number   *)
(* and the earliest buffered proposal may be released at any time.           *)
(***************************************************************************)
EXTENDS Integers, FiniteSets, Sequences, SequencesExt, FastQuorum

CONSTANTS
    Server,          \* NodeId of every server
    Quorum,          \* the majority of the servers, or the flexible_quorum of the configuration
    MaxBallot,       \* bound: ballots are 1..MaxBallot in their total order
    Owner,           \* Owner[b] is the pid field of ballot b
    EntryId,         \* ids of the entries that may be appended, numbers
    Proposers,       \* the servers whose user appends entries
    MaxDeadline,     \* bound: create_dom_propose picks deadlines 1..MaxDeadline
    EnableFastPath,  \* config.enable_fast_path
    Extensions,      \* bound: extend_deadline adds one of these to the last deadline
    Timely,          \* every proposal is buffered everywhere before its deadline
    UniqueDeadlines, \* no proposal takes the deadline of a buffered one
    MaxResends,      \* bound on resend timeouts that send something
    MaxLost,         \* bound on messages lost
    MaxCrashes,      \* bound on crashes
    Crashers,        \* bound: the servers that may crash
    MaxReconnects    \* bound on calls of reconnected by the user

ASSUME ServerAssumption == IsFiniteSet(Server) /\ 0 \notin Server
ASSUME QuorumAssumption == /\ Quorum \in [read : Nat, write : Nat]
                           /\ IsValidQuorum(Quorum, Cardinality(Server))
ASSUME BallotAssumption == MaxBallot \in Nat /\ Owner \in [1..MaxBallot -> Server]
ASSUME EntryAssumption == EntryId \subseteq Nat /\ Proposers \subseteq Server
ASSUME BoundAssumption == /\ {MaxDeadline, MaxResends, MaxLost, MaxCrashes, MaxReconnects} \subseteq Nat
                          /\ Extensions \subseteq Nat \ {0}
                          /\ Crashers \subseteq Server
                          /\ {EnableFastPath, Timely, UniqueDeadlines} \subseteq BOOLEAN

VARIABLES
    store,      \* store[s]: what survives a crash (InternalStorage)
    state,      \* state[s]: role, phase, current_seq_num, cached_promise_message
    fast,       \* fast[s]: unsynced_log, accepted_prefix_hash, unsynced_hash
    lead,       \* lead[s]: LeaderState
    dom,        \* dom[s]: the EarlyBuffer and its last released key
    net,        \* net[s][t]: FIFO channel from s to t
    submitted,  \* the entry ids users have appended so far
    faults      \* messages lost, resends, crashes and reconnects so far

vars == <<store, state, fast, lead, dom, net, submitted, faults>>

--------------------------------------------------------------------------------
\* Data

Ballot == 0..MaxBallot                      \* 0 is Ballot::default()
PidOf(b) == IF b = 0 THEN 0 ELSE Owner[b]
None == [type |-> "None"]                   \* Option::None
Zero == [session |-> 0, counter |-> 0]      \* SequenceNumber::default()
N == Cardinality(Server)
Peers(s) == Server \ {s}

\* A DOM proposal, its buffer key and its DOMHash are all <<deadline, id>>; the
\* hash of a log prefix is the XOR of its entries' hashes: the set of those that
\* occur an odd number of times (no collisions).
Later(e, x) == e[1] > x[1] \/ (e[1] = x[1] /\ e[2] > x[2])
Earlier(e, x) == Later(x, e)
Xor(h, g) == SymDiff(h, g)
Ids(S) == {e[2] : e \in S}
Insert(map, k, v) == [i \in DOMAIN map \cup {k} |-> IF i = k THEN v ELSE map[i]]  \* HashMap::insert
NoKey == <<0, 0>>                           \* last_released = None

\* Mutant of CreateLogSync: the suffix starts one entry late.
CreateLogSyncShort(log, idx) ==
    [type |-> "LogSync", suffix |-> SubSeq(log, idx + 2, Len(log)), idx |-> idx]

\* A LogSync without snapshot or stop sign.
CreateLogSync(log, idx) ==
    [type |-> "LogSync", suffix |-> SubSeq(log, idx + 1, Len(log)), idx |-> idx]

\* Mutant of SyncLog: the suffix replaces the common prefix too.
SyncLogReplacing(st, n, decided, sync) ==
    [st EXCEPT !.accRound = n, !.decided = decided, !.log = IF sync = None THEN @ ELSE sync.suffix]

\* InternalStorage::sync_log, on a storage that truncates the log and appends
SyncLog(st, n, decided, sync) ==
    [st EXCEPT !.accRound = n, !.decided = decided,
               !.log = IF sync = None THEN @
                       ELSE SubSeq(@, 1, Min({sync.idx, Len(@)})) \o sync.suffix]

\* LeaderState::with
LeaderStateWith(n) ==
    [n |-> n,
     promises |-> [t \in Server |-> None],
     seqs |-> [t \in Server |-> Zero],
     accIdx |-> [t \in Server |-> 0],
     maxMeta |-> [nAccepted |-> 0, accIdx |-> 0],
     maxSync |-> None,
     maxHash |-> {},
     map |-> <<>>,
     unsynced |-> [t \in Server |-> <<>>],
     recovered |-> {}]

FreshFast == [unsynced |-> <<>>, prefixHash |-> {}, unsyncedHash |-> {}]
FreshDom == [early |-> {}, last |-> NoKey]

Init ==
    /\ store = [s \in Server |-> [promise |-> 0, accRound |-> 0, decided |-> 0, log |-> <<>>]]
    /\ state = [s \in Server |-> [role |-> "Follower", phase |-> "None", seq |-> Zero, cached |-> None]]
    /\ fast = [s \in Server |-> FreshFast]
    /\ lead = [s \in Server |-> LeaderStateWith(0)]
    /\ dom = [s \in Server |-> FreshDom]
    /\ net = [s \in Server |-> [t \in Server |-> <<>>]]
    /\ submitted = {}
    /\ faults = [lost |-> 0, resends |-> 0, crashes |-> 0, reconnects |-> 0]

--------------------------------------------------------------------------------
\* Network: reliable FIFO channels unless a message is lost.  out[t] is the
\* sequence of messages a step of s sends to t; the transport knows only peers,
\* so what s addresses to itself goes nowhere.

Silent == [t \in Server |-> <<>>]
ToAll(S, m) == [t \in Server |-> IF t \in S THEN <<m>> ELSE <<>>]
To(t, m) == ToAll({t}, m)
Then(out1, out2) == [t \in Server |-> out1[t] \o out2[t]]

Deliver(channels, s, out) ==
    [channels EXCEPT ![s] = [t \in Server |-> IF t = s THEN @[t] ELSE @[t] \o out[t]]]
Send(s, out) == net' = Deliver(net, s, out)
Receive(from, s, out) == net' = Deliver([net EXCEPT ![from][s] = Tail(@)], s, out)

Arrives(from, s, type) == net[from][s] # <<>> /\ Head(net[from][s]).type = type
Msg(from, s) == Head(net[from][s])

IsLeader(s, phase) == state[s].role = "Leader" /\ state[s].phase = phase
IsFollower(s, phase) == state[s].role = "Follower" /\ state[s].phase = phase

--------------------------------------------------------------------------------
\* Leader state

Promised(prom) == [type |-> "Promised", nAccepted |-> prom.nAccepted,
                   accIdx |-> prom.accIdx, decided |-> prom.decided]
PromisedHigher == [type |-> "PromisedHigher"]
HasPromised(ls) == {t \in Server : ls.promises[t].type = "Promised"}
PromisedFollowers(ls) == HasPromised(ls) \ {PidOf(ls.n)}
PreparablePeers(ls, s) == {t \in Peers(s) : ls.promises[t] = None}

\* PromiseMetaData::partial_cmp, as far as `>` needs it.
MoreUpToDate(prom, meta) ==
    \/ prom.nAccepted > meta.nAccepted
    \/ prom.nAccepted = meta.nAccepted /\ prom.accIdx > meta.accIdx

\* Mutant of SetPromise: the log of the most recent promise is not kept.
SetPromiseWithoutSync(ls, prom, from, checkMax) ==
    LET best == checkMax /\ MoreUpToDate(prom, ls.maxMeta) IN
    [ls EXCEPT !.maxMeta = IF best THEN [nAccepted |-> prom.nAccepted, accIdx |-> prom.accIdx] ELSE @,
               !.maxHash = IF best THEN prom.hash ELSE @,
               !.promises[from] = Promised(prom),
               !.unsynced[from] = prom.unsync]

SetPromise(ls, prom, from, checkMax) ==
    LET best == checkMax /\ MoreUpToDate(prom, ls.maxMeta) IN
    [ls EXCEPT !.maxMeta = IF best THEN [nAccepted |-> prom.nAccepted, accIdx |-> prom.accIdx] ELSE @,
               !.maxSync = IF best THEN prom.sync ELSE @,
               !.maxHash = IF best THEN prom.hash ELSE @,
               !.promises[from] = Promised(prom),
               !.unsynced[from] = prom.unsync]

MaxDecided(ls) == Max({ls.promises[t].decided : t \in HasPromised(ls)})

\* next_seq_num and increment_seq_num_session for each server of T
NextSeq(ls, T) ==
    [ls EXCEPT !.seqs = [t \in Server |->
        IF t \in T THEN [session |-> @[t].session, counter |-> @[t].counter + 1] ELSE @[t]]]
NextSession(ls, T) ==
    [ls EXCEPT !.seqs = [t \in Server |->
        IF t \in T THEN [session |-> @[t].session + 1, counter |-> 1] ELSE @[t]]]

IsChosen(ls, idx) == IsAcceptQuorum(Quorum, Cardinality({t \in Server : ls.accIdx[t] >= idx}))

\* The first vote for an index fixes the candidate (or_insert_with).
SetAcceptedMap(map, idx, e, prefix, pid, isFast) ==
    LET new == [entry |-> e, prefix |-> prefix, fast |-> {}, slow |-> {}]
        old == IF idx \in DOMAIN map THEN map[idx] ELSE new
    IN  Insert(map, idx, IF isFast THEN [old EXCEPT !.fast = @ \cup {<<prefix, e, pid>>}]
                         ELSE [old EXCEPT !.slow = @ \cup {pid}])
PruneAcceptedMap(map, decided) == Restrict(map, {i \in DOMAIN map : i > decided})

\* The hashes of the entries at idx whose prefix hash is `prefix`, and how many
\* unsynced logs hold them.
UnsyncedHolders(ls, idx, prefix, e) ==
    {t \in Server : /\ idx \in DOMAIN ls.unsynced[t]
                    /\ ls.unsynced[t][idx] = [e |-> e, prefix |-> prefix]}
UnsyncedAt(ls, idx) ==
    {ls.unsynced[t][idx].e : t \in {u \in Server : idx \in DOMAIN ls.unsynced[u]}}
Winners(ls, idx, prefix) ==
    {e \in UnsyncedAt(ls, idx) :
        Cardinality(UnsyncedHolders(ls, idx, prefix, e)) >= RecoverThreshold(N)}

\* The loop of handle_majority_promises that extends a log of length len with
\* the unsynced entries a threshold of servers agree on; it stops at an index
\* with no winner, two winners, or a winner recovered before.
Recovered(ls, len) ==
    LET held == UNION {{ls.unsynced[t][i].e : i \in DOMAIN ls.unsynced[t]} : t \in Server}
        before(w, k) == ToSet(SubSeq(w, 1, k - 1))
        runs == {w \in SeqOf(held, Cardinality(Ids(held))) : \A k \in DOMAIN w :
                    /\ Winners(ls, len + k, Xor(ls.maxHash, before(w, k))) = {w[k]}
                    /\ w[k][2] \notin Ids(before(w, k))}
    IN  CHOOSE w \in runs : \A v \in runs : Len(v) <= Len(w)

--------------------------------------------------------------------------------
\* Messages of the leader

\* Mutant of AcceptSync: the follower's log may be shorter than the adopted one.
AcceptSyncUnclipped(ls, st, hash, to) ==
    LET prom == ls.promises[to]
        valid == IF prom.nAccepted = ls.n THEN prom.accIdx
                 ELSE IF prom.nAccepted = ls.maxMeta.nAccepted THEN ls.maxMeta.accIdx
                 ELSE prom.decided
    IN  [type |-> "AcceptSync", n |-> ls.n, seq |-> ls.seqs[to], decided |-> st.decided,
         sync |-> CreateLogSync(st.log, valid), hash |-> hash]

\* Mutant of AcceptSync: a follower's whole accepted log counts as valid.
AcceptSyncKeepingAll(ls, st, hash, to) ==
    [type |-> "AcceptSync", n |-> ls.n, seq |-> ls.seqs[to], decided |-> st.decided,
     sync |-> CreateLogSync(st.log, ls.promises[to].accIdx), hash |-> hash]

AcceptSync(ls, st, hash, to) ==
    LET prom == ls.promises[to]
        valid == IF prom.nAccepted = ls.n THEN prom.accIdx
                 ELSE IF prom.nAccepted = ls.maxMeta.nAccepted
                      THEN Min({ls.maxMeta.accIdx, prom.accIdx})
                 ELSE prom.decided
    IN  [type |-> "AcceptSync", n |-> ls.n, seq |-> ls.seqs[to], decided |-> st.decided,
         sync |-> CreateLogSync(st.log, valid), hash |-> hash]

\* send_accsync to each server of T
SendAcceptSync(ls, st, hash, T) ==
    LET next == NextSession(ls, T) IN
    [lead |-> next,
     out |-> [t \in Server |-> IF t \in T THEN <<AcceptSync(next, st, hash, t)>> ELSE <<>>]]

\* Mutant of DecideUpTo: the followers are not told.
DecideUpToSilently(ls, st, idx) ==
    [store |-> [st EXCEPT !.decided = idx],
     lead |-> [ls EXCEPT !.map = PruneAcceptedMap(@, idx)], out |-> Silent]

\* set_decided_idx, prune_accepted_map and a Decide to every promised follower
DecideUpTo(ls, st, idx) ==
    LET T == PromisedFollowers(ls)
        next == NextSeq([ls EXCEPT !.map = PruneAcceptedMap(@, idx)], T)
        msg(t) == [type |-> "Decide", n |-> ls.n, seq |-> next.seqs[t], decided |-> idx]
    IN  [store |-> [st EXCEPT !.decided = idx], lead |-> next,
         out |-> [t \in Server |-> IF t \in T THEN <<msg(t)>> ELSE <<>>]]

\* The votes try_fast_decide_idx counts for idx: the fast votes for the candidate
\* and the leader itself.
CountedVoters(ls, idx) ==
    LET entry == ls.map[idx] IN
    {v[3] : v \in {w \in entry.fast : w[1] = entry.prefix /\ w[2] = entry.entry}} \cup entry.slow

CanFastDecide(s, ls, st, idx) ==
    /\ EnableFastPath
    /\ idx > st.decided /\ idx <= Len(st.log)
    /\ idx \in DOMAIN ls.map
    /\ s \in ls.map[idx].slow
    /\ Cardinality(CountedVoters(ls, idx)) >= FastQuorumSize(N)

TryFastDecide(s, ls, st, idx) ==
    IF CanFastDecide(s, ls, st, idx) THEN DecideUpTo(ls, st, idx)
    ELSE [store |-> st, lead |-> ls, out |-> Silent]

\* Mutant of PrepareMsg: the decided index is one too high.
PrepareMsgAhead(n, st) ==
    [type |-> "Prepare", n |-> n, decided |-> st.decided + 1, nAccepted |-> st.accRound,
     accIdx |-> Len(st.log)]

PrepareMsg(n, st) ==
    [type |-> "Prepare", n |-> n, decided |-> st.decided, nAccepted |-> st.accRound,
     accIdx |-> Len(st.log)]

--------------------------------------------------------------------------------
\* Deadline-ordered multicast, as far as the replica sees it

\* Dom::handle_dom_propose for each proposal of E: a late one is dropped, by a
\* leader extended.
HandleDomPropose(d, E, role, ext) ==
    LET late == {e \in E : ~Later(e, d.last)}
        extended == IF role = "Leader" THEN {<<d.last[1] + ext, e[2]>> : e \in late} ELSE {}
    IN  [d EXCEPT !.early = @ \cup (E \ late) \cup extended]
RemoveFromBuffers(d, ids) == [d EXCEPT !.early = {e \in @ : e[2] \notin ids}]

DomPropose(e) == [type |-> "DomPropose", e |-> e]

\* In a timely network a proposal is in every buffer before its deadline, which
\* lies after everything released so far; until then nobody acts on it, so it is
\* put there when it is sent.
InTime(deadline) ==
    /\ Timely => \A t \in Server : deadline > dom[t].last[1]
    /\ UniqueDeadlines => \A t \in Server : deadline \notin {e[1] : e \in dom[t].early}
Buffered(d, s, E, ext) ==
    [t \in Server |-> IF t = s \/ Timely THEN HandleDomPropose(d[t], E, state[t].role, ext) ELSE d[t]]

\* send_dom_propose of each proposal of the sequence es
Proposals(s, es) ==
    [t \in Server |-> IF Timely \/ t = s THEN <<>> ELSE [k \in DOMAIN es |-> DomPropose(es[k])]]

\* append_with_id, with send_dom_propose and the local handle_dom_propose
AppendWithId(s, id, deadline, ext) ==
    /\ id \notin submitted
    /\ InTime(deadline)
    /\ submitted' = submitted \cup {id}
    /\ dom' = Buffered(dom, s, {<<deadline, id>>}, ext)
    /\ Send(s, Proposals(s, <<<<deadline, id>>>>))
    /\ UNCHANGED <<store, state, fast, lead, faults>>

ReceiveDomPropose(from, s, ext) ==
    /\ Arrives(from, s, "DomPropose")
    /\ dom' = [dom EXCEPT ![s] = HandleDomPropose(@, {Msg(from, s).e}, state[s].role, ext)]
    /\ Receive(from, s, Silent)
    /\ UNCHANGED <<store, state, fast, lead, submitted, faults>>

\* release_requests hands the earliest buffered proposal to handle_dom_release.
CanRelease(s, e) ==
    /\ state[s].phase = "Accept"
    /\ e \in dom[s].early
    /\ \A x \in dom[s].early \ {e} : Later(x, e)
PopEarly(d, e) == [early |-> d.early \ {e}, last |-> e]

\* handle_dom_release, leader: append, send AcceptDecide, recheck the fast quorum
ReleaseAtLeader(s, e) ==
    /\ CanRelease(s, e)
    /\ state[s].role = "Leader"
    /\ e[2] \notin lead[s].recovered
    /\ LET before == lead[s]
           prefix == fast[s].prefixHash
           hash == Xor(prefix, {e})
           st == [store[s] EXCEPT !.log = Append(@, e[2])]
           ls == NextSeq([before EXCEPT
                     !.map = SetAcceptedMap(@, before.accIdx[s] + 1, e, prefix, s, FALSE),
                     !.accIdx[s] = Len(st.log)], PromisedFollowers(before))
           accDec(t) == [type |-> "AcceptDecide", n |-> ls.n, seq |-> ls.seqs[t],
                         decided |-> st.decided, e |-> e, hash |-> hash]
           sent == [t \in Server |-> IF t \in PromisedFollowers(ls) THEN <<accDec(t)>> ELSE <<>>]
           done == TryFastDecide(s, ls, st, Len(st.log))
       IN  /\ store' = [store EXCEPT ![s] = done.store]
           /\ lead' = [lead EXCEPT ![s] = done.lead]
           /\ fast' = [fast EXCEPT ![s].prefixHash = hash]
           /\ Send(s, Then(sent, done.out))
    /\ dom' = [dom EXCEPT ![s] = PopEarly(@, e)]
    /\ UNCHANGED <<state, submitted, faults>>

\* handle_dom_release, follower: append to the unsynced log and vote for it
ReleaseAtFollower(s, e) ==
    /\ CanRelease(s, e)
    /\ state[s].role = "Follower" /\ EnableFastPath
    /\ e[2] \notin lead[s].recovered
    /\ LET own == fast[s].unsynced
           idx == Len(store[s].log) + Cardinality(DOMAIN own) + 1
           prefix == Xor(fast[s].unsyncedHash, fast[s].prefixHash)
           vote == [type |-> "FastAccepted", n |-> store[s].promise, idx |-> idx,
                    e |-> e, prefix |-> prefix]
       IN  /\ fast' = [fast EXCEPT ![s].unsynced = Insert(@, idx, [e |-> e, prefix |-> prefix]),
                                   ![s].unsyncedHash = Xor(@, {e})]
           /\ Send(s, To(PidOf(store[s].promise), vote))
    /\ dom' = [dom EXCEPT ![s] = PopEarly(@, e)]
    /\ UNCHANGED <<store, state, lead, submitted, faults>>

\* handle_dom_release drops what the leader recovered already, and every proposal
\* at a follower without the fast path.
ReleaseNothing(s, e) ==
    /\ CanRelease(s, e)
    /\ \/ e[2] \in lead[s].recovered
       \/ state[s].role = "Follower" /\ ~EnableFastPath
    /\ dom' = [dom EXCEPT ![s] = PopEarly(@, e)]
    /\ UNCHANGED <<store, state, fast, lead, net, submitted, faults>>

--------------------------------------------------------------------------------
\* Prepare phase

\* Mutant of BecomeLeader: the ballot's pid is not compared.
BecomeLeaderOfAny(s, b) ==
    /\ b > lead[s].n /\ b > store[s].promise
    /\ store' = [store EXCEPT ![s].promise = b]
    /\ lead' = [lead EXCEPT ![s] = LeaderStateWith(b)]
    /\ state' = [state EXCEPT ![s].role = "Leader", ![s].phase = "Prepare"]
    /\ Send(s, ToAll(Peers(s), PrepareMsg(b, store[s])))
    /\ UNCHANGED <<fast, dom, submitted, faults>>

\* handle_leader with this server's own ballot
BecomeLeader(s, b) ==
    /\ b > lead[s].n /\ b > store[s].promise
    /\ Owner[b] = s
    /\ LET st == [store[s] EXCEPT !.promise = b]
           own == [n |-> b, nAccepted |-> st.accRound, decided |-> st.decided,
                   accIdx |-> Len(st.log), sync |-> None,
                   unsync |-> fast[s].unsynced, hash |-> fast[s].prefixHash]
       IN  /\ store' = [store EXCEPT ![s] = st]
           /\ lead' = [lead EXCEPT ![s] = SetPromise(LeaderStateWith(b), own, s, TRUE)]
           /\ Send(s, ToAll(Peers(s), PrepareMsg(b, st)))
    /\ state' = [state EXCEPT ![s].role = "Leader", ![s].phase = "Prepare"]
    /\ UNCHANGED <<fast, dom, submitted, faults>>

\* handle_leader with the ballot of another server
BecomeFollower(s, b) ==
    /\ b > lead[s].n /\ b > store[s].promise
    /\ Owner[b] # s
    /\ state[s].role = "Leader"
    /\ state' = [state EXCEPT ![s].role = "Follower"]
    /\ UNCHANGED <<store, fast, lead, dom, net, submitted, faults>>

\* Mutant of PromisesTo: while it recovers, a server promises any ballot.
PromisesToAnyInRecover(s, m) ==
    \/ store[s].promise < m.n
    \/ state[s].phase = "Recover"

PromisesTo(s, m) ==
    \/ store[s].promise < m.n
    \/ store[s].promise = m.n /\ state[s].phase = "Recover"

\* handle_prepare
ReceivePrepare(from, s) ==
    /\ Arrives(from, s, "Prepare")
    /\ LET m == Msg(from, s)
           st == store[s]
           sync == IF st.accRound > m.nAccepted THEN CreateLogSync(st.log, m.decided)
                   ELSE IF st.accRound = m.nAccepted /\ Len(st.log) > m.accIdx
                        THEN CreateLogSync(st.log, m.accIdx)
                   ELSE None
           promise == [type |-> "Promise", n |-> m.n, nAccepted |-> st.accRound,
                       decided |-> st.decided, accIdx |-> Len(st.log), sync |-> sync,
                       unsync |-> fast[s].unsynced, hash |-> fast[s].prefixHash]
       IN  /\ PromisesTo(s, m)
           /\ store' = [store EXCEPT ![s].promise = m.n]
           /\ state' = [state EXCEPT ![s] = [role |-> "Follower", phase |-> "Prepare",
                                             seq |-> Zero, cached |-> promise]]
           /\ Receive(from, s, To(from, promise))
    /\ UNCHANGED <<fast, lead, dom, submitted, faults>>

\* handle_majority_promises, with the leader state that holds them: adopt the most
\* recent log, extend it with recovered unsynced entries, propose the leader's other
\* unsynced entries again.
HandleMajorityPromises(from, s, ls, ext) ==
    /\ LET synced == SyncLog(store[s], ls.n, MaxDecided(ls), ls.maxSync)
           new == Recovered(ls, Len(synced.log))
           newIds == Ids(ToSet(new))
           st == [synced EXCEPT !.log = @ \o [i \in DOMAIN new |-> new[i][2]]]
           hash == Xor(ls.maxHash, ToSet(new))
           own == fast[s].unsynced
           left == {i \in DOMAIN own : i > Len(st.log) /\ own[i].e[2] \notin newIds}
           sync == SendAcceptSync([ls EXCEPT !.maxSync = None, !.accIdx[s] = Len(st.log),
                                        !.recovered = @ \cup (newIds \ Ids({own[i].e : i \in DOMAIN own}))],
                                  st, hash, PromisedFollowers(ls))
       IN  /\ store' = [store EXCEPT ![s] = st]
           /\ lead' = [lead EXCEPT ![s] = sync.lead]
           /\ fast' = [fast EXCEPT ![s].unsynced = Restrict(own, left), ![s].prefixHash = hash]
           /\ \E order \in SetToSeqs(left), deadline \in [left -> 1..MaxDeadline] :
                LET again == [k \in DOMAIN order |-> <<deadline[order[k]], own[order[k]].e[2]>>] IN
                /\ \A i \in left : InTime(deadline[i])
                /\ dom' = Buffered([dom EXCEPT ![s] = RemoveFromBuffers(@, newIds)],
                                   s, ToSet(again), ext)
                /\ Receive(from, s, Then(Proposals(s, again), sync.out))
    /\ state' = [state EXCEPT ![s].phase = "Accept"]
    /\ UNCHANGED <<submitted, faults>>

\* handle_promise_prepare
ReceivePromise(from, s, ext) ==
    /\ Arrives(from, s, "Promise")
    /\ IsLeader(s, "Prepare") /\ Msg(from, s).n = lead[s].n
    /\ LET ls == SetPromise(lead[s], Msg(from, s), from, TRUE) IN
       IF IsPrepareQuorum(Quorum, Cardinality(HasPromised(ls)))
       THEN HandleMajorityPromises(from, s, ls, ext)
       ELSE /\ lead' = [lead EXCEPT ![s] = ls]
            /\ Receive(from, s, Silent)
            /\ UNCHANGED <<store, state, fast, dom, submitted, faults>>

\* handle_promise_accept: a promise after the majority
ReceiveLatePromise(from, s) ==
    /\ Arrives(from, s, "Promise")
    /\ IsLeader(s, "Accept") /\ Msg(from, s).n = lead[s].n
    /\ LET ls == SetPromise(lead[s], Msg(from, s), from, FALSE)
           sync == SendAcceptSync(ls, store[s], fast[s].prefixHash, {from})
       IN  /\ lead' = [lead EXCEPT ![s] = sync.lead]
           /\ Receive(from, s, sync.out)
    /\ UNCHANGED <<store, state, fast, dom, submitted, faults>>

\* handle_preparereq
ReceivePrepareReq(from, s) ==
    /\ Arrives(from, s, "PrepareReq")
    /\ state[s].role = "Leader" /\ Msg(from, s).n <= lead[s].n
    /\ lead' = [lead EXCEPT ![s].promises[from] = None]
    /\ Receive(from, s, To(from, PrepareMsg(lead[s].n, store[s])))
    /\ UNCHANGED <<store, state, fast, dom, submitted, faults>>

\* handle_notaccepted
ReceiveNotAccepted(from, s) ==
    /\ Arrives(from, s, "NotAccepted")
    /\ state[s].role = "Leader" /\ lead[s].n < Msg(from, s).n
    /\ lead' = [lead EXCEPT ![s].promises[from] = PromisedHigher]
    /\ Receive(from, s, Silent)
    /\ UNCHANGED <<store, state, fast, dom, submitted, faults>>

--------------------------------------------------------------------------------
\* Accept phase, follower

\* handle_acceptsync
ReceiveAcceptSync(from, s) ==
    /\ Arrives(from, s, "AcceptSync")
    /\ Msg(from, s).n = store[s].promise /\ IsFollower(s, "Prepare")
    /\ LET m == Msg(from, s)
           st == SyncLog(store[s], m.n, m.decided, m.sync)
       IN  /\ store' = [store EXCEPT ![s] = st]
           /\ state' = [state EXCEPT ![s] = [role |-> "Follower", phase |-> "Accept",
                                             seq |-> m.seq, cached |-> None]]
           /\ fast' = [fast EXCEPT ![s] = [FreshFast EXCEPT !.prefixHash = m.hash]]
           /\ Receive(from, s, To(from, [type |-> "Accepted", n |-> m.n, accIdx |-> Len(st.log)]))
    /\ UNCHANGED <<lead, dom, submitted, faults>>

\* Mutant of IsExpected: the counter is not compared.
IsExpectedInSession(s, m) == m.seq.session = state[s].seq.session

\* SequenceNumber::check_msg_status
IsExpected(s, m) == /\ m.seq.session = state[s].seq.session
                    /\ m.seq.counter = state[s].seq.counter + 1
IsOutdated(s, m) == \/ m.seq.session < state[s].seq.session
                    \/ m.seq.session = state[s].seq.session /\ m.seq.counter <= state[s].seq.counter

\* The proposals of the unsynced log that survive AcceptDecide of e.
PreservedTail(unsynced, e) ==
    {x \in {unsynced[i].e : i \in DOMAIN unsynced} : x[2] # e[2] /\ x[1] > e[1]}

\* The proposals of tail before x, and the k-th of tail, in the order of their keys.
Before(tail, x) == {y \in tail : Earlier(y, x)}
Nth(tail, k) == CHOOSE x \in tail : Cardinality(Before(tail, x)) = k - 1

\* Mutant of RebuildUnsynced: the tail is numbered from the last accepted index.
RebuildUnsyncedOneBack(accepted, hash, tail) ==
    [unsynced |-> [i \in accepted..(accepted + Cardinality(tail) - 1) |->
                      LET x == Nth(tail, i - accepted + 1) IN
                      [e |-> x, prefix |-> Xor(hash, Before(tail, x))]],
     prefixHash |-> hash,
     unsyncedHash |-> tail]

\* rebuild_unsynced_tail: number the tail after the accepted log and chain its hashes
RebuildUnsynced(accepted, hash, tail) ==
    [unsynced |-> [i \in (accepted + 1)..(accepted + Cardinality(tail)) |->
                      LET x == Nth(tail, i - accepted) IN
                      [e |-> x, prefix |-> Xor(hash, Before(tail, x))]],
     prefixHash |-> hash,
     unsyncedHash |-> tail]

\* handle_acceptdecide
ReceiveAcceptDecide(from, s) ==
    /\ Arrives(from, s, "AcceptDecide")
    /\ Msg(from, s).n = store[s].promise /\ IsFollower(s, "Accept")
    /\ IsExpected(s, Msg(from, s))
    /\ LET m == Msg(from, s)
           log == Append(store[s].log, m.e[2])
       IN  /\ store' = [store EXCEPT ![s].log = log,
                                     ![s].decided = IF m.decided > @ THEN Min({m.decided, Len(log)}) ELSE @]
           /\ state' = [state EXCEPT ![s].seq = m.seq]
           /\ fast' = [fast EXCEPT ![s] =
                          RebuildUnsynced(Len(log), m.hash, PreservedTail(@.unsynced, m.e))]
           /\ dom' = [dom EXCEPT ![s] = RemoveFromBuffers(@, {m.e[2]})]
           /\ Receive(from, s, To(PidOf(m.n), [type |-> "Accepted", n |-> m.n, accIdx |-> Len(log)]))
    /\ UNCHANGED <<lead, submitted, faults>>

\* handle_decide.  A decided index beyond the log is cut to the log's length and
\* answered, as the (empty) batch is flushed first.
ReceiveDecide(from, s) ==
    /\ Arrives(from, s, "Decide")
    /\ Msg(from, s).n = store[s].promise /\ state[s].phase = "Accept"
    /\ IsExpected(s, Msg(from, s))
    /\ LET m == Msg(from, s)
           len == Len(store[s].log)
           accepted == [type |-> "Accepted", n |-> m.n, accIdx |-> len]
       IN  /\ store' = [store EXCEPT ![s].decided = IF m.decided > @ THEN Min({m.decided, len}) ELSE @]
           /\ state' = [state EXCEPT ![s].seq = m.seq]
           /\ Receive(from, s, IF m.decided > store[s].decided /\ m.decided > len
                               THEN To(PidOf(m.n), accepted) ELSE Silent)
    /\ UNCHANGED <<fast, lead, dom, submitted, faults>>

--------------------------------------------------------------------------------
\* Accept phase, leader

\* handle_accepted
ReceiveAccepted(from, s) ==
    /\ Arrives(from, s, "Accepted")
    /\ IsLeader(s, "Accept") /\ Msg(from, s).n = lead[s].n
    /\ LET idx == Msg(from, s).accIdx
           ls == [lead[s] EXCEPT !.accIdx[from] = idx]
           chosen == idx > store[s].decided /\ IsChosen(ls, idx)
           done == IF chosen THEN DecideUpTo(ls, store[s], idx)
                   ELSE [store |-> store[s], lead |-> ls, out |-> Silent]
       IN  /\ store' = [store EXCEPT ![s] = done.store]
           /\ lead' = [lead EXCEPT ![s] = done.lead]
           /\ Receive(from, s, done.out)
    /\ UNCHANGED <<state, fast, dom, submitted, faults>>

\* handle_fast_accepted
ReceiveFastAccepted(from, s) ==
    /\ Arrives(from, s, "FastAccepted")
    /\ EnableFastPath
    /\ IsLeader(s, "Accept") /\ Msg(from, s).n = lead[s].n
    /\ LET m == Msg(from, s)
           ls == [lead[s] EXCEPT !.map = SetAcceptedMap(@, m.idx, m.e, m.prefix, from, TRUE)]
           done == TryFastDecide(s, ls, store[s], m.idx)
       IN  /\ store' = [store EXCEPT ![s] = done.store]
           /\ lead' = [lead EXCEPT ![s] = done.lead]
           /\ Receive(from, s, done.out)
    /\ UNCHANGED <<state, fast, dom, submitted, faults>>

--------------------------------------------------------------------------------
\* Recovery

\* reconnected(pid), given what else the step sends
Reconnect(s, pid) ==
    IF pid = PidOf(store[s].promise)
    THEN state' = [state EXCEPT ![s].role = "Follower", ![s].phase = "Recover"]
    ELSE UNCHANGED state
PrepareReqMsg(s) == [type |-> "PrepareReq", n |-> store[s].promise]

\* The user reports that the connection to a peer is back.
Reconnected(s, pid) ==
    /\ faults.reconnects < MaxReconnects
    /\ faults' = [faults EXCEPT !.reconnects = @ + 1]
    /\ Reconnect(s, pid)
    /\ Send(s, To(pid, PrepareReqMsg(s)))
    /\ UNCHANGED <<store, fast, lead, dom, submitted>>

FromLeader == {"AcceptSync", "AcceptDecide", "Decide"}

\* check_valid_ballot: the sender's ballot is too old
RejectOldBallot(from, s) ==
    /\ \E type \in FromLeader : Arrives(from, s, type)
    /\ Msg(from, s).n < store[s].promise
    /\ Receive(from, s, To(PidOf(Msg(from, s).n), [type |-> "NotAccepted", n |-> store[s].promise]))
    /\ UNCHANGED <<store, state, fast, lead, dom, submitted, faults>>

\* handle_sequence_num: a message of the current leader is missing
DetectDropped(from, s) ==
    /\ \/ Arrives(from, s, "AcceptDecide") /\ IsFollower(s, "Accept")
       \/ Arrives(from, s, "Decide") /\ state[s].phase = "Accept"
    /\ Msg(from, s).n = store[s].promise
    /\ ~IsExpected(s, Msg(from, s)) /\ ~IsOutdated(s, Msg(from, s))
    /\ Reconnect(s, PidOf(Msg(from, s).n))
    /\ Receive(from, s, To(PidOf(Msg(from, s).n), PrepareReqMsg(s)))
    /\ UNCHANGED <<store, fast, lead, dom, submitted, faults>>

\* What handle does nothing with, in the receiver's present state.
IsIgnored(s, m) ==
    CASE m.type = "Promise" -> ~(/\ IsLeader(s, "Prepare") \/ IsLeader(s, "Accept")
                                 /\ m.n = lead[s].n)
      [] m.type = "Prepare" -> ~PromisesTo(s, m)
      [] m.type = "PrepareReq" -> ~(state[s].role = "Leader" /\ m.n <= lead[s].n)
      [] m.type = "NotAccepted" -> ~(state[s].role = "Leader" /\ lead[s].n < m.n)
      [] m.type = "Accepted" -> ~(IsLeader(s, "Accept") /\ m.n = lead[s].n)
      [] m.type = "FastAccepted" -> ~(EnableFastPath /\ IsLeader(s, "Accept") /\ m.n = lead[s].n)
      [] m.type = "AcceptSync" -> m.n = store[s].promise /\ ~IsFollower(s, "Prepare")
      [] m.type = "AcceptDecide" -> /\ m.n = store[s].promise
                                    /\ ~IsFollower(s, "Accept") \/ IsOutdated(s, m)
      [] m.type = "Decide" -> /\ m.n = store[s].promise
                              /\ state[s].phase # "Accept" \/ IsOutdated(s, m)
      [] OTHER -> FALSE

Ignore(from, s) ==
    /\ net[from][s] # <<>>
    /\ IsIgnored(s, Msg(from, s))
    /\ Receive(from, s, Silent)
    /\ UNCHANGED <<store, state, fast, lead, dom, submitted, faults>>

Resend == /\ faults.resends < MaxResends
          /\ faults' = [faults EXCEPT !.resends = @ + 1]

\* resend_messages_leader
ResendAtLeader(s) ==
    /\ Resend
    /\ state[s].role = "Leader" /\ state[s].phase \in {"Prepare", "Accept"}
    /\ PreparablePeers(lead[s], s) # {}
    /\ Send(s, ToAll(PreparablePeers(lead[s], s), PrepareMsg(lead[s].n, store[s])))
    /\ UNCHANGED <<store, state, fast, lead, dom, submitted>>

\* resend_messages_follower in the Prepare phase with a cached promise
ResendPromise(s) ==
    /\ Resend
    /\ IsFollower(s, "Prepare") /\ state[s].cached # None
    /\ Send(s, To(PidOf(state[s].cached.n), state[s].cached))
    /\ UNCHANGED <<store, state, fast, lead, dom, submitted>>

\* resend_messages_follower in the Recover phase, or in the Prepare phase without
\* a cached promise
ResendPrepareReq(s) ==
    /\ Resend
    /\ \/ IsFollower(s, "Recover")
       \/ IsFollower(s, "Prepare") /\ state[s].cached = None
    /\ state' = [state EXCEPT ![s].phase = "Recover"]
    /\ Send(s, ToAll(Peers(s), PrepareReqMsg(s)))
    /\ UNCHANGED <<store, fast, lead, dom, submitted>>

--------------------------------------------------------------------------------
\* Failures

\* Mutant of CrashRestart: the stored promise is overwritten by the default ballot.
CrashForgetsPromise(s) ==
    /\ s \in Crashers /\ faults.crashes < MaxCrashes
    /\ faults' = [faults EXCEPT !.crashes = @ + 1]
    /\ store' = [store EXCEPT ![s].promise = 0, ![s].accRound = 0]
    /\ state' = [state EXCEPT ![s] = [role |-> "Follower", phase |-> "None",
                                      seq |-> Zero, cached |-> None]]
    /\ UNCHANGED <<fast, lead, dom, net, submitted>>

\* A crash and SequencePaxos::with on the storage st it left: the logs the fast path
\* keeps in memory and all messages under way to the server are gone.
Restart(s, st) ==
    /\ s \in Crashers /\ faults.crashes < MaxCrashes
    /\ faults' = [faults EXCEPT !.crashes = @ + 1]
    /\ store' = [store EXCEPT ![s] = st]
    /\ state' = [state EXCEPT ![s] = [role |-> "Follower", phase |-> "Recover",
                                      seq |-> Zero, cached |-> None]]
    /\ fast' = [fast EXCEPT ![s] = FreshFast]
    /\ lead' = [lead EXCEPT ![s] = LeaderStateWith(st.promise)]
    /\ dom' = [dom EXCEPT ![s] = FreshDom]
    /\ net' = Deliver([t \in Server |-> [net[t] EXCEPT ![s] = <<>>]], s,
                      ToAll(Peers(s), PrepareReqMsg(s)))
    /\ UNCHANGED submitted

\* A crash between two handlers
CrashRestart(s) == Restart(s, store[s])

\* A crash in handle_majority_promises: sync_log is one transaction, but each
\* recovered entry is appended on its own, and only the first k of them are.
CrashInRecovery(from, s) ==
    /\ Arrives(from, s, "Promise")
    /\ IsLeader(s, "Prepare") /\ Msg(from, s).n = lead[s].n
    /\ LET ls == SetPromise(lead[s], Msg(from, s), from, TRUE)
           synced == SyncLog(store[s], ls.n, MaxDecided(ls), ls.maxSync)
           new == Recovered(ls, Len(synced.log))
       IN  /\ IsPrepareQuorum(Quorum, Cardinality(HasPromised(ls)))
           /\ \E k \in 0..Len(new) :
                  Restart(s, [synced EXCEPT !.log = @ \o [i \in 1..k |-> new[i][2]]])

Lose(from, s) ==
    /\ faults.lost < MaxLost
    /\ net[from][s] # <<>>
    /\ faults' = [faults EXCEPT !.lost = @ + 1]
    /\ net' = [net EXCEPT ![from][s] = Tail(@)]
    /\ UNCHANGED <<store, state, fast, lead, dom, submitted>>

--------------------------------------------------------------------------------
Elect(s) == \E b \in 1..MaxBallot : BecomeLeader(s, b) \/ BecomeFollower(s, b)

Release(s) ==
    \E e \in dom[s].early : ReleaseAtLeader(s, e) \/ ReleaseAtFollower(s, e) \/ ReleaseNothing(s, e)

Handle(from, s) ==
    \/ \E ext \in Extensions : \/ ReceiveDomPropose(from, s, ext)
                               \/ ReceivePromise(from, s, ext)
    \/ ReceivePrepare(from, s)
    \/ ReceiveLatePromise(from, s)
    \/ ReceivePrepareReq(from, s)
    \/ ReceiveNotAccepted(from, s)
    \/ ReceiveAcceptSync(from, s)
    \/ ReceiveAcceptDecide(from, s)
    \/ ReceiveDecide(from, s)
    \/ ReceiveAccepted(from, s)
    \/ ReceiveFastAccepted(from, s)
    \/ RejectOldBallot(from, s)
    \/ DetectDropped(from, s)
    \/ Ignore(from, s)

Next ==
    \/ \E s \in Proposers, id \in EntryId, deadline \in 1..MaxDeadline, ext \in Extensions :
           AppendWithId(s, id, deadline, ext)
    \/ \E s \in Server : \/ Elect(s) \/ Release(s)
                         \/ ResendAtLeader(s) \/ ResendPromise(s) \/ ResendPrepareReq(s)
                         \/ CrashRestart(s)
    \/ \E s \in Server : \E t \in Peers(s) : \/ Handle(t, s) \/ CrashInRecovery(t, s)
                                            \/ Lose(t, s) \/ Reconnected(s, t)

Spec == Init /\ [][Next]_vars

--------------------------------------------------------------------------------
\* Properties

SeqNum == [session : Nat, counter : Nat]
Key == Nat \X EntryId
Hash == SUBSET Key
UnsyncedEntry == [e : Key, prefix : Hash]
LogSync == [type : {"LogSync"}, suffix : Seq(EntryId), idx : Nat]
PromiseState == {None, PromisedHigher} \cup
                [type : {"Promised"}, nAccepted : Ballot, accIdx : Nat, decided : Nat]
Candidate == [entry : Key, prefix : Hash, fast : SUBSET (Hash \X Key \X Server), slow : SUBSET Server]

IsUnsynced(f) ==
    /\ IsFiniteSet(DOMAIN f) /\ DOMAIN f \subseteq Nat
    /\ \A i \in DOMAIN f : f[i] \in UnsyncedEntry

IsPromise(m) ==
    /\ DOMAIN m = {"type", "n", "nAccepted", "decided", "accIdx", "sync", "unsync", "hash"}
    /\ m.type = "Promise" /\ m.n \in Ballot /\ m.nAccepted \in Ballot
    /\ m.decided \in Nat /\ m.accIdx \in Nat /\ m.sync \in LogSync \cup {None}
    /\ IsUnsynced(m.unsync) /\ m.hash \in Hash

IsMessage(m) ==
    \/ IsPromise(m)
    \/ m \in [type : {"Prepare"}, n : Ballot, decided : Nat, nAccepted : Ballot, accIdx : Nat]
    \/ m \in [type : {"PrepareReq", "NotAccepted"}, n : Ballot]
    \/ m \in [type : {"AcceptSync"}, n : Ballot, seq : SeqNum, decided : Nat, sync : LogSync, hash : Hash]
    \/ m \in [type : {"AcceptDecide"}, n : Ballot, seq : SeqNum, decided : Nat, e : Key, hash : Hash]
    \/ m \in [type : {"Decide"}, n : Ballot, seq : SeqNum, decided : Nat]
    \/ m \in [type : {"Accepted"}, n : Ballot, accIdx : Nat]
    \/ m \in [type : {"FastAccepted"}, n : Ballot, idx : Nat, e : Key, prefix : Hash]
    \/ m \in [type : {"DomPropose"}, e : Key]

Stored == [promise : Ballot, accRound : Ballot, decided : Nat, log : Seq(EntryId)]
StoreOK == store \in [Server -> Stored]

StateOK ==
    /\ DOMAIN state = Server
    /\ \A s \in Server :
        /\ DOMAIN state[s] = {"role", "phase", "seq", "cached"}
        /\ state[s].role \in {"Leader", "Follower"}
        /\ state[s].phase \in {"None", "Prepare", "Accept", "Recover"}
        /\ state[s].seq \in SeqNum
        /\ state[s].cached = None \/ IsPromise(state[s].cached)

FastOK ==
    /\ DOMAIN fast = Server
    /\ \A s \in Server :
        /\ DOMAIN fast[s] = {"unsynced", "prefixHash", "unsyncedHash"}
        /\ IsUnsynced(fast[s].unsynced)
        /\ fast[s].prefixHash \in Hash /\ fast[s].unsyncedHash \in Hash

IsLeaderState(ls) ==
    /\ DOMAIN ls = {"n", "promises", "seqs", "accIdx", "maxMeta", "maxSync", "maxHash",
                    "map", "unsynced", "recovered"}
    /\ ls.n \in Ballot
    /\ ls.promises \in [Server -> PromiseState]
    /\ ls.seqs \in [Server -> SeqNum]
    /\ ls.accIdx \in [Server -> Nat]
    /\ ls.maxMeta \in [nAccepted : Ballot, accIdx : Nat]
    /\ ls.maxSync \in LogSync \cup {None} /\ ls.maxHash \in Hash
    /\ DOMAIN ls.map \subseteq Nat /\ \A i \in DOMAIN ls.map : ls.map[i] \in Candidate
    /\ DOMAIN ls.unsynced = Server /\ \A t \in Server : IsUnsynced(ls.unsynced[t])
    /\ ls.recovered \subseteq EntryId
LeadOK == DOMAIN lead = Server /\ \A s \in Server : IsLeaderState(lead[s])

DomOK == dom \in [Server -> [early : SUBSET Key, last : Nat \X Nat]]

NetOK ==
    /\ DOMAIN net = Server
    /\ \A s \in Server :
        /\ DOMAIN net[s] = Server
        /\ \A t \in Server : /\ net[s][t] \in Seq(Range(net[s][t]))
                             /\ \A m \in Range(net[s][t]) : IsMessage(m)

BoundsOK ==
    /\ submitted \subseteq EntryId
    /\ faults \in [lost : Nat, resends : Nat, crashes : Nat, reconnects : Nat]

\* A server's log belongs to no ballot above its promise, and a leader leads the
\* ballot it has promised, which is its own (handle_leader, handle_prepare).
BallotsOrdered ==
    \A s \in Server :
        /\ store[s].accRound <= store[s].promise
        /\ state[s].role = "Leader" => lead[s].n = store[s].promise /\ PidOf(lead[s].n) = s

\* The shape of every variable, and the order of each server's ballots.
TypeOK ==
    StoreOK /\ StateOK /\ FastOK /\ LeadOK /\ DomOK /\ NetOK /\ BoundsOK /\ BallotsOrdered

Decided(s) == SubSeq(store[s].log, 1, Min({store[s].decided, Len(store[s].log)}))
Comparable(l1, l2) == IsPrefix(l1, l2) \/ IsPrefix(l2, l1)

\* Agreement: what one server has decided and what another has decided never
\* conflict, whatever ballots decided it (set_decided_idx in leader and follower).
DecidedAgree ==
    \A s, t \in Server : Comparable(Decided(s), Decided(t))

\* A server never takes an index for decided that its log does not hold: the
\* decided index a leader adopts comes with the entries (handle_majority_promises,
\* handle_acceptsync, update_decided_idx_and_get_accepted_idx).
DecidedIsAccepted == \A s \in Server : store[s].decided <= Len(store[s].log)

\* A leader that has finished its prepare phase holds everything that any server
\* decided in its ballot or below (handle_majority_promises).
LeaderHoldsDecided ==
    \A s, t \in Server :
        IsLeader(s, "Accept") /\ store[t].accRound <= lead[s].n
            => IsPrefix(Decided(t), store[s].log)

\* In one ballot a follower's accepted log is a prefix of its leader's: no gap and
\* no stale suffix survives AcceptSync and the sequence numbers.
FollowerLogIsPrefix ==
    \A s, t \in Server :
        IsLeader(s, "Accept") /\ store[t].accRound = lead[s].n
            => IsPrefix(store[t].log, store[s].log)

\* What the leader believes a server accepted in its ballot (set_accepted_idx), the
\* server has, through crashes and repeated synchronisation.
AcceptedIsHeld ==
    \A s, t \in Server :
        IsLeader(s, "Accept") /\ lead[s].accIdx[t] > 0
            => store[t].accRound > lead[s].n \/ Len(store[t].log) >= lead[s].accIdx[t]

\* Sequence numbers carry the log: a follower that has seen the last message its
\* leader numbered for it has the leader's whole log (handle_sequence_num).
SessionCarriesLog ==
    \A s, t \in Server :
        (/\ IsLeader(s, "Accept") /\ IsFollower(t, "Accept")
         /\ store[t].accRound = lead[s].n /\ t \in HasPromised(lead[s])
         /\ state[t].seq = lead[s].seqs[t])
        => store[t].log = store[s].log

\* A follower is never sent AcceptSync, AcceptDecide or Decide in a ballot above its
\* promise: check_valid_ballot's "Should never happen" branch, which has no action.
LeaderMessagesPromised ==
    \A s, t \in Server : \A i \in DOMAIN net[s][t] :
        net[s][t][i].type \in FromLeader => net[s][t][i].n <= store[t].promise

\* A log suffix fits the log it will be put on: it starts no later than the receiver's
\* log ends, so no index is skipped.  sync_log takes this for granted when it sets the
\* cached accepted index to sync_idx plus the suffix's length.
LogSyncFits ==
    \A s, t \in Server : \A i \in DOMAIN net[s][t] :
        LET m == net[s][t][i]
            applies == \/ /\ m.type = "AcceptSync"
                          /\ m.n = store[t].promise /\ IsFollower(t, "Prepare")
                       \/ /\ m.type = "Promise" /\ m.sync # None
                          /\ m.n = lead[t].n /\ IsLeader(t, "Prepare")
        IN  applies => m.sync.idx <= Len(store[t].log)

\* A follower's unsynced log continues its accepted log without a gap, every entry's
\* prefix hash covers exactly the log before it, and unsynced_hash covers all of it
\* (handle_dom_release, rebuild_unsynced_tail, handle_acceptsync).
UnsyncedExtendsLog ==
    \A s \in Server : IsFollower(s, "Accept") =>
        LET own == fast[s].unsynced
            len == Len(store[s].log)
            upTo(i) == {own[j].e : j \in (len + 1)..i}
        IN  /\ DOMAIN own = (len + 1)..(len + Cardinality(DOMAIN own))
            /\ \A i \in DOMAIN own : own[i].prefix = Xor(fast[s].prefixHash, upTo(i - 1))
            /\ fast[s].unsyncedHash = upTo(len + Cardinality(DOMAIN own))

\* The most recent logs of Q, and the log a leader of a new ballot builds when
\* exactly the servers of Q promise and t's log is the one it adopts.
MostRecent(Q) ==
    LET meta(t) == [nAccepted |-> store[t].accRound, accIdx |-> Len(store[t].log)] IN
    {t \in Q : \A u \in Q : ~MoreUpToDate(meta(u), meta(t))}
LogRecoveredFrom(Q, t) ==
    LET ls == [LeaderStateWith(0) EXCEPT
                   !.maxHash = fast[t].prefixHash,
                   !.unsynced = [u \in Server |-> IF u \in Q THEN fast[u].unsynced ELSE <<>>]]
        new == Recovered(ls, Len(store[t].log))
    IN  store[t].log \o [i \in DOMAIN new |-> new[i][2]]

\* Whatever is decided, on the slow or on the fast path, every quorum of promises
\* still has what handle_majority_promises needs to rebuild it at its index.
EveryQuorumRecovers ==
    \A s \in Server : \A Q \in {R \in SUBSET Server : IsPrepareQuorum(Quorum, Cardinality(R))} :
        \A t \in MostRecent(Q) : IsPrefix(Decided(s), LogRecoveredFrom(Q, t))

\* A promise binds: no server goes back to a lower ballot or writes its log in a
\* ballot other than the one it has promised, through crashes, resends and late
\* messages (handle_prepare, check_valid_ballot, handle_leader).
PromiseKept ==
    [][\A s \in Server :
          /\ store'[s].promise >= store[s].promise
          /\ store'[s].log # store[s].log => store'[s].accRound = store'[s].promise]_vars

\* Nobody's decided entries are rewritten by any step, a crash included.
DecidedStable ==
    [][\A s \in Server : IsPrefix(Decided(s), store'[s].log)]_vars
===============================================================================
