------------------------- MODULE BallotLeaderElection -------------------------
(***************************************************************************)
(* Ballot leader election (ballot_leader_election.rs) as the facade drives it *)
(* (omni_paxos.rs): rounds of heartbeats at every server, a takeover when the *)
(* leader is lost, and the promises of Sequence Paxos, which both feed on.    *)
(*                                                                           *)
(* A request or reply of an earlier round changes nothing, so a heartbeat is *)
(* one step: the reply with what the peer says at that moment, or no reply.  *)
(***************************************************************************)
EXTENDS Integers, FiniteSets, FastQuorum

CONSTANTS
    Servers,        \* pids
    Priorities,     \* priorities given with set_priority
    Synchronous,    \* no heartbeat timeout before every connected peer has answered
    MaxBallot,      \* bound on ballot numbers
    Affected,       \* bound: what may happen besides heartbeats, and at which servers
    MaxEvents       \* bound on how often it happens

ASSUME ServersAssumption == IsFiniteSet(Servers) /\ Servers \subseteq Nat \ {0}
ASSUME BoundsAssumption ==
    /\ MaxBallot \in Nat /\ MaxEvents \in Nat
    /\ Affected \in [{"PromiseLeader", "ChangeLinks", "Restart", "TryBecomeLeader", "SetPriority"}
                        -> SUBSET Servers]
    /\ Priorities \subseteq Nat /\ Synchronous \in BOOLEAN

VARIABLES
    ble,        \* ble[s]: current_ballot, leader and happy
    replies,    \* replies[s]: heartbeat_replies of the present round, by peer
    promise,    \* promise[s]: the promise in the storage of Sequence Paxos
    links,      \* the pairs of servers that are connected
    retired,    \* history: retired[s], the promise with which s last restarted
    events      \* how often something else happened

vars == <<ble, replies, promise, links, retired, events>>

Peers(s) == Servers \ {s}
Linked(s, t) == {s, t} \in links
Reachable(s) == {t \in Peers(s) : Linked(s, t)}
AllLinks == {{s, t} : s \in Servers, t \in Servers} \ {{s} : s \in Servers}

Ballot(n, priority, pid) == [n |-> n, priority |-> priority, pid |-> pid]
NoBallot == Ballot(0, 0, 0)     \* Ballot::default()

\* Ballot::cmp
Less(b, c) ==
    \/ b.n < c.n
    \/ b.n = c.n /\ b.priority < c.priority
    \/ b.n = c.n /\ b.priority = c.priority /\ b.pid < c.pid

\* Quorum::Majority, the same for prepare and accept
IsQuorum(n) == IsPrepareQuorum(Majority(Cardinality(Servers)), n)

--------------------------------------------------------------------------------
\* Mutant of Started: a recovered server keeps the initial round.
StartedInInitialRound(s, recovered) ==
    [current |-> Ballot(1, 0, s),
     leader |-> IF recovered = NoBallot THEN Ballot(1, 0, s) ELSE recovered,
     happy |-> TRUE]

\* BallotLeaderElection::with: INITIAL_ROUND, or RECOVERY_ROUND with the stored promise
Started(s, recovered) ==
    IF recovered = NoBallot
    THEN [current |-> Ballot(1, 0, s), leader |-> Ballot(1, 0, s), happy |-> TRUE]
    ELSE [current |-> Ballot(0, 0, s), leader |-> recovered, happy |-> TRUE]

Init ==
    /\ ble = [s \in Servers |-> Started(s, NoBallot)]
    /\ replies = [s \in Servers |-> << >>]
    /\ promise = [s \in Servers |-> NoBallot]
    /\ links = AllLinks
    /\ retired = [s \in Servers |-> NoBallot]
    /\ events = 0

\* handle_request at t and handle_reply at s
Heartbeat(s, t) ==
    /\ Linked(s, t) /\ t \notin DOMAIN replies[s]
    /\ replies' = [replies EXCEPT ![s] =
           [p \in DOMAIN @ \cup {t} |-> IF p = t THEN ble[t] ELSE @[p]]]
    /\ UNCHANGED <<ble, promise, links, retired, events>>

--------------------------------------------------------------------------------
\* hb_timeout; b is the state of one server, R its replies

Replies(s) == {replies[s][t] : t \in DOMAIN replies[s]}
Followers(s, b) == Cardinality({t \in DOMAIN replies[s] : ~Less(b.current, replies[s][t].leader)})

\* Mutant of UpdateLeader: the largest reply replaces the leader, larger or not.
FollowLargestReply(b, R) ==
    IF R # {}
    THEN [b EXCEPT !.leader = (CHOOSE r \in R : \A q \in R : ~Less(r.current, q.current)).current]
    ELSE b

UpdateLeader(b, R) ==
    IF \E r \in R : Less(b.leader, r.current)
    THEN [b EXCEPT !.leader = (CHOOSE r \in R : \A q \in R : ~Less(r.current, q.current)).current]
    ELSE b

\* As the leader: enough potential followers, or a larger ballot with a happy follower.
\* As a follower: the leader has answered and is happy.
UpdateHappiness(b, R, potentialFollowers) ==
    [b EXCEPT !.happy =
        IF b.leader = b.current
        THEN \/ IsQuorum(potentialFollowers + 1)
             \/ \E r \in R : Less(b.current, r.leader) /\ r.happy
        ELSE \E r \in R : r.current = b.leader /\ r.happy]

CheckTakeover(b, R, connected) ==
    LET higher == [b.current EXCEPT !.n = b.leader.n + 1]
    IN  IF ~b.happy /\ (\A r \in R : ~r.happy) /\ IsQuorum(connected + 1)
        THEN [current |-> higher, leader |-> higher, happy |-> TRUE]
        ELSE b

\* Sync the leader with the promise of Sequence Paxos
SyncWithPromise(b, s, prom) ==
    IF Less(b.leader, prom)
    THEN [current |-> IF prom.pid = s THEN prom ELSE b.current, leader |-> prom, happy |-> TRUE]
    ELSE b

\* handle_leader of Sequence Paxos, with a ballot of the server itself
HandleLeader(s, b) ==
    promise' = IF Less(promise[s], b) THEN [promise EXCEPT ![s] = b] ELSE promise

\* election_timeout with hb_timeout: the four in turn, a new round, and handle_leader
HbTimeout(s) ==
    LET R == Replies(s)
        connected == Cardinality(DOMAIN replies[s])
    IN  /\ Synchronous => Reachable(s) \subseteq DOMAIN replies[s]
        /\ \E led \in {UpdateLeader(ble[s], R)} :
           \E judged \in {UpdateHappiness(led, R, Followers(s, led))} :
           \E b \in {SyncWithPromise(CheckTakeover(judged, R, connected), s, promise[s])} :
              /\ b.current.n <= MaxBallot
              /\ ble' = [ble EXCEPT ![s] = b]
              /\ IF b.leader = b.current THEN HandleLeader(s, b.current) ELSE UNCHANGED promise
        /\ replies' = [replies EXCEPT ![s] = << >>]
        /\ UNCHANGED <<links, retired, events>>

--------------------------------------------------------------------------------
\* The rest of the server and its environment

\* Sequence Paxos: the Prepare of a connected server t for its own ballot reaches s
PromiseLeader(s, t) ==
    /\ s \in Affected["PromiseLeader"]
    /\ Linked(s, t) /\ promise[t].pid = t /\ Less(promise[s], promise[t])
    /\ promise' = [promise EXCEPT ![s] = promise[t]]
    /\ UNCHANGED <<ble, replies, links, retired, events>>

Happens(event, S) == S \subseteq Affected[event] /\ events < MaxEvents /\ events' = events + 1

\* try_become_leader
TryBecomeLeader(s) ==
    /\ Happens("TryBecomeLeader", {s})
    /\ promise[s].n + 1 <= MaxBallot
    /\ HandleLeader(s, [ble[s].current EXCEPT !.n = promise[s].n + 1])
    /\ UNCHANGED <<ble, replies, links, retired>>

SetPriority(s, p) ==
    /\ Happens("SetPriority", {s})
    /\ ble' = [ble EXCEPT ![s].current.priority = p]
    /\ UNCHANGED <<replies, promise, links, retired>>

\* A crash and a restart from the stored promise
Restart(s) ==
    /\ Happens("Restart", {s})
    /\ ble' = [ble EXCEPT ![s] = Started(s, promise[s])]
    /\ replies' = [replies EXCEPT ![s] = << >>]
    /\ retired' = [retired EXCEPT ![s] = promise[s]]
    /\ UNCHANGED <<promise, links>>

\* The connections in S break or return
ChangeLinks(S) ==
    /\ S # {} /\ Happens("ChangeLinks", UNION S)
    /\ links' = (links \ S) \cup (S \ links)
    /\ UNCHANGED <<ble, replies, promise, retired>>

Next ==
    \/ \E s, t \in Servers : Heartbeat(s, t) \/ PromiseLeader(s, t)
    \/ \E s \in Servers :
          \/ HbTimeout(s) \/ TryBecomeLeader(s) \/ Restart(s)
          \/ \E p \in Priorities : SetPriority(s, p)
    \/ \E S \in SUBSET AllLinks : ChangeLinks(S)

Spec == Init /\ [][Next]_vars

\* Heartbeats and timers go on at every server; nothing is asked of Sequence Paxos.
RoundStep(s) == HbTimeout(s) \/ \E t \in Servers : Heartbeat(s, t)

FairSpec == Spec /\ \A s \in Servers : WF_vars(RoundStep(s))

--------------------------------------------------------------------------------
\* Properties

\* A server that can reach a majority.
QuorumConnected(s) == IsQuorum(Cardinality(Reachable(s)) + 1)

\* s leads in its own eyes and for Sequence Paxos.
Elected(s) ==
    /\ QuorumConnected(s)
    /\ ble[s].happy /\ ble[s].leader = ble[s].current /\ promise[s] = ble[s].current

\* No priority is changed while the server runs.
PrioritiesKept == \A s \in Servers : ble[s].current.priority = 0

\* When the connections settle so that some server can reach a majority, such a server
\* becomes and stays the leader, whatever the connections are otherwise, and whatever
\* was promised, restarted or attempted before: unless a priority is changed.
LeaderEmerges ==
    []PrioritiesKept /\ <>[](\E s \in Servers : QuorumConnected(s))
        => \E s \in Servers : <>[]Elected(s)

\* "Prevents a recovered server from retaining BLE leadership with the same ballot": a
\* server that leads, in its own eyes or for Sequence Paxos, does so with a ballot larger
\* than the one it had promised when it restarted.
NoRetainedLeadership ==
    \A s \in Servers :
        retired[s] # NoBallot /\ ble[s].leader = ble[s].current => Less(retired[s], ble[s].current)

\* The leader a server follows is replaced by larger ballots only, except by a restart,
\* which takes the promised one.
LeaderOnlyRises ==
    [][\A s \in Servers :
         Less(ble'[s].leader, ble[s].leader) => ble'[s] = Started(s, promise[s])]_vars
===============================================================================
