-------------------------- MODULE DeadlineMulticast --------------------------
(***************************************************************************)
(* The deadline-ordered multicast of the replicas (dom/): a proposal is sent *)
(* to every server with a deadline, buffered until the server's clock is     *)
(* surely past it, and released in the order of (deadline, entry id).  A     *)
(* late proposal is dropped, or given a new deadline by the leader.          *)
(*                                                                           *)
(* Clocks are the contract of PhysicalClock without its monotonicity, which   *)
(* SystemClock lacks: a reading is off by its uncertainty at most.           *)
(***************************************************************************)
EXTENDS OwdEstimator

CONSTANTS
    Servers,
    EntryIds,           \* ordered by number
    Proposers,          \* bound: the servers at which entries are appended
    Uncertainties,      \* the uncertainties a clock may report
    OneMicroSecond,     \* ONE_MICRO_SECOND
    Times               \* bound: true time and deadlines stay in this range

ASSUME MulticastAssumption ==
    /\ Proposers \subseteq Servers
    /\ EntryIds \subseteq Int /\ Uncertainties \subseteq Nat /\ Times \subseteq Int
    /\ OneMicroSecond \in Nat \ {0}

NoKey == [deadline |-> "none"]
ASSUME NoKeyAssumption == NoKey \notin [deadline : Int, id : EntryIds]

VARIABLES
    trueTime,
    network,        \* messages under way; a lost one stays forever
    early,          \* early_buffer of each server: a set of proposals
    lastReleased,   \* last_released: the key released last, or NoKey
    incoming,       \* incoming_owd_estimates: a window of samples for each sender
    outgoing,       \* outgoing_owd_estimates: the estimates acknowledged so far
    proposed,       \* history: the proposals made
    released,       \* history: what each server has released
    late,           \* history: what each server found late, and when in true time
    gone,           \* history: what each server removed, or lost when it restarted
    panicked        \* servers whose expect("proposal cannot be late") failed

messages == <<network, proposed>>
buffers == <<early, lastReleased, released, late, gone, panicked>>
estimates == <<incoming, outgoing>>
vars == <<trueTime, messages, buffers, estimates>>

\* BufferKey and its order
KeyOf(p) == [deadline |-> p.deadline, id |-> p.id]
Before(k, l) == k.deadline < l.deadline \/ (k.deadline = l.deadline /\ k.id < l.id)

\* get_time_with_uncertainty
Readings == UNION {{[time |-> c, unc |-> u] : c \in (trueTime - u)..(trueTime + u)} : u \in Uncertainties}

Init ==
    /\ trueTime \in Times
    /\ network = {} /\ proposed = {}
    /\ early = [s \in Servers |-> {}]
    /\ lastReleased = [s \in Servers |-> NoKey]
    /\ incoming = [s \in Servers |-> [r \in Servers |-> <<>>]]
    /\ outgoing = [s \in Servers |-> << >>]
    /\ released = [s \in Servers |-> {}]
    /\ late = [s \in Servers |-> {}]
    /\ gone = [s \in Servers |-> {}]
    /\ panicked = {}

Pass ==
    /\ \E t \in Times : t > trueTime /\ trueTime' = t
    /\ UNCHANGED <<messages, buffers, estimates>>

--------------------------------------------------------------------------------
\* OutgoingOwdTracker

\* get_max_owd: of the servers that have acknowledged
GetMaxOwd(s) ==
    IF DOMAIN outgoing[s] = {} THEN MaxOwd
    ELSE LET known == {outgoing[s][r] : r \in DOMAIN outgoing[s]} IN
         CHOOSE e \in known : \A other \in known : other <= e

\* update with the ack of r
Acknowledged(s, r, owd) ==
    [q \in DOMAIN outgoing[s] \cup {r} |-> IF q = r THEN AtLeastZero(owd) ELSE outgoing[s][q]]

--------------------------------------------------------------------------------
\* EarlyBuffer

\* Mutant of IsLate: only the deadlines are compared.
IsLateByDeadline(s, p) ==
    lastReleased[s] # NoKey /\ p.deadline < lastReleased[s].deadline

IsLate(s, p) == lastReleased[s] # NoKey /\ ~Before(lastReleased[s], KeyOf(p))

\* Mutant of NewDeadline: the last released deadline is ignored.
NewDeadlineFromClock(s, now) == now.time + now.unc

\* extend_deadline
NewDeadline(s, now) ==
    LET later == lastReleased[s].deadline + OneMicroSecond
    IN  IF lastReleased[s] # NoKey /\ later > now.time + now.unc THEN later
        ELSE now.time + now.unc

\* Dom::handle_dom_propose but for the estimates: a leader reads the clock again to
\* extend the deadline of a late proposal
InsertAsLeader(s, p, now) ==
    LET extended == [p EXCEPT !.deadline = NewDeadline(s, now)] IN
    IF IsLate(s, extended)
    THEN panicked' = panicked \cup {s} /\ UNCHANGED early
    ELSE early' = [early EXCEPT ![s] = @ \cup {extended}] /\ UNCHANGED panicked

Insert(s, p) ==
    /\ \/ /\ ~IsLate(s, p)
          /\ early' = [early EXCEPT ![s] = @ \cup {p}]
          /\ UNCHANGED <<late, panicked>>
       \/ /\ IsLate(s, p)
          /\ late' = [late EXCEPT ![s] = @ \cup {[prop |-> p, at |-> trueTime]}]
          /\ \/ UNCHANGED <<early, panicked>>                       \* Role::Follower
             \/ \E now \in Readings : InsertAsLeader(s, p, now)     \* Role::Leader
    /\ UNCHANGED <<lastReleased, released, gone>>

--------------------------------------------------------------------------------
\* Handlers

\* The estimate of the sender's delay, after the sample of its proposal
NewWindow(s, p, received) == Slide(incoming[s][p.sender], OwdSample(p.sent, received))

\* append_with_id: create_dom_propose, send it, handle it and the own ack
AppendWithId(s, id) ==
    \E sent \in Readings, received \in Readings, deadline \in Times :
        LET p == [id |-> id, sender |-> s, sent |-> sent, deadline |-> deadline]
            window == NewWindow(s, p, received)
        IN  /\ \A q \in proposed : q.id # id
            /\ deadline = sent.time + GetMaxOwd(s)
            /\ proposed' = proposed \cup {p}
            /\ network' = network \cup {[type |-> "DomPropose", to |-> r, prop |-> p] : r \in Servers \ {s}}
            /\ Insert(s, p)
            /\ incoming' = [incoming EXCEPT ![s][s] = window]
            /\ outgoing' = [outgoing EXCEPT ![s] = Acknowledged(s, s, EstimateFromWindow(window))]
            /\ UNCHANGED trueTime

ReceiveDomPropose(m) ==
    \E received \in Readings :
        LET s == m.to
            p == m.prop
            window == NewWindow(s, p, received)
        IN  /\ m.type = "DomPropose"
            /\ Insert(s, p)
            /\ incoming' = [incoming EXCEPT ![s][p.sender] = window]
            /\ network' = (network \ {m}) \cup
                   {[type |-> "DomAck", to |-> p.sender, sender |-> s, id |-> p.id,
                     owd |-> EstimateFromWindow(window)]}
            /\ UNCHANGED <<trueTime, proposed, outgoing>>

ReceiveDomAck(m) ==
    /\ m.type = "DomAck"
    /\ outgoing' = [outgoing EXCEPT ![m.to] = Acknowledged(m.to, m.sender, m.owd)]
    /\ network' = network \ {m}
    /\ UNCHANGED <<trueTime, proposed, buffers, incoming>>

\* Mutant of Passed: a deadline has passed when the clock shows it.
PassedOnClock(now) == now.time

\* The deadlines that have passed for sure
Passed(now) == now.time - now.unc

\* release_ready: pop_ready until the earliest deadline is not past
ReleaseReady(s) ==
    \E now \in Readings :
        LET ready == {p \in early[s] : p.deadline <= Passed(now)} IN
        /\ \E last \in ready :
              /\ \A p \in ready : p = last \/ Before(KeyOf(p), KeyOf(last))
              /\ lastReleased' = [lastReleased EXCEPT ![s] = KeyOf(last)]
        /\ early' = [early EXCEPT ![s] = @ \ ready]
        /\ released' = [released EXCEPT ![s] = @ \cup ready]
        /\ UNCHANGED <<trueTime, messages, late, gone, panicked, estimates>>

\* remove_from_buffers, of an entry a new leader has recovered
RemoveFromBuffers(s, id) ==
    LET removed == {p \in early[s] : p.id = id} IN
    /\ removed # {}
    /\ early' = [early EXCEPT ![s] = @ \ removed]
    /\ gone' = [gone EXCEPT ![s] = @ \cup removed]
    /\ UNCHANGED <<trueTime, messages, lastReleased, released, late, panicked, estimates>>

\* Dom::new at a server that restarts: nothing of the multicast is kept
Restart(s) ==
    /\ early' = [early EXCEPT ![s] = {}]
    /\ gone' = [gone EXCEPT ![s] = @ \cup early[s]]
    /\ lastReleased' = [lastReleased EXCEPT ![s] = NoKey]
    /\ incoming' = [incoming EXCEPT ![s] = [r \in Servers |-> <<>>]]
    /\ outgoing' = [outgoing EXCEPT ![s] = << >>]
    /\ UNCHANGED <<trueTime, messages, released, late, panicked>>

Receive == \E m \in network : ReceiveDomPropose(m) \/ ReceiveDomAck(m)

Next ==
    \/ Pass
    \/ Receive
    \/ \E s \in Proposers, id \in EntryIds : AppendWithId(s, id)
    \/ \E s \in Servers :
          \/ \E id \in EntryIds : RemoveFromBuffers(s, id)
          \/ ReleaseReady(s)
          \/ Restart(s)

Spec == Init /\ [][Next]_vars

--------------------------------------------------------------------------------
\* Properties

\* What a server releases comes after everything it has released since it started, also
\* when deadlines are equal or extended: two servers release the proposals they share
\* in the same order (buffer.rs, is_late; mod.rs, release_ready).
ReleasedInOrder ==
    [][\A s \in Servers : \A p \in released'[s] \ released[s] :
          lastReleased[s] = NoKey \/ Before(lastReleased[s], KeyOf(p))]_vars

\* No server releases a proposal before its deadline in true time, whatever its clock
\* shows: release_ready takes the uncertainty off the reading.
NotBeforeDeadline ==
    \A s \in Servers : \A p \in released[s] : p.deadline <= trueTime

\* Followers may fast-accept because the buffers agree: a server that has released past
\* the deadline of a proposal has released it too, unless the proposal reached it, or is
\* still on its way to it, after that deadline, or was removed.
NothingSkipped ==
    \A p \in proposed, s \in Servers :
        \/ lastReleased[s] = NoKey \/ Before(lastReleased[s], KeyOf(p))
        \/ p \in released[s] \cup gone[s]
        \/ \E l \in late[s] : l.prop = p /\ p.deadline <= l.at
        \/ /\ [type |-> "DomPropose", to |-> s, prop |-> p] \in network
           /\ p.deadline <= trueTime

\* A late proposal whose deadline the leader has extended is never late again: the
\* expect("proposal cannot be late") of handle_dom_propose holds.
ExtendedIsNeverLate == panicked = {}

\* A deadline is never further away than max_owd, whatever delays were measured and
\* acknowledged: a proposal stays in no buffer for longer than that and the clocks' errors.
DeadlineWithinMaxOwd ==
    \A p \in proposed : p.sent.time <= p.deadline /\ p.deadline <= p.sent.time + MaxOwd
===============================================================================
