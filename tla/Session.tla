-------------------------------- MODULE Session --------------------------------
(***************************************************************************)
(* The links between a leader and its followers during one reign: sequence   *)
(* numbers, the outgoing buffer in which later entries, decided and accepted *)
(* indexes are merged into messages not yet taken by the application, lost    *)
(* messages, retries and the stop sign of a reconfiguration.  Elections, the  *)
(* fast path and what followers have from earlier leaders are in              *)
(* SequencePaxos; batch_size is 1.                                            *)
(***************************************************************************)
EXTENDS Integers, FiniteSets, Sequences, SequencesExt, FastQuorum

CONSTANTS
    Leader, Follower,  \* the server that is elected, and its peers
    Quorum,            \* read and write quorum of the servers
    MaxEntries,        \* bound on the leader's log
    Reconfigurers,     \* bound: the servers whose user calls reconfigure, once each
    Losable,           \* types of the messages that may be lost
    MaxLost,           \* bound on messages lost
    MaxEager,          \* bound on resend timeouts while messages are under way and on calls
                       \* of reconnected by the user, together
    TakenBeforePromise \* the outgoing messages are taken before a promise is handled

Server == {Leader} \cup Follower
None == "None"

ASSUME SessionAssumption ==
    /\ IsFiniteSet(Follower) /\ Leader \notin Follower /\ Reconfigurers \subseteq Server
    /\ None \notin Server
    /\ IsValidQuorum(Quorum, Cardinality(Server))
    /\ {MaxEntries, MaxLost, MaxEager} \subseteq Nat
    /\ TakenBeforePromise \in BOOLEAN

VARIABLES
    lead,      \* the leader: phase, log, LeaderState
    foll,      \* foll[f]: the follower's phase, log, sequence number, cached promise
    buffered,  \* buffered[s]: buffered_stopsign
    out,       \* out[f]: what outgoing of the leader holds for f
    reply,     \* reply[f]: outgoing of f
    down, up,  \* channels from the leader to f and back, FIFO
    count      \* losses and eager acts so far, and who has called reconfigure

vars == <<lead, foll, buffered, out, reply, down, up, count>>

Zero == [session |-> 0, counter |-> 0]

Prefix(log, n) == SubSeq(log, 1, Min({n, Len(log)}))

\* get_accepted_idx of the leader: the stop sign counts as the last entry
LeadAccepted == Len(lead.log) + (IF lead.stop = None THEN 0 ELSE 1)

Init ==
    /\ lead = [phase |-> "Prepare", log |-> <<>>, stop |-> None, decided |-> 0,
               promise |-> [f \in Follower |-> <<>>], seq |-> [f \in Follower |-> Zero],
               acc |-> [s \in Server |-> 0], latest |-> [f \in Follower |-> 0]]
    /\ foll = [f \in Follower |->
               [phase |-> None, promised |-> FALSE, inRound |-> FALSE, log |-> <<>>, stop |-> None,
                accepted |-> 0, decided |-> 0, seq |-> Zero, cached |-> <<>>, latest |-> 0,
                again |-> FALSE]]
    /\ buffered = [s \in Server |-> None]
    /\ out = [f \in Follower |-> <<[type |-> "Prepare"]>>]
    /\ reply = [f \in Follower |-> <<>>]
    /\ down = [f \in Follower |-> <<>>] /\ up = [f \in Follower |-> <<>>]
    /\ count = [lost |-> 0, eager |-> 0, proposed |-> {}]

--------------------------------------------------------------------------------
\* Leader

Promised == {f \in Follower : lead.promise[f] # <<>>}

\* next_seq_num and increment_seq_num_session with next_seq_num
Next1(seq) == [seq EXCEPT !.counter = @ + 1]
NextSession(seq) == [session |-> seq.session + 1, counter |-> 1]

\* What the leader holds is as up to date as any promise of the reign, which is the
\* follower's if it is of this reign.
AcceptSync(ld, f) ==
    LET prom == ld.promise[f][1]
        valid == IF prom.inRound THEN prom.accepted ELSE 0
    IN  [type |-> "AcceptSync", seq |-> NextSession(ld.seq[f]), decided |-> ld.decided,
         sync |-> [idx |-> valid, suffix |-> SubSeq(ld.log, valid + 1, Len(ld.log)), stop |-> ld.stop]]

\* send_accsync to each follower of F
SendAcceptSync(ld, F) ==
    /\ lead' = [ld EXCEPT !.seq = [f \in Follower |-> IF f \in F THEN NextSession(@[f]) ELSE @[f]]]
    /\ out' = [f \in Follower |-> IF f \in F THEN Append(out[f], AcceptSync(ld, f)) ELSE out[f]]

AcceptDecide(seq, entries, decided) ==
    [type |-> "AcceptDecide", seq |-> seq, entries |-> entries, decided |-> decided]

\* get_latest_accdec_message
Merges(f) == lead.latest[f] # 0

\* accept_entry_leader with send_acceptdecide: the entry joins the AcceptDecide that waits
\* in outgoing, if there is one.  Proposals released behind a stop sign are in LogReplication.
AppendEntry ==
    LET e == Len(lead.log) + 1
        log == Append(lead.log, e)
        news == Promised \ {f \in Follower : Merges(f)}
        joined(msg) == AcceptDecide(msg.seq, Append(msg.entries, e), lead.decided)
    IN  /\ lead.phase = "Accept" /\ lead.stop = None /\ e <= MaxEntries
        /\ lead' = [lead EXCEPT !.log = log, !.acc[Leader] = Len(log),
                                !.seq = [f \in Follower |-> IF f \in news THEN Next1(@[f]) ELSE @[f]],
                                !.latest = [f \in Follower |->
                                               IF f \in news THEN Len(out[f]) + 1 ELSE @[f]]]
        /\ out' = [f \in Follower |->
               CASE f \in news -> Append(out[f], AcceptDecide(Next1(lead.seq[f]), <<e>>, lead.decided))
                 [] f \in Promised \ news -> [out[f] EXCEPT ![lead.latest[f]] = joined(@)]
                 [] OTHER -> out[f]]
        /\ UNCHANGED <<foll, buffered, reply, down, up, count>>

\* accept_stopsign_leader with send_accept_stopsign
AcceptStopSignAtLeader(ss) ==
    /\ lead' = [lead EXCEPT !.stop = ss, !.acc[Leader] = Len(lead.log) + 1,
                            !.seq = [f \in Follower |-> IF f \in Promised THEN Next1(@[f]) ELSE @[f]]]
    /\ out' = [f \in Follower |->
           IF f \in Promised
           THEN Append(out[f], [type |-> "AcceptStopSign", seq |-> Next1(lead.seq[f]), stop |-> ss])
           ELSE out[f]]

\* The part of reconfigure and handle_forwarded_stopsign at the leader
StopSignAtLeader(ss) ==
    IF lead.stop # None THEN UNCHANGED <<lead, out, buffered>>
    ELSE IF lead.phase = "Prepare"
         THEN buffered' = [buffered EXCEPT ![Leader] = ss] /\ UNCHANGED <<lead, out>>
         ELSE AcceptStopSignAtLeader(ss) /\ UNCHANGED buffered

FromFollower(f, type) ==
    /\ up[f] # <<>> /\ Head(up[f]).type = type
    /\ up' = [up EXCEPT ![f] = Tail(@)]
    /\ UNCHANGED <<foll, reply, down, count>>

ReceiveForwardStopSign(f) ==
    /\ FromFollower(f, "ForwardStopSign")
    /\ StopSignAtLeader(Head(up[f]).stop)

\* handle_preparereq
ReceivePrepareReq(f) ==
    /\ FromFollower(f, "PrepareReq")
    /\ lead' = [lead EXCEPT !.promise[f] = <<>>, !.latest[f] = 0]
    /\ out' = [out EXCEPT ![f] = Append(@, [type |-> "Prepare"])]
    /\ UNCHANGED buffered

\* handle_promise_prepare with handle_majority_promises
ReceivePromiseInPrepare(f) ==
    LET prom == [lead.promise EXCEPT ![f] = <<Head(up[f])>>]
        F == {g \in Follower : prom[g] # <<>>}
        stop == buffered[Leader]
    IN  /\ FromFollower(f, "Promise") /\ lead.phase = "Prepare"
        /\ IF IsPrepareQuorum(Quorum, Cardinality(F) + 1)
           THEN /\ SendAcceptSync([lead EXCEPT !.phase = "Accept", !.promise = prom, !.stop = stop,
                                               !.acc[Leader] = IF stop = None THEN 0 ELSE 1], F)
                /\ buffered' = [buffered EXCEPT ![Leader] = None]
           ELSE lead' = [lead EXCEPT !.promise = prom] /\ UNCHANGED <<out, buffered>>

\* handle_promise_accept.  It does not reset the latest AcceptDecide of f.
ReceivePromiseInAccept(f) ==
    /\ FromFollower(f, "Promise") /\ lead.phase = "Accept"
    /\ TakenBeforePromise => ~Merges(f)
    /\ SendAcceptSync([lead EXCEPT !.promise[f] = <<Head(up[f])>>], {f})
    /\ UNCHANGED buffered

IsChosen(acc, idx) == IsAcceptQuorum(Quorum, Cardinality({s \in Server : acc[s] >= idx}))

\* handle_accepted: the decided index joins a waiting AcceptDecide, too.
ReceiveAccepted(f) ==
    LET idx == Head(up[f]).accepted
        acc == [lead.acc EXCEPT ![f] = idx]
        news == Promised \ {g \in Follower : Merges(g)}
    IN  /\ FromFollower(f, "Accepted") /\ UNCHANGED buffered
        /\ IF lead.phase = "Accept" /\ idx > lead.decided /\ IsChosen(acc, idx)
           THEN /\ lead' = [lead EXCEPT !.acc = acc, !.decided = idx,
                      !.seq = [g \in Follower |-> IF g \in news THEN Next1(@[g]) ELSE @[g]]]
                /\ out' = [g \in Follower |->
                      CASE g \in news ->
                              Append(out[g], [type |-> "Decide", seq |-> Next1(lead.seq[g]), decided |-> idx])
                        [] g \in Promised \ news -> [out[g] EXCEPT ![lead.latest[g]].decided = idx]
                        [] OTHER -> out[g]]
           ELSE /\ lead' = IF lead.phase = "Accept" THEN [lead EXCEPT !.acc = acc] ELSE lead
                /\ UNCHANGED out

HandleAtLeader(f) ==
    \/ ReceiveForwardStopSign(f) \/ ReceivePrepareReq(f)
    \/ ReceivePromiseInPrepare(f) \/ ReceivePromiseInAccept(f) \/ ReceiveAccepted(f)

--------------------------------------------------------------------------------
\* Follower

\* Mutant of Expected: a gap in the session goes unnoticed.
ExpectedInSession(own, seq) == seq.session = own.session /\ seq.counter > own.counter

\* check_msg_status
Expected(own, seq) == seq.session = own.session /\ seq.counter = own.counter + 1
Outdated(own, seq) ==
    seq.session < own.session \/ (seq.session = own.session /\ seq.counter <= own.counter)

FromLeader(f, type) ==
    /\ down[f] # <<>> /\ Head(down[f]).type = type
    /\ down' = [down EXCEPT ![f] = Tail(@)]
    /\ UNCHANGED <<lead, buffered, out, up, count>>

Replies(f, msgs) == reply' = [reply EXCEPT ![f] = @ \o msgs]
Ignores == UNCHANGED <<foll, reply>>

\* reconnected(leader), of the user or after DroppedPreceding
Reconnected(f) ==
    /\ foll' = [foll EXCEPT ![f].phase = "Recover"]
    /\ Replies(f, <<[type |-> "PrepareReq"]>>)

\* handle_prepare
ReceivePrepare(f) ==
    LET own == foll[f]
        prom == [type |-> "Promise", inRound |-> own.inRound, accepted |-> own.accepted]
    IN  /\ FromLeader(f, "Prepare")
        /\ IF ~own.promised \/ own.phase = "Recover"
           THEN /\ foll' = [foll EXCEPT ![f] = [own EXCEPT !.phase = "Prepare", !.promised = TRUE,
                                                           !.seq = Zero, !.cached = <<prom>>]]
                /\ Replies(f, <<prom>>)
           ELSE Ignores

\* handle_acceptsync with sync_log, which counts a stop sign the prefix holds twice: `again`
\* remembers that (the finding of LogReplication).
ReceiveAcceptSync(f) ==
    LET own == foll[f]
        msg == Head(down[f])
        next == [own EXCEPT !.phase = "Accept", !.inRound = TRUE, !.seq = msg.seq, !.cached = <<>>,
                            !.log = Prefix(@, msg.sync.idx) \o msg.sync.suffix,
                            !.stop = msg.sync.stop, !.decided = msg.decided,
                            !.accepted = msg.sync.idx + Len(msg.sync.suffix)
                                         + (IF msg.sync.stop = None THEN 0 ELSE 1),
                            !.again = @ \/ msg.sync.idx > Len(own.log),
                            !.latest = Len(reply[f]) + 1]
    IN  /\ FromLeader(f, "AcceptSync")
        /\ IF own.phase = "Prepare"
           THEN /\ foll' = [foll EXCEPT ![f] = next]
                /\ Replies(f, <<[type |-> "Accepted", accepted |-> next.accepted]>>)
           ELSE Ignores

\* reply_accepted: an Accepted that waits in outgoing is updated in place
ReplyAccepted(f, next) ==
    IF next.latest # 0
    THEN /\ reply' = [reply EXCEPT ![f][next.latest].accepted = next.accepted]
         /\ foll' = [foll EXCEPT ![f] = next]
    ELSE /\ Replies(f, <<[type |-> "Accepted", accepted |-> next.accepted]>>)
         /\ foll' = [foll EXCEPT ![f] = [next EXCEPT !.latest = Len(reply[f]) + 1]]

\* A message of the session: handle_sequence_num, then Accepted if it is expected
InSession(f, type, Accepted) ==
    LET seq == Head(down[f]).seq
    IN  /\ FromLeader(f, type)
        /\ CASE foll[f].phase # "Accept" -> Ignores
             [] foll[f].phase = "Accept" /\ Expected(foll[f].seq, seq) -> Accepted
             [] foll[f].phase = "Accept" /\ ~Expected(foll[f].seq, seq) /\ Outdated(foll[f].seq, seq) -> Ignores
             [] OTHER -> Reconnected(f)

\* The follower with the number of the message
Numbered(f) == [foll[f] EXCEPT !.seq = Head(down[f]).seq]

\* update_decided_idx_and_get_accepted_idx, with nothing batched
UpdateDecided(st, idx) ==
    [st EXCEPT !.decided = IF idx <= @ THEN @ ELSE Min({idx, st.accepted})]

ReceiveAcceptDecide(f) ==
    LET msg == Head(down[f])
        appended == [Numbered(f) EXCEPT !.log = @ \o msg.entries, !.accepted = @ + Len(msg.entries)]
    IN  InSession(f, "AcceptDecide", ReplyAccepted(f, UpdateDecided(appended, msg.decided)))

ReceiveAcceptStopSign(f) ==
    LET stopped == [Numbered(f) EXCEPT !.stop = Head(down[f]).stop,
                                       !.accepted = IF foll[f].stop = None THEN @ + 1 ELSE @]
    IN  InSession(f, "AcceptStopSign", ReplyAccepted(f, stopped))

\* handle_decide; an index beyond the log would be answered with Accepted
ReceiveDecide(f) ==
    LET idx == Head(down[f]).decided
        next == UpdateDecided(Numbered(f), idx)
    IN  InSession(f, "Decide",
                  IF idx > foll[f].accepted THEN ReplyAccepted(f, next)
                  ELSE foll' = [foll EXCEPT ![f] = next] /\ UNCHANGED reply)

HandleAtFollower(f) ==
    \/ ReceivePrepare(f) \/ ReceiveAcceptSync(f) \/ ReceiveAcceptDecide(f)
    \/ ReceiveAcceptStopSign(f) \/ ReceiveDecide(f)

--------------------------------------------------------------------------------
\* The application: reconfigure, take_outgoing_messages, tick, reconnected

\* reconfigure of the user of s, with forward_stopsign; the stop sign is named after s
Reconfigure(s) ==
    /\ s \in Reconfigurers \ count.proposed
    /\ count' = [count EXCEPT !.proposed = @ \cup {s}]
    /\ UNCHANGED <<down, up>>
    /\ IF s = Leader THEN StopSignAtLeader(s) /\ UNCHANGED <<foll, reply>>
       ELSE /\ UNCHANGED <<lead, foll, out>>
            /\ CASE foll[s].stop # None -> UNCHANGED <<reply, buffered>>
                 [] foll[s].stop = None /\ foll[s].promised ->
                        Replies(s, <<[type |-> "ForwardStopSign", stop |-> s]>>) /\ UNCHANGED buffered
                 [] OTHER -> buffered' = [buffered EXCEPT ![s] = s] /\ UNCHANGED reply

TakeAtLeader ==
    /\ \E f \in Follower : out[f] # <<>>
    /\ down' = [f \in Follower |-> down[f] \o out[f]]
    /\ out' = [f \in Follower |-> <<>>]
    /\ lead' = [lead EXCEPT !.latest = [f \in Follower |-> 0]]
    /\ UNCHANGED <<foll, buffered, reply, up, count>>

TakeAtFollower(f) ==
    /\ reply[f] # <<>>
    /\ up' = [up EXCEPT ![f] = @ \o reply[f]]
    /\ reply' = [reply EXCEPT ![f] = <<>>]
    /\ foll' = [foll EXCEPT ![f].latest = 0]
    /\ UNCHANGED <<lead, buffered, out, down, count>>

\* A resend timeout when nothing is under way, or an eager one
Quiet == \A f \in Follower : out[f] = <<>> /\ down[f] = <<>> /\ reply[f] = <<>> /\ up[f] = <<>>
Timeout ==
    IF Quiet THEN UNCHANGED count
    ELSE count.eager < MaxEager /\ count' = [count EXCEPT !.eager = @ + 1]

\* Mutant of ResendStopSign: only what is not decided is sent again.
ResendStopSignUndecided(f) ==
    IF lead.stop = None \/ f \notin Promised \/ lead.decided = LeadAccepted THEN <<>>
    ELSE <<[type |-> "AcceptStopSign", seq |-> lead.seq[f], stop |-> lead.stop]>>

\* resend_messages_leader to f: with the sequence number used last
ResendStopSign(f) ==
    LET seq == lead.seq[f] IN
    CASE lead.stop = None \/ f \notin Promised -> <<>>
      [] lead.stop # None /\ f \in Promised /\ lead.decided = LeadAccepted ->
            <<[type |-> "Decide", seq |-> seq, decided |-> lead.decided]>>
      [] lead.stop # None /\ f \in Promised /\ lead.decided # LeadAccepted ->
            IF lead.acc[f] = LeadAccepted THEN <<>>
            ELSE <<[type |-> "AcceptStopSign", seq |-> seq, stop |-> lead.stop]>>

ResendAtLeader ==
    LET msgs(f) == (IF lead.phase = "Accept" THEN ResendStopSign(f) ELSE <<>>)
                   \o (IF f \in Promised THEN <<>> ELSE <<[type |-> "Prepare"]>>)
    IN  /\ Timeout
        /\ \E f \in Follower : msgs(f) # <<>>
        /\ out' = [f \in Follower |-> out[f] \o msgs(f)]
        /\ UNCHANGED <<lead, foll, buffered, reply, down, up>>

\* resend_messages_follower
ResendAtFollower(f) ==
    /\ Timeout
    /\ foll[f].phase \in {"Prepare", "Recover"}
    /\ Replies(f, IF foll[f].phase = "Prepare" THEN foll[f].cached ELSE <<[type |-> "PrepareReq"]>>)
    /\ UNCHANGED <<lead, foll, buffered, out, down, up>>

\* reconnected of the user of f, which has promised the leader
UserReconnected(f) ==
    /\ count.eager < MaxEager /\ foll[f].promised
    /\ count' = [count EXCEPT !.eager = @ + 1]
    /\ Reconnected(f)
    /\ UNCHANGED <<lead, buffered, out, down, up>>

Lose(f) ==
    /\ count.lost < MaxLost
    /\ \/ /\ down[f] # <<>> /\ Head(down[f]).type \in Losable
          /\ down' = [down EXCEPT ![f] = Tail(@)] /\ UNCHANGED up
       \/ /\ up[f] # <<>> /\ Head(up[f]).type \in Losable
          /\ up' = [up EXCEPT ![f] = Tail(@)] /\ UNCHANGED down
    /\ count' = [count EXCEPT !.lost = @ + 1]
    /\ UNCHANGED <<lead, foll, buffered, out, reply>>

--------------------------------------------------------------------------------
Next ==
    \/ AppendEntry \/ TakeAtLeader \/ ResendAtLeader
    \/ \E s \in Server : Reconfigure(s)
    \/ \E f \in Follower :
          \/ HandleAtLeader(f) \/ HandleAtFollower(f)
          \/ TakeAtFollower(f) \/ ResendAtFollower(f) \/ UserReconnected(f) \/ Lose(f)

\* Messages that are not lost are delivered and handled, outgoing messages are taken, and
\* the resend timers go off again and again; an eager timeout is not owed.
Fairness ==
    /\ WF_vars(TakeAtLeader) /\ SF_vars(Quiet /\ ResendAtLeader)
    /\ \A f \in Follower : /\ WF_vars(HandleAtLeader(f)) /\ WF_vars(HandleAtFollower(f))
                           /\ WF_vars(TakeAtFollower(f)) /\ SF_vars(Quiet /\ ResendAtFollower(f))

Spec == Init /\ [][Next]_vars
FairSpec == Spec /\ Fairness

--------------------------------------------------------------------------------
\* Properties

FullLog(st) == st.log \o (IF st.stop = None THEN <<>> ELSE <<st.stop>>)

\* A follower in its session holds a prefix of the leader's log, stop sign included,
\* whatever was lost, repeated or merged on the way (handle_sequence_num).
SessionKeepsOrder ==
    \A f \in Follower : IsPrefix(FullLog(foll[f]), FullLog(lead))

\* What anyone takes for decided a write quorum has accepted (handle_accepted,
\* reply_accepted).  The leader decides nothing beyond its log, unless a follower has counted
\* its stop sign twice (the finding of LogReplication).
DecidedIsHeld ==
    LET prefix(st) == Prefix(FullLog(st), lead.decided)
        holders == {f \in Follower : prefix(foll[f]) = prefix(lead)}
    IN  /\ IsAcceptQuorum(Quorum, Cardinality(holders) + 1) \/ lead.decided = 0
        /\ lead.decided <= LeadAccepted \/ \E f \in Follower : foll[f].again
        /\ \A f \in Follower : foll[f].decided <= lead.decided

\* Once the leader has accepted a stop sign every follower decides it: what may be lost is
\* detected and sent again (resend_message_timeout).  Not so if a follower that holds the
\* stop sign has synchronised once more.
StopSignDecided ==
    (lead.stop # None) ~> \/ \E f \in Follower : foll[f].again
                          \/ \A f \in Follower : /\ foll[f].stop = lead.stop
                                                /\ foll[f].decided = foll[f].accepted
===============================================================================
