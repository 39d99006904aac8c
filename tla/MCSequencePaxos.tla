---------------------------- MODULE MCSequencePaxos ----------------------------
(***************************************************************************)
(* Instances of SequencePaxos for TLC: who owns which ballot, and a view that *)
(* identifies states which differ only in dead data.                         *)
(***************************************************************************)
EXTENDS SequencePaxos

CONSTANTS s1, s2

MCQuorum == Majority(Cardinality(Server))

\* All servers promise, all but one of them accept: a flexible quorum of three
MCFlexibleQuorum == [read |-> Cardinality(Server), write |-> Cardinality(Server) - 1]

MCOwner1 == <<s1>>
MCOwner12 == <<s1, s2>>

\* Bounds for the largest runs: states with more messages under way are not explored.
InFlight == FoldSet(LAMBDA c, sum : sum + Len(net[c[1]][c[2]]), 0, Server \X Server)
AtMost3 == InFlight <= 3
AtMost4 == InFlight <= 4
AtMost5 == InFlight <= 5

\* A server leads, or may still be elected with one of its ballots.
MayLead(s) ==
    \/ state[s].role = "Leader"
    \/ \E b \in 1..MaxBallot : Owner[b] = s /\ b > lead[s].n /\ b > store[s].promise

\* Messages that change nothing, now and in every later state: answers to a ballot
\* their addressee does not lead (any more), ballots below its own, and messages of
\* a leader that leads no more and whom NotAccepted cannot tell anything.
IsDead(s, m) ==
    CASE m.type \in {"Promise", "Accepted", "FastAccepted"} ->
             ~(state[s].role = "Leader" /\ m.n = lead[s].n)
      [] m.type = "Prepare" -> m.n < store[s].promise
      [] m.type = "NotAccepted" -> m.n <= lead[s].n \/ ~MayLead(s)
      [] m.type \in FromLeader -> m.n < store[s].promise /\ ~MayLead(PidOf(m.n))
      [] OTHER -> FALSE

\* What a later step or a property may read of a LeaderState: all of it while the
\* leader prepares; no collected logs and only who promised once it accepts; next to
\* nothing after it was deposed, since it leads again only with a new LeaderState.
LiveLead(s) ==
    IF IsLeader(s, "Prepare") THEN <<lead[s]>>
    ELSE IF IsLeader(s, "Accept")
         THEN <<[lead[s] EXCEPT !.unsynced = <<>>, !.maxSync = None, !.maxHash = {},
                                !.promises = [t \in Server |-> lead[s].promises[t].type]]>>
    ELSE IF state[s].role = "Leader" THEN <<lead[s]>>
    ELSE <<lead[s].n, lead[s].recovered>>

\* A cached promise is only ever sent again.
LiveState(s) ==
    IF faults.resends = MaxResends THEN [state[s] EXCEPT !.cached = None] ELSE state[s]

\* Without the fast path the buffer of a server that will not lead is only emptied,
\* and the last released key only rejects what is still to be submitted.
LiveDom(s) ==
    IF EnableFastPath \/ ~Timely \/ submitted # EntryId THEN dom[s]
    ELSE IF MayLead(s) THEN [dom[s] EXCEPT !.last = NoKey] ELSE FreshDom

LiveView ==
    <<store, [s \in Server |-> LiveState(s)], fast, [s \in Server |-> LiveLead(s)],
      [s \in Server |-> LiveDom(s)],
      [s \in Server |-> [t \in Server |->
          [i \in DOMAIN net[s][t] |-> IF IsDead(t, net[s][t][i]) THEN None ELSE net[s][t][i]]]],
      submitted, faults>>
===============================================================================
