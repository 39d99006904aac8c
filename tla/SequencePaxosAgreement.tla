------------------------ MODULE SequencePaxosAgreement -------------------------
(***************************************************************************)
(* Agreement on the slow path: without the fast path, what is decided stays   *)
(* decided through any number of leader changes, crashes, restarts, lost      *)
(* messages and reconnections, for any number of servers, ballots and entries *)
(* and every valid quorum.                                                   *)
(***************************************************************************)
EXTENDS SequencePaxosHistory

--------------------------------------------------------------------------------
\* A ballot that has started grows

\* The history once the log of ballot n is log, s holds k entries of it, and the log has
\* been numbered seqs[f] for each f of F.
Extended(h, s, n, log, k, F, seqs) ==
    [started |-> h.started, base |-> h.base,
     log |-> [b \in Ballot |-> IF b = n THEN log ELSE h.log[b]],
     voted |-> [t \in Server |-> [b \in Ballot |-> IF t = s /\ b = n THEN k ELSE h.voted[t][b]]],
     top |-> [f \in Server |-> [b \in Ballot |-> [q \in SeqNum |->
                 IF f \in F /\ b = n /\ q = seqs[f] THEN Len(log) ELSE h.top[f][b][q]]]]]

\* What such a history keeps and what it changes.
IsExtension(g, h, s, n, log, k, F, seqs) ==
    /\ g \in History /\ g.started = h.started /\ g.base = h.base
    /\ g.log[n] = log /\ g.voted[s][n] = k
    /\ \A b \in Ballot : b # n => g.log[b] = h.log[b]
    /\ \A t \in Server, b \in Ballot : t # s \/ b # n => g.voted[t][b] = h.voted[t][b]
    /\ \A f \in F : f \in Server /\ seqs[f] \in SeqNum => g.top[f][n][seqs[f]] = Len(log)
    /\ \A f \in Server, b \in Ballot, q \in SeqNum :
           g.top[f][b][q] # h.top[f][b][q] => f \in F /\ b = n /\ q = seqs[f]

\* The history is extended so.
LEMMA ExtendedHistory ==
    ASSUME NEW h \in History, NEW s \in Server, NEW n \in Ballot, NEW log \in Logs, NEW k \in Nat,
           NEW F, NEW seqs, NEW g, g = Extended(h, s, n, log, k, F, seqs)
    PROVE  IsExtension(g, h, s, n, log, k, F, seqs)
<1>1. Len(log) \in Nat /\ log \in Seq(EntryId)
    BY LenProperties DEF Logs
<1>2. g.started = h.started /\ g.base = h.base
    BY DEF Extended
<1>4. g.log = [b \in Ballot |-> IF b = n THEN log ELSE h.log[b]]
    BY DEF Extended
<1>5. g.voted = [t \in Server |-> [b \in Ballot |-> IF t = s /\ b = n THEN k ELSE h.voted[t][b]]]
    BY DEF Extended
<1>6. g.top = [f \in Server |-> [b \in Ballot |-> [q \in SeqNum |->
                 IF f \in F /\ b = n /\ q = seqs[f] THEN Len(log) ELSE h.top[f][b][q]]]]
    BY DEF Extended
<1>7. g \in History
    <2>1. h.started \in SUBSET Ballot /\ h.base \in [Ballot -> Nat]
        BY DEF History
    <2>3. g.log \in [Ballot -> Seq(EntryId)]
        BY <1>1, <1>4 DEF History
    <2>4. g.voted \in [Server -> [Ballot -> Nat]]
        BY <1>5 DEF History
    <2>5. g.top \in [Server -> [Ballot -> [SeqNum -> Nat]]]
        <3>1. \A f \in Server, b \in Ballot, q \in SeqNum : h.top[f][b][q] \in Nat
            BY HistoryFacts
        <3> QED BY <1>1, <1>6, <3>1
    <2>6. g = [started |-> g.started, base |-> g.base, log |-> g.log, voted |-> g.voted, top |-> g.top]
        BY DEF Extended
    <2> QED BY <1>2, <2>1, <2>3, <2>4, <2>5, <2>6 DEF History
<1>8. \A f \in Server, b \in Ballot, q \in SeqNum :
          g.top[f][b][q] = IF f \in F /\ b = n /\ q = seqs[f] THEN Len(log) ELSE h.top[f][b][q]
    BY <1>6
<1> QED BY <1>2, <1>4, <1>5, <1>7, <1>8 DEF IsExtension

\* A server that comes to hold more of the log of its ballot, or a leader that makes that
\* log longer, is a step of the history.
LEMMA BallotGrows ==
    ASSUME TypeOK, TypeOK', NEW h \in History, NEW s \in Server, LocalStep(s),
           HistoryOK(h), Safe(h), StoreFits(h, s),
           NEW n \in h.started, n = store[s].promise, NEW log \in Logs, NEW k \in Nat,
           Same(log, h.log[n], Len(h.log[n])), PidOf(n) # s => log = h.log[n],
           k <= Len(log), h.voted[s][n] <= k, h.base[n] <= k,
           store'[s].accRound = n, Len(store'[s].log) = k, Same(store'[s].log, log, k),
           store'[s].decided <= k, DecidedBy(h, n, store'[s].decided),
           NEW F, NEW seqs, F # {} => state[s].role = "Leader" /\ lead[s].n = n,
           \A f \in F : ~SeqLeq(seqs[f], lead[s].seqs[f]),
           NEW g \in History, g = Extended(h, s, n, log, k, F, seqs)
    PROVE  HistoryStep(s, h, g) /\ HistoryOK(g)' /\ Safe(g)' /\ StoreFits(g, s)'
<1>1. /\ g.started = h.started /\ g.base = h.base /\ g.log[n] = log /\ g.voted[s][n] = k
      /\ \A b \in Ballot : b # n => g.log[b] = h.log[b]
      /\ \A t \in Server, b \in Ballot : t # s \/ b # n => g.voted[t][b] = h.voted[t][b]
      /\ \A f \in Server, b \in Ballot, q \in SeqNum :
             g.top[f][b][q] # h.top[f][b][q] => f \in F /\ b = n /\ q = seqs[f]
    <2>1. n \in Ballot
        BY DEF History
    <2>2. IsExtension(g, h, s, n, log, k, F, seqs)
        BY <2>1, ExtendedHistory
    <2> QED BY <2>2 DEF IsExtension
<1>2. /\ n \in Ballot /\ n \in Nat /\ Len(log) \in Nat /\ Len(h.log[n]) <= Len(log)
      /\ h.voted[s][n] \in Nat /\ h.base[n] \in Nat
    BY HistoryFacts, LenProperties DEF Logs, History, Same
<1>3. \A b \in Ballot : h.log[b] \in Logs /\ Len(h.log[b]) \in Nat /\ b \in Nat
                        /\ \A t \in Server : h.voted[t][b] \in Nat
    BY HistoryFacts
<1>4. HistoryStep(s, h, g)
    <2> SUFFICES ASSUME NEW b \in Ballot
                 PROVE  /\ Same(g.log[b], h.log[b], Len(h.log[b]))
                        /\ PidOf(b) # s => g.log[b] = h.log[b]
                        /\ \A t \in Server : /\ h.voted[t][b] <= g.voted[t][b]
                                             /\ g.voted[t][b] # h.voted[t][b] => t = s /\ b = store[s].promise
                        /\ \A f \in Server, q \in SeqNum : g.top[f][b][q] # h.top[f][b][q] =>
                               state[s].role = "Leader" /\ lead[s].n = b /\ ~SeqLeq(q, lead[s].seqs[f])
        BY <1>1 DEF HistoryStep
    <2>1. Same(g.log[b], h.log[b], Len(h.log[b])) /\ (PidOf(b) # s => g.log[b] = h.log[b])
        <3>1. CASE b = n
            BY SMTT(30), <1>1, <3>1
        <3>2. CASE b # n
            BY <1>1, <1>3, <3>2, SameFacts
        <3> QED BY SMTT(30), <3>1, <3>2
    <2>2. \A t \in Server : /\ h.voted[t][b] <= g.voted[t][b]
                            /\ g.voted[t][b] # h.voted[t][b] => t = s /\ b = store[s].promise
        <3> SUFFICES ASSUME NEW t \in Server
                     PROVE  /\ h.voted[t][b] <= g.voted[t][b]
                            /\ g.voted[t][b] # h.voted[t][b] => t = s /\ b = store[s].promise
            BY SMTT(30)
        <3>1. CASE t = s /\ b = n
            BY SMTT(30), <1>1, <3>1
        <3>2. CASE t # s \/ b # n
            BY SMTT(30), <1>1, <1>3, <3>2
        <3> QED BY <3>1, <3>2
    <2>3. \A f \in Server, q \in SeqNum : g.top[f][b][q] # h.top[f][b][q] =>
              state[s].role = "Leader" /\ lead[s].n = b /\ ~SeqLeq(q, lead[s].seqs[f])
        BY <1>1
    <2> QED BY ZenonT(60), <2>1, <2>2, <2>3
<1>5. Safe(g)'
    BY SMTT(30), <1>1, <1>4, SafeKept
<1>6. HistoryOK(g)'
    <2>1. HistoryOK(h)'
        BY HistoryKept
    <2> SUFFICES ASSUME NEW b \in Ballot
                 PROVE  /\ b \in g.started => g.base[b] <= Len(g.log[b])
                        /\ b \notin g.started => Len(g.log[b]) = 0
                        /\ \A t \in Server : g.voted[t][b] <= Len(g.log[b])
                        /\ b \in g.started /\ b # 0 => b <= store'[Owner[b]].promise
        BY ZenonT(60), <1>1, <2>1 DEF HistoryOK
    <2>3. CASE b = n
        <3>1. \A t \in Server : g.voted[t][n] <= Len(log)
            <4> SUFFICES ASSUME NEW t \in Server PROVE g.voted[t][n] <= Len(log)
                OBVIOUS
            <4>1. h.voted[t][n] <= Len(h.log[n]) /\ h.voted[t][n] \in Nat /\ Len(h.log[n]) \in Nat
                BY SMTT(30), <1>2, <1>3 DEF HistoryOK
            <4> QED BY SMTT(30), <1>1, <1>2, <4>1
        <3>2. g.base[n] <= Len(log)
            BY SMTT(30), <1>1, <1>2
        <3> QED BY SMTT(30), <1>1, <2>1, <2>3, <3>1, <3>2 DEF HistoryOK
    <2>4. CASE b # n
        BY SMTT(30), <1>1, <2>1, <2>4 DEF HistoryOK
    <2> QED BY <2>3, <2>4
<1>7. StoreFits(g, s)'
    <2>1. DecidedBy(g, n, store'[s].decided)
        BY SMTT(30), <1>2, <1>4, HistoryGrows, StoreFactsNext
    <2>2. \A b \in Ballot : b > n => g.voted[s][b] = 0
        BY SMTT(30), <1>1, <1>2, <1>3, StoreFacts DEF StoreFits
    <2> QED BY <1>1, <1>2, <2>1, <2>2 DEF StoreFits
<1> QED BY SMTT(30), <1>4, <1>5, <1>6, <1>7

--------------------------------------------------------------------------------
\* The accept phase of the leader

\* A leader in its accept phase goes on with st and next, having numbered its whole log
\* for each server of F; a longer log has been numbered for every follower.
AcceptStep(s, st, next, F) ==
    /\ IsLeader(s, "Accept") /\ UNCHANGED state
    /\ store' = [store EXCEPT ![s] = st] /\ lead' = [lead EXCEPT ![s] = next]
    /\ st \in Stored /\ st.promise = store[s].promise /\ st.accRound = store[s].accRound
    /\ Same(st.log, store[s].log, Len(store[s].log))
    /\ st.decided <= Len(st.log)
    /\ IsLeaderState(next) /\ next.n = lead[s].n /\ next.maxMeta = lead[s].maxMeta
    /\ F \subseteq Server \ {s}
    /\ \A t \in Server : /\ SeqLeq(lead[s].seqs[t], next.seqs[t])
                         /\ t \in F => ~SeqLeq(next.seqs[t], lead[s].seqs[t])
                         /\ t \notin F => next.seqs[t] = lead[s].seqs[t]
    /\ PromisedFollowers(next) \subseteq PromisedFollowers(lead[s]) \cup F
    /\ st.log = store[s].log \/ PromisedFollowers(next) \subseteq F

\* What such a step makes of the history, which now holds the leader's log.
LEMMA AcceptStepHistory ==
    ASSUME BallotInv, TypeOK', NEW h \in History, Fits(h), NEW s \in Server, NEW st, NEW next, NEW F,
           AcceptStep(s, st, next, F), DecidedBy(h, next.n, st.decided),
           NEW g, g = Extended(h, s, next.n, st.log, Len(st.log), F, next.seqs)
    PROVE  /\ g \in History /\ LocalStep(s) /\ HistoryStep(s, h, g)
           /\ HistoryOK(g)' /\ Safe(g)' /\ StoreFits(g, s)'
           /\ next.n \in g.started /\ next.n \in Ballot /\ PidOf(next.n) = s
           /\ g.log[next.n] = st.log /\ g.base[next.n] = h.base[next.n] /\ g.started = h.started
           /\ h.base[next.n] <= Len(store[s].log)
           /\ g.voted[s][next.n] = Len(st.log)
           /\ \A t \in F : g.top[t][next.n][next.seqs[t]] = Len(st.log)
           /\ \A t \in Server, q \in SeqNum :
                  q # next.seqs[t] => g.top[t][next.n][q] = h.top[t][next.n][q]
           /\ store'[s] = st /\ lead'[s] = next
           /\ \A t \in Server \ {s} : store'[t] = store[t] /\ lead'[t] = lead[t]
<1>1. /\ TypeOK /\ AcceptsInPromise /\ StoreFits(h, s) /\ LeaderFits(h, s) /\ HistoryOK(h) /\ Safe(h)
    BY DEF BallotInv, Fits, ServersFit
<1>2. PICK n, log, old : n = next.n /\ log = st.log /\ old = store[s].log
    OBVIOUS
<1>3. /\ state[s].role = "Leader" /\ state[s].phase = "Accept" /\ UNCHANGED state
      /\ store' = [store EXCEPT ![s] = st] /\ lead' = [lead EXCEPT ![s] = next]
      /\ st \in Stored /\ st.promise = store[s].promise /\ st.accRound = store[s].accRound
      /\ Same(log, old, Len(old)) /\ st.decided <= Len(log)
      /\ IsLeaderState(next) /\ n = lead[s].n /\ next.maxMeta = lead[s].maxMeta
      /\ F \subseteq Server \ {s}
      /\ \A t \in Server : /\ SeqLeq(lead[s].seqs[t], next.seqs[t])
                           /\ t \in F => ~SeqLeq(next.seqs[t], lead[s].seqs[t])
    BY <1>2 DEF AcceptStep, IsLeader
<1>4. n \in Ballot /\ n = store[s].promise /\ PidOf(n) = s
    BY SMTT(30), <1>1, <1>3, LeadFacts
<1>5. store[s].accRound = n /\ Len(old) = Len(h.log[n])
    BY <1>1, <1>2, <1>3 DEF LeaderFits, Accepting
<1>6. log \in Logs /\ Len(log) \in Nat /\ old \in Logs /\ Len(old) \in Nat
    BY <1>1, <1>2, <1>3, StoreFacts, LenProperties DEF Stored, Logs
<1>7. DOMAIN store = Server /\ DOMAIN lead = Server
    BY <1>1 DEF TypeOK, StoreOK, LeadOK
<1>8. /\ store'[s] = st /\ lead'[s] = next
      /\ \A t \in Server \ {s} : store'[t] = store[t] /\ lead'[t] = lead[t]
    BY <1>3, <1>7
<1>9. LocalStep(s)
    <2>1. store[s].promise <= store'[s].promise
        BY <1>1, <1>3, <1>8, StoreFacts
    <2>2. Len(store[s].log) <= Len(store'[s].log)
        BY <1>2, <1>3, <1>8 DEF Same
    <2>3. store'[s].promise = store[s].promise /\ store'[s].accRound = store[s].promise
        BY <1>3, <1>4, <1>5, <1>8
    <2> QED BY <1>2, <1>3, <1>8, <2>1, <2>2, <2>3 DEF LocalStep
<1>10. /\ n \in h.started /\ h.base[n] <= Len(old) /\ Same(old, h.log[n], Len(old))
       /\ h.voted[s][n] = Len(old) /\ h.log[n] \in Logs /\ h.base[n] \in Nat
    BY <1>1, <1>2, <1>4, <1>5, HistoryFacts DEF StoreFits
<1>11. Same(log, h.log[n], Len(h.log[n])) /\ Len(old) <= Len(log)
    <2>1. Len(old) <= Len(log)
        BY SMTT(30), <1>3 DEF Same
    <2> QED BY <1>3, <1>5, <1>6, <1>10, <2>1, SameFacts
<1>12. /\ g \in History /\ g.started = h.started /\ g.base = h.base
       /\ g.log[n] = log /\ g.voted[s][n] = Len(log)
       /\ \A f \in F : f \in Server /\ next.seqs[f] \in SeqNum => g.top[f][n][next.seqs[f]] = Len(log)
       /\ \A f \in Server, b \in Ballot, q \in SeqNum :
              g.top[f][b][q] # h.top[f][b][q] => f \in F /\ b = n /\ q = next.seqs[f]
    <2>1. PICK seqs : seqs = next.seqs
        OBVIOUS
    <2>2. g = Extended(h, s, n, log, Len(log), F, seqs)
        BY <1>2, <2>1
    <2>3. IsExtension(g, h, s, n, log, Len(log), F, seqs)
        BY <1>4, <1>6, <2>2, ExtendedHistory
    <2> QED BY <2>1, <2>3 DEF IsExtension
<1>13. HistoryStep(s, h, g) /\ HistoryOK(g)' /\ Safe(g)' /\ StoreFits(g, s)'
    <2>1. PICK k, seqs : k = Len(log) /\ seqs = next.seqs
        OBVIOUS
    <2>2. g = Extended(h, s, n, log, k, F, seqs)
        BY <1>2, <2>1
    <2>3. /\ k \in Nat /\ k <= Len(log) /\ h.voted[s][n] <= k /\ h.base[n] <= k
          /\ Same(log, log, k)
        BY <1>6, <1>10, <1>11, <2>1, SameFacts
    <2>4. /\ store'[s].accRound = n /\ Len(store'[s].log) = k /\ Same(store'[s].log, log, k)
          /\ store'[s].decided <= k /\ DecidedBy(h, n, store'[s].decided)
        BY <1>2, <1>3, <1>5, <1>8, <2>1, <2>3
    <2>5. \A f \in F : ~SeqLeq(seqs[f], lead[s].seqs[f])
        BY <1>3, <2>1
    <2>6. state[s].role = "Leader" /\ lead[s].n = n
        BY <1>3
    <2>7. /\ TypeOK /\ TypeOK' /\ LocalStep(s) /\ HistoryOK(h) /\ Safe(h) /\ StoreFits(h, s)
          /\ n \in h.started /\ n = store[s].promise /\ log \in Logs
          /\ Same(log, h.log[n], Len(h.log[n])) /\ (PidOf(n) # s => log = h.log[n])
          /\ (F # {} => state[s].role = "Leader" /\ lead[s].n = n) /\ g \in History
        BY ZenonT(60), <1>1, <1>4, <1>6, <1>9, <1>10, <1>11, <1>12, <2>6
    <2> QED BY <2>2, <2>3, <2>4, <2>5, <2>7, BallotGrows
<1>14. \A t \in F : g.top[t][n][next.seqs[t]] = Len(log)
    BY ZenonT(60), <1>3, <1>12 DEF IsLeaderState
<1>15. /\ n \in g.started /\ h.base[n] <= Len(old)
       /\ \A t \in Server, q \in SeqNum : q # next.seqs[t] => g.top[t][n][q] = h.top[t][n][q]
    BY ZenonT(60), <1>4, <1>10, <1>12
<1>16. /\ next.n \in g.started /\ next.n \in Ballot /\ PidOf(next.n) = s
       /\ g.log[next.n] = st.log /\ g.base[next.n] = h.base[next.n] /\ g.started = h.started
       /\ h.base[next.n] <= Len(store[s].log)
    BY ZenonT(60), <1>2, <1>4, <1>12, <1>15
<1>17. /\ g.voted[s][next.n] = Len(st.log)
       /\ \A t \in F : g.top[t][next.n][next.seqs[t]] = Len(st.log)
       /\ \A t \in Server, q \in SeqNum :
              q # next.seqs[t] => g.top[t][next.n][q] = h.top[t][next.n][q]
    BY ZenonT(60), <1>2, <1>12, <1>14, <1>15
<1> QED BY ZenonT(60), <1>8, <1>9, <1>12, <1>13, <1>16, <1>17

\* Such a step keeps everything fitting, if what it sends does.
LEMMA AcceptStepFits ==
    ASSUME BallotInv, TypeOK', NEW h \in History, Fits(h), NEW s \in Server, NEW st, NEW next, NEW F,
           AcceptStep(s, st, next, F), DecidedBy(h, next.n, st.decided),
           NEW g, g = Extended(h, s, next.n, st.log, Len(st.log), F, next.seqs),
           \A t \in Server : next.accIdx[t] <= g.voted[t][next.n],
           NEW out, ChannelStep(s, out), SentFits(s, out, g)
    PROVE  Fits(g)'
<1>1. /\ TypeOK /\ AcceptsInPromise /\ StoreFits(h, s) /\ LeaderFits(h, s) /\ FollowerFits(h, s)
      /\ HistoryOK(h)
    BY DEF BallotInv, Fits, ServersFit
<1>2. /\ g \in History /\ LocalStep(s) /\ HistoryStep(s, h, g)
      /\ HistoryOK(g)' /\ Safe(g)' /\ StoreFits(g, s)'
      /\ next.n \in g.started /\ next.n \in Ballot /\ PidOf(next.n) = s
      /\ g.log[next.n] = st.log /\ g.base[next.n] = h.base[next.n] /\ g.started = h.started
      /\ h.base[next.n] <= Len(store[s].log)
      /\ \A t \in F : g.top[t][next.n][next.seqs[t]] = Len(st.log)
      /\ \A t \in Server, q \in SeqNum : q # next.seqs[t] => g.top[t][next.n][q] = h.top[t][next.n][q]
      /\ store'[s] = st /\ lead'[s] = next
    BY AcceptStepHistory
<1>3. /\ state[s].role = "Leader" /\ state[s].phase = "Accept" /\ UNCHANGED state
      /\ st.promise = store[s].promise /\ st.accRound = store[s].accRound
      /\ next.n = lead[s].n /\ next.maxMeta = lead[s].maxMeta
      /\ \A t \in Server : t \notin F => next.seqs[t] = lead[s].seqs[t]
      /\ PromisedFollowers(next) \subseteq PromisedFollowers(lead[s]) \cup F
      /\ st.log = store[s].log \/ PromisedFollowers(next) \subseteq F
    BY DEF AcceptStep, IsLeader
<1>4. Accepting(h, s)
    BY <1>1, <1>3 DEF LeaderFits
<1>12. PICK n, c : n = lead[s].n /\ c = lead[s].maxMeta.nAccepted
    OBVIOUS
<1>13. next.n = n /\ next.maxMeta.nAccepted = c
    BY <1>3, <1>12
<1>5. /\ store[s].accRound = n /\ c \in h.started /\ c \in Ballot /\ c < n /\ n \in Ballot
      /\ h.base[n] = next.maxMeta.accIdx /\ h.base[n] \in Nat
      /\ Same(h.log[n], h.log[c], h.base[n])
      /\ \A f \in PromisedFollowers(lead[s]) : h.top[f][n][lead[s].seqs[f]] = Len(store[s].log)
    <2>1. /\ store[s].accRound = n /\ c \in h.started /\ c < n
          /\ h.base[n] = lead[s].maxMeta.accIdx
          /\ Same(h.log[n], h.log[c], h.base[n])
          /\ \A f \in PromisedFollowers(lead[s]) : h.top[f][n][lead[s].seqs[f]] = Len(store[s].log)
        BY <1>4, <1>12 DEF Accepting
    <2>2. n \in Ballot
        BY <1>2, <1>13
    <2>3. h.base[n] \in Nat /\ c \in Ballot
        BY SMTT(30), <2>1, <2>2, HistoryFacts DEF History
    <2> QED BY SMTT(30), <1>3, <2>1, <2>2, <2>3
<1>6. Same(g.log[n], g.log[c], g.base[n])
    BY SMTT(30), <1>2, <1>5, <1>13, SameGrows
<1>7. \A f \in PromisedFollowers(next) : g.top[f][n][next.seqs[f]] = Len(st.log)
    <2> SUFFICES ASSUME NEW f \in PromisedFollowers(next), f \notin F
                 PROVE  g.top[f][n][next.seqs[f]] = Len(st.log)
        BY <1>2, <1>13
    <2>1. /\ f \in PromisedFollowers(lead[s]) /\ f \in Server /\ st.log = store[s].log
          /\ next.seqs[f] = lead[s].seqs[f]
        BY <1>3 DEF PromisedFollowers, HasPromised
    <2>2. lead[s].seqs[f] \in SeqNum
        BY <1>1, <2>1, LeadFacts
    <2>3. g.top[f][n][lead[s].seqs[f]] = h.top[f][n][lead[s].seqs[f]]
        <3>1. SeqLeq(lead[s].seqs[f], lead[s].seqs[f])
            BY <2>2, SeqLeqFacts
        <3> QED BY ZenonT(60), <1>2, <1>5, <1>12, <2>1, <2>2, <3>1 DEF HistoryStep
    <2> QED BY SMTT(30), <1>5, <2>1, <2>3
<1>8. Accepting(g, s)'
    <2>1. Len(st.log) = Len(g.log[n]) /\ g.base[n] = next.maxMeta.accIdx /\ c \in g.started
        BY <1>2, <1>5, <1>13
    <2>2. st.accRound = n
        BY <1>3, <1>5
    <2>4. /\ st.accRound = next.n /\ next.maxMeta.nAccepted \in g.started
          /\ next.maxMeta.nAccepted < next.n
          /\ g.base[next.n] = next.maxMeta.accIdx
          /\ Same(g.log[next.n], g.log[next.maxMeta.nAccepted], g.base[next.n])
          /\ Len(st.log) = Len(g.log[next.n])
          /\ \A f \in PromisedFollowers(next) : g.top[f][next.n][next.seqs[f]] = Len(st.log)
        BY ZenonT(60), <1>5, <1>6, <1>7, <1>13, <2>1, <2>2
    <2>5. PICK new, kept : new = lead'[s] /\ kept = store'[s]
        BY SMTT(30)
    <2>6. new = next /\ kept = st
        BY <1>2, <2>5
    <2>7. /\ kept.accRound = new.n /\ new.maxMeta.nAccepted \in g.started
          /\ new.maxMeta.nAccepted < new.n
          /\ g.base[new.n] = new.maxMeta.accIdx
          /\ Same(g.log[new.n], g.log[new.maxMeta.nAccepted], g.base[new.n])
          /\ Len(kept.log) = Len(g.log[new.n])
          /\ \A f \in PromisedFollowers(new) : g.top[f][new.n][new.seqs[f]] = Len(kept.log)
        BY ZenonT(60), <2>4, <2>6
    <2> QED BY ZenonT(60), <2>5, <2>7 DEF Accepting
<1>9. LeaderFits(g, s)'
    BY ZenonT(60), <1>2, <1>3, <1>8 DEF LeaderFits
<1>10. FollowerFits(g, s)'
    <2>1. ~IsFollower(s, "Accept")'
        BY SMTT(30), <1>3 DEF IsFollower
    <2> QED BY <1>1, <1>2, <1>3, <2>1, FollowerFitsKept
<1>11. NotOvertaken(s, h)
    <2>1. store[s].promise = next.n
        BY <1>1, <1>3, LeadFacts
    <2> QED BY <1>2, <2>1 DEF NotOvertaken
<1> QED BY <1>2, <1>9, <1>10, <1>11, AllFit

\* The leader starts to synchronise the sender of a late promise.
LEMMA LatePromiseFits ==
    ASSUME BallotInv, TypeOK', NEW h \in History, Fits(h),
           NEW s \in Server, NEW from \in Peers(s), ReceiveLatePromise(from, s)
    PROVE  \E g \in History : Extends(h, g) /\ Fits(g)'
<1>1. /\ TypeOK /\ StoreFits(h, s) /\ LeaderFits(h, s) /\ StoreFits(h, from) /\ from \in Server /\ from # s
      /\ IsLeaderState(lead[s]) /\ store \in [Server -> Stored] /\ DOMAIN lead = Server
    BY DEF BallotInv, Fits, ServersFit, Peers, TypeOK, LeadOK, StoreOK
<1>2. /\ Arrives(from, s, "Promise") /\ IsLeader(s, "Accept") /\ Msg(from, s).n = lead[s].n
      /\ UNCHANGED <<store, state>>
    BY DEF ReceiveLatePromise
<1>3. PICK m : m = Msg(from, s)
    OBVIOUS
<1>4. net[from][s] # <<>> /\ IsPromise(m) /\ PromiseFits(h, from, s, m) /\ m.n = lead[s].n
    BY <1>1, <1>2, <1>3, PromiseTaken
<1>5. PICK ls, next, out : /\ ls = SetPromise(lead[s], m, from, FALSE)
                           /\ next = NextSession(ls, {from})
                           /\ out = SendAcceptSync(ls, store[s], fast[s].prefixHash, {from}).out
    OBVIOUS
<1>6. lead' = [lead EXCEPT ![s] = next] /\ Receive(from, s, out)
      /\ out = [t \in Server |-> IF t \in {from} THEN <<AcceptSync(next, store[s], fast[s].prefixHash, t)>>
                                 ELSE <<>>]
    BY <1>3, <1>5 DEF ReceiveLatePromise, SendAcceptSync
<1>7. Records(ls, lead[s], m, from, FALSE)
    BY <1>1, <1>5, SetPromiseFields
<1>8. IsLeaderState(ls)
    <2>1. IsLeaderState(SetPromise(lead[s], m, from, FALSE))
        BY <1>1, <1>2, <1>3, PromiseReceived
    <2> QED BY <1>5, <2>1
<1>9. Numbered(next, ls, {from}, SessionsAfter(ls))
    BY <1>5, <1>8, NumberedNext
<1>10. /\ IsLeaderState(next) /\ next.n = lead[s].n /\ next.accIdx = lead[s].accIdx
       /\ next.maxMeta = lead[s].maxMeta /\ next.promises[from] = Promised(m)
       /\ HasPromised(next) = HasPromised(lead[s]) \cup {from}
       /\ PromisedFollowers(next) \subseteq PromisedFollowers(lead[s]) \cup {from}
    <2>1. /\ ls.n = lead[s].n /\ ls.accIdx = lead[s].accIdx /\ ls.maxMeta = lead[s].maxMeta
          /\ ls.promises[from] = Promised(m) /\ HasPromised(ls) = HasPromised(lead[s]) \cup {from}
        BY <1>1, <1>7 DEF Records
    <2>2. /\ IsLeaderState(next) /\ next.n = ls.n /\ next.accIdx = ls.accIdx /\ next.maxMeta = ls.maxMeta
          /\ next.promises = ls.promises /\ HasPromised(next) = HasPromised(ls)
        BY <1>9 DEF Numbered
    <2> QED BY <2>1, <2>2 DEF PromisedFollowers
<1>11. \A t \in Server : /\ SeqLeq(lead[s].seqs[t], next.seqs[t])
                         /\ t \in {from} => ~SeqLeq(next.seqs[t], lead[s].seqs[t])
                         /\ t \notin {from} => next.seqs[t] = lead[s].seqs[t]
    <2>1. ls.seqs = lead[s].seqs
        BY <1>7 DEF Records
    <2> QED BY <1>8, <1>9, <2>1, NumbersGrow
<1>12. /\ store[s] \in Stored /\ store[s].decided <= Len(store[s].log) /\ store[s].log \in Logs
       /\ Len(store[s].log) \in Nat /\ Same(store[s].log, store[s].log, Len(store[s].log))
       /\ store[s].decided \in Nat
    <2>1. store[s].log \in Logs /\ Len(store[s].log) \in Nat /\ store[s].decided \in Nat
        BY <1>1, StoreFacts
    <2>2. Same(store[s].log, store[s].log, Len(store[s].log))
        BY <2>1, SameFacts
    <2> QED BY <1>1, <2>1, <2>2 DEF StoreFits
<1>13. AcceptStep(s, store[s], next, {from})
    <2>1. store' = [store EXCEPT ![s] = store[s]]
        BY <1>1, <1>2
    <2> QED BY <1>1, <1>2, <1>6, <1>10, <1>11, <1>12, <2>1 DEF AcceptStep
<1>14. Accepting(h, s) /\ \A t \in Server : lead[s].accIdx[t] <= h.voted[t][lead[s].n]
    BY <1>1, <1>2 DEF LeaderFits, IsLeader
<1>15. PICK n, c : n = lead[s].n /\ c = lead[s].maxMeta.nAccepted
    BY SMTT(30)
<1>16. /\ store[s].accRound = n /\ c \in h.started /\ c < n
       /\ h.base[n] = lead[s].maxMeta.accIdx /\ Same(h.log[n], h.log[c], h.base[n])
       /\ DecidedBy(h, n, store[s].decided) /\ h.base[n] <= Len(store[s].log)
    BY <1>1, <1>14, <1>15 DEF Accepting, StoreFits
<1>17. n \in Ballot /\ n \in Nat /\ c \in Ballot /\ h.base[n] \in Nat /\ PidOf(n) = s
    <2>1. n \in Ballot /\ n \in Nat /\ PidOf(n) = s
        BY <1>1, <1>2, <1>15, LeadFacts DEF IsLeader
    <2> QED BY <1>16, <2>1, HistoryFacts DEF History
<1>18. PICK g : g = Extended(h, s, next.n, store[s].log, Len(store[s].log), {from}, next.seqs)
    OBVIOUS
<1>19. DecidedBy(h, next.n, store[s].decided)
    BY <1>10, <1>15, <1>16
<1>20. /\ g \in History /\ LocalStep(s) /\ HistoryStep(s, h, g) /\ Safe(g)'
       /\ n \in g.started /\ g.log[n] = store[s].log /\ g.base[n] = h.base[n] /\ g.started = h.started
       /\ g.top[from][n][next.seqs[from]] = Len(store[s].log)
       /\ lead'[s] = next /\ store'[from] = store[from]
    <2>1. /\ g \in History /\ LocalStep(s) /\ HistoryStep(s, h, g) /\ Safe(g)'
          /\ next.n \in g.started /\ g.log[next.n] = store[s].log
          /\ g.base[next.n] = h.base[next.n] /\ g.started = h.started
          /\ \A t \in {from} : g.top[t][next.n][next.seqs[t]] = Len(store[s].log)
          /\ lead'[s] = next
        BY SMTT(30), <1>13, <1>18, <1>19, AcceptStepHistory
    <2> QED BY SMTT(30), <1>2, <1>10, <1>15, <2>1
<1>21. \A t \in Server : next.accIdx[t] <= g.voted[t][next.n]
    <2> SUFFICES ASSUME NEW t \in Server PROVE lead[s].accIdx[t] <= g.voted[t][n]
        BY <1>10, <1>15
    <2>1. h.voted[t][n] <= g.voted[t][n]
        BY <1>17, <1>20 DEF HistoryStep
    <2>2. h.voted[t][n] \in Nat /\ g.voted[t][n] \in Nat /\ lead[s].accIdx[t] \in Nat
        BY <1>1, <1>17, <1>20, HistoryFacts, LeadFacts
    <2>3. lead[s].accIdx[t] <= h.voted[t][n]
        BY <1>14, <1>15
    <2> QED BY <2>1, <2>2, <2>3
<1>22. Short(out)
    <2>1. \A t \in Server : out[t] = <<>> \/ \E x : out[t] = <<x>>
        BY <1>6
    <2> QED BY <1>6, <2>1, EmptyQueue, SingletonQueue DEF Short, IsOut
<1>23. ChannelStep(s, out)
    BY <1>1, <1>4, <1>6, <1>22, MovesChannels DEF Moves, FreeStep
<1>24. SentFits(s, out, g)
    <2> SUFFICES ASSUME NEW t \in Server \ {s}, NEW x \in Range(out[t])
                 PROVE  MsgFits(g, s, t, x)' /\ x.n \in Ballot /\ Top(g, t, x) = Len(g.log[x.n])
        BY DEF SentFits
    <2>1. t = from /\ x = AcceptSync(next, store[s], fast[s].prefixHash, from)
        <3>1. out[t] = IF t \in {from} THEN <<AcceptSync(next, store[s], fast[s].prefixHash, t)>> ELSE <<>>
            BY <1>6
        <3> QED BY <3>1, EmptyQueue, SingletonQueue
    <2>2. Known(g, from, n, Promised(m))
        <3>1. /\ Promised(m).nAccepted = m.nAccepted /\ Promised(m).accIdx = m.accIdx
              /\ Promised(m).decided = m.decided
            BY DEF Promised
        <3>2. m.nAccepted \in Ballot /\ m.accIdx \in Nat /\ m.decided \in Nat
            BY <1>4 DEF IsPromise
        <3>3. Known(h, from, n, Promised(m))
            BY <1>4, <1>15, <3>1 DEF PromiseFits, Known
        <3>4. Known(g, from, n, Promised(m))'
            BY <1>1, <1>17, <1>20, <3>1, <3>2, <3>3, KnownKept
        <3> QED BY <1>1, <1>20, <3>4, KnownElsewhere
    <2>3. /\ store[from].accRound \in g.started /\ g.base[store[from].accRound] <= Len(store[from].log)
          /\ Same(store[from].log, g.log[store[from].accRound], Len(store[from].log))
        <3>1. store[from].accRound \in Ballot /\ Len(store[from].log) \in Nat /\ store[from].log \in Logs
            BY <1>1, StoreFacts
        <3>2. /\ store[from].accRound \in h.started /\ h.base[store[from].accRound] <= Len(store[from].log)
              /\ Same(store[from].log, h.log[store[from].accRound], Len(store[from].log))
            BY <1>1 DEF StoreFits
        <3>3. g.base[store[from].accRound] = h.base[store[from].accRound]
            BY <1>20, <3>1, <3>2 DEF HistoryStep
        <3> QED BY <1>20, <3>1, <3>2, <3>3, SameGrows
    <2>4. DecidedBy(g, n, store[s].decided)
        BY <1>1, <1>12, <1>16, <1>17, <1>20, HistoryGrows
    <2>5. Same(g.log[n], g.log[c], g.base[n])
        BY SMTT(30), <1>16, <1>17, <1>20, SameGrows
    <2>6. /\ next.n \in g.started /\ Len(store[s].log) = Len(g.log[next.n])
          /\ Same(store[s].log, g.log[next.n], Len(store[s].log))
          /\ next.maxMeta.nAccepted \in g.started /\ next.maxMeta.nAccepted < next.n
          /\ g.base[next.n] = next.maxMeta.accIdx /\ g.base[next.n] <= Len(store[s].log)
          /\ Same(g.log[next.n], g.log[next.maxMeta.nAccepted], g.base[next.n])
          /\ store[s].decided <= Len(store[s].log) /\ DecidedBy(g, next.n, store[s].decided)
          /\ g.top[from][next.n][next.seqs[from]] = Len(store[s].log)
        BY <1>10, <1>12, <1>15, <1>16, <1>20, <2>4, <2>5
    <2>7. from \in HasPromised(next) /\ Known(g, from, next.n, next.promises[from])
        BY <1>10, <1>15, <2>2
    <2>8. Syncs(g, from, next, store[s])
        BY <2>3, <2>6, <2>7 DEF Syncs
    <2>9. Safe(g)
        BY <1>2, <1>20 DEF Safe, Choosable
    <2>10. /\ TypeOK /\ g \in History /\ from \in Server \ {s} /\ IsLeaderState(next) /\ lead'[s] = next
           /\ store[s] \in Stored /\ store'[from] = store[from] /\ PidOf(next.n) = s
        BY <1>1, <1>10, <1>12, <1>15, <1>17, <1>20
    <2>11. PICK st, hash : st = store[s] /\ hash = fast[s].prefixHash
        OBVIOUS
    <2>12. x = AcceptSync(next, st, hash, from) /\ Syncs(g, from, next, st) /\ st \in Stored
        BY <2>1, <2>8, <2>10, <2>11
    <2>13. MsgFits(g, s, from, x)' /\ x.n \in Ballot /\ Top(g, from, x) = Len(g.log[x.n])
        BY SMTT(30), <2>9, <2>10, <2>12, AcceptSyncSent
    <2> QED BY <2>1, <2>13
<1>25. Fits(g)'
    BY <1>13, <1>18, <1>19, <1>21, <1>23, <1>24, AcceptStepFits
<1> QED BY <1>20, <1>25, StepExtends

\* A message m to t of such a step, whose number follows the one before: an AcceptDecide
\* of the entry the step appends, or a Decide.
Follows(g, s, t, m, st, next) ==
    /\ m.type \in {"AcceptDecide", "Decide"} /\ m.n = next.n /\ m.seq = next.seqs[t]
    /\ next.seqs[t] = CountersAfter(lead[s])[t]
    /\ DecidedBy(g, next.n, m.decided)
    /\ Len(st.log) = Len(store[s].log) + IF m.type = "Decide" THEN 0 ELSE 1
    /\ m.type = "AcceptDecide" => m.e[2] = st.log[Len(st.log)]

\* That message fits.
LEMMA FollowingSent ==
    ASSUME BallotInv, TypeOK', NEW h \in History, Fits(h), NEW s \in Server, NEW st, NEW next,
           NEW F, F = PromisedFollowers(lead[s]), AcceptStep(s, st, next, F),
           DecidedBy(h, next.n, st.decided),
           NEW g, g = Extended(h, s, next.n, st.log, Len(st.log), F, next.seqs),
           NEW t \in F, NEW m, Follows(g, s, t, m, st, next)
    PROVE  MsgFits(g, s, t, m)' /\ m.n \in Ballot /\ Top(g, t, m) = Len(g.log[m.n])
<1>1. /\ TypeOK /\ LeaderFits(h, s) /\ IsLeaderState(lead[s]) /\ IsLeader(s, "Accept")
      /\ st \in Stored /\ Same(st.log, store[s].log, Len(store[s].log))
      /\ IsLeaderState(next) /\ next.n = lead[s].n
      /\ t \in Server \ {s} /\ StoreFits(h, t)
    BY DEF BallotInv, Fits, ServersFit, TypeOK, LeadOK, AcceptStep
<1>2. PICK n, log, q1 : n = next.n /\ log = st.log /\ q1 = next.seqs[t]
    OBVIOUS
<1>3. /\ g \in History /\ n \in g.started /\ n \in Ballot /\ PidOf(n) = s
      /\ g.log[n] = log /\ g.base[n] = h.base[n] /\ h.base[n] <= Len(store[s].log)
      /\ g.top[t][n][q1] = Len(log)
      /\ \A q \in SeqNum : q # q1 => g.top[t][n][q] = h.top[t][n][q]
      /\ store'[t] = store[t] /\ lead'[s] = next
    <2>1. /\ g \in History /\ next.n \in g.started /\ next.n \in Ballot /\ PidOf(next.n) = s
          /\ g.log[next.n] = st.log /\ g.base[next.n] = h.base[next.n]
          /\ h.base[next.n] <= Len(store[s].log)
          /\ \A f \in F : g.top[f][next.n][next.seqs[f]] = Len(st.log)
          /\ \A f \in Server, q \in SeqNum : q # next.seqs[f] => g.top[f][next.n][q] = h.top[f][next.n][q]
          /\ lead'[s] = next /\ \A f \in Server \ {s} : store'[f] = store[f]
        BY SMTT(30), AcceptStepHistory
    <2> QED BY ZenonT(60), <1>1, <1>2, <2>1
<1>4. Accepting(h, s)
    BY <1>1 DEF LeaderFits, IsLeader
<1>5. h.top[t][n][lead[s].seqs[t]] = Len(store[s].log) /\ Len(store[s].log) = Len(h.log[n])
    <2>1. n = lead[s].n
        BY SMTT(30), <1>1, <1>2
    <2> QED BY <1>4, <2>1 DEF Accepting
<1>6. /\ Len(store[s].log) \in Nat /\ Len(log) \in Nat /\ h.base[n] \in Nat
      /\ Len(store[s].log) <= Len(log) /\ log \in Logs
    BY ZenonT(60), <1>1, <1>2, <1>3, StoreFacts, HistoryFacts, LenProperties DEF Stored, Logs, Same
<1>7. /\ m.type \in {"AcceptDecide", "Decide"} /\ m.n = n /\ m.seq = q1
      /\ q1 = [session |-> lead[s].seqs[t].session, counter |-> lead[s].seqs[t].counter + 1]
      /\ DecidedBy(g, n, m.decided)
      /\ Len(log) = Len(store[s].log) + IF m.type = "Decide" THEN 0 ELSE 1
      /\ m.type = "AcceptDecide" => m.e[2] = log[Len(log)]
    BY <1>1, <1>2 DEF Follows, CountersAfter
<1>8. q1 \in SeqNum /\ lead[s].seqs[t] \in SeqNum
    BY <1>1, <1>2 DEF IsLeaderState
<1>9. Top(g, t, m) = Len(log)
    BY ZenonT(60), <1>3, <1>7 DEF Top
<1>10. \A q \in SeqNum : q.session = m.seq.session /\ m.seq.counter = q.counter + 1 =>
           Len(log) = g.top[t][n][q] + IF m.type = "Decide" THEN 0 ELSE 1
    <2> SUFFICES ASSUME NEW q \in SeqNum, q.session = q1.session, q1.counter = q.counter + 1
                 PROVE  g.top[t][n][q] = Len(store[s].log)
        BY <1>7
    <2>1. q = lead[s].seqs[t] /\ q # q1
        BY <1>7, <1>8 DEF SeqNum
    <2> QED BY <1>3, <1>5, <2>1
<1>11. store[t].promise = n /\ store[t].accRound = n => Len(store[t].log) <= Len(log)
    <2>1. store[t].accRound = n => Len(store[t].log) <= Len(h.log[n])
        BY <1>1 DEF StoreFits, Same
    <2>2. Len(store[t].log) \in Nat
        BY <1>1, StoreFacts
    <2> QED BY <1>5, <1>6, <2>1, <2>2
<1>12. SeqLeq(q1, q1)
    BY SMTT(30), <1>8, SeqLeqFacts
<1>13. LeaderMsgFits(g, s, t, m)'
    <2>1. Top(g, t, m)' = Len(log)
        BY <1>9 DEF Top
    <2>2. DecidedBy(g, n, m.decided)'
        BY ZenonT(60), <1>7 DEF DecidedBy, Chosen
    <2>3. m.type = "AcceptDecide" => Len(log) > 0 /\ m.e[2] = g.log[n][Len(log)]
        BY <1>3, <1>6, <1>7
    <2>4. g.base[n] <= Len(log) /\ Len(log) <= Len(g.log[n])
        BY <1>3, <1>6
    <2>5. store'[t].promise = n /\ store'[t].accRound = n => Len(store'[t].log) <= Len(log)
        BY <1>3, <1>11
    <2>6. SeqLeq(m.seq, lead'[s].seqs[t])
        BY ZenonT(60), <1>2, <1>3, <1>7, <1>12
    <2>7. m.type # "AcceptSync" /\ m.n = n /\ s # t
        BY <1>1, <1>7
    <2> QED BY <1>3, <1>10, <2>1, <2>2, <2>3, <2>4, <2>5, <2>6, <2>7 DEF LeaderMsgFits
<1> QED BY <1>3, <1>7, <1>9, <1>13 DEF MsgFits

\* What the leader knows to be accepted has been, after a step as before it.
LEMMA AcceptedVoted ==
    ASSUME BallotInv, TypeOK', NEW h \in History, Fits(h), NEW s \in Server, NEW st, NEW next, NEW F,
           AcceptStep(s, st, next, F), DecidedBy(h, next.n, st.decided),
           NEW g, g = Extended(h, s, next.n, st.log, Len(st.log), F, next.seqs),
           NEW t \in Server, \/ next.accIdx[t] <= h.voted[t][next.n]
                             \/ next.accIdx[t] = lead[s].accIdx[t]
                             \/ t = s /\ next.accIdx[t] = Len(st.log)
    PROVE  next.accIdx[t] <= g.voted[t][next.n]
<1>1. /\ TypeOK /\ LeaderFits(h, s) /\ IsLeader(s, "Accept") /\ IsLeaderState(next)
      /\ next.n = lead[s].n /\ st \in Stored
    BY DEF BallotInv, Fits, ServersFit, AcceptStep
<1>2. /\ g \in History /\ HistoryStep(s, h, g) /\ next.n \in Ballot
      /\ g.voted[s][next.n] = Len(st.log)
    BY SMTT(30), AcceptStepHistory
<1>3. /\ h.voted[t][next.n] <= g.voted[t][next.n] /\ h.voted[t][next.n] \in Nat
      /\ g.voted[t][next.n] \in Nat /\ next.accIdx[t] \in Nat
    BY <1>1, <1>2, HistoryFacts DEF HistoryStep, IsLeaderState
<1>4. lead[s].accIdx[t] <= h.voted[t][next.n] /\ lead[s].accIdx[t] \in Nat
    BY <1>1, LeadFacts DEF LeaderFits, IsLeader
<1>5. CASE next.accIdx[t] <= h.voted[t][next.n] \/ next.accIdx[t] = lead[s].accIdx[t]
    BY <1>3, <1>4, <1>5
<1>6. CASE t = s /\ next.accIdx[t] = Len(st.log)
    BY <1>2, <1>3, <1>6
<1> QED BY <1>5, <1>6

\* The leader appends the entry it releases and sends it to its followers.
LEMMA ReleaseAtLeaderFits ==
    ASSUME ~EnableFastPath, BallotInv, TypeOK', NEW h \in History, Fits(h),
           NEW s \in Server, NEW e \in dom[s].early, ReleaseAtLeader(s, e)
    PROVE  \E g \in History : Extends(h, g) /\ Fits(g)'
<1> DEFINE map == SetAcceptedMap(lead[s].map, lead[s].accIdx[s] + 1, e, fast[s].prefixHash, s, FALSE)
<1>1. /\ TypeOK /\ StoreFits(h, s) /\ LeaderFits(h, s) /\ IsLeaderState(lead[s])
      /\ store[s] \in Stored /\ store[s].log \in Logs /\ Len(store[s].log) \in Nat
      /\ store[s].decided \in Nat
    BY StoreFacts DEF BallotInv, Fits, ServersFit, TypeOK, LeadOK, StoreOK
<1>2. e \in Key /\ e[2] \in EntryId
    BY SMTT(30), <1>1 DEF TypeOK, DomOK, Key
<1> DEFINE st0 == [store[s] EXCEPT !.log = Append(@, e[2])]
           mid0 == [lead[s] EXCEPT !.map = map, !.accIdx[s] = Len(st0.log)]
           next0 == NextSeq(mid0, PromisedFollowers(lead[s]))
           hash0 == Xor(fast[s].prefixHash, {e})
           sent0 == [t \in Server |-> IF t \in PromisedFollowers(next0)
                                      THEN <<[type |-> "AcceptDecide", n |-> next0.n, seq |-> next0.seqs[t],
                                              decided |-> st0.decided, e |-> e, hash |-> hash0]>> ELSE <<>>]
           done0 == TryFastDecide(s, next0, st0, Len(st0.log))
<1>3. /\ store' = [store EXCEPT ![s] = done0.store] /\ lead' = [lead EXCEPT ![s] = done0.lead]
      /\ Send(s, Then(sent0, done0.out)) /\ IsLeader(s, "Accept") /\ UNCHANGED state
    BY DEF ReleaseAtLeader, CanRelease, IsLeader
<1>4. done0.store = st0 /\ done0.lead = next0 /\ done0.out = Silent
    <2> HIDE DEF st0, next0
    <2>1. ~CanFastDecide(s, next0, st0, Len(st0.log))
        BY DEF CanFastDecide
    <2> QED BY <2>1 DEF TryFastDecide
<1> HIDE DEF done0
<1>5. PICK st, mid, next, F, hash : /\ st = st0 /\ mid = mid0 /\ next = next0
                                    /\ F = PromisedFollowers(lead[s]) /\ hash = hash0
    OBVIOUS
<1> DEFINE accDec(t) == [type |-> "AcceptDecide", n |-> next.n, seq |-> next.seqs[t],
                         decided |-> st.decided, e |-> e, hash |-> hash]
           sent == [t \in Server |-> IF t \in PromisedFollowers(next) THEN <<accDec(t)>> ELSE <<>>]
           out == Then(sent, Silent)
<1>6. /\ st = [store[s] EXCEPT !.log = Append(@, e[2])]
      /\ mid = [lead[s] EXCEPT !.map = map, !.accIdx[s] = Len(st.log)]
      /\ next = NextSeq(mid, F) /\ F = PromisedFollowers(lead[s]) /\ sent = sent0
    <2>1. st = [store[s] EXCEPT !.log = Append(@, e[2])]
        BY <1>5
    <2> HIDE DEF st0
    <2>2. mid = [lead[s] EXCEPT !.map = map, !.accIdx[s] = Len(st.log)]
        BY <1>5
    <2> HIDE DEF mid0
    <2>3. next = NextSeq(mid, F)
        BY <1>5
    <2> HIDE DEF next0, hash0
    <2>4. sent = sent0
        BY <1>5
    <2> QED BY <1>5, <2>1, <2>2, <2>3, <2>4
<1> HIDE DEF st0, mid0, next0, hash0, sent0
<1>7. /\ store' = [store EXCEPT ![s] = st] /\ lead' = [lead EXCEPT ![s] = next]
      /\ Send(s, out) /\ IsLeader(s, "Accept") /\ UNCHANGED state
    <2> HIDE DEF sent
    <2> QED BY <1>3, <1>4, <1>5, <1>6
<1>8. /\ st \in Stored /\ st.promise = store[s].promise /\ st.accRound = store[s].accRound
      /\ st.decided = store[s].decided /\ st.log \in Logs
      /\ Len(st.log) = Len(store[s].log) + 1 /\ st.log[Len(st.log)] = e[2]
      /\ Same(st.log, store[s].log, Len(store[s].log))
    <2>1. /\ Append(store[s].log, e[2]) \in Logs /\ Len(Append(store[s].log, e[2])) = Len(store[s].log) + 1
          /\ Append(store[s].log, e[2])[Len(store[s].log) + 1] = e[2]
          /\ \A i \in 1..Len(store[s].log) : Append(store[s].log, e[2])[i] = store[s].log[i]
        BY <1>1, <1>2, AppendProperties DEF Logs
    <2>2. /\ st.promise = store[s].promise /\ st.accRound = store[s].accRound
          /\ st.decided = store[s].decided /\ st.log = Append(store[s].log, e[2]) /\ st \in Stored
        BY <1>1, <1>6, <2>1 DEF Stored, Logs
    <2> QED BY <1>1, <2>1, <2>2 DEF Same
<1>9. /\ IsLeaderState(mid) /\ mid.n = lead[s].n /\ mid.maxMeta = lead[s].maxMeta
      /\ mid.seqs = lead[s].seqs /\ mid.promises = lead[s].promises
      /\ mid.accIdx = [lead[s].accIdx EXCEPT ![s] = Len(st.log)]
    <2>1. IsAcceptedMap(map)
        <3>1. fast[s].prefixHash \in Hash /\ lead[s].accIdx[s] + 1 \in Nat /\ IsAcceptedMap(lead[s].map)
            BY <1>1 DEF TypeOK, FastOK, IsLeaderState, IsAcceptedMap
        <3> QED BY <1>2, <3>1, SetAcceptedMapType
    <2>2. Len(st.log) \in Nat
        BY <1>1, <1>8
    <2> HIDE DEF map
    <2> QED BY <1>1, <1>6, <2>1, <2>2 DEF IsLeaderState, IsAcceptedMap
<1> HIDE DEF map
<1>10. Numbered(next, mid, F, CountersAfter(mid))
    BY <1>6, <1>9, NumberedNext
<1>11. /\ IsLeaderState(next) /\ next.n = lead[s].n /\ next.maxMeta = lead[s].maxMeta
       /\ next.accIdx = [lead[s].accIdx EXCEPT ![s] = Len(st.log)] /\ PromisedFollowers(next) = F
    BY ZenonT(60), <1>6, <1>9, <1>10 DEF Numbered, PromisedFollowers, HasPromised
<1>12. \A t \in Server : /\ SeqLeq(lead[s].seqs[t], next.seqs[t])
                         /\ t \in F => ~SeqLeq(next.seqs[t], lead[s].seqs[t])
                                       /\ next.seqs[t] = CountersAfter(lead[s])[t]
                         /\ t \notin F => next.seqs[t] = lead[s].seqs[t]
    <2>1. CountersAfter(mid) = CountersAfter(lead[s])
        BY <1>9 DEF CountersAfter
    <2> QED BY <1>9, <1>10, <2>1, NumbersGrow
<1>13. lead[s].n \in Ballot /\ PidOf(lead[s].n) = s /\ lead[s].n = store[s].promise /\ store[s].accRound = lead[s].n
    BY <1>1, <1>7, LeadFacts DEF IsLeader, LeaderFits, Accepting
<1>14. AcceptStep(s, st, next, F)
    <2>1. F \subseteq Server \ {s}
        BY <1>6, <1>13 DEF PromisedFollowers, HasPromised
    <2>2. st.decided <= Len(st.log)
        BY <1>1, <1>8 DEF StoreFits
    <2> QED BY SMTT(30), <1>7, <1>8, <1>11, <1>12, <2>1, <2>2 DEF AcceptStep
<1>15. DecidedBy(h, next.n, st.decided)
    BY <1>1, <1>8, <1>11, <1>13 DEF StoreFits
<1>16. PICK g : g = Extended(h, s, next.n, st.log, Len(st.log), F, next.seqs)
    OBVIOUS
<1>17. g \in History /\ LocalStep(s) /\ HistoryStep(s, h, g)
    BY <1>14, <1>15, <1>16, AcceptStepHistory
<1>18. \A t \in Server : next.accIdx[t] <= g.voted[t][next.n]
    <2> SUFFICES ASSUME NEW t \in Server PROVE next.accIdx[t] <= g.voted[t][next.n]
        OBVIOUS
    <2>1. next.accIdx[t] = lead[s].accIdx[t] \/ (t = s /\ next.accIdx[t] = Len(st.log))
        BY <1>1, <1>11 DEF IsLeaderState
    <2> QED BY <1>14, <1>15, <1>16, <2>1, AcceptedVoted
<1>19. \A t \in Server : out[t] = IF t \in F THEN <<accDec(t)>> ELSE <<>>
    <2> SUFFICES ASSUME NEW t \in Server PROVE out[t] = IF t \in F THEN <<accDec(t)>> ELSE <<>>
        OBVIOUS
    <2>1. out[t] = sent[t] \o <<>>
        BY DEF Then, Silent
    <2>2. sent[t] = IF t \in F THEN <<accDec(t)>> ELSE <<>>
        BY <1>11
    <2> HIDE DEF sent, out, accDec
    <2>3. <<accDec(t)>> \o <<>> = <<accDec(t)>> /\ <<>> \o <<>> = <<>>
        OBVIOUS
    <2> QED BY <2>1, <2>2, <2>3
<1>20. Short(out)
    <2>1. DOMAIN out = Server
        BY DEF Then
    <2>2. \A t \in Server : out[t] = <<>> \/ \E x : out[t] = <<x>>
        BY <1>19
    <2> HIDE DEF out
    <2> QED BY <2>1, <2>2, EmptyQueue, SingletonQueue DEF Short, IsOut
<1> HIDE DEF out
<1>21. ChannelStep(s, out)
    BY <1>1, <1>7, <1>20, MovesChannels DEF Moves, FreeStep
<1>22. SentFits(s, out, g)
    <2> SUFFICES ASSUME NEW t \in Server \ {s}, NEW m \in Range(out[t])
                 PROVE  MsgFits(g, s, t, m)' /\ m.n \in Ballot /\ Top(g, t, m) = Len(g.log[m.n])
        BY DEF SentFits
    <2>1. t \in F /\ m = accDec(t)
        BY ZenonT(60), <1>19, EmptyQueue, SingletonQueue
    <2>2. DecidedBy(g, next.n, st.decided)
        BY <1>1, <1>8, <1>11, <1>13, <1>15, <1>17, HistoryGrows DEF Ballot
    <2>3. Follows(g, s, t, m, st, next)
        BY <1>8, <1>12, <2>1, <2>2 DEF Follows
    <2> HIDE DEF accDec
    <2>4. F = PromisedFollowers(lead[s]) /\ t \in F
        BY <1>6, <2>1
    <2>5. /\ BallotInv /\ TypeOK' /\ Fits(h) /\ AcceptStep(s, st, next, F)
          /\ DecidedBy(h, next.n, st.decided)
          /\ g = Extended(h, s, next.n, st.log, Len(st.log), F, next.seqs)
        BY <1>14, <1>15, <1>16
    <2> HIDE DEF sent
    <2>6. PICK x : x = m
        OBVIOUS
    <2>7. MsgFits(g, s, t, x)' /\ x.n \in Ballot /\ Top(g, t, x) = Len(g.log[x.n])
        <3>1. Follows(g, s, t, x, st, next)
            BY <2>3, <2>6
        <3> QED BY SMTT(30), <2>4, <2>5, <3>1, FollowingSent
    <2> QED BY <2>6, <2>7
<1>23. Fits(g)'
    BY <1>14, <1>15, <1>16, <1>18, <1>21, <1>22, AcceptStepFits
<1> QED BY <1>17, <1>23, StepExtends

\* The leader records what a follower has accepted, and it is not enough.
LEMMA RecordAcceptedFits ==
    ASSUME BallotInv, TypeOK', NEW h \in History, Fits(h), NEW from \in Server, NEW s \in Server,
           net[from][s] # <<>>, IsLeader(s, "Accept"), NEW idx \in Nat, idx <= h.voted[from][lead[s].n],
           UNCHANGED <<store, state>>, Receive(from, s, Silent),
           lead' = [lead EXCEPT ![s] = [lead[s] EXCEPT !.accIdx[from] = idx]]
    PROVE  Fits(h)'
<1>1. TypeOK /\ LeaderFits(h, s) /\ IsLeaderState(lead[s]) /\ DOMAIN lead = Server
    BY DEF BallotInv, Fits, ServersFit, TypeOK, LeadOK
<1>2. PICK ls, after : ls = lead[s] /\ after = lead'[s]
    OBVIOUS
<1>3. (\A t \in Server \ {s} : lead'[t] = lead[t]) /\ after = [ls EXCEPT !.accIdx[from] = idx]
    BY <1>1, <1>2
<1>4. /\ after.n = ls.n /\ after.seqs = ls.seqs /\ after.promises = ls.promises
      /\ after.maxMeta = ls.maxMeta /\ after.accIdx = [ls.accIdx EXCEPT ![from] = idx]
      /\ PromisedFollowers(after) = PromisedFollowers(ls)
    BY <1>1, <1>2, <1>3 DEF IsLeaderState, PromisedFollowers, HasPromised
<1>5. LeaderFits(h, s)'
    <2>1. Accepting(h, s) /\ \A t \in Server : ls.accIdx[t] <= h.voted[t][ls.n]
        BY <1>1, <1>2 DEF LeaderFits, IsLeader
    <2>2. \A t \in Server : after.accIdx[t] <= h.voted[t][after.n]
        BY SMTT(30), <1>1, <1>2, <1>4, <2>1 DEF IsLeaderState
    <2>3. Accepting(h, s)'
        BY <1>2, <1>4, <2>1 DEF Accepting
    <2> QED BY <1>2, <2>2, <2>3 DEF LeaderFits, IsLeader
<1>6. \A f \in Server : SeqLeq(lead[s].seqs[f], lead'[s].seqs[f])
    BY <1>1, <1>2, <1>4, LeadFacts, SeqLeqFacts
<1>7. ChannelStep(s, Silent)
    BY <1>1, ShortOuts, MovesChannels DEF Moves, FreeStep
<1>8. SentFits(s, Silent, h)
    BY SilentIdle, IdleSent
<1> QED BY <1>2, <1>3, <1>4, <1>5, <1>6, <1>7, <1>8, LeadStepFits

\* An accept quorum's entries are in the log of the ballot.
LEMMA ChosenInLog ==
    ASSUME NEW h \in History, HistoryOK(h), NEW b \in Ballot, NEW i \in Nat, Chosen(h, b, i)
    PROVE  i <= Len(h.log[b])
<1>1. PICK W \in SUBSET Server : /\ IsAcceptQuorum(Quorum, Cardinality(W))
                                 /\ \A t \in W : h.voted[t][b] >= i
    BY DEF Chosen
<1>2. W # {}
    <2>1. Quorum.write \in 2..Cardinality(Server) /\ Cardinality(Server) \in Nat
        BY QuorumAssumption, ServerAssumption, FS_CardinalityType DEF IsValidQuorum
    <2>2. Cardinality(W) >= 2
        <3>1. IsFiniteSet(W) /\ Cardinality(W) \in Nat
            BY ServerAssumption, FS_Subset, FS_CardinalityType
        <3> QED BY <1>1, <2>1, <3>1 DEF IsAcceptQuorum
    <2> QED BY <2>2, FS_EmptySet
<1>3. PICK t \in W : h.voted[t][b] >= i
    BY <1>1, <1>2
<1>4. h.voted[t][b] <= Len(h.log[b])
    BY DEF HistoryOK
<1> QED BY <1>3, <1>4, HistoryFacts

\* The leader records what a follower has accepted; once a quorum has accepted an entry
\* it is decided, and the followers are told.
LEMMA ReceiveAcceptedFits ==
    ASSUME BallotInv, TypeOK', NEW h \in History, Fits(h), NEW from \in Server, NEW s \in Server,
           ReceiveAccepted(from, s)
    PROVE  \E g \in History : Extends(h, g) /\ Fits(g)'
<1>1. /\ TypeOK /\ StoreFits(h, s) /\ LeaderFits(h, s) /\ HistoryOK(h)
      /\ IsLeaderState(lead[s]) /\ store[s] \in Stored /\ store \in [Server -> Stored]
      /\ store[s].log \in Logs /\ Len(store[s].log) \in Nat /\ store[s].decided \in Nat
    BY StoreFacts DEF BallotInv, Fits, ServersFit, TypeOK, LeadOK, StoreOK
<1> DEFINE idx0 == Msg(from, s).accIdx
           ls0 == [lead[s] EXCEPT !.accIdx[from] = idx0]
           chosen == idx0 > store[s].decided /\ IsChosen(ls0, idx0)
           done == IF chosen THEN DecideUpTo(ls0, store[s], idx0)
                   ELSE [store |-> store[s], lead |-> ls0, out |-> Silent]
<1>2. /\ net[from][s] # <<>> /\ IsLeader(s, "Accept") /\ Msg(from, s).n = lead[s].n
      /\ store' = [store EXCEPT ![s] = done.store] /\ lead' = [lead EXCEPT ![s] = done.lead]
      /\ Receive(from, s, done.out) /\ UNCHANGED state
    BY DEF ReceiveAccepted, Arrives
<1>3. idx0 \in Nat /\ IsLeaderState(ls0)
    BY <1>1, AcceptedDecision
<1>4. idx0 <= h.voted[from][lead[s].n]
    <2>1. Msg(from, s) \in Range(net[from][s]) /\ Msg(from, s).type = "Accepted"
        BY <1>1, ArrivesType DEF TypeOK, ReceiveAccepted
    <2>2. MsgFits(h, from, s, Msg(from, s))
        BY <2>1 DEF Fits, ChannelsFit
    <2> QED BY <1>2, <2>1, <2>2 DEF MsgFits
<1>5. CASE ~chosen
    <2>1. done.store = store[s] /\ done.lead = ls0 /\ done.out = Silent
        BY <1>5
    <2> HIDE DEF done
    <2>2. /\ UNCHANGED <<store, state>> /\ Receive(from, s, Silent)
          /\ lead' = [lead EXCEPT ![s] = ls0]
        BY <1>1, <1>2, <2>1
    <2>3. Fits(h)'
        <3>1. PICK idx : idx = idx0
            OBVIOUS
        <3>2. /\ lead' = [lead EXCEPT ![s] = [lead[s] EXCEPT !.accIdx[from] = idx]]
              /\ idx \in Nat /\ idx <= h.voted[from][lead[s].n]
            BY <1>3, <1>4, <2>2, <3>1
        <3> QED BY <1>2, <2>2, <3>2, RecordAcceptedFits
    <2> QED BY <2>3, SelfExtends
<1>6. CASE chosen
    <2> DEFINE mid0 == [ls0 EXCEPT !.map = PruneAcceptedMap(@, idx0)]
               next0 == NextSeq(mid0, PromisedFollowers(ls0))
               out0 == [t \in Server |-> IF t \in PromisedFollowers(ls0)
                           THEN <<[type |-> "Decide", n |-> ls0.n, seq |-> next0.seqs[t], decided |-> idx0]>>
                           ELSE <<>>]
    <2>1. done.store = [store[s] EXCEPT !.decided = idx0] /\ done.lead = next0 /\ done.out = out0
        BY <1>6 DEF DecideUpTo
    <2> HIDE DEF done, chosen
    <2>2. PICK idx, ls, mid, next, F, st : /\ idx = idx0 /\ ls = ls0 /\ mid = mid0 /\ next = next0
                                           /\ F = PromisedFollowers(ls0)
                                           /\ st = [store[s] EXCEPT !.decided = idx0]
        OBVIOUS
    <2> DEFINE msg(t) == [type |-> "Decide", n |-> ls.n, seq |-> next.seqs[t], decided |-> idx]
               out == [t \in Server |-> IF t \in F THEN <<msg(t)>> ELSE <<>>]
    <2>3. /\ ls = [lead[s] EXCEPT !.accIdx[from] = idx] /\ mid = [ls EXCEPT !.map = PruneAcceptedMap(@, idx)]
          /\ next = NextSeq(mid, F) /\ st = [store[s] EXCEPT !.decided = idx]
          /\ idx > store[s].decided /\ IsChosen(ls, idx) /\ idx \in Nat /\ IsLeaderState(ls)
          /\ idx <= h.voted[from][lead[s].n] /\ F = PromisedFollowers(ls)
        BY <1>3, <1>4, <1>6, <2>2 DEF chosen
    <2>4. out = out0
        BY <2>2
    <2> HIDE DEF idx0, ls0, mid0, next0, out0
    <2>5. /\ store' = [store EXCEPT ![s] = st] /\ lead' = [lead EXCEPT ![s] = next]
          /\ Receive(from, s, out)
        BY <1>2, <2>1, <2>2, <2>4
    <2>6. /\ ls.n = lead[s].n /\ ls.maxMeta = lead[s].maxMeta /\ ls.seqs = lead[s].seqs
          /\ ls.promises = lead[s].promises /\ ls.accIdx = [lead[s].accIdx EXCEPT ![from] = idx]
        BY <1>1, <2>3 DEF IsLeaderState
    <2>7. /\ IsLeaderState(mid) /\ mid.n = ls.n /\ mid.maxMeta = ls.maxMeta /\ mid.seqs = ls.seqs
          /\ mid.promises = ls.promises /\ mid.accIdx = ls.accIdx
        <3>1. IsAcceptedMap(PruneAcceptedMap(ls.map, idx))
            BY <2>3, PruneType DEF IsLeaderState, IsAcceptedMap
        <3> QED BY <2>3, <3>1 DEF IsLeaderState, IsAcceptedMap
    <2>8. Numbered(next, mid, F, CountersAfter(mid))
        BY <2>3, <2>7, NumberedNext
    <2>9. /\ IsLeaderState(next) /\ next.n = lead[s].n /\ next.maxMeta = lead[s].maxMeta
          /\ next.accIdx = [lead[s].accIdx EXCEPT ![from] = idx]
          /\ PromisedFollowers(next) = F /\ F = PromisedFollowers(lead[s])
        BY ZenonT(60), <2>3, <2>6, <2>7, <2>8 DEF Numbered, PromisedFollowers, HasPromised
    <2>10. \A t \in Server : /\ SeqLeq(lead[s].seqs[t], next.seqs[t])
                             /\ t \in F => ~SeqLeq(next.seqs[t], lead[s].seqs[t])
                                           /\ next.seqs[t] = CountersAfter(lead[s])[t]
                             /\ t \notin F => next.seqs[t] = lead[s].seqs[t]
        <3>1. CountersAfter(mid) = CountersAfter(lead[s])
            BY <2>6, <2>7 DEF CountersAfter
        <3> QED BY <2>6, <2>7, <2>8, <3>1, NumbersGrow
    <2>11. /\ st \in Stored /\ st.promise = store[s].promise /\ st.accRound = store[s].accRound
           /\ st.decided = idx /\ st.log = store[s].log
        BY <1>1, <2>3 DEF Stored
    <2>12. /\ lead[s].n \in Ballot /\ PidOf(lead[s].n) = s /\ store[s].accRound = lead[s].n
           /\ lead[s].n \in Nat /\ Len(store[s].log) = Len(h.log[lead[s].n])
        BY <1>1, <1>2, LeadFacts DEF IsLeader, LeaderFits, Accepting
    <2>13. Chosen(h, lead[s].n, idx)
        <3> DEFINE W == {t \in Server : ls.accIdx[t] >= idx}
        <3>1. IsAcceptQuorum(Quorum, Cardinality(W))
            BY <2>3 DEF IsChosen
        <3>2. \A t \in W : h.voted[t][lead[s].n] >= idx
            <4> SUFFICES ASSUME NEW t \in Server, ls.accIdx[t] >= idx PROVE h.voted[t][lead[s].n] >= idx
                OBVIOUS
            <4>1. CASE t = from
                BY <2>3, <4>1
            <4>2. CASE t # from
                <5>1. lead[s].accIdx[t] <= h.voted[t][lead[s].n] /\ lead[s].accIdx[t] >= idx
                    BY <1>1, <1>2, <2>6, <4>2 DEF LeaderFits, IsLeader, IsLeaderState
                <5>2. lead[s].accIdx[t] \in Nat /\ h.voted[t][lead[s].n] \in Nat
                    BY <1>1, <2>12, HistoryFacts, LeadFacts
                <5> QED BY <2>3, <5>1, <5>2
            <4> QED BY <4>1, <4>2
        <3> HIDE DEF W
        <3>3. W \in SUBSET Server
            BY DEF W
        <3> QED BY <3>1, <3>2, <3>3 DEF Chosen
    <2>14. DecidedBy(h, next.n, st.decided) /\ st.decided <= Len(st.log)
        <3>1. lead[s].n \in h.started
            BY <1>1, <2>12 DEF StoreFits
        <3>2. idx <= Len(h.log[lead[s].n])
            BY <1>1, <2>3, <2>12, <2>13, ChosenInLog
        <3> QED BY <2>9, <2>11, <2>12, <2>13, <3>1, <3>2 DEF DecidedBy
    <2>15. AcceptStep(s, st, next, F)
        <3>1. F \subseteq Server \ {s}
            BY <2>9, <2>12 DEF PromisedFollowers, HasPromised
        <3>2. Same(st.log, store[s].log, Len(store[s].log))
            BY <1>1, <2>11, SameFacts
        <3> QED BY <1>2, <2>5, <2>9, <2>10, <2>11, <2>14, <3>1, <3>2 DEF AcceptStep
    <2>16. PICK g : g = Extended(h, s, next.n, st.log, Len(st.log), F, next.seqs)
        OBVIOUS
    <2>17. g \in History /\ LocalStep(s) /\ HistoryStep(s, h, g)
        BY <2>14, <2>15, <2>16, AcceptStepHistory
    <2>18. \A t \in Server : next.accIdx[t] <= g.voted[t][next.n]
        <3> SUFFICES ASSUME NEW t \in Server PROVE next.accIdx[t] <= g.voted[t][next.n]
            OBVIOUS
        <3>1. next.accIdx[t] = lead[s].accIdx[t] \/ next.accIdx[t] <= h.voted[t][next.n]
            BY ZenonT(60), <1>1, <2>3, <2>9 DEF IsLeaderState
        <3> QED BY <2>14, <2>15, <2>16, <3>1, AcceptedVoted
    <2>19. \A t \in Server : out[t] = IF t \in F THEN <<msg(t)>> ELSE <<>>
        OBVIOUS
    <2>20. Short(out)
        <3>1. DOMAIN out = Server
            OBVIOUS
        <3>2. \A t \in Server : out[t] = <<>> \/ \E x : out[t] = <<x>>
            BY <2>19
        <3> HIDE DEF out
        <3> QED BY <3>1, <3>2, EmptyQueue, SingletonQueue DEF Short, IsOut
    <2> HIDE DEF out
    <2>21. ChannelStep(s, out)
        BY <1>1, <1>2, <2>5, <2>20, MovesChannels DEF Moves, FreeStep
    <2>22. SentFits(s, out, g)
        <3> SUFFICES ASSUME NEW t \in Server \ {s}, NEW m \in Range(out[t])
                     PROVE  MsgFits(g, s, t, m)' /\ m.n \in Ballot /\ Top(g, t, m) = Len(g.log[m.n])
            BY DEF SentFits
        <3>1. t \in F /\ m = msg(t)
            BY ZenonT(60), <2>19, EmptyQueue, SingletonQueue
        <3>2. DecidedBy(g, next.n, idx)
            BY <1>1, <2>3, <2>9, <2>11, <2>12, <2>14, <2>17, HistoryGrows
        <3>3. PICK x : x = m
            OBVIOUS
        <3>4. Follows(g, s, t, x, st, next)
            BY <1>1, <2>6, <2>9, <2>10, <2>11, <3>1, <3>2, <3>3 DEF Follows
        <3>5. MsgFits(g, s, t, x)' /\ x.n \in Ballot /\ Top(g, t, x) = Len(g.log[x.n])
            <4>1. F = PromisedFollowers(lead[s]) /\ t \in F
                BY <2>9, <3>1
            <4> QED BY <2>14, <2>15, <2>16, <3>4, <4>1, FollowingSent
        <3> QED BY <3>3, <3>5
    <2>23. Fits(g)'
        BY <2>14, <2>15, <2>16, <2>18, <2>21, <2>22, AcceptStepFits
    <2> QED BY <2>17, <2>23, StepExtends
<1> QED BY <1>5, <1>6

\* What arrives from a leader fits.
LEMMA LeaderMsgTaken ==
    ASSUME BallotInv, NEW h \in History, Fits(h), NEW from \in Server, NEW s \in Server,
           NEW type \in FromLeader, Arrives(from, s, type)
    PROVE  /\ net[from][s] # <<>> /\ Msg(from, s).type = type /\ IsLeaderMsg(Msg(from, s))
           /\ LeaderMsgFits(h, from, s, Msg(from, s))
<1>1. TypeOK
    BY DEF BallotInv
<1>2. /\ net[from][s] # <<>> /\ Msg(from, s).type = type /\ Msg(from, s) \in Range(net[from][s])
    BY <1>1, ArrivesType DEF TypeOK
<1>3. IsLeaderMsg(Msg(from, s))
    BY <1>1, <1>2, MsgFacts
<1>4. MsgFits(h, from, s, Msg(from, s))
    BY <1>2 DEF Fits, ChannelsFit
<1> QED BY <1>2, <1>3, <1>4 DEF MsgFits

\* The leader's message a follower takes stands for no more of the log than the ones of
\* the same ballot that stay behind.
LEMMA TakenFirst ==
    ASSUME BallotInv, NEW h \in History, Fits(h), NEW from \in Server, NEW s \in Server,
           NEW type \in FromLeader, Arrives(from, s, type), NEW out, Receive(from, s, out),
           NEW a \in Server, NEW m \in Range(net'[a][s]), m.type \in FromLeader, m.n = Msg(from, s).n
    PROVE  Top(h, s, Msg(from, s)) <= Top(h, s, m)
<1>1. TypeOK /\ ChannelsFit(h)
    BY DEF BallotInv, Fits
<1>2. /\ net[from][s] # <<>> /\ Msg(from, s).type \in FromLeader
      /\ from # s /\ PidOf(Msg(from, s).n) = from
    BY LeaderMsgTaken DEF LeaderMsgFits
<1> DEFINE q == net[from][s]
           taken == [net EXCEPT ![from][s] = Tail(@)]
<1>3. IsChannels(net)
    BY <1>1 DEF TypeOK, NetOK, IsChannels, IsOut, IsQueue
<1>4. IsChannels(taken) /\ net' = Deliver(taken, s, out)
    BY <1>2, <1>3, TakeQueues DEF Receive
<1>5. net'[a][s] = taken[a][s]
    <2> HIDE DEF taken
    <2>1. CASE a = s
        BY <1>4, <2>1 DEF Deliver, IsChannels
    <2>2. CASE a # s
        BY <1>4, <2>2 DEF Deliver, IsChannels
    <2> QED BY <2>1, <2>2
<1>6. taken[from][s] = Tail(q) /\ (a # from => taken[a][s] = net[a][s])
    BY <1>3 DEF IsChannels, IsOut
<1> HIDE DEF taken
<1>7. a = from
    <2> SUFFICES ASSUME a # from PROVE FALSE
        OBVIOUS
    <2>1. m \in Range(net[a][s])
        BY <1>5, <1>6
    <2>2. MsgFits(h, a, s, m)
        BY <1>1, <2>1 DEF ChannelsFit
    <2> QED BY <1>2, <2>2 DEF MsgFits, LeaderMsgFits
<1>8. q # <<>> /\ q \in Seq(Range(q))
    BY <1>2, <1>3 DEF IsChannels, IsOut, IsQueue
<1>9. m \in Range(Tail(q))
    BY <1>5, <1>6, <1>7
<1>10. Msg(from, s) = Head(q)
    BY DEF Msg
<1> HIDE DEF q
<1>11. /\ Tail(q) \in Seq(Range(q)) /\ Len(Tail(q)) = Len(q) - 1 /\ Head(q) = q[1]
       /\ \A i \in 1..Len(Tail(q)) : Tail(q)[i] = q[i + 1]
    BY <1>8, HeadTailProperties
<1>12. DOMAIN q = 1..Len(q) /\ Len(q) \in Nat /\ DOMAIN Tail(q) = 1..Len(Tail(q)) /\ Len(q) > 0
    BY <1>8, <1>11, LenProperties, EmptySeq
<1>13. PICK j \in DOMAIN Tail(q) : Tail(q)[j] = m
    BY <1>9 DEF Range
<1>14. /\ 1 \in DOMAIN q /\ q[1] = Msg(from, s) /\ j + 1 \in DOMAIN q /\ q[j + 1] = m
       /\ 1 < j + 1
    BY <1>10, <1>11, <1>12, <1>13
<1>15. Ordered(h, from, s)
    BY SMTT(30), <1>1 DEF ChannelsFit
<1> QED BY <1>2, <1>14, <1>15 DEF Ordered, q

\* A follower takes the leader's message m and then holds the part of the leader's log
\* that m stands for (handle_acceptsync, handle_acceptdecide, handle_decide).
Advances(h, from, s, m, st, after) ==
    /\ m.type \in FromLeader /\ Arrives(from, s, m.type) /\ m = Msg(from, s)
    /\ m.n = store[s].promise /\ UNCHANGED lead
    /\ store' = [store EXCEPT ![s] = st] /\ st.promise = m.n /\ st.accRound = m.n
    /\ Len(st.log) = Top(h, s, m) /\ Same(st.log, h.log[m.n], Top(h, s, m))
    /\ st.decided <= Top(h, s, m) /\ DecidedBy(h, m.n, st.decided)
    /\ state' = [state EXCEPT ![s] = after] /\ after.role = "Follower" /\ after.seq = m.seq
    /\ after.cached = None \/ after.cached = state[s].cached

\* A follower's vote grows with the leader's message.
LEMMA AdvanceHistory ==
    ASSUME BallotInv, TypeOK', NEW h \in History, Fits(h), NEW from \in Server, NEW s \in Server,
           NEW m, NEW st, NEW after, Advances(h, from, s, m, st, after),
           NEW g, g = Extended(h, s, m.n, h.log[m.n], Top(h, s, m), {}, <<>>)
    PROVE  /\ g \in History /\ LocalStep(s) /\ HistoryStep(s, h, g)
           /\ HistoryOK(g)' /\ Safe(g)' /\ StoreFits(g, s)'
           /\ m.n \in Ballot /\ m.n \in h.started /\ PidOf(m.n) = from /\ from # s
           /\ IsLeaderMsg(m) /\ LeaderMsgFits(h, from, s, m)
           /\ g.voted[s][m.n] = Len(st.log) /\ g.top[s][m.n][m.seq] = Len(st.log)
           /\ store'[s] = st /\ state'[s] = after
           /\ \A t \in Server \ {s} : store'[t] = store[t] /\ state'[t] = state[t]
<1>1. TypeOK /\ HistoryOK(h) /\ Safe(h) /\ StoreFits(h, s)
    BY DEF BallotInv, Fits, ServersFit
<1>2. IsLeaderMsg(m) /\ LeaderMsgFits(h, from, s, m)
    BY LeaderMsgTaken DEF Advances
<1>3. m.n \in Ballot /\ m.n \in h.started /\ PidOf(m.n) = from /\ from # s /\ m.seq \in SeqNum
    BY <1>2 DEF IsLeaderMsg, LeaderMsgFits
<1>4. /\ store'[s] = st /\ state'[s] = after /\ lead' = lead
      /\ \A t \in Server \ {s} : store'[t] = store[t] /\ state'[t] = state[t]
    BY <1>1 DEF Advances, TypeOK, StoreOK, StateOK
<1>5. PICK n, log, k, F, seqs : /\ n = m.n /\ log = h.log[m.n] /\ k = Top(h, s, m)
                                /\ F = {} /\ seqs = <<>>
    OBVIOUS
<1>6. /\ n \in h.started /\ n \in Ballot /\ n \in Nat /\ n = store[s].promise
      /\ log \in Logs /\ log = h.log[n] /\ Len(log) \in Nat
      /\ k \in Nat /\ k <= Len(log) /\ h.base[n] <= k /\ h.base[n] \in Nat
      /\ h.voted[s][n] \in Nat
    BY ZenonT(60), <1>2, <1>3, <1>5, HistoryFacts DEF LeaderMsgFits, Advances, Top
<1>7. st.promise = n /\ st.accRound = n /\ Len(st.log) = k /\ Same(st.log, log, k)
      /\ st.decided <= k /\ DecidedBy(h, n, st.decided) /\ after.role = "Follower"
    BY <1>5 DEF Advances
<1>8. store[s].accRound = n => h.voted[s][n] = Len(store[s].log) /\ Len(store[s].log) <= k
    BY <1>1, <1>2, <1>5, <1>6 DEF StoreFits, LeaderMsgFits
<1>9. h.voted[s][n] <= k
    <2>1. CASE store[s].accRound = n
        BY <1>8, <2>1
    <2>2. CASE store[s].accRound # n
        <3>1. n > store[s].accRound
            BY <1>1, <1>6, <2>2, StoreFacts
        <3> QED BY <1>1, <1>6, <3>1 DEF StoreFits
    <2> QED BY <2>1, <2>2
<1>10. LocalStep(s)
    BY <1>1, <1>4, <1>6, <1>7, <1>8, StoreFacts DEF LocalStep
<1>11. g = Extended(h, s, n, log, k, F, seqs)
    BY SMTT(30), <1>5
<1>12. g \in History /\ g.voted[s][n] = k
       /\ \A f \in Server, b \in Ballot, q \in SeqNum : g.top[f][b][q] = h.top[f][b][q]
    <2>1. IsExtension(g, h, s, n, log, k, F, seqs)
        BY <1>5, <1>6, <1>11, ExtendedHistory
    <2>2. F = {}
        BY <1>5
    <2> QED BY <2>1, <2>2 DEF IsExtension
<1>13. Same(log, h.log[n], Len(h.log[n]))
    BY <1>6, SameFacts
<1>14. HistoryStep(s, h, g) /\ HistoryOK(g)' /\ Safe(g)' /\ StoreFits(g, s)'
    <2>1. /\ store'[s].accRound = n /\ Len(store'[s].log) = k /\ Same(store'[s].log, log, k)
          /\ store'[s].decided <= k /\ DecidedBy(h, n, store'[s].decided)
        BY <1>4, <1>7
    <2>2. /\ F # {} => state[s].role = "Leader" /\ lead[s].n = n
          /\ \A f \in F : ~SeqLeq(seqs[f], lead[s].seqs[f])
          /\ PidOf(n) # s => log = h.log[n]
        BY <1>5, <1>6
    <2>3. /\ n \in h.started /\ n = store[s].promise /\ log \in Logs /\ k \in Nat
          /\ k <= Len(log) /\ h.voted[s][n] <= k /\ h.base[n] <= k
        BY <1>6, <1>9
    <2>4. g \in History
        BY <1>12
    <2> QED BY <1>1, <1>10, <1>11, <1>13, <2>1, <2>2, <2>3, <2>4, BallotGrows
<1>15. g.top[s][m.n][m.seq] = Len(st.log)
    BY ZenonT(60), <1>3, <1>5, <1>7, <1>12 DEF Top
<1> QED BY <1>2, <1>3, <1>4, <1>5, <1>7, <1>10, <1>12, <1>14, <1>15

\* A follower takes a message of its leader.
LEMMA AdvanceFits ==
    ASSUME BallotInv, TypeOK', NEW h \in History, Fits(h), NEW from \in Server, NEW s \in Server,
           NEW m, NEW st, NEW after, Advances(h, from, s, m, st, after),
           NEW out, out = Silent \/ out = Answer(from, m, st), Receive(from, s, out)
    PROVE  \E g \in History : Extends(h, g) /\ Fits(g)'
<1>1. PICK g : g = Extended(h, s, m.n, h.log[m.n], Top(h, s, m), {}, <<>>)
    OBVIOUS
<1>2. /\ g \in History /\ LocalStep(s) /\ HistoryStep(s, h, g)
      /\ HistoryOK(g)' /\ Safe(g)' /\ StoreFits(g, s)'
      /\ m.n \in Ballot /\ m.n \in h.started /\ PidOf(m.n) = from /\ from # s
      /\ IsLeaderMsg(m) /\ LeaderMsgFits(h, from, s, m)
      /\ g.voted[s][m.n] = Len(st.log) /\ g.top[s][m.n][m.seq] = Len(st.log)
      /\ store'[s] = st /\ state'[s] = after
      /\ \A t \in Server \ {s} : store'[t] = store[t] /\ state'[t] = state[t]
    BY <1>1, AdvanceHistory
<1>3. TypeOK /\ net[from][s] # <<>> /\ FollowerFits(h, s)
    BY LeaderMsgTaken DEF BallotInv, Advances, Fits, ServersFit
<1>4. NotOvertaken(s, h)
    <2>1. m.n = store[s].promise /\ m = Msg(from, s) /\ m.type \in FromLeader
          /\ Arrives(from, s, m.type) /\ Len(st.log) = Top(h, s, m)
        BY DEF Advances
    <2>2. \A a \in Server : \A x \in Range(net'[a][s]) :
              x.type \in FromLeader /\ x.n = store[s].promise => Top(h, s, Msg(from, s)) <= Top(h, s, x)
        BY <2>1, TakenFirst
    <2> QED BY <1>2, <2>1, <2>2 DEF NotOvertaken
<1>5. ChannelStep(s, out)
    <2>1. Short(out)
        BY ShortOuts DEF Answer
    <2> QED BY <1>3, <2>1, MovesChannels DEF Moves, FreeStep
<1>6. SentFits(s, out, g)
    <2> SUFFICES ASSUME NEW b \in Server \ {s}, NEW x \in Range(out[b])
                 PROVE  MsgFits(g, s, b, x)' /\ x.type \notin FromLeader
        BY DEF SentFits
    <2>1. out[b] = <<>> \/ out[b] = <<[type |-> "Accepted", n |-> m.n, accIdx |-> Len(st.log)]>>
        BY DEF Silent, Answer, To, ToAll
    <2>2. x = [type |-> "Accepted", n |-> m.n, accIdx |-> Len(st.log)]
        BY <2>1, EmptyQueue, SingletonQueue
    <2>3. g.voted[s][m.n] \in Nat
        BY <1>2, HistoryFacts
    <2> QED BY <1>2, <2>2, <2>3 DEF MsgFits, FromLeader
<1>7. LeaderFits(g, s)'
    BY <1>2 DEF LeaderFits, Advances
<1>8. FollowerFits(g, s)'
    <2>1. IsFollower(s, "Accept")' /\ PidOf(store'[s].promise) # s =>
             LET n == store'[s].promise
                 l == PidOf(n)
             IN  /\ l \in Server /\ Len(store'[s].log) = g.top[s][n][state'[s].seq]
                 /\ state'[l].role = "Leader" /\ lead'[l].n = n => SeqLeq(state'[s].seq, lead'[l].seqs[s])
        <3>1. st.promise = m.n /\ after.seq = m.seq /\ lead' = lead
            BY DEF Advances
        <3>2. state[from].role = "Leader" /\ lead[from].n = m.n => SeqLeq(m.seq, lead[from].seqs[s])
            BY <1>2 DEF LeaderMsgFits
        <3> QED BY <1>2, <3>1, <3>2
    <2>2. state'[s].cached # None =>
            /\ PidOf(state'[s].cached.n) \in Server
            /\ PromiseFits(g, s, PidOf(state[s].cached.n), state[s].cached)'
        BY <1>2, <1>3, CachedFitsKept DEF Advances
    <2> QED BY <2>1, <2>2 DEF FollowerFits, SessionFits, CachedFits
<1>9. Fits(g)'
    BY <1>2, <1>4, <1>5, <1>6, <1>7, <1>8, AllFit
<1> QED BY <1>2, <1>9, StepExtends

\* sync_log with a suffix that fits makes the log the target's.
LEMMA SyncedStore ==
    ASSUME NEW old \in Stored, NEW n \in Ballot, NEW d \in Nat, NEW sync \in LogSync,
           NEW target \in Logs, NEW k \in Nat, Synced(old.log, sync, target, k),
           NEW st, st = SyncLog(old, n, d, sync)
    PROVE  /\ st.promise = old.promise /\ st.accRound = n /\ st.decided = d
           /\ Len(st.log) = k /\ Same(st.log, target, k)
<1>1. sync \in LogSync \cup {None} /\ sync # None /\ old.log \in Logs
    BY DEF LogSync, None, Stored, Logs
<1> DEFINE cut == SubSeq(old.log, 1, Min({sync.idx, Len(old.log)})) \o sync.suffix
<1>2. st = [old EXCEPT !.accRound = n, !.decided = d, !.log = cut]
    BY <1>1 DEF SyncLog
<1>3. Len(cut) = k /\ Same(cut, target, k)
    BY <1>1, SyncedLog
<1> HIDE DEF cut
<1> QED BY <1>2, <1>3 DEF Stored

\* handle_acceptsync: the follower's log becomes the leader's, up to what the message carries.
LEMMA ReceiveAcceptSyncFits ==
    ASSUME BallotInv, TypeOK', NEW h \in History, Fits(h), NEW from \in Server, NEW s \in Server,
           ReceiveAcceptSync(from, s)
    PROVE  \E g \in History : Extends(h, g) /\ Fits(g)'
<1>1. TypeOK
    BY DEF BallotInv
<1>2. PICK m : m = Msg(from, s)
    OBVIOUS
<1>3. PICK st : st = SyncLog(store[s], m.n, m.decided, m.sync)
    OBVIOUS
<1>4. PICK after : after = [role |-> "Follower", phase |-> "Accept", seq |-> m.seq, cached |-> None]
    OBVIOUS
<1>5. PICK out : out = Answer(from, m, st)
    OBVIOUS
<1>6. /\ Arrives(from, s, "AcceptSync") /\ m.n = store[s].promise /\ UNCHANGED lead
      /\ store' = [store EXCEPT ![s] = st] /\ state' = [state EXCEPT ![s] = after]
      /\ Receive(from, s, out)
    BY <1>2, <1>3, <1>4, <1>5 DEF ReceiveAcceptSync, Answer
<1>7. m.type = "AcceptSync" /\ IsLeaderMsg(m) /\ LeaderMsgFits(h, from, s, m)
    BY <1>2, <1>6, LeaderMsgTaken DEF FromLeader
<1>8. /\ m.n \in Ballot /\ m.decided \in Nat /\ m.sync \in LogSync /\ m.seq \in SeqNum
      /\ m.decided <= Top(h, s, m) /\ DecidedBy(h, m.n, m.decided)
      /\ Synced(store[s].log, m.sync, h.log[m.n], Top(h, s, m))
    BY <1>6, <1>7 DEF IsLeaderMsg, LeaderMsgFits
<1>9. store[s] \in Stored /\ store[s].log \in Logs /\ h.log[m.n] \in Logs /\ Top(h, s, m) \in Nat
    BY <1>1, <1>8, StoreFacts, HistoryFacts DEF TypeOK, StoreOK, Top
<1>10. PICK old, n, d, sync, log, target, k :
           /\ old = store[s] /\ n = m.n /\ d = m.decided /\ sync = m.sync
           /\ log = store[s].log /\ target = h.log[m.n] /\ k = Top(h, s, m)
    OBVIOUS
<1>11. /\ st.promise = store[s].promise /\ st.accRound = m.n /\ st.decided = m.decided
       /\ Len(st.log) = Top(h, s, m) /\ Same(st.log, h.log[m.n], Top(h, s, m))
    <2>1. sync \in LogSync /\ sync \in LogSync \cup {None} /\ sync # None
        BY <1>8, <1>10 DEF LogSync, None
    <2>2. /\ old \in Stored /\ n \in Ballot /\ d \in Nat /\ st = SyncLog(old, n, d, sync)
        BY <1>3, <1>8, <1>9, <1>10
    <2>3. /\ log \in Logs /\ target \in Logs /\ k \in Nat /\ Synced(log, sync, target, k)
          /\ log = old.log
        BY <1>8, <1>9, <1>10
    <2>4. /\ st.promise = old.promise /\ st.accRound = n /\ st.decided = d
          /\ Len(st.log) = k /\ Same(st.log, target, k)
        BY <2>1, <2>2, <2>3, SyncedStore
    <2> QED BY <1>10, <2>4
<1>12. Advances(h, from, s, m, st, after)
    BY <1>2, <1>4, <1>6, <1>7, <1>8, <1>11 DEF Advances, FromLeader
<1> QED BY <1>5, <1>6, <1>12, AdvanceFits

\* The next message of the leader arrives at a server in the accept phase.
IsNext(from, s, m) ==
    /\ m = Msg(from, s) /\ m.type \in {"AcceptDecide", "Decide"} /\ Arrives(from, s, m.type)
    /\ m.n = store[s].promise /\ state[s].phase = "Accept" /\ IsExpected(s, m)

\* Where a follower of another server stands when the next message of its leader comes.
LEMMA NextOfLeader ==
    ASSUME BallotInv, NEW h \in History, Fits(h), NEW from \in Server, NEW s \in Server,
           NEW m, IsNext(from, s, m)
    PROVE  /\ IsLeaderMsg(m) /\ state[s].role = "Follower" /\ PidOf(m.n) = from
           /\ store[s].accRound = m.n
           /\ Top(h, s, m) = Len(store[s].log) + IF m.type = "Decide" THEN 0 ELSE 1
           /\ Top(h, s, m) \in Nat /\ Top(h, s, m) <= Len(h.log[m.n])
           /\ m.type = "AcceptDecide" => m.e[2] = h.log[m.n][Top(h, s, m)]
           /\ DecidedBy(h, m.n, m.decided) /\ DecidedBy(h, m.n, store[s].decided)
           /\ store[s].decided <= Len(store[s].log)
           /\ Same(store[s].log, h.log[m.n], Len(store[s].log))
<1>1. TypeOK /\ AcceptsInPromise /\ StoreFits(h, s) /\ FollowerFits(h, s)
    BY DEF BallotInv, Fits, ServersFit
<1>2. IsLeaderMsg(m) /\ LeaderMsgFits(h, from, s, m)
    BY LeaderMsgTaken DEF FromLeader, IsNext
<1>3. /\ m.n \in Ballot /\ m.seq \in SeqNum /\ PidOf(m.n) = from /\ from # s
      /\ Top(h, s, m) <= Len(h.log[m.n]) /\ DecidedBy(h, m.n, m.decided)
      /\ m.type = "AcceptDecide" => m.e[2] = h.log[m.n][Top(h, s, m)]
    BY <1>2 DEF IsLeaderMsg, LeaderMsgFits
<1>4. state[s].role = "Follower"
    BY <1>1, <1>3, LeadFacts DEF TypeOK, StateOK, IsNext
<1>5. store[s].accRound = m.n
    BY <1>1 DEF AcceptsInPromise, IsNext
<1>6. Len(store[s].log) = h.top[s][m.n][state[s].seq] /\ state[s].seq \in SeqNum
    BY <1>1, <1>3, <1>4 DEF FollowerFits, SessionFits, CachedFits, IsFollower, TypeOK, StateOK, IsNext
<1>7. state[s].seq.session = m.seq.session /\ m.seq.counter = state[s].seq.counter + 1
    BY DEF IsExpected, IsNext
<1>8. Top(h, s, m) = h.top[s][m.n][state[s].seq] + IF m.type = "Decide" THEN 0 ELSE 1
    BY SMTT(30), <1>2, <1>6, <1>7 DEF LeaderMsgFits, IsNext
<1>9. Top(h, s, m) \in Nat
    BY <1>3, HistoryFacts DEF Top
<1>10. /\ DecidedBy(h, m.n, store[s].decided) /\ store[s].decided <= Len(store[s].log)
       /\ Same(store[s].log, h.log[m.n], Len(store[s].log))
    BY <1>1, <1>5 DEF StoreFits
<1> QED BY ZenonT(60), <1>2, <1>3, <1>4, <1>5, <1>6, <1>8, <1>9, <1>10

\* handle_acceptdecide: the follower appends the leader's next entry.
LEMMA ReceiveAcceptDecideFits ==
    ASSUME BallotInv, TypeOK', NEW h \in History, Fits(h), NEW from \in Server, NEW s \in Server,
           ReceiveAcceptDecide(from, s)
    PROVE  \E g \in History : Extends(h, g) /\ Fits(g)'
<1>1. TypeOK
    BY DEF BallotInv
<1>2. PICK m : m = Msg(from, s)
    OBVIOUS
<1>3. PICK log : log = Append(store[s].log, m.e[2])
    OBVIOUS
<1>4. PICK st : st = [store[s] EXCEPT !.log = log,
                                      !.decided = IF m.decided > @ THEN Min({m.decided, Len(log)}) ELSE @]
    OBVIOUS
<1>5. PICK after : after = [state[s] EXCEPT !.seq = m.seq]
    OBVIOUS
<1>6. PICK out : out = Answer(from, m, st)
    OBVIOUS
<1>7. /\ Arrives(from, s, "AcceptDecide") /\ m.n = store[s].promise
      /\ IsFollower(s, "Accept") /\ IsExpected(s, m) /\ UNCHANGED lead
      /\ Receive(from, s, To(PidOf(m.n), [type |-> "Accepted", n |-> m.n, accIdx |-> Len(log)]))
    BY <1>2, <1>3 DEF ReceiveAcceptDecide
<1>8. store' = [store EXCEPT ![s] = st] /\ state' = [state EXCEPT ![s] = after]
    BY <1>1, <1>2, <1>3, <1>4, <1>5 DEF ReceiveAcceptDecide, TypeOK, StoreOK, StateOK
<1>9. m.type = "AcceptDecide" /\ state[s].phase = "Accept"
    BY <1>2, <1>7 DEF Arrives, Msg, IsFollower
<1>10. /\ IsLeaderMsg(m) /\ state[s].role = "Follower" /\ PidOf(m.n) = from
       /\ store[s].accRound = m.n
       /\ Top(h, s, m) = Len(store[s].log) + 1
       /\ Top(h, s, m) \in Nat /\ Top(h, s, m) <= Len(h.log[m.n])
       /\ m.e[2] = h.log[m.n][Top(h, s, m)]
       /\ DecidedBy(h, m.n, m.decided) /\ DecidedBy(h, m.n, store[s].decided)
       /\ store[s].decided <= Len(store[s].log)
       /\ Same(store[s].log, h.log[m.n], Len(store[s].log))
    <2>1. IsNext(from, s, m)
        BY <1>2, <1>7, <1>9 DEF IsNext
    <2>2. /\ IsLeaderMsg(m) /\ state[s].role = "Follower" /\ PidOf(m.n) = from
          /\ store[s].accRound = m.n
          /\ Top(h, s, m) = Len(store[s].log) + IF m.type = "Decide" THEN 0 ELSE 1
          /\ Top(h, s, m) \in Nat /\ Top(h, s, m) <= Len(h.log[m.n])
          /\ m.type = "AcceptDecide" => m.e[2] = h.log[m.n][Top(h, s, m)]
          /\ DecidedBy(h, m.n, m.decided) /\ DecidedBy(h, m.n, store[s].decided)
          /\ store[s].decided <= Len(store[s].log)
          /\ Same(store[s].log, h.log[m.n], Len(store[s].log))
        BY <2>1, NextOfLeader
    <2> QED BY <1>9, <2>2
<1>11. /\ store[s].log \in Logs /\ store[s].decided \in Nat /\ h.log[m.n] \in Logs
       /\ m.n \in Nat /\ m.decided \in Nat /\ store[s] \in Stored /\ Len(store[s].log) \in Nat
    BY <1>1, <1>10, StoreFacts, HistoryFacts DEF IsLeaderMsg, TypeOK, StoreOK
<1>12. m.e[2] \in EntryId
    BY <1>10, <1>11 DEF Logs
<1>13. /\ log \in Logs /\ Len(log) = Len(store[s].log) + 1
       /\ \A i \in 1..Len(store[s].log) : log[i] = store[s].log[i]
       /\ log[Len(store[s].log) + 1] = m.e[2]
    BY <1>3, <1>11, <1>12, AppendProperties DEF Logs
<1>14. Len(log) = Top(h, s, m) /\ Same(log, h.log[m.n], Top(h, s, m))
    <2> SUFFICES ASSUME NEW i \in 1..Top(h, s, m) PROVE log[i] = h.log[m.n][i]
        BY <1>10, <1>13 DEF Same
    <2>1. CASE i = Top(h, s, m)
        BY <1>10, <1>13, <2>1
    <2>2. CASE i # Top(h, s, m)
        <3>1. i \in 1..Len(store[s].log)
            BY SMTT(30), <1>10, <1>11, <2>2
        <3> QED BY <1>10, <1>13, <3>1 DEF Same
    <2> QED BY <2>1, <2>2
<1>15. /\ st.promise = m.n /\ st.accRound = m.n /\ st.log = log
       /\ st.decided = IF m.decided > store[s].decided THEN Min({m.decided, Len(log)})
                       ELSE store[s].decided
    BY <1>4, <1>7, <1>10, <1>11 DEF Stored
<1>16. st.decided <= Top(h, s, m) /\ DecidedBy(h, m.n, st.decided)
    <2>1. CASE m.decided > store[s].decided
        <3>1. st.decided = Min({m.decided, Len(log)}) /\ Len(log) \in Nat
            BY <1>10, <1>14, <1>15, <2>1
        <3>2. st.decided \in Nat /\ st.decided <= m.decided /\ st.decided <= Len(log)
            BY ZenonT(60), <1>11, <3>1, MinFacts
        <3> QED BY <1>10, <1>11, <1>14, <3>2, DecidedLess
    <2>2. CASE ~(m.decided > store[s].decided)
        BY <1>10, <1>11, <1>15, <2>2
    <2> QED BY <2>1, <2>2
<1>17. after.role = "Follower" /\ after.seq = m.seq /\ after.cached = state[s].cached
    BY <1>1, <1>5, <1>10 DEF TypeOK, StateOK
<1>18. Advances(h, from, s, m, st, after)
    BY <1>2, <1>7, <1>8, <1>9, <1>14, <1>15, <1>16, <1>17 DEF Advances, FromLeader
<1>19. Receive(from, s, out)
    BY <1>6, <1>7, <1>10, <1>15 DEF Answer
<1> QED BY <1>6, <1>18, <1>19, AdvanceFits

\* handle_decide: the follower's decided index follows its leader's, up to its own log.
LEMMA ReceiveDecideFits ==
    ASSUME BallotInv, TypeOK', NEW h \in History, Fits(h), NEW from \in Server, NEW s \in Server,
           ReceiveDecide(from, s)
    PROVE  \E g \in History : Extends(h, g) /\ Fits(g)'
<1>1. TypeOK
    BY DEF BallotInv
<1>2. PICK m : m = Msg(from, s)
    OBVIOUS
<1>3. PICK len : len = Len(store[s].log)
    OBVIOUS
<1>4. PICK st : st = [store[s] EXCEPT !.decided = IF m.decided > @ THEN Min({m.decided, len}) ELSE @]
    OBVIOUS
<1>5. PICK after : after = [state[s] EXCEPT !.seq = m.seq]
    OBVIOUS
<1>6. PICK out : out = IF m.decided > store[s].decided /\ m.decided > len
                       THEN To(PidOf(m.n), [type |-> "Accepted", n |-> m.n, accIdx |-> len]) ELSE Silent
    OBVIOUS
<1>7. /\ Arrives(from, s, "Decide") /\ m.n = store[s].promise
      /\ state[s].phase = "Accept" /\ IsExpected(s, m) /\ UNCHANGED lead
      /\ Receive(from, s, out)
    BY <1>2, <1>3, <1>6 DEF ReceiveDecide
<1>8. store' = [store EXCEPT ![s] = st] /\ state' = [state EXCEPT ![s] = after]
    <2>1. PICK d : d = IF m.decided > store[s].decided THEN Min({m.decided, len}) ELSE store[s].decided
        OBVIOUS
    <2>2. /\ store' = [store EXCEPT ![s].decided = d] /\ st = [store[s] EXCEPT !.decided = d]
          /\ state' = [state EXCEPT ![s].seq = m.seq]
        BY <1>2, <1>3, <1>4, <2>1 DEF ReceiveDecide
    <2> QED BY <1>5, <2>2
<1>9. m.type = "Decide"
    BY <1>2, <1>7 DEF Arrives, Msg
<1>10. /\ IsLeaderMsg(m) /\ state[s].role = "Follower" /\ PidOf(m.n) = from
       /\ store[s].accRound = m.n
       /\ Top(h, s, m) = Len(store[s].log) + 0
       /\ Top(h, s, m) \in Nat
       /\ DecidedBy(h, m.n, m.decided) /\ DecidedBy(h, m.n, store[s].decided)
       /\ store[s].decided <= Len(store[s].log)
       /\ Same(store[s].log, h.log[m.n], Len(store[s].log))
    <2>1. IsNext(from, s, m)
        BY <1>2, <1>7, <1>9 DEF IsNext
    <2>2. /\ IsLeaderMsg(m) /\ state[s].role = "Follower" /\ PidOf(m.n) = from
          /\ store[s].accRound = m.n
          /\ Top(h, s, m) = Len(store[s].log) + IF m.type = "Decide" THEN 0 ELSE 1
          /\ Top(h, s, m) \in Nat /\ Top(h, s, m) <= Len(h.log[m.n])
          /\ m.type = "AcceptDecide" => m.e[2] = h.log[m.n][Top(h, s, m)]
          /\ DecidedBy(h, m.n, m.decided) /\ DecidedBy(h, m.n, store[s].decided)
          /\ store[s].decided <= Len(store[s].log)
          /\ Same(store[s].log, h.log[m.n], Len(store[s].log))
        BY <2>1, NextOfLeader
    <2> QED BY <1>9, <2>2
<1>11. /\ store[s].decided \in Nat /\ m.n \in Nat /\ m.decided \in Nat /\ store[s] \in Stored
       /\ len \in Nat /\ Top(h, s, m) = len
    BY <1>1, <1>3, <1>10, StoreFacts, HistoryFacts DEF IsLeaderMsg, TypeOK, StoreOK
<1>12. /\ st.promise = m.n /\ st.accRound = m.n /\ st.log = store[s].log
       /\ st.decided = IF m.decided > store[s].decided THEN Min({m.decided, len})
                       ELSE store[s].decided
    BY <1>4, <1>7, <1>10, <1>11 DEF Stored
<1>13. st.decided <= Top(h, s, m) /\ DecidedBy(h, m.n, st.decided)
    <2>1. CASE m.decided > store[s].decided
        <3>1. st.decided = Min({m.decided, len})
            BY <1>12, <2>1
        <3>2. st.decided \in Nat /\ st.decided <= m.decided /\ st.decided <= len
            BY <1>11, <3>1, MinFacts
        <3> QED BY <1>10, <1>11, <3>2, DecidedLess
    <2>2. CASE ~(m.decided > store[s].decided)
        BY <1>3, <1>10, <1>11, <1>12, <2>2
    <2> QED BY <2>1, <2>2
<1>14. after.role = "Follower" /\ after.seq = m.seq /\ after.cached = state[s].cached
    BY <1>1, <1>5, <1>10 DEF TypeOK, StateOK
<1>15. Advances(h, from, s, m, st, after)
    BY <1>2, <1>3, <1>7, <1>8, <1>9, <1>10, <1>11, <1>12, <1>13, <1>14 DEF Advances, FromLeader
<1>16. out = Silent \/ out = Answer(from, m, st)
    BY <1>3, <1>6, <1>10, <1>12 DEF Answer
<1> QED BY <1>7, <1>15, <1>16, AdvanceFits

--------------------------------------------------------------------------------
\* Some history fits every state

\* Nothing happened yet: everyone holds the empty log of ballot 0.
LEMMA InitFits ==
    ASSUME Init
    PROVE  \E h \in History : Fits(h)
<1> DEFINE h0 == [started |-> {0}, base |-> [b \in Ballot |-> 0], log |-> [b \in Ballot |-> <<>>],
                  voted |-> [t \in Server |-> [b \in Ballot |-> 0]],
                  top |-> [t \in Server |-> [b \in Ballot |-> [q \in SeqNum |-> 0]]]]
<1>1. 0 \in Ballot /\ <<>> \in Seq(EntryId) /\ Len(<<>>) = 0
    BY BallotAssumption, EmptySeq DEF Ballot
<1>2. h0 \in History
    BY <1>1 DEF History
<1>3. PICK h : h = h0
    OBVIOUS
<1>4. /\ h \in History /\ h.started = {0}
      /\ \A b \in Ballot : /\ h.base[b] = 0 /\ h.log[b] = <<>>
                           /\ \A t \in Server : h.voted[t][b] = 0
                           /\ \A t \in Server, q \in SeqNum : h.top[t][b][q] = 0
    BY <1>2, <1>3
<1> HIDE DEF h0
<1>5. HistoryOK(h)
    BY <1>1, <1>4 DEF HistoryOK
<1>6. Safe(h)
    BY <1>4 DEF Safe, Ballot
<1>7. DecidedBy(h, 0, 0)
    <2>1. IsAcceptQuorum(Quorum, Cardinality(Server))
        BY QuorumAssumption DEF IsValidQuorum, IsAcceptQuorum
    <2>2. Chosen(h, 0, 0)
        BY <1>1, <1>4, <2>1 DEF Chosen
    <2> QED BY <1>4, <2>2 DEF DecidedBy
<1>8. ASSUME NEW t \in Server
      PROVE  StoreFits(h, t) /\ LeaderFits(h, t) /\ FollowerFits(h, t)
    <2>1. /\ store[t] = [promise |-> 0, accRound |-> 0, decided |-> 0, log |-> <<>>]
          /\ state[t] = [role |-> "Follower", phase |-> "None", seq |-> Zero, cached |-> None]
        BY DEF Init
    <2>2. StoreFits(h, t)
        BY <1>1, <1>4, <1>7, <2>1 DEF StoreFits, Same
    <2>3. LeaderFits(h, t) /\ FollowerFits(h, t)
        BY <2>1 DEF LeaderFits, FollowerFits, SessionFits, CachedFits, IsFollower
    <2> QED BY <2>2, <2>3
<1>9. ChannelsFit(h)
    <2>1. \A a, b \in Server : net[a][b] = <<>>
        BY DEF Init
    <2> QED BY <2>1, EmptyQueue DEF ChannelsFit, Ordered, Range
<1> QED BY <1>4, <1>5, <1>6, <1>8, <1>9 DEF Fits, ServersFit

\* A step that changes nothing.
LEMMA StutterFits ==
    ASSUME BallotInv, TypeOK', NEW h \in History, Fits(h), UNCHANGED vars
    PROVE  Fits(h)'
<1>1. PICK s : s \in Server
    BY QuorumAssumption, FS_EmptySet DEF IsValidQuorum
<1>2. UNCHANGED <<store, state, lead, net>>
    BY DEF vars
<1>3. ChannelStep(s, Silent) /\ SentFits(s, Silent, h)
    BY <1>1, <1>2, NetUnchanged, SilentIdle, IdleSent DEF BallotInv
<1> HIDE DEF Silent
<1> QED BY <1>1, <1>2, <1>3, QuietFits

\* After every step some history fits: the same one, or one that the step has extended.
LEMMA NextFits ==
    ASSUME ~EnableFastPath, BallotInv, NoUnsynced, NEW h \in History, Fits(h), [Next]_vars
    PROVE  \E g \in History : Extends(h, g) /\ Fits(g)'
<1>1. TypeOK'
    BY NextTypeOK DEF BallotInv
<1>2. CASE \E s \in Proposers, id \in EntryId, deadline \in 1..MaxDeadline, ext \in Extensions :
               AppendWithId(s, id, deadline, ext)
    BY <1>1, SelfExtends, <1>2, AppendFits, EntryAssumption
<1>3. CASE \E s \in Server : Elect(s)
    BY <1>1, SelfExtends, <1>3, BecomeLeaderFits, FollowFits DEF Elect
<1>4. CASE \E s \in Server : Release(s)
    <2>1. PICK s \in Server : \E e \in dom[s].early : ReleaseAtLeader(s, e) \/ ReleaseNothing(s, e)
        BY <1>4 DEF Release, ReleaseAtFollower
    <2> QED BY <1>1, SelfExtends, <2>1, ReleaseAtLeaderFits, FollowFits
<1>5. CASE \E s \in Server : \/ ResendAtLeader(s) \/ ResendPromise(s) \/ ResendPrepareReq(s)
                             \/ CrashRestart(s)
    BY <1>1, SelfExtends, <1>5, ResendAtLeaderFits, ResendPromiseFits, QuietTimersFit, CrashFits
<1>6. CASE \E s \in Server : \E t \in Peers(s) : CrashInRecovery(t, s) \/ Lose(t, s) \/ Reconnected(s, t)
    <2>1. PICK s \in Server, t \in Server : CrashInRecovery(t, s) \/ Lose(t, s) \/ Reconnected(s, t)
        BY <1>6 DEF Peers
    <2> QED BY <1>1, SelfExtends, <2>1, CrashInRecoveryFits, LoseFits, QuietTimersFit
<1>7. ASSUME NEW s \in Server, NEW from \in Peers(s), Handle(from, s)
      PROVE  \E g \in History : Extends(h, g) /\ Fits(g)'
    <2>1. from \in Server
        BY DEF Peers
    <2>2. CASE \/ \E ext \in Extensions : ReceiveDomPropose(from, s, ext)
               \/ Ignore(from, s) \/ RejectOldBallot(from, s) \/ DetectDropped(from, s)
        BY <1>1, SelfExtends, <2>1, <2>2, QuietHandlersFit
    <2>3. CASE \E ext \in Extensions : ReceivePromise(from, s, ext)
        BY <1>1, SelfExtends, <2>1, <2>3, RecordPromiseFits, MajorityFits
    <2>4. CASE \/ ReceivePrepare(from, s) \/ ReceivePrepareReq(from, s) \/ ReceiveNotAccepted(from, s)
        BY <1>1, SelfExtends, <2>4, ReceivePrepareFits, DroppedPromisesFit
    <2>5. CASE ReceiveLatePromise(from, s)
        BY <1>1, SelfExtends, <2>5, LatePromiseFits
    <2>6. CASE \/ ReceiveAcceptSync(from, s) \/ ReceiveAcceptDecide(from, s)
               \/ ReceiveDecide(from, s) \/ ReceiveAccepted(from, s)
        BY <1>1, SelfExtends, <2>1, <2>6, ReceiveAcceptSyncFits, ReceiveAcceptDecideFits, ReceiveDecideFits,
           ReceiveAcceptedFits
    <2>7. ~ReceiveFastAccepted(from, s)
        BY DEF ReceiveFastAccepted
    <2> QED BY <1>7, <2>2, <2>3, <2>4, <2>5, <2>6, <2>7 DEF Handle
<1>8. CASE UNCHANGED vars
    BY <1>1, SelfExtends, <1>8, StutterFits
<1> QED BY <1>2, <1>3, <1>4, <1>5, <1>6, <1>7, <1>8 DEF Next

\* The invariant behind agreement: without the fast path there is always a history that
\* fits the state, in which whatever a quorum has accepted or may still accept in a
\* ballot is part of every later ballot's log.
THEOREM AgreementInvariance ==
    ASSUME ~EnableFastPath
    PROVE  Spec => []AgreementInv
<1>1. Init => AgreementInv
    <2> SUFFICES ASSUME Init PROVE AgreementInv
        OBVIOUS
    <2>1. BallotInv /\ \E h \in History : Fits(h)
        BY InitBallotInv, InitFits
    <2>2. NoUnsynced
        <3>1. \A s \in Server : fast[s] = FreshFast /\ state[s].cached = None
            BY DEF Init
        <3>2. \A s, t \in Server : lead[s].unsynced[t] = <<>>
            BY DEF Init, LeaderStateWith
        <3>3. \A s, t \in Server : Range(net[s][t]) = {}
            BY EmptyQueue DEF Init
        <3> QED BY SMTT(30), <3>1, <3>2, <3>3 DEF NoUnsynced, FreshFast
    <2> QED BY <2>1, <2>2 DEF AgreementInv
<1>2. AgreementInv /\ [Next]_vars => AgreementInv'
    <2> SUFFICES ASSUME AgreementInv, [Next]_vars PROVE AgreementInv'
        OBVIOUS
    <2>1. BallotInv /\ NoUnsynced /\ TypeOK
        BY DEF AgreementInv, BallotInv
    <2>2. PICK h \in History : Fits(h)
        BY DEF AgreementInv
    <2>3. BallotInv'
        BY <2>1, NextTypeOK, NextBallotStep, BallotStepInv DEF BallotInv
    <2>4. NoUnsynced'
        BY <2>1, NextNone
    <2>5. \E g \in History : Extends(h, g) /\ Fits(g)'
        BY <2>1, <2>2, NextFits
    <2> QED BY <2>3, <2>4, <2>5 DEF AgreementInv
<1> QED BY <1>1, <1>2, PTL DEF Spec

--------------------------------------------------------------------------------
\* What a fitting history says of the servers' logs

\* The first k entries of a log.
LEMMA FirstEntries ==
    ASSUME NEW l \in Logs, NEW k \in Nat, k <= Len(l)
    PROVE  /\ SubSeq(l, 1, k) \in Logs /\ Len(SubSeq(l, 1, k)) = k
           /\ \A i \in 1..k : SubSeq(l, 1, k)[i] = l[i]
<1>1. \A i \in 1..k : l[i] \in EntryId
    BY LenProperties, ElementOfSeq DEF Logs
<1> QED BY <1>1, SubSeqProperties DEF Logs

\* The whole log is its first Len entries.
LEMMA WholePrefix ==
    ASSUME NEW l \in Logs
    PROVE  SubSeq(l, 1, Len(l)) = l
<1>1. Len(l) \in Nat
    BY LenProperties DEF Logs
<1>2. /\ SubSeq(l, 1, Len(l)) \in Logs /\ Len(SubSeq(l, 1, Len(l))) = Len(l)
      /\ \A i \in 1..Len(l) : SubSeq(l, 1, Len(l))[i] = l[i]
    BY <1>1, FirstEntries
<1> QED BY <1>2, SeqEqual DEF Logs

\* The first entries are a prefix of every log that agrees on them.
LEMMA SameIsPrefix ==
    ASSUME NEW l \in Logs, NEW m \in Logs, NEW k \in Nat, Same(l, m, k)
    PROVE  IsPrefix(SubSeq(l, 1, k), m)
<1>1. /\ SubSeq(l, 1, k) \in Logs /\ Len(SubSeq(l, 1, k)) = k
      /\ \A i \in 1..k : SubSeq(l, 1, k)[i] = l[i]
    BY FirstEntries DEF Same
<1>2. PICK p : p = SubSeq(l, 1, k)
    OBVIOUS
<1>3. /\ SubSeq(m, 1, k) \in Logs /\ Len(SubSeq(m, 1, k)) = k
      /\ \A i \in 1..k : SubSeq(m, 1, k)[i] = m[i]
    BY FirstEntries DEF Same
<1>4. p \in Logs /\ Len(p) = k /\ SubSeq(p, 1, k) = p
    <2>1. p \in Logs /\ Len(p) = k
        BY <1>1, <1>2
    <2>2. SubSeq(p, 1, Len(p)) = p
        BY <2>1, WholePrefix
    <2> QED BY <2>1, <2>2
<1>5. \A i \in 1..k : SubSeq(p, 1, k)[i] = SubSeq(m, 1, k)[i]
    BY <1>1, <1>2, <1>3, <1>4 DEF Same
<1>6. SubSeq(p, 1, k) = SubSeq(m, 1, k)
    BY <1>3, <1>4, <1>5, SeqEqual DEF Logs
<1> QED BY <1>1, <1>2, <1>6 DEF IsPrefix, Same

\* Logs that agree over their whole, equal lengths are equal.
LEMMA SameIsEqual ==
    ASSUME NEW l \in Logs, NEW m \in Logs, Len(l) = Len(m), Same(l, m, Len(l))
    PROVE  l = m
BY SeqEqual DEF Logs, Same

\* The decided part of a log that is as long as what was decided.
LEMMA DecidedPart ==
    ASSUME TypeOK, NEW s \in Server, store[s].decided <= Len(store[s].log)
    PROVE  Decided(s) = SubSeq(store[s].log, 1, store[s].decided)
<1>1. store[s].decided \in Nat /\ Len(store[s].log) \in Nat
    BY StoreFacts
<1>2. Min({store[s].decided, Len(store[s].log)}) = store[s].decided
    BY <1>1 DEF Min
<1> QED BY <1>2 DEF Decided

\* What a server has decided is in the log of every ballot from its own on.
LEMMA DecidedKept ==
    ASSUME TypeOK, NEW h \in History, HistoryOK(h), Safe(h), NEW s \in Server, StoreFits(h, s),
           NEW n \in h.started, store[s].accRound <= n
    PROVE  /\ Same(store[s].log, h.log[n], store[s].decided)
           /\ store[s].accRound < n => store[s].decided <= h.base[n]
<1>1. PICK r, d, log : r = store[s].accRound /\ d = store[s].decided /\ log = store[s].log
    OBVIOUS
<1>2. /\ r \in h.started /\ r \in Ballot /\ n \in Ballot /\ d \in Nat /\ log \in Logs /\ Len(log) \in Nat
      /\ r <= n /\ r \in Nat /\ n \in Nat
    BY <1>1, StoreFacts DEF StoreFits, History, Ballot
<1>3. /\ Same(log, h.log[r], Len(log)) /\ d <= Len(log) /\ DecidedBy(h, r, d)
      /\ h.log[r] \in Logs /\ h.log[n] \in Logs
    BY <1>1, <1>2, HistoryFacts DEF StoreFits
<1>4. Same(log, h.log[r], d) /\ d <= Len(h.log[r])
    BY <1>2, <1>3, HistoryFacts, SameFacts DEF Same
<1>5. CASE r = n
    BY <1>1, <1>4, <1>5, <1>2
<1>6. CASE r < n
    <2>1. PICK c \in h.started : /\ c <= r /\ Same(h.log[r], h.log[c], d)
                                 /\ \A k \in h.started : c < k => d <= h.base[k] /\ Same(h.log[k], h.log[c], d)
        BY <1>2, <1>3, <1>4, DecidedHeld
    <2>2. c \in Ballot /\ c \in Nat /\ h.log[c] \in Logs
        BY HistoryFacts DEF History, Ballot
    <2>3. d <= h.base[n] /\ Same(h.log[n], h.log[c], d)
        BY <1>2, <1>6, <2>1, <2>2
    <2>4. Same(h.log[c], h.log[n], d) /\ Same(log, h.log[c], d)
        BY <1>2, <1>3, <1>4, <2>1, <2>2, <2>3, SameFacts
    <2>5. Same(log, h.log[n], d)
        BY <1>2, <1>3, <2>2, <2>4, SameFacts
    <2> QED BY <1>1, <2>3, <2>5
<1> QED BY <1>2, <1>5, <1>6

\* Two servers' decisions, the first in a ballot no later than the second's.
LEMMA DecidedCompare ==
    ASSUME TypeOK, NEW h \in History, HistoryOK(h), Safe(h), NEW s \in Server, NEW t \in Server,
           StoreFits(h, s), StoreFits(h, t), store[s].accRound <= store[t].accRound
    PROVE  Comparable(Decided(s), Decided(t)) /\ Comparable(Decided(t), Decided(s))
<1>1. PICK n, d, e, l, m, k : /\ n = store[t].accRound /\ d = store[s].decided /\ e = store[t].decided
                              /\ l = store[s].log /\ m = store[t].log /\ k = IF d <= e THEN d ELSE e
    OBVIOUS
<1>2. /\ n \in h.started /\ n \in Ballot /\ d \in Nat /\ e \in Nat /\ l \in Logs /\ m \in Logs
      /\ n <= n /\ h.log[n] \in Logs /\ k \in Nat /\ k <= d /\ k <= e
    BY SMTT(30), <1>1, StoreFacts, HistoryFacts DEF StoreFits
<1>3. Same(l, h.log[n], d) /\ Same(m, h.log[n], e)
    BY <1>1, <1>2, DecidedKept
<1>4. Same(l, h.log[n], k) /\ Same(h.log[n], m, k)
    BY <1>2, <1>3, SameFacts
<1>5. Same(l, m, k) /\ Same(m, l, k)
    BY <1>2, <1>4, SameFacts
<1>6. Decided(s) = SubSeq(l, 1, d) /\ Decided(t) = SubSeq(m, 1, e)
    BY <1>1, DecidedPart DEF StoreFits
<1>7. PICK p, q : p = SubSeq(l, 1, d) /\ q = SubSeq(m, 1, e)
    OBVIOUS
<1>8. /\ p \in Logs /\ Len(p) = d /\ \A i \in 1..d : p[i] = l[i]
      /\ q \in Logs /\ Len(q) = e /\ \A i \in 1..e : q[i] = m[i]
    <2>1. d <= Len(l) /\ e <= Len(m)
        BY <1>3 DEF Same
    <2>2. SubSeq(l, 1, d) \in Logs /\ Len(SubSeq(l, 1, d)) = d /\ \A i \in 1..d : SubSeq(l, 1, d)[i] = l[i]
        BY <1>2, <2>1, FirstEntries
    <2>3. SubSeq(m, 1, e) \in Logs /\ Len(SubSeq(m, 1, e)) = e /\ \A i \in 1..e : SubSeq(m, 1, e)[i] = m[i]
        BY <1>2, <2>1, FirstEntries
    <2> QED BY <1>7, <2>2, <2>3
<1>9. Same(p, q, k) /\ Same(q, p, k)
    BY SMTT(30), <1>2, <1>5, <1>8 DEF Same
<1>10. IsPrefix(SubSeq(p, 1, k), q) /\ IsPrefix(SubSeq(q, 1, k), p)
    BY <1>2, <1>8, <1>9, SameIsPrefix
<1>11. IsPrefix(p, q) \/ IsPrefix(q, p)
    <2>1. SubSeq(p, 1, d) = p /\ SubSeq(q, 1, e) = q
        BY <1>8, WholePrefix
    <2>2. k = d \/ k = e
        BY <1>1
    <2> QED BY <1>10, <2>1, <2>2
<1> QED BY <1>6, <1>7, <1>11 DEF Comparable

\* The parts of the invariant that the properties rest on.
LEMMA InvParts ==
    ASSUME AgreementInv
    PROVE  /\ TypeOK /\ AcceptsInPromise /\ NoUnsynced
           /\ \E h \in History : /\ HistoryOK(h) /\ Safe(h) /\ ChannelsFit(h)
                                 /\ \A s \in Server : StoreFits(h, s) /\ LeaderFits(h, s) /\ FollowerFits(h, s)
BY DEF AgreementInv, BallotInv, Fits, ServersFit

\* A leader that has finished its prepare phase holds its ballot's log.
LEMMA LeaderLog ==
    ASSUME TypeOK, NEW h \in History, NEW s \in Server, StoreFits(h, s), LeaderFits(h, s),
           IsLeader(s, "Accept")
    PROVE  /\ lead[s].n \in h.started /\ lead[s].n \in Ballot /\ lead[s].n = store[s].accRound
           /\ store[s].log = h.log[lead[s].n]
<1>1. Accepting(h, s) /\ lead[s].n \in Ballot
    BY LeadFacts DEF LeaderFits, IsLeader
<1>2. PICK n, l : n = lead[s].n /\ l = store[s].log
    BY SMTT(30)
<1>3. /\ n \in h.started /\ n = store[s].accRound /\ Len(l) = Len(h.log[n]) /\ Same(l, h.log[n], Len(l))
      /\ l \in Logs /\ h.log[n] \in Logs
    BY <1>1, <1>2, StoreFacts, HistoryFacts DEF Accepting, StoreFits
<1>4. l = h.log[n]
    BY <1>3, SameIsEqual
<1> QED BY <1>1, <1>2, <1>3, <1>4

\* Without the fast path, what one server has decided and what another has decided
\* never conflict, whatever ballots decided it.
THEOREM Agreement ==
    ASSUME ~EnableFastPath
    PROVE  Spec => []DecidedAgree
<1>1. AgreementInv => DecidedAgree
    <2> SUFFICES ASSUME AgreementInv, NEW s \in Server, NEW t \in Server
                 PROVE  Comparable(Decided(s), Decided(t))
        BY DEF DecidedAgree
    <2>1. PICK h \in History : /\ HistoryOK(h) /\ Safe(h)
                               /\ \A u \in Server : StoreFits(h, u)
        BY InvParts
    <2>2. TypeOK /\ (store[s].accRound <= store[t].accRound \/ store[t].accRound <= store[s].accRound)
        BY InvParts, StoreFacts
    <2> QED BY <2>1, <2>2, DecidedCompare
<1> QED BY <1>1, AgreementInvariance, PTL

\* Without the fast path, no server takes an index for decided that its log does not hold.
THEOREM DecisionsAreHeld ==
    ASSUME ~EnableFastPath
    PROVE  Spec => []DecidedIsAccepted
<1>1. AgreementInv => DecidedIsAccepted
    BY InvParts DEF DecidedIsAccepted, StoreFits
<1> QED BY <1>1, AgreementInvariance, PTL

\* Without the fast path, a leader that has finished its prepare phase holds everything
\* that any server has decided in its ballot or below.
THEOREM LeadersAreComplete ==
    ASSUME ~EnableFastPath
    PROVE  Spec => []LeaderHoldsDecided
<1>1. AgreementInv => LeaderHoldsDecided
    <2> SUFFICES ASSUME AgreementInv, NEW s \in Server, NEW t \in Server,
                        IsLeader(s, "Accept"), store[t].accRound <= lead[s].n
                 PROVE  IsPrefix(Decided(t), store[s].log)
        BY DEF LeaderHoldsDecided
    <2>1. PICK h \in History : /\ HistoryOK(h) /\ Safe(h) /\ StoreFits(h, t)
                               /\ StoreFits(h, s) /\ LeaderFits(h, s)
        BY InvParts
    <2>2. /\ TypeOK /\ lead[s].n \in h.started /\ store[s].log = h.log[lead[s].n]
        BY <2>1, InvParts, LeaderLog
    <2>3. Same(store[t].log, store[s].log, store[t].decided)
        BY <2>1, <2>2, DecidedKept
    <2>4. Decided(t) = SubSeq(store[t].log, 1, store[t].decided)
        BY <2>1, <2>2, DecidedPart DEF StoreFits
    <2> QED BY <2>2, <2>3, <2>4, StoreFacts, SameIsPrefix
<1> QED BY <1>1, AgreementInvariance, PTL

\* Without the fast path, a follower's accepted log is a prefix of its leader's while both
\* are in one ballot: no gap and no stale suffix survives AcceptSync.
THEOREM FollowersHoldPrefixes ==
    ASSUME ~EnableFastPath
    PROVE  Spec => []FollowerLogIsPrefix
<1>1. AgreementInv => FollowerLogIsPrefix
    <2> SUFFICES ASSUME AgreementInv, NEW s \in Server, NEW t \in Server,
                        IsLeader(s, "Accept"), store[t].accRound = lead[s].n
                 PROVE  IsPrefix(store[t].log, store[s].log)
        BY DEF FollowerLogIsPrefix
    <2>1. PICK h \in History : StoreFits(h, t) /\ StoreFits(h, s) /\ LeaderFits(h, s)
        BY InvParts
    <2>2. TypeOK /\ store[s].log = h.log[lead[s].n]
        BY <2>1, InvParts, LeaderLog
    <2>3. Same(store[t].log, store[s].log, Len(store[t].log))
        BY <2>1, <2>2 DEF StoreFits
    <2>4. /\ store[t].log \in Logs /\ store[s].log \in Logs /\ Len(store[t].log) \in Nat
          /\ SubSeq(store[t].log, 1, Len(store[t].log)) = store[t].log
        BY <2>2, StoreFacts, WholePrefix
    <2>5. IsPrefix(SubSeq(store[t].log, 1, Len(store[t].log)), store[s].log)
        BY <2>3, <2>4, SameIsPrefix
    <2> QED BY <2>4, <2>5
<1> QED BY <1>1, AgreementInvariance, PTL

\* Without the fast path, what a leader believes a server accepted in its ballot the server
\* has, unless it has moved on to a higher ballot: a decision rests on entries that exist.
THEOREM AcceptedEntriesAreHeld ==
    ASSUME ~EnableFastPath
    PROVE  Spec => []AcceptedIsHeld
<1>1. AgreementInv => AcceptedIsHeld
    <2> SUFFICES ASSUME AgreementInv, NEW s \in Server, NEW t \in Server,
                        IsLeader(s, "Accept"), lead[s].accIdx[t] > 0
                 PROVE  store[t].accRound > lead[s].n \/ Len(store[t].log) >= lead[s].accIdx[t]
        BY DEF AcceptedIsHeld
    <2>1. PICK h \in History : StoreFits(h, t) /\ LeaderFits(h, s)
        BY InvParts
    <2>2. /\ lead[s].n \in Ballot /\ lead[s].n \in Nat /\ lead[s].accIdx[t] \in Nat
          /\ store[t].accRound \in Nat /\ Len(store[t].log) \in Nat
          /\ h.voted[t][lead[s].n] \in Nat
        BY InvParts, LeadFacts, StoreFacts, HistoryFacts
    <2>3. lead[s].accIdx[t] <= h.voted[t][lead[s].n]
        BY <2>1 DEF LeaderFits, IsLeader
    <2>4. CASE store[t].accRound = lead[s].n
        BY <2>1, <2>2, <2>3, <2>4 DEF StoreFits
    <2>5. CASE store[t].accRound < lead[s].n
        BY <2>1, <2>2, <2>3, <2>5 DEF StoreFits
    <2> QED BY <2>2, <2>4, <2>5
<1> QED BY <1>1, AgreementInvariance, PTL

\* Without the fast path, a follower that has seen the last message its leader numbered for
\* it has the leader's whole log: sequence numbers miss no message that matters.
THEOREM SequenceNumbersCarryTheLog ==
    ASSUME ~EnableFastPath
    PROVE  Spec => []SessionCarriesLog
<1>1. AgreementInv => SessionCarriesLog
    <2> SUFFICES ASSUME AgreementInv, NEW s \in Server, NEW t \in Server,
                        IsLeader(s, "Accept"), IsFollower(t, "Accept"),
                        store[t].accRound = lead[s].n, t \in HasPromised(lead[s]),
                        state[t].seq = lead[s].seqs[t]
                 PROVE  store[t].log = store[s].log
        BY DEF SessionCarriesLog
    <2>1. PICK h \in History : /\ StoreFits(h, t) /\ StoreFits(h, s) /\ LeaderFits(h, s)
                               /\ FollowerFits(h, t)
        BY InvParts
    <2>2. /\ TypeOK /\ AcceptsInPromise /\ store[s].log = h.log[lead[s].n] /\ lead[s].n \in Ballot
        BY <2>1, InvParts, LeaderLog
    <2>3. PidOf(lead[s].n) = s /\ s # t
        BY <2>2, LeadFacts DEF IsLeader, IsFollower
    <2>4. store[t].promise = lead[s].n
        BY <2>2 DEF AcceptsInPromise, IsFollower
    <2>5. Len(store[t].log) = h.top[t][lead[s].n][lead[s].seqs[t]]
        BY SMTT(30), <2>1, <2>3, <2>4 DEF FollowerFits, SessionFits, CachedFits
    <2>6. Len(store[t].log) = Len(store[s].log)
        BY <2>1, <2>3, <2>5 DEF LeaderFits, Accepting, IsLeader, PromisedFollowers
    <2>7. Same(store[t].log, store[s].log, Len(store[t].log))
        BY <2>1, <2>2 DEF StoreFits
    <2> QED BY <2>2, <2>6, <2>7, StoreFacts, SameIsEqual
<1> QED BY <1>1, AgreementInvariance, PTL

\* Without the fast path, a log suffix that will be put on a log starts no later than that
\* log ends, so sync_log never skips an index.
THEOREM LogSyncsFit ==
    ASSUME ~EnableFastPath
    PROVE  Spec => []LogSyncFits
<1>1. AgreementInv => LogSyncFits
    <2> SUFFICES ASSUME AgreementInv, NEW s \in Server, NEW t \in Server, NEW i \in DOMAIN net[s][t],
                        NEW m, m = net[s][t][i],
                        \/ /\ m.type = "AcceptSync"
                           /\ m.n = store[t].promise /\ IsFollower(t, "Prepare")
                        \/ /\ m.type = "Promise" /\ m.sync # None
                           /\ m.n = lead[t].n /\ IsLeader(t, "Prepare")
                 PROVE  m.sync.idx <= Len(store[t].log)
        BY DEF LogSyncFits
    <2>1. PICK h \in History : ChannelsFit(h)
        BY InvParts
    <2>2. m \in Range(net[s][t])
        BY DEF Range
    <2>3. MsgFits(h, s, t, m)
        BY <2>1, <2>2 DEF ChannelsFit
    <2>4. CASE m.type = "AcceptSync" /\ m.n = store[t].promise
        <3>1. LeaderMsgFits(h, s, t, m)
            BY <2>3, <2>4 DEF MsgFits, FromLeader
        <3> QED BY ZenonT(60), <2>4, <3>1 DEF LeaderMsgFits, Synced, Same
    <2>5. CASE m.type = "Promise" /\ m.sync # None /\ m.n = lead[t].n /\ IsLeader(t, "Prepare")
        <3>1. SyncFits(h, t, m)
            BY <2>3, <2>5 DEF MsgFits, PromiseFits
        <3> QED BY ZenonT(60), <2>5, <3>1 DEF SyncFits, Synced, Same
    <2> QED BY <2>4, <2>5
<1> QED BY <1>1, AgreementInvariance, PTL

\* What a new leader would build from the promises of Q, when no unsynced log holds
\* anything: the log it adopts.
LEMMA NothingRecovered ==
    ASSUME TypeOK, NoUnsynced, NEW Q \in SUBSET Server, NEW t \in Server
    PROVE  LogRecoveredFrom(Q, t) = store[t].log
<1> DEFINE ls == [LeaderStateWith(0) EXCEPT
                     !.maxHash = fast[t].prefixHash,
                     !.unsynced = [u \in Server |-> IF u \in Q THEN fast[u].unsynced ELSE <<>>]]
           new == Recovered(ls, Len(store[t].log))
<1>1. \A u \in Server : DOMAIN ls.unsynced[u] = {}
    <2>1. ls.unsynced = [u \in Server |-> IF u \in Q THEN fast[u].unsynced ELSE <<>>]
        BY DEF LeaderStateWith
    <2> HIDE DEF ls
    <2> QED BY <2>1 DEF NoUnsynced
<1> HIDE DEF ls
<1>2. new = <<>>
    BY <1>1, StoreFacts, RecoveredEmpty
<1> HIDE DEF new
<1>3. [i \in DOMAIN new |-> new[i][2]] = <<>>
    BY <1>2
<1>4. LogRecoveredFrom(Q, t) = store[t].log \o [i \in DOMAIN new |-> new[i][2]]
    BY DEF LogRecoveredFrom, new, ls
<1>5. store[t].log \o <<>> = store[t].log
    BY StoreFacts, ConcatEmptySeq DEF Logs
<1> QED BY <1>3, <1>4, <1>5

\* The most recent log of a quorum of promises holds what any server has decided.
LEMMA MostRecentHoldsDecided ==
    ASSUME TypeOK, NEW h \in History, HistoryOK(h), Safe(h),
           \A u \in Server : StoreFits(h, u),
           NEW s \in Server, NEW Q \in SUBSET Server, IsPrepareQuorum(Quorum, Cardinality(Q)),
           NEW t \in MostRecent(Q)
    PROVE  Same(store[s].log, store[t].log, store[s].decided)
<1>1. PICK d, l, m, r, q : /\ d = store[s].decided /\ l = store[s].log /\ m = store[t].log
                           /\ r = store[s].accRound /\ q = store[t].accRound
    OBVIOUS
<1>2. t \in Q /\ t \in Server /\ \A u \in Q : ~MoreUpToDate([nAccepted |-> store[u].accRound, accIdx |-> Len(store[u].log)],
                                                          [nAccepted |-> q, accIdx |-> Len(m)])
    BY <1>1 DEF MostRecent
<1>3. /\ d \in Nat /\ l \in Logs /\ m \in Logs /\ Len(l) \in Nat /\ Len(m) \in Nat
      /\ r \in h.started /\ q \in h.started /\ h.started \subseteq Ballot /\ r \in Nat /\ q \in Nat
      /\ Same(l, h.log[r], Len(l)) /\ Same(m, h.log[q], Len(m))
      /\ d <= Len(l) /\ DecidedBy(h, r, d) /\ h.base[q] <= Len(m)
    BY <1>1, <1>2, StoreFacts DEF StoreFits, History
<1>4. h.log[r] \in Logs /\ h.log[q] \in Logs /\ Same(l, h.log[r], d) /\ d <= Len(h.log[r])
    BY <1>3, HistoryFacts, SameFacts DEF Same
<1>5. CASE d = 0
    BY <1>1, <1>3, <1>5, SameFacts
<1>6. CASE d > 0
    <2>1. PICK c \in h.started : /\ c <= r /\ Chosen(h, c, d) /\ Same(h.log[r], h.log[c], d)
                                 /\ \A k \in h.started : c < k => d <= h.base[k] /\ Same(h.log[k], h.log[c], d)
        BY <1>3, <1>4, DecidedHeld
    <2>2. c \in Ballot /\ c \in Nat /\ h.log[c] \in Logs
        BY <1>3, HistoryFacts DEF Ballot
    <2>3. PICK W \in SUBSET Server : IsAcceptQuorum(Quorum, Cardinality(W)) /\ \A w \in W : h.voted[w][c] >= d
        BY <2>1 DEF Chosen
    <2>4. PICK u : u \in Q /\ u \in W
        BY <2>3, ServerAssumption, QuorumAssumption, QuorumsIntersect
    <2>5. /\ h.voted[u][c] >= d /\ h.voted[u][c] \in Nat /\ u \in Server
          /\ store[u].accRound \in Nat /\ Len(store[u].log) \in Nat
        BY <2>2, <2>3, <2>4, HistoryFacts, StoreFacts
    <2>6. store[u].accRound >= c /\ (store[u].accRound = c => Len(store[u].log) >= d)
        BY SMTT(30), <1>3, <1>6, <2>2, <2>5 DEF StoreFits
    <2>7. q > store[u].accRound \/ (q = store[u].accRound /\ Len(m) >= Len(store[u].log))
        BY <1>2, <1>3, <2>4, <2>5 DEF MoreUpToDate
    <2>8. Same(m, h.log[c], d)
        <3>1. CASE q = c
            <4>1. d <= Len(m)
                BY <1>3, <2>2, <2>5, <2>6, <2>7, <3>1
            <4> QED BY <1>3, <1>4, <3>1, <4>1, SameFacts
        <3>2. CASE q > c
            <4>1. d <= h.base[q] /\ Same(h.log[q], h.log[c], d) /\ h.base[q] \in Nat
                BY <1>3, <2>1, <3>2, HistoryFacts
            <4>2. Same(m, h.log[q], d)
                BY <1>3, <1>4, <4>1, SameFacts
            <4> QED BY <1>3, <1>4, <2>2, <4>1, <4>2, SameFacts
        <3> QED BY <1>3, <2>2, <2>5, <2>6, <2>7, <3>1, <3>2
    <2>9. Same(l, h.log[c], d)
        BY <1>3, <1>4, <2>1, <2>2, SameFacts
    <2>10. Same(h.log[c], m, d)
        BY <1>3, <2>2, <2>8, SameFacts
    <2>11. Same(l, m, d)
        BY <1>3, <2>2, <2>9, <2>10, SameFacts
    <2> QED BY <1>1, <2>11
<1> QED BY <1>3, <1>5, <1>6

\* Without the fast path, whatever is decided can be rebuilt from every quorum of promises,
\* which is what handle_majority_promises relies on.
THEOREM QuorumsRecover ==
    ASSUME ~EnableFastPath
    PROVE  Spec => []EveryQuorumRecovers
<1>1. AgreementInv => EveryQuorumRecovers
    <2> SUFFICES ASSUME AgreementInv, NEW s \in Server,
                        NEW Q \in {R \in SUBSET Server : IsPrepareQuorum(Quorum, Cardinality(R))},
                        NEW t \in MostRecent(Q)
                 PROVE  IsPrefix(Decided(s), LogRecoveredFrom(Q, t))
        BY DEF EveryQuorumRecovers
    <2>1. /\ TypeOK /\ NoUnsynced /\ Q \in SUBSET Server /\ t \in Server
          /\ IsPrepareQuorum(Quorum, Cardinality(Q))
        BY InvParts DEF MostRecent
    <2>2. PICK h \in History : /\ HistoryOK(h) /\ Safe(h) /\ \A u \in Server : StoreFits(h, u)
        BY InvParts
    <2>3. Same(store[s].log, store[t].log, store[s].decided)
        BY <2>1, <2>2, MostRecentHoldsDecided
    <2>4. Decided(s) = SubSeq(store[s].log, 1, store[s].decided)
        BY <2>1, <2>2, DecidedPart DEF StoreFits
    <2>5. LogRecoveredFrom(Q, t) = store[t].log
        BY <2>1, NothingRecovered
    <2> QED BY <2>1, <2>3, <2>4, <2>5, StoreFacts, SameIsPrefix
<1> QED BY <1>1, AgreementInvariance, PTL

\* Whatever history a step leads to, a server's log keeps what it had decided.
LEMMA StepKeepsDecided ==
    ASSUME TypeOK, TypeOK', NEW h \in History, NEW g \in History, NEW s \in Server,
           Extends(h, g), Safe(h), StoreFits(h, s), Safe(g)', StoreFits(g, s)',
           store'[s].log = store[s].log \/ store[s].accRound <= store'[s].accRound
    PROVE  Same(store[s].log, store'[s].log, store[s].decided)
<1>1. PICK d, l, m, r, q : /\ d = store[s].decided /\ l = store[s].log /\ m = store'[s].log
                           /\ r = store[s].accRound /\ q = store'[s].accRound
    OBVIOUS
<1>2. /\ d \in Nat /\ l \in Logs /\ Len(l) \in Nat /\ r \in Ballot /\ r \in Nat /\ r \in h.started
      /\ Same(l, h.log[r], Len(l)) /\ h.voted[s][r] = Len(l) /\ d <= Len(l) /\ DecidedBy(h, r, d)
    BY <1>1, StoreFacts DEF StoreFits
<1>3. /\ m \in Logs /\ Len(m) \in Nat /\ q \in Ballot /\ q \in Nat /\ q \in g.started
      /\ Same(m, g.log[q], Len(m)) /\ g.voted[s][q] = Len(m) /\ g.base[q] <= Len(m)
    BY <1>1, StoreFactsNext DEF StoreFits
<1>4. /\ h.log[r] \in Logs /\ g.log[r] \in Logs /\ g.log[q] \in Logs
      /\ Len(h.log[r]) \in Nat /\ g.base[q] \in Nat
    BY <1>2, <1>3, HistoryFacts
<1>5. Same(l, h.log[r], d) /\ d <= Len(h.log[r])
    BY <1>2, <1>4, SameFacts DEF Same
<1>6. CASE m = l
    BY <1>1, <1>2, <1>6, SameFacts
<1>7. CASE m # l /\ r = q
    <2>1. Len(l) <= Len(m) /\ Same(g.log[r], h.log[r], Len(h.log[r]))
        BY <1>2, <1>3, <1>7 DEF Extends
    <2>2. Same(g.log[r], h.log[r], d)
        BY <1>2, <1>4, <1>5, <2>1, SameFacts
    <2>3. Same(h.log[r], g.log[r], d) /\ Same(m, g.log[r], d)
        BY <1>2, <1>3, <1>4, <1>7, <2>1, <2>2, SameFacts
    <2>4. Same(l, g.log[r], d) /\ Same(g.log[r], m, d)
        BY SMTT(30), <1>2, <1>3, <1>4, <1>5, <2>3, SameFacts
    <2> QED BY SMTT(30), <1>1, <1>2, <1>3, <1>4, <2>4, SameFacts
<1>8. CASE r < q
    <2>1. PICK c \in h.started : c <= r /\ Chosen(h, c, d) /\ Same(h.log[r], h.log[c], d)
        BY <1>2, <1>5, DecidedHeld
    <2>2. /\ c \in Ballot /\ c \in Nat /\ c < q /\ h.log[c] \in Logs /\ g.log[c] \in Logs
          /\ Len(h.log[c]) \in Nat
        BY SMTT(30), <1>2, <1>3, <1>8, <2>1, HistoryFacts DEF Ballot
    <2>3. Choosable(g, c, d)'
        <3>1. PICK W \in SUBSET Server : /\ IsAcceptQuorum(Quorum, Cardinality(W))
                                         /\ \A t \in W : h.voted[t][c] >= d
            BY <2>1 DEF Chosen
        <3>2. \A t \in W : g.voted[t][c] >= d
            BY SMTT(30), <1>2, <2>2, <3>1, HistoryFacts DEF Extends
        <3> QED BY <3>1, <3>2 DEF Choosable
    <2>4. d <= g.base[q] /\ Same(g.log[q], g.log[c], d)
        BY <1>2, <1>3, <2>2, <2>3 DEF Safe
    <2>5. Same(g.log[c], h.log[c], d)
        <3>1. Same(g.log[c], h.log[c], Len(h.log[c])) /\ d <= Len(h.log[c])
            BY <2>1, <2>2 DEF Extends, Same
        <3> QED BY <1>2, <2>2, <3>1, SameFacts
    <2>6. Same(l, h.log[c], d) /\ Same(h.log[c], g.log[c], d)
        BY <1>2, <1>4, <1>5, <2>1, <2>2, <2>5, SameFacts
    <2>7. Same(l, g.log[c], d) /\ Same(g.log[c], g.log[q], d)
        BY <1>2, <1>4, <2>2, <2>4, <2>6, SameFacts
    <2>8. Same(m, g.log[q], d)
        BY <1>2, <1>3, <1>4, <2>4, SameFacts
    <2>9. Same(l, g.log[q], d) /\ Same(g.log[q], m, d)
        BY <1>2, <1>3, <1>4, <2>2, <2>7, <2>8, SameFacts
    <2> QED BY <1>1, <1>2, <1>3, <1>4, <2>9, SameFacts
<1> QED BY <1>1, <1>2, <1>3, <1>6, <1>7, <1>8

\* Without the fast path, no step rewrites what a server has decided: not the logs it takes
\* from a new leader, not a crash in the middle of its handlers, not a restart.
THEOREM DecisionsAreStable ==
    ASSUME ~EnableFastPath
    PROVE  Spec => DecidedStable
<1>1. AgreementInv /\ [Next]_vars => [\A s \in Server : IsPrefix(Decided(s), store'[s].log)]_vars
    <2> SUFFICES ASSUME AgreementInv, [Next]_vars, NEW s \in Server
                 PROVE  IsPrefix(Decided(s), store'[s].log)
        OBVIOUS
    <2>1. BallotInv /\ NoUnsynced /\ TypeOK
        BY DEF AgreementInv, BallotInv
    <2>2. PICK h \in History : Fits(h)
        BY DEF AgreementInv
    <2>3. PICK g \in History : Extends(h, g) /\ Fits(g)'
        BY <2>1, <2>2, NextFits
    <2>4. TypeOK'
        BY <2>1, NextTypeOK
    <2>5. store'[s].log = store[s].log \/ store[s].accRound <= store'[s].accRound
        <3>1. /\ store'[s].promise >= store[s].promise
              /\ store'[s].log # store[s].log => store'[s].accRound = store'[s].promise
            BY <2>1, NextBallotStep DEF BallotStep, StoreStep
        <3> QED BY <2>1, <2>4, <3>1, StoreFacts, StoreFactsNext
    <2>6. Safe(h) /\ StoreFits(h, s) /\ Safe(g)' /\ StoreFits(g, s)'
        BY <2>2, <2>3 DEF Fits, ServersFit
    <2>7. Same(store[s].log, store'[s].log, store[s].decided)
        BY <2>1, <2>3, <2>4, <2>5, <2>6, StepKeepsDecided
    <2>8. Decided(s) = SubSeq(store[s].log, 1, store[s].decided)
        BY <2>1, <2>6, DecidedPart DEF StoreFits
    <2> QED BY <2>1, <2>4, <2>7, <2>8, StoreFacts, StoreFactsNext, SameIsPrefix
<1> QED BY <1>1, AgreementInvariance, PTL DEF Spec, DecidedStable

===============================================================================
