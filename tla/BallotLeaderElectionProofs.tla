---------------------- MODULE BallotLeaderElectionProofs ----------------------
(***************************************************************************)
(* What the election promises with any connections, any timing, any number   *)
(* of servers, restarts and changes of priority: the leader a server follows  *)
(* only rises, and a restarted server never leads with a ballot it had before. *)
(* The argument counts ballot numbers only, since priorities may change.      *)
(***************************************************************************)
EXTENDS BallotLeaderElection, FiniteSetTheorems, WellFoundedInduction, TLAPS

Ballots == [n : Nat, priority : Nat, pid : Nat]
BleStates == [current : Ballots, leader : Ballots, happy : BOOLEAN]

\* The shapes of the state.
Shapes ==
    /\ ble \in [Servers -> BleStates]
    /\ promise \in [Servers -> Ballots]
    /\ retired \in [Servers -> Ballots]
    /\ DOMAIN replies = Servers
    /\ \A s \in Servers : /\ DOMAIN replies[s] \subseteq Servers
                          /\ \A t \in DOMAIN replies[s] : replies[s][t] \in BleStates

\* A server's own ballot is of the initial round of a recovered server, or newer than
\* what it had promised when it restarted; so is what it promises to itself, unless it
\* follows that already.
Newer(s) ==
    /\ ble[s].leader.n >= 1 /\ ble[s].leader.n >= retired[s].n
    /\ promise[s].n >= retired[s].n
    /\ promise[s] = NoBallot \/ promise[s].n >= 1
    /\ ble[s].current.n = 0 \/ ble[s].current.n > retired[s].n
    /\ promise[s].pid = s /\ Less(ble[s].leader, promise[s]) => promise[s].n > retired[s].n

ElectionInv == Shapes /\ \A s \in Servers : Newer(s)

-----------------------------------------------------------------------------
\* The order of ballots is a strict total order that respects the numbers.
LEMMA LessFacts ==
  ASSUME NEW b \in Ballots, NEW c \in Ballots, NEW d \in Ballots
  PROVE  /\ ~Less(b, b)
         /\ Less(b, c) => ~Less(c, b) /\ b.n <= c.n
         /\ Less(b, c) /\ Less(c, d) => Less(b, d)
         /\ Less(b, c) /\ ~Less(d, c) => Less(b, d)
  BY DEF Less, Ballots

\* A nonempty finite set of replies has one whose ballot no other exceeds.
LEMMA GreatestReply ==
  ASSUME NEW R \in SUBSET BleStates, IsFiniteSet(R), R # {}
  PROVE  \E r \in R : \A q \in R : ~Less(r.current, q.current)
<1> DEFINE above(r) == {q \in R : Less(r.current, q.current)}
           sizes == {Cardinality(above(r)) : r \in R}
<1>1. \A r \in R : IsFiniteSet(above(r)) /\ Cardinality(above(r)) \in Nat
  BY FS_Subset, FS_CardinalityType
<1>2. PICK c \in sizes : \A d \in sizes : ~(d < c)
  <2> HIDE DEF above
  <2>1. sizes \in SUBSET Nat /\ sizes # {}
    BY <1>1
  <2> HIDE DEF sizes
  <2>2. PICK c \in sizes : \A d \in sizes : ~ (<<d, c>> \in OpToRel(<, Nat))
    BY <2>1, WFMin, NatLessThanWellFounded
  <2> QED
    BY <2>1, <2>2 DEF OpToRel
<1>3. PICK r \in R : c = Cardinality(above(r))
  BY <1>2
<1>4. ASSUME NEW q \in above(r) PROVE FALSE
  <2>1. q \in R /\ Less(r.current, q.current)
    OBVIOUS
  <2>2. above(q) \subseteq above(r) /\ q \notin above(q)
    BY <2>1, LessFacts DEF BleStates
  <2>3. Cardinality(above(q)) <= Cardinality(above(r)) /\ Cardinality(above(q)) # Cardinality(above(r))
    <3> HIDE DEF above
    <3>1. IsFiniteSet(above(r)) /\ above(q) # above(r)
      BY <1>1, <1>4, <2>2
    <3> QED
      BY <2>2, <3>1, FS_Subset
  <2>4. Cardinality(above(q)) \in sizes /\ Cardinality(above(q)) \in Nat /\ c \in Nat
    <3> HIDE DEF above
    <3> QED
      BY <1>1, <1>3, <2>1
  <2> HIDE DEF above, sizes
  <2> QED
    BY <1>2, <1>3, <2>3, <2>4
<1> QED
  BY <1>4

\* A ballot that a server follows after another.
Rose(l, m) == m = l \/ Less(l, m)

\* Rising twice is rising, and numbers do not fall.
LEMMA RoseFacts ==
  ASSUME NEW l \in Ballots, NEW m \in Ballots, NEW p \in Ballots
  PROVE  /\ Rose(l, m) => l.n <= m.n /\ ~Less(m, l)
         /\ Rose(l, m) /\ Rose(m, p) => Rose(l, p)
  BY LessFacts DEF Rose, Ballots

\* The replies of a round are finitely many states.
LEMMA RepliesFinite ==
  ASSUME Shapes, NEW s \in Servers
  PROVE  Replies(s) \in SUBSET BleStates /\ IsFiniteSet(Replies(s))
<1>1. PICK f : f = replies[s]
  OBVIOUS
<1>2. DOMAIN f \subseteq Servers /\ \A t \in DOMAIN f : f[t] \in BleStates
  BY <1>1 DEF Shapes
<1>3. Replies(s) = {f[t] : t \in DOMAIN f}
  BY <1>1 DEF Replies
<1>4. IsFiniteSet(DOMAIN f)
  BY <1>2, ServersAssumption, FS_Subset
<1> DEFINE g == [t \in DOMAIN f |-> f[t]]
<1>5. g \in Surjection(DOMAIN f, {f[t] : t \in DOMAIN f})
  BY DEF Surjection
<1>6. IsFiniteSet({f[t] : t \in DOMAIN f})
  BY <1>4, <1>5, FS_Surjection
<1> QED
  BY <1>2, <1>3, <1>6

-----------------------------------------------------------------------------
\* hb_timeout

\* update_leader takes a larger ballot or none.
LEMMA UpdateLeaderRises ==
  ASSUME NEW b \in BleStates, NEW R \in SUBSET BleStates, IsFiniteSet(R)
  PROVE  /\ UpdateLeader(b, R) \in BleStates
         /\ UpdateLeader(b, R).current = b.current
         /\ Rose(b.leader, UpdateLeader(b, R).leader)
<1> DEFINE r == CHOOSE r \in R : \A q \in R : ~Less(r.current, q.current)
<1>1. CASE \E q \in R : Less(b.leader, q.current)
  <2>1. PICK q \in R : Less(b.leader, q.current)
    BY <1>1
  <2>2. r \in R /\ ~Less(r.current, q.current)
    BY <2>1, GreatestReply
  <2>3. UpdateLeader(b, R) = [b EXCEPT !.leader = r.current]
    BY <1>1 DEF UpdateLeader
  <2> HIDE DEF r
  <2>4. Less(b.leader, r.current) /\ r.current \in Ballots
    BY <2>1, <2>2, LessFacts DEF BleStates
  <2> QED
    BY <2>3, <2>4 DEF Rose, BleStates
<1>2. CASE ~ \E q \in R : Less(b.leader, q.current)
  BY <1>2 DEF UpdateLeader, Rose
<1> QED
  BY <1>1, <1>2

\* Judging its happiness changes nothing else.
LEMMA UpdateHappinessKeeps ==
  ASSUME NEW b \in BleStates, NEW R, NEW k
  PROVE  LET c == UpdateHappiness(b, R, k) IN
         c.current = b.current /\ c.leader = b.leader /\ c \in BleStates
<1>1. PICK h : UpdateHappiness(b, R, k) = [b EXCEPT !.happy = h] /\ h \in BOOLEAN
  BY DEF UpdateHappiness
<1> QED
  BY <1>1 DEF BleStates

\* check_takeover leaves the ballots alone, or moves both to a larger number.
LEMMA TakeoverRises ==
  ASSUME NEW b \in BleStates, NEW R, NEW k
  PROVE  LET c == CheckTakeover(b, R, k) IN
         /\ c \in BleStates /\ Rose(b.leader, c.leader)
         /\ c = b \/ (c.current = c.leader /\ c.current.n = b.leader.n + 1)
<1> DEFINE higher == [b.current EXCEPT !.n = b.leader.n + 1]
<1>1. higher \in Ballots /\ higher.n = b.leader.n + 1
  BY DEF BleStates, Ballots
<1>2. \/ CheckTakeover(b, R, k) = b
      \/ CheckTakeover(b, R, k) = [current |-> higher, leader |-> higher, happy |-> TRUE]
  BY DEF CheckTakeover
<1> HIDE DEF higher
<1>3. Less(b.leader, higher)
  BY <1>1 DEF Less, BleStates, Ballots
<1>4. CASE CheckTakeover(b, R, k) = b
  BY <1>4 DEF Rose
<1>5. CASE CheckTakeover(b, R, k) = [current |-> higher, leader |-> higher, happy |-> TRUE]
  BY <1>1, <1>3, <1>5 DEF Rose, BleStates
<1> QED
  BY <1>2, <1>4, <1>5

\* Syncing with the promise of Sequence Paxos follows a larger one, its own included.
LEMMA SyncRises ==
  ASSUME NEW b \in BleStates, NEW s, NEW prom \in Ballots
  PROVE  LET c == SyncWithPromise(b, s, prom) IN
         /\ c \in BleStates /\ Rose(b.leader, c.leader)
         /\ ~Less(c.leader, prom)
         /\ \/ c.current = b.current
            \/ c.current = prom /\ prom.pid = s /\ Less(b.leader, prom)
<1>1. CASE Less(b.leader, prom)
  BY <1>1, LessFacts DEF SyncWithPromise, Rose, BleStates
<1>2. CASE ~Less(b.leader, prom)
  BY <1>2 DEF SyncWithPromise, Rose
<1> QED
  BY <1>1, <1>2

\* The whole timeout: the leader rises, and an own ballot is kept or newer.
LEMMA TimeoutRises ==
  ASSUME ElectionInv, NEW s \in Servers, HbTimeout(s)
  PROVE  /\ ble'[s] \in BleStates /\ ble' = [ble EXCEPT ![s] = ble'[s]]
         /\ Rose(ble[s].leader, ble'[s].leader)
         /\ ~Less(ble'[s].leader, promise[s])
         /\ ble'[s].current.n = 0 \/ ble'[s].current.n > retired[s].n
<1>1. /\ ble \in [Servers -> BleStates] /\ ble[s] \in BleStates /\ promise[s] \in Ballots
      /\ retired[s] \in Ballots /\ Newer(s)
  BY DEF ElectionInv, Shapes
<1> DEFINE R == Replies(s)
           TakenFrom(judged) == CheckTakeover(judged, R, Cardinality(DOMAIN replies[s]))
<1>0. PICK led, judged :
        /\ led = UpdateLeader(ble[s], R)
        /\ judged = UpdateHappiness(led, R, Followers(s, led))
        /\ ble' = [ble EXCEPT ![s] = SyncWithPromise(TakenFrom(judged), s, promise[s])]
  BY DEF HbTimeout
<1>2. PICK taken, b :
        /\ taken = TakenFrom(judged) /\ b = SyncWithPromise(taken, s, promise[s])
        /\ ble' = [ble EXCEPT ![s] = b]
  BY <1>0
<1>3. led \in BleStates /\ led.current = ble[s].current /\ Rose(ble[s].leader, led.leader)
  BY <1>0, <1>1, RepliesFinite, UpdateLeaderRises DEF ElectionInv
<1>4. judged \in BleStates /\ judged.current = led.current /\ judged.leader = led.leader
  BY <1>0, <1>3, UpdateHappinessKeeps
<1>5. /\ taken \in BleStates /\ Rose(judged.leader, taken.leader)
      /\ taken = judged \/ (taken.current = taken.leader /\ taken.current.n = judged.leader.n + 1)
  BY <1>2, <1>4, TakeoverRises
<1>6. /\ b \in BleStates /\ Rose(taken.leader, b.leader) /\ ~Less(b.leader, promise[s])
      /\ \/ b.current = taken.current
         \/ b.current = promise[s] /\ promise[s].pid = s /\ Less(taken.leader, promise[s])
  BY <1>1, <1>2, <1>5, SyncRises
<1>7. ble'[s] = b
  BY <1>1, <1>2
<1>8. /\ ble[s].leader \in Ballots /\ led.leader \in Ballots /\ taken.leader \in Ballots
      /\ b.leader \in Ballots /\ ble[s].leader.n \in Nat /\ led.leader.n \in Nat /\ retired[s].n \in Nat
      /\ ble[s].current.n \in Nat
  BY <1>1, <1>3, <1>5, <1>6 DEF BleStates, Ballots
<1>9. Rose(ble[s].leader, taken.leader) /\ ble[s].leader.n <= led.leader.n
  BY <1>3, <1>4, <1>5, <1>8, RoseFacts
<1>10. Rose(ble[s].leader, b.leader)
  BY <1>6, <1>8, <1>9, RoseFacts
<1>11. taken.current.n = 0 \/ taken.current.n > retired[s].n
  BY <1>1, <1>3, <1>4, <1>5, <1>8, <1>9 DEF Newer
<1>12. b.current.n = 0 \/ b.current.n > retired[s].n
  <2>1. CASE b.current = taken.current
    BY <1>11, <2>1
  <2>2. CASE b.current = promise[s] /\ promise[s].pid = s /\ Less(taken.leader, promise[s])
    <3>1. Less(ble[s].leader, promise[s])
      BY <1>1, <1>8, <1>9, <2>2, LessFacts DEF Rose
    <3> QED
      BY <1>1, <2>2, <3>1 DEF Newer
  <2> QED
    BY <1>6, <2>1, <2>2
<1> QED
  BY <1>2, <1>6, <1>7, <1>10, <1>12

-----------------------------------------------------------------------------
\* One server's part of the invariant depends on its own state alone.
LEMMA OthersNewer ==
  ASSUME NEW s, Newer(s), ble'[s] = ble[s], promise'[s] = promise[s], retired'[s] = retired[s]
  PROVE  Newer(s)'
  BY DEF Newer

\* Nothing is recovered and nothing promised at first.
LEMMA ElectionInit == Init => ElectionInv
<1> SUFFICES ASSUME Init PROVE ElectionInv
  OBVIOUS
<1>1. Servers \subseteq Nat /\ NoBallot \in Ballots /\ NoBallot.n = 0 /\ NoBallot.pid = 0
  BY ServersAssumption DEF NoBallot, Ballot, Ballots
<1>2. \A s \in Servers : /\ Started(s, NoBallot) \in BleStates
                         /\ Started(s, NoBallot).leader.n = 1 /\ Started(s, NoBallot).current.n = 1
  BY <1>1 DEF Started, Ballot, Ballots, BleStates
<1>3. Shapes
  BY <1>1, <1>2 DEF Init, Shapes
<1>4. ASSUME NEW s \in Servers PROVE Newer(s)
  <2>1. /\ ble[s].leader.n = 1 /\ ble[s].current.n = 1 /\ retired[s] = NoBallot
        /\ promise[s] = NoBallot /\ s # 0
    BY <1>2, ServersAssumption DEF Init
  <2> QED
    BY <1>1, <2>1 DEF Newer
<1> QED
  BY <1>3, <1>4 DEF ElectionInv

\* A new promise of s: at least the old one, and newer than what s restarted with if it
\* is the server's own.
LEMMA PromiseStep ==
  ASSUME ElectionInv, NEW s \in Servers, NEW b \in Ballots, UNCHANGED <<ble, replies, retired>>,
         promise' = promise \/ (promise' = [promise EXCEPT ![s] = b] /\ Less(promise[s], b)),
         b.n >= 1, b.pid = s => b.n > retired[s].n
  PROVE  ElectionInv'
<1>1. CASE promise' = promise
  BY <1>1 DEF ElectionInv, Shapes, Newer
<1>2. CASE promise' = [promise EXCEPT ![s] = b] /\ Less(promise[s], b)
  <2>1. Shapes'
    BY <1>2 DEF ElectionInv, Shapes
  <2>2. ASSUME NEW t \in Servers PROVE Newer(t)'
    <3>1. CASE t = s
      <4>1. promise'[s] = b /\ promise[s] \in Ballots /\ retired[s] \in Ballots /\ Newer(s)
        BY <1>2 DEF ElectionInv, Shapes
      <4>2. promise[s].n <= b.n
        BY <1>2, <4>1, LessFacts
      <4> QED
        BY <3>1, <4>1, <4>2 DEF Newer, Ballots
    <3>2. CASE t # s
      BY <1>2, <3>2, OthersNewer DEF ElectionInv, Shapes
    <3> QED
      BY <3>1, <3>2
  <2> QED
    BY <2>1, <2>2 DEF ElectionInv
<1> QED
  BY <1>1, <1>2

\* A round of heartbeats ends: what the server leads with is newer, and so is what it
\* promises itself.
LEMMA TimeoutStep ==
  ASSUME ElectionInv, NEW s \in Servers, HbTimeout(s)
  PROVE  ElectionInv'
<1>1. /\ ble'[s] \in BleStates /\ ble' = [ble EXCEPT ![s] = ble'[s]]
      /\ Rose(ble[s].leader, ble'[s].leader) /\ ~Less(ble'[s].leader, promise[s])
      /\ ble'[s].current.n = 0 \/ ble'[s].current.n > retired[s].n
  BY TimeoutRises
<1>2. PICK b : b = ble'[s]
  OBVIOUS
<1>3. /\ ble' = [ble EXCEPT ![s] = b] /\ b \in BleStates
      /\ replies' = [replies EXCEPT ![s] = << >>] /\ retired' = retired
      /\ \/ promise' = promise
         \/ /\ b.leader = b.current /\ promise' = [promise EXCEPT ![s] = b.current]
            /\ Less(promise[s], b.current)
  <2>1. PICK c : /\ ble' = [ble EXCEPT ![s] = c]
                 /\ IF c.leader = c.current THEN HandleLeader(s, c.current) ELSE UNCHANGED promise
                 /\ replies' = [replies EXCEPT ![s] = << >>] /\ retired' = retired
    BY DEF HbTimeout
  <2>2. c = b
    BY <1>2, <2>1 DEF ElectionInv, Shapes
  <2> QED
    BY <1>1, <1>2, <2>1, <2>2 DEF HandleLeader
<1>4. Shapes'
  <2>1. /\ ble' \in [Servers -> BleStates] /\ retired' \in [Servers -> Ballots]
        /\ promise' \in [Servers -> Ballots]
    BY <1>3 DEF ElectionInv, Shapes, BleStates
  <2>2. /\ DOMAIN replies' = Servers
        /\ \A t \in Servers : replies'[t] = IF t = s THEN << >> ELSE replies[t]
    BY <1>3 DEF ElectionInv, Shapes
  <2> QED
    BY <2>1, <2>2 DEF ElectionInv, Shapes
<1>5. Newer(s)'
  <2>1. /\ ble'[s] = b /\ retired'[s] = retired[s] /\ Newer(s)
        /\ promise[s] \in Ballots /\ retired[s] \in Ballots /\ ble[s].leader \in Ballots
        /\ b.leader \in Ballots /\ b.current \in Ballots
        /\ promise'[s] \in {promise[s], b.current}
    BY <1>2, <1>3 DEF ElectionInv, Shapes, BleStates
  <2>2. ble[s].leader.n <= b.leader.n
    BY <1>1, <1>2, <2>1, RoseFacts
  <2>3. b.leader.n >= 1 /\ b.leader.n >= retired[s].n
    BY <2>1, <2>2 DEF Newer, Ballots
  <2>4. CASE promise' = promise
    BY <1>1, <1>2, <2>1, <2>3, <2>4 DEF Newer
  <2>5. CASE /\ b.leader = b.current /\ promise' = [promise EXCEPT ![s] = b.current]
    <3>1. promise'[s] = b.current
      BY <2>5 DEF ElectionInv, Shapes
    <3>2. b.current.n > retired[s].n /\ b.current.n >= 1
      BY <1>1, <1>2, <2>1, <2>3, <2>5
    <3> QED
      BY <1>1, <1>2, <2>1, <2>3, <3>1, <3>2 DEF Newer, Ballots
  <2> QED
    BY <1>3, <2>4, <2>5
<1>6. ASSUME NEW t \in Servers, t # s PROVE Newer(t)'
  <2>1. ble'[t] = ble[t] /\ promise'[t] = promise[t] /\ retired'[t] = retired[t]
    BY <1>3, <1>6 DEF ElectionInv, Shapes
  <2> QED
    BY <2>1, OthersNewer DEF ElectionInv
<1> QED
  BY <1>4, <1>5, <1>6 DEF ElectionInv

\* A restart follows what was promised, with a ballot of the round before the first.
LEMMA RestartStep ==
  ASSUME ElectionInv, NEW s \in Servers, Restart(s)
  PROVE  ElectionInv'
<1>1. /\ ble' = [ble EXCEPT ![s] = Started(s, promise[s])]
      /\ replies' = [replies EXCEPT ![s] = << >>]
      /\ retired' = [retired EXCEPT ![s] = promise[s]] /\ promise' = promise
  BY DEF Restart
<1>2. s \in Nat /\ s # 0 /\ promise[s] \in Ballots /\ Newer(s)
  BY ServersAssumption DEF ElectionInv, Shapes
<1>3. /\ Started(s, promise[s]) \in BleStates
      /\ promise[s] = NoBallot => /\ Started(s, promise[s]).leader.n = 1
                                  /\ Started(s, promise[s]).current.n = 1
      /\ promise[s] # NoBallot => /\ Started(s, promise[s]).leader = promise[s]
                                  /\ Started(s, promise[s]).current.n = 0
  BY <1>2 DEF Started, Ballot, Ballots, BleStates
<1>4. Shapes'
  <2>1. /\ ble' \in [Servers -> BleStates] /\ retired' \in [Servers -> Ballots]
        /\ promise' \in [Servers -> Ballots]
    BY <1>1, <1>2, <1>3 DEF ElectionInv, Shapes
  <2>2. /\ DOMAIN replies' = Servers
        /\ \A t \in Servers : replies'[t] = IF t = s THEN << >> ELSE replies[t]
    BY <1>1 DEF ElectionInv, Shapes
  <2> QED
    BY <2>1, <2>2 DEF ElectionInv, Shapes
<1>5. Newer(s)'
  <2>1. ble'[s] = Started(s, promise[s]) /\ retired'[s] = promise[s] /\ promise'[s] = promise[s]
    BY <1>1 DEF ElectionInv, Shapes
  <2>2. CASE promise[s] = NoBallot
    <3>1. promise[s].n = 0 /\ promise[s].pid = 0
      BY <2>2 DEF NoBallot, Ballot
    <3> QED
      BY <1>2, <1>3, <2>1, <2>2, <3>1 DEF Newer
  <2>3. CASE promise[s] # NoBallot
    <3>1. ~Less(promise[s], promise[s]) /\ promise[s].n \in Nat
      BY <1>2, LessFacts DEF Ballots
    <3> QED
      BY <1>2, <1>3, <2>1, <2>3, <3>1 DEF Newer
  <2> QED
    BY <2>2, <2>3
<1>6. ASSUME NEW t \in Servers, t # s PROVE Newer(t)'
  <2>1. ble'[t] = ble[t] /\ promise'[t] = promise[t] /\ retired'[t] = retired[t]
    BY <1>1, <1>6 DEF ElectionInv, Shapes
  <2> QED
    BY <2>1, OthersNewer DEF ElectionInv
<1> QED
  BY <1>4, <1>5, <1>6 DEF ElectionInv

\* A new priority changes no number.
LEMMA PriorityStep ==
  ASSUME ElectionInv, NEW s \in Servers, NEW p \in Nat,
         ble' = [ble EXCEPT ![s].current.priority = p], UNCHANGED <<replies, promise, retired>>
  PROVE  ElectionInv' /\ \A t \in Servers : ble'[t].leader = ble[t].leader
<1>1. /\ ble'[s].leader = ble[s].leader /\ ble'[s].current.n = ble[s].current.n
      /\ ble'[s] \in BleStates
  <2>1. PICK b : b = ble[s]
    OBVIOUS
  <2>2. ble'[s] = [b EXCEPT !.current = [b.current EXCEPT !.priority = p]] /\ b \in BleStates
    BY <2>1 DEF ElectionInv, Shapes
  <2> QED
    BY <2>1, <2>2 DEF BleStates, Ballots
<1>2. \A t \in Servers : t # s => ble'[t] = ble[t]
  BY DEF ElectionInv, Shapes
<1>3. Shapes'
  <2>1. ble' \in [Servers -> BleStates]
    BY <1>1 DEF ElectionInv, Shapes
  <2> QED
    BY <2>1 DEF ElectionInv, Shapes
<1>4. \A t \in Servers : Newer(t)'
  BY <1>1, <1>2 DEF ElectionInv, Newer
<1> QED
  BY <1>1, <1>2, <1>3, <1>4 DEF ElectionInv

\* Every step keeps the invariant, and no server follows a smaller leader but by a restart.
LEMMA ElectionStep ==
  ASSUME ElectionInv, [Next]_vars
  PROVE  /\ ElectionInv'
         /\ \A s \in Servers : Less(ble'[s].leader, ble[s].leader) => ble'[s] = Started(s, promise[s])
<1> DEFINE Rises == \A s \in Servers :
                        Less(ble'[s].leader, ble[s].leader) => ble'[s] = Started(s, promise[s])
<1>1. Shapes /\ \A s \in Servers : ble[s].leader \in Ballots /\ ~Less(ble[s].leader, ble[s].leader)
  BY LessFacts DEF ElectionInv, Shapes, BleStates
<1>2. (\A s \in Servers : ble'[s].leader = ble[s].leader) => Rises
  BY <1>1
<1>3. ASSUME NEW s \in Servers, ble' = [ble EXCEPT ![s] = ble'[s]],
             Less(ble'[s].leader, ble[s].leader) => ble'[s] = Started(s, promise[s])
      PROVE  Rises
  <2>1. \A t \in Servers : t # s => ble'[t] = ble[t]
    BY <1>1, <1>3 DEF Shapes
  <2> QED
    BY <1>1, <1>3, <2>1
<1> HIDE DEF Rises
<1>4. ASSUME NEW s \in Servers, NEW t \in Servers, Heartbeat(s, t) PROVE ElectionInv' /\ Rises
  <2>1. /\ replies' = [replies EXCEPT ![s] =
               [p \in DOMAIN replies[s] \cup {t} |-> IF p = t THEN ble[t] ELSE replies[s][p]]]
        /\ UNCHANGED <<ble, promise, retired>>
    BY <1>4 DEF Heartbeat
  <2>2. DOMAIN replies' = Servers
    BY <1>1, <2>1 DEF Shapes
  <2>3. ASSUME NEW q \in Servers
        PROVE  /\ DOMAIN replies'[q] \subseteq Servers
               /\ \A p \in DOMAIN replies'[q] : replies'[q][p] \in BleStates
    <3>1. CASE q = s
      <4>1. replies'[q] = [p \in DOMAIN replies[s] \cup {t} |-> IF p = t THEN ble[t] ELSE replies[s][p]]
        BY <1>1, <2>1, <3>1 DEF Shapes
      <4> QED
        BY <1>1, <4>1 DEF Shapes
    <3>2. CASE q # s
      BY <1>1, <2>1, <3>2 DEF Shapes
    <3> QED
      BY <3>1, <3>2
  <2>4. Shapes'
    BY <1>1, <2>1, <2>2, <2>3 DEF Shapes
  <2>5. \A q \in Servers : Newer(q)'
    BY <2>1, OthersNewer DEF ElectionInv
  <2> QED
    BY <1>2, <2>1, <2>4, <2>5 DEF ElectionInv
<1>5. ASSUME NEW s \in Servers, NEW t \in Servers, PromiseLeader(s, t) PROVE ElectionInv' /\ Rises
  <2>1. /\ promise[t].pid = t /\ Less(promise[s], promise[t]) /\ promise[t] \in Ballots
        /\ promise[s] \in Ballots /\ Newer(t) /\ t # 0
        /\ promise' = [promise EXCEPT ![s] = promise[t]] /\ UNCHANGED <<ble, replies, retired>>
    BY <1>5, ServersAssumption DEF PromiseLeader, ElectionInv, Shapes
  <2>2. t # s
    BY <2>1, LessFacts
  <2>3. promise[t].n >= 1
    BY <2>1 DEF Newer, NoBallot, Ballot
  <2>4. ElectionInv'
    BY <2>1, <2>2, <2>3, PromiseStep
  <2> QED
    BY <1>2, <2>1, <2>4
<1>6. ASSUME NEW s \in Servers, HbTimeout(s) PROVE ElectionInv' /\ Rises
  <2>1. /\ ble'[s] \in BleStates /\ ble' = [ble EXCEPT ![s] = ble'[s]]
        /\ Rose(ble[s].leader, ble'[s].leader)
    BY <1>6, TimeoutRises
  <2>2. ~Less(ble'[s].leader, ble[s].leader)
    BY <1>1, <2>1, RoseFacts DEF BleStates
  <2> QED
    BY <1>3, <1>6, <2>1, <2>2, TimeoutStep
<1>7. ASSUME NEW s \in Servers, TryBecomeLeader(s) PROVE ElectionInv' /\ Rises
  <2> DEFINE b == [ble[s].current EXCEPT !.n = promise[s].n + 1]
  <2>1. HandleLeader(s, b) /\ UNCHANGED <<ble, replies, retired>>
    BY <1>7 DEF TryBecomeLeader, Happens
  <2>2. /\ ble[s] \in BleStates /\ promise[s] \in Ballots /\ retired[s] \in Ballots /\ Newer(s)
    BY DEF ElectionInv, Shapes
  <2>3. b \in Ballots /\ b.n = promise[s].n + 1
    BY <2>2 DEF BleStates, Ballots
  <2> HIDE DEF b
  <2>4. b.n >= 1 /\ b.n > retired[s].n
    BY <2>2, <2>3 DEF Newer, Ballots
  <2>5. promise' = promise \/ (promise' = [promise EXCEPT ![s] = b] /\ Less(promise[s], b))
    BY <2>1 DEF HandleLeader
  <2>6. ElectionInv'
    BY <2>1, <2>3, <2>4, <2>5, PromiseStep
  <2> QED
    BY <1>2, <2>1, <2>6
<1>8. ASSUME NEW s \in Servers, Restart(s) PROVE ElectionInv' /\ Rises
  <2>1. ble' = [ble EXCEPT ![s] = Started(s, promise[s])] /\ ble'[s] = Started(s, promise[s])
    BY <1>1, <1>8 DEF Restart, Shapes
  <2>2. ble' = [ble EXCEPT ![s] = ble'[s]]
    BY <2>1
  <2> QED
    BY <1>3, <1>8, <2>1, <2>2, RestartStep
<1>9. ASSUME NEW s \in Servers, NEW p \in Priorities, SetPriority(s, p) PROVE ElectionInv' /\ Rises
  <2>1. /\ ble' = [ble EXCEPT ![s].current.priority = p] /\ UNCHANGED <<replies, promise, retired>>
        /\ p \in Nat
    BY <1>9, BoundsAssumption DEF SetPriority
  <2> QED
    BY <1>2, <2>1, PriorityStep
<1>10. ASSUME ble' = ble, replies' = replies, promise' = promise, retired' = retired PROVE ElectionInv' /\ Rises
  BY <1>2, <1>10, OthersNewer DEF ElectionInv, Shapes
<1>11. ASSUME NEW S \in SUBSET AllLinks, ChangeLinks(S) PROVE ElectionInv' /\ Rises
  BY <1>10, <1>11 DEF ChangeLinks
<1>12. ASSUME UNCHANGED vars PROVE ElectionInv' /\ Rises
  BY <1>10, <1>12 DEF vars
<1>13. ElectionInv' /\ Rises
  BY <1>4, <1>5, <1>6, <1>7, <1>8, <1>9, <1>11, <1>12 DEF Next
<1> QED
  BY <1>13 DEF Rises

\* What is known of ballots and promises holds in every reachable state.
THEOREM ElectionInvariant == Spec => []ElectionInv
  BY ElectionInit, ElectionStep, PTL DEF Spec

\* A recovered server does not retain its leadership: a server that leads after a restart
\* leads with a larger ballot than the one it had promised (RECOVERY_ROUND).
THEOREM LeadershipIsNotRetained == Spec => []NoRetainedLeadership
<1>1. ElectionInv => NoRetainedLeadership
  <2> SUFFICES ASSUME ElectionInv, NEW s \in Servers, ble[s].leader = ble[s].current
               PROVE  Less(retired[s], ble[s].current)
    BY DEF NoRetainedLeadership
  <2>1. Newer(s) /\ ble[s].current \in Ballots /\ retired[s] \in Ballots
    BY DEF ElectionInv, Shapes, BleStates
  <2>2. ble[s].current.n > retired[s].n
    BY <2>1 DEF Newer
  <2> QED
    BY <2>1, <2>2 DEF Less, Ballots
<1> QED
  BY <1>1, ElectionInvariant, PTL

\* The leader a server follows is replaced by larger ballots only, unless it restarts
\* (update_leader, check_takeover, and the sync with Sequence Paxos).
THEOREM LeadersOnlyRise == Spec => LeaderOnlyRises
<1>1. ElectionInv /\ [Next]_vars =>
        [\A s \in Servers :
            Less(ble'[s].leader, ble[s].leader) => ble'[s] = Started(s, promise[s])]_vars
  BY ElectionStep
<1> QED
  BY <1>1, ElectionInvariant, PTL DEF Spec, LeaderOnlyRises
===============================================================================
