----------------------- MODULE DeadlineMulticastProofs -----------------------
(***************************************************************************)
(* What the buffers promise, for any number of servers and entries, any      *)
(* clocks within their uncertainty, any delays, losses and restarts.  The    *)
(* argument: a server releases a proposal only when its deadline is past in  *)
(* true time, so the key it released last is past too, and whatever is late  *)
(* at a server is late in true time.                                         *)
(***************************************************************************)
EXTENDS DeadlineMulticast, WellFoundedInduction, TLAPS

Proposals == [id : EntryIds, sender : Servers, sent : [time : Int, unc : Nat], deadline : Int]
Keys == [deadline : Int, id : EntryIds]

\* The shapes the argument needs; the estimates' are of no consequence for it.
Shapes ==
    /\ trueTime \in Int
    /\ proposed \subseteq Proposals
    /\ early \in [Servers -> SUBSET Proposals]
    /\ released \in [Servers -> SUBSET Proposals]
    /\ gone \in [Servers -> SUBSET Proposals]
    /\ lastReleased \in [Servers -> Keys \cup {NoKey}]
    /\ late \in [Servers -> SUBSET [prop : Proposals, at : Int]]
    /\ \A m \in network : m.type = "DomPropose" => m.to \in Servers /\ m.prop \in proposed

\* Everything buffered comes after the key released last, which is past in true time.
BufferedLater ==
    \A s \in Servers : \A p \in early[s] :
        lastReleased[s] = NoKey \/ Before(lastReleased[s], KeyOf(p))
LastIsPast == \A s \in Servers : lastReleased[s] = NoKey \/ lastReleased[s].deadline <= trueTime

\* Every proposal is somewhere at every server.
Placed(p, s) ==
    \/ p \in early[s] \cup released[s] \cup gone[s]
    \/ \E l \in late[s] : l.prop = p /\ p.deadline <= l.at
    \/ [type |-> "DomPropose", to |-> s, prop |-> p] \in network
AllPlaced == \A p \in proposed, s \in Servers : Placed(p, s)

MulticastInv ==
    Shapes /\ BufferedLater /\ LastIsPast /\ AllPlaced /\ NotBeforeDeadline /\ ExtendedIsNeverLate

USE DEF Proposals, Keys

\* What a clock shows is off by its uncertainty at most.
LEMMA ReadingBounds ==
  ASSUME NEW now \in Readings, trueTime \in Int
  PROVE  /\ now \in [time : Int, unc : Nat]
         /\ trueTime - now.unc <= now.time /\ now.time <= trueTime + now.unc
  BY MulticastAssumption DEF Readings

\* Keys are ordered totally.
LEMMA BeforeTotal ==
  ASSUME NEW k \in Keys, NEW l \in Keys
  PROVE  Before(k, l) \/ Before(l, k) \/ k = l
<1>1. k.deadline \in Int /\ l.deadline \in Int /\ k.id \in Int /\ l.id \in Int
  BY MulticastAssumption
<1>2. k.deadline = l.deadline /\ k.id = l.id => k = l
  OBVIOUS
<1> QED
  BY <1>1, <1>2 DEF Before

LEMMA BeforeTransitive ==
  ASSUME NEW k \in Keys, NEW l \in Keys, NEW m \in Keys, Before(k, l), Before(l, m)
  PROVE  Before(k, m)
<1>1. /\ k.deadline \in Int /\ l.deadline \in Int /\ m.deadline \in Int
      /\ k.id \in Int /\ l.id \in Int /\ m.id \in Int
  BY MulticastAssumption
<1> QED
  BY <1>1 DEF Before

\* A late proposal is late in true time.
LEMMA LateInTrueTime ==
  ASSUME Shapes, LastIsPast, NEW s \in Servers, NEW p \in Proposals, IsLate(s, p)
  PROVE  p.deadline <= trueTime
<1>1. lastReleased[s] \in Keys /\ lastReleased[s].deadline <= trueTime
  BY DEF Shapes, LastIsPast, IsLate
<1>2. ~Before(lastReleased[s], KeyOf(p))
  BY DEF IsLate
<1>3. p.deadline <= lastReleased[s].deadline
  BY <1>1, <1>2 DEF Before, KeyOf
<1> QED
  BY <1>1, <1>3 DEF Shapes

\* A proposal with an extended deadline is not late.
LEMMA ExtensionIsLater ==
  ASSUME Shapes, NEW s \in Servers, NEW p \in Proposals, NEW now \in Readings
  PROVE  LET extended == [p EXCEPT !.deadline = NewDeadline(s, now)] IN
         extended \in Proposals /\ ~IsLate(s, extended)
<1> DEFINE d == NewDeadline(s, now)
           extended == [p EXCEPT !.deadline = d]
<1>1. now.time \in Int /\ now.unc \in Nat
  BY ReadingBounds DEF Shapes
<1>2. lastReleased[s] = NoKey \/ lastReleased[s] \in Keys
  BY DEF Shapes
<1>3. CASE lastReleased[s] = NoKey
  <2>1. d \in Int
    BY <1>1, <1>3 DEF NewDeadline
  <2> QED
    BY <1>3, <2>1 DEF IsLate
<1>4. CASE lastReleased[s] # NoKey
  <2>1. lastReleased[s].deadline \in Int
    BY <1>2, <1>4
  <2>2. d \in Int /\ lastReleased[s].deadline < d
    BY <1>1, <1>4, <2>1, MulticastAssumption DEF NewDeadline
  <2>3. extended \in Proposals /\ extended.deadline = d
    BY <2>2
  <2> HIDE DEF d
  <2>4. Before(lastReleased[s], KeyOf(extended))
    BY <2>2, <2>3 DEF Before, KeyOf
  <2> QED
    BY <2>3, <2>4 DEF IsLate, d
<1> QED
  BY <1>3, <1>4

\* Handling a proposal: it ends in the buffer or among the late ones, nobody panics, and
\* what is buffered still comes after what was released.
LEMMA InsertStep ==
  ASSUME MulticastInv, NEW s \in Servers, NEW p \in Proposals, Insert(s, p), trueTime' = trueTime
  PROVE  /\ early' \in [Servers -> SUBSET Proposals]
         /\ late' \in [Servers -> SUBSET [prop : Proposals, at : Int]]
         /\ lastReleased' = lastReleased /\ released' = released /\ gone' = gone
         /\ \A r \in Servers : early[r] \subseteq early'[r] /\ late[r] \subseteq late'[r]
         /\ p \in early'[s] \/ \E l \in late'[s] : l.prop = p /\ p.deadline <= l.at
         /\ BufferedLater'
         /\ ExtendedIsNeverLate'
<1> USE DEF MulticastInv
<1>1. lastReleased' = lastReleased /\ released' = released /\ gone' = gone
  BY DEF Insert
<1>2. ASSUME NEW q \in Proposals, ~IsLate(s, q), early' = [early EXCEPT ![s] = @ \cup {q}]
      PROVE  /\ early' \in [Servers -> SUBSET Proposals]
             /\ \A r \in Servers : early[r] \subseteq early'[r]
             /\ q \in early'[s]
             /\ BufferedLater'
  <2>1. /\ early' \in [Servers -> SUBSET Proposals]
        /\ \A r \in Servers : early[r] \subseteq early'[r]
        /\ q \in early'[s]
        /\ \A r \in Servers : \A x \in early'[r] : x \in early[r] \/ (r = s /\ x = q)
    BY <1>2 DEF Shapes
  <2>2. lastReleased[s] = NoKey \/ Before(lastReleased[s], KeyOf(q))
    BY <1>2 DEF IsLate
  <2>3. BufferedLater'
    BY <1>1, <2>1, <2>2 DEF BufferedLater
  <2> QED
    BY <2>1, <2>3
<1>3. CASE ~IsLate(s, p)
  <2>1. early' = [early EXCEPT ![s] = @ \cup {p}] /\ late' = late /\ panicked' = panicked
    BY <1>3 DEF Insert
  <2> QED
    BY <1>1, <1>2, <1>3, <2>1 DEF Shapes, ExtendedIsNeverLate
<1>4. CASE IsLate(s, p)
  <2>1. late' = [late EXCEPT ![s] = @ \cup {[prop |-> p, at |-> trueTime]}]
    BY <1>4 DEF Insert
  <2>2. /\ late' \in [Servers -> SUBSET [prop : Proposals, at : Int]]
        /\ \A r \in Servers : late[r] \subseteq late'[r]
        /\ [prop |-> p, at |-> trueTime] \in late'[s]
    BY <2>1 DEF Shapes
  <2>3. p.deadline <= trueTime
    BY <1>4, LateInTrueTime
  <2>4. \E l \in late'[s] : l.prop = p /\ p.deadline <= l.at
    BY <2>2, <2>3
  <2>5. CASE UNCHANGED <<early, panicked>>
    <3>1. early' \in [Servers -> SUBSET Proposals] /\ \A r \in Servers : early[r] \subseteq early'[r]
      BY <2>5 DEF Shapes
    <3>2. BufferedLater' /\ ExtendedIsNeverLate'
      BY <1>1, <2>5 DEF BufferedLater, ExtendedIsNeverLate
    <3> QED
      BY <1>1, <2>2, <2>4, <3>1, <3>2
  <2>6. CASE \E now \in Readings : InsertAsLeader(s, p, now)
    <3>1. PICK now \in Readings : InsertAsLeader(s, p, now)
      BY <2>6
    <3> DEFINE extended == [p EXCEPT !.deadline = NewDeadline(s, now)]
    <3>2. extended \in Proposals /\ ~IsLate(s, extended)
      BY ExtensionIsLater
    <3>3. early' = [early EXCEPT ![s] = @ \cup {extended}] /\ panicked' = panicked
      BY <3>1, <3>2 DEF InsertAsLeader
    <3> HIDE DEF extended
    <3>4. /\ early' \in [Servers -> SUBSET Proposals]
          /\ \A r \in Servers : early[r] \subseteq early'[r]
          /\ BufferedLater'
      BY <1>2, <3>2, <3>3
    <3> QED
      BY <1>1, <2>2, <2>4, <3>3, <3>4 DEF ExtendedIsNeverLate
  <2> QED
    BY <1>4, <2>5, <2>6 DEF Insert
<1> QED
  BY <1>3, <1>4

\* A proposal that was somewhere at a server still is when the server has more.
LEMMA PlacedStays ==
  ASSUME NEW p, NEW s, Placed(p, s),
         early[s] \subseteq early'[s] \cup released'[s] \cup gone'[s],
         released[s] \subseteq released'[s], gone[s] \subseteq gone'[s], late[s] \subseteq late'[s],
         [type |-> "DomPropose", to |-> s, prop |-> p] \in network
             => [type |-> "DomPropose", to |-> s, prop |-> p] \in network'
  PROVE  Placed(p, s)'
  BY DEF Placed

-----------------------------------------------------------------------------
\* Nothing has been sent, buffered or released.
LEMMA MulticastInit == Init => MulticastInv
  BY MulticastAssumption
  DEF Init, MulticastInv, Shapes, BufferedLater, LastIsPast, AllPlaced, NotBeforeDeadline,
      ExtendedIsNeverLate

\* The buffers are what they were, and time may have passed.
LEMMA QuietStep ==
  ASSUME MulticastInv, UNCHANGED <<buffers, proposed>>, trueTime' \in Int, trueTime <= trueTime',
         \A m \in network : m.type = "DomPropose" => m \in network',
         \A m \in network' : m.type = "DomPropose" => m \in network
  PROVE  MulticastInv'
<1> USE DEF MulticastInv, buffers
<1>1. Shapes'
  BY DEF Shapes
<1>2. BufferedLater' /\ ExtendedIsNeverLate'
  BY DEF BufferedLater, ExtendedIsNeverLate
<1>3. LastIsPast'
  <2>1. \A s \in Servers : lastReleased[s] = NoKey \/ lastReleased[s].deadline \in Int
    BY DEF Shapes
  <2> QED
    BY <2>1 DEF LastIsPast, Shapes
<1>4. AllPlaced'
  BY DEF AllPlaced, Placed
<1>5. NotBeforeDeadline'
  <2>1. \A s \in Servers : \A p \in released[s] : p.deadline \in Int
    BY DEF Shapes
  <2> QED
    BY <2>1 DEF NotBeforeDeadline, Shapes
<1> QED
  BY <1>1, <1>2, <1>3, <1>4, <1>5

\* An entry is proposed to every server.
LEMMA AppendStep ==
  ASSUME MulticastInv, NEW s \in Servers, NEW id \in EntryIds, AppendWithId(s, id)
  PROVE  MulticastInv'
<1> USE DEF MulticastInv
<1>1. PICK sent \in Readings, received \in Readings, deadline \in Times :
        LET p == [id |-> id, sender |-> s, sent |-> sent, deadline |-> deadline]
        IN  /\ proposed' = proposed \cup {p}
            /\ network' = network \cup {[type |-> "DomPropose", to |-> r, prop |-> p] : r \in Servers \ {s}}
            /\ Insert(s, p)
            /\ trueTime' = trueTime
  BY DEF AppendWithId
<1> DEFINE p == [id |-> id, sender |-> s, sent |-> sent, deadline |-> deadline]
<1>2. p \in Proposals
  BY ReadingBounds, MulticastAssumption DEF Shapes
<1>3. /\ proposed' = proposed \cup {p}
      /\ network' = network \cup {[type |-> "DomPropose", to |-> r, prop |-> p] : r \in Servers \ {s}}
      /\ Insert(s, p) /\ trueTime' = trueTime
  BY <1>1
<1> HIDE DEF p
<1>4. /\ early' \in [Servers -> SUBSET Proposals]
      /\ late' \in [Servers -> SUBSET [prop : Proposals, at : Int]]
      /\ lastReleased' = lastReleased /\ released' = released /\ gone' = gone
      /\ \A r \in Servers : early[r] \subseteq early'[r] /\ late[r] \subseteq late'[r]
      /\ p \in early'[s] \/ \E l \in late'[s] : l.prop = p /\ p.deadline <= l.at
      /\ BufferedLater' /\ ExtendedIsNeverLate'
  BY <1>2, <1>3, InsertStep
<1>5. Shapes'
  BY <1>2, <1>3, <1>4 DEF Shapes
<1>6. LastIsPast' /\ NotBeforeDeadline'
  BY <1>3, <1>4 DEF LastIsPast, NotBeforeDeadline
<1>7. AllPlaced'
  <2> SUFFICES ASSUME NEW q \in proposed', NEW r \in Servers PROVE Placed(q, r)'
    BY DEF AllPlaced
  <2>1. CASE q \in proposed
    BY <1>3, <1>4, <2>1, PlacedStays DEF AllPlaced
  <2>2. CASE q = p /\ r = s
    BY <1>4, <2>2 DEF Placed
  <2>3. CASE q = p /\ r # s
    BY <1>3, <2>3 DEF Placed
  <2> QED
    BY <1>3, <2>1, <2>2, <2>3
<1> QED
  BY <1>4, <1>5, <1>6, <1>7

\* A proposal arrives at another server.
LEMMA ReceiveStep ==
  ASSUME MulticastInv, NEW m \in network, ReceiveDomPropose(m)
  PROVE  MulticastInv'
<1> USE DEF MulticastInv
<1> DEFINE s == m.to
           p == m.prop
<1>1. PICK ack : /\ m.type = "DomPropose" /\ Insert(s, p)
                 /\ network' = (network \ {m}) \cup {ack} /\ ack.type = "DomAck"
                 /\ trueTime' = trueTime /\ proposed' = proposed
  <2> DEFINE reply(received) ==
        [type |-> "DomAck", to |-> p.sender, sender |-> s, id |-> p.id,
         owd |-> EstimateFromWindow(NewWindow(s, p, received))]
  <2>1. PICK received \in Readings :
          /\ m.type = "DomPropose" /\ Insert(s, p)
          /\ network' = (network \ {m}) \cup {reply(received)}
          /\ trueTime' = trueTime /\ proposed' = proposed
    BY DEF ReceiveDomPropose
  <2>2. reply(received).type = "DomAck"
    OBVIOUS
  <2> HIDE DEF reply
  <2> QED
    BY <2>1, <2>2
<1>2. s \in Servers /\ p \in proposed /\ p \in Proposals
  BY <1>1 DEF Shapes
<1>3. /\ early' \in [Servers -> SUBSET Proposals]
      /\ late' \in [Servers -> SUBSET [prop : Proposals, at : Int]]
      /\ lastReleased' = lastReleased /\ released' = released /\ gone' = gone
      /\ \A r \in Servers : early[r] \subseteq early'[r] /\ late[r] \subseteq late'[r]
      /\ p \in early'[s] \/ \E l \in late'[s] : l.prop = p /\ p.deadline <= l.at
      /\ BufferedLater' /\ ExtendedIsNeverLate'
  BY <1>1, <1>2, InsertStep
<1>4. Shapes'
  BY <1>1, <1>3 DEF Shapes
<1>5. LastIsPast' /\ NotBeforeDeadline'
  BY <1>1, <1>3 DEF LastIsPast, NotBeforeDeadline
<1>6. AllPlaced'
  <2> SUFFICES ASSUME NEW q \in proposed, NEW r \in Servers PROVE Placed(q, r)'
    BY <1>1 DEF AllPlaced
  <2> DEFINE mine == [type |-> "DomPropose", to |-> r, prop |-> q]
  <2>1. CASE mine = m
    <3>1. r = s /\ q = p
      BY <2>1
    <3> QED
      BY <1>3, <3>1 DEF Placed
  <2>2. CASE mine # m
    <3>1. mine \in network => mine \in network'
      BY <1>1, <2>2
    <3>2. Placed(q, r)
      BY DEF AllPlaced
    <3> QED
      BY <1>3, <3>1, <3>2, PlacedStays
  <2> QED
    BY <2>1, <2>2
<1> QED
  BY <1>3, <1>4, <1>5, <1>6

\* Releasing: the deadlines are past, the keys come after the last, and the rest of the
\* buffer comes after the greatest of them.
LEMMA ReleaseStep ==
  ASSUME MulticastInv, NEW s \in Servers, ReleaseReady(s)
  PROVE  /\ MulticastInv'
         /\ \A r \in Servers : \A p \in released'[r] \ released[r] :
               lastReleased[r] = NoKey \/ Before(lastReleased[r], KeyOf(p))
<1> USE DEF MulticastInv
<1>1. PICK now \in Readings :
        LET ready == {p \in early[s] : p.deadline <= Passed(now)} IN
        /\ \E last \in ready :
              /\ \A p \in ready : p = last \/ Before(KeyOf(p), KeyOf(last))
              /\ lastReleased' = [lastReleased EXCEPT ![s] = KeyOf(last)]
        /\ early' = [early EXCEPT ![s] = @ \ ready]
        /\ released' = [released EXCEPT ![s] = @ \cup ready]
        /\ UNCHANGED <<trueTime, messages, late, gone, panicked, estimates>>
  BY DEF ReleaseReady
<1> DEFINE ready == {p \in early[s] : p.deadline <= Passed(now)}
<1>2. PICK last \in ready :
        /\ \A p \in ready : p = last \/ Before(KeyOf(p), KeyOf(last))
        /\ lastReleased' = [lastReleased EXCEPT ![s] = KeyOf(last)]
  BY <1>1
<1>3. /\ early' = [early EXCEPT ![s] = @ \ ready]
      /\ released' = [released EXCEPT ![s] = @ \cup ready]
      /\ trueTime' = trueTime /\ network' = network /\ proposed' = proposed
      /\ late' = late /\ gone' = gone /\ panicked' = panicked
  BY <1>1 DEF messages
<1>4. ready \subseteq early[s] /\ early[s] \subseteq Proposals
  BY DEF Shapes
<1>5. \A p \in ready : p.deadline <= trueTime
  <2>1. now.time \in Int /\ now.unc \in Nat /\ now.time <= trueTime + now.unc /\ trueTime \in Int
    BY ReadingBounds DEF Shapes
  <2> QED
    BY <1>4, <2>1 DEF Passed
<1>6. \A p \in early[s] : p \notin ready => Before(KeyOf(last), KeyOf(p))
  <2> SUFFICES ASSUME NEW p \in early[s], p \notin ready PROVE last.deadline < p.deadline
    BY DEF Before, KeyOf
  <2>1. now.time \in Int /\ now.unc \in Int
    BY ReadingBounds DEF Shapes
  <2>2. last.deadline \in Int /\ p.deadline \in Int
    BY <1>4
  <2>3. last.deadline <= Passed(now) /\ ~(p.deadline <= Passed(now))
    OBVIOUS
  <2> QED
    BY <2>1, <2>2, <2>3 DEF Passed
<1> HIDE DEF ready
<1>7. last \in Proposals /\ KeyOf(last) \in Keys
  BY <1>4 DEF KeyOf
<1>8. lastReleased \in [Servers -> Keys \cup {NoKey}]
  BY DEF Shapes
<1>9. Shapes'
  <2>1. early' \in [Servers -> SUBSET Proposals] /\ released' \in [Servers -> SUBSET Proposals]
    BY <1>3, <1>4 DEF Shapes
  <2>2. lastReleased' \in [Servers -> Keys \cup {NoKey}]
    BY <1>2, <1>7, <1>8
  <2> QED
    BY <1>3, <2>1, <2>2 DEF Shapes
<1>10. BufferedLater'
  <2> SUFFICES ASSUME NEW r \in Servers, NEW p \in early'[r]
               PROVE  lastReleased'[r] = NoKey \/ Before(lastReleased'[r], KeyOf(p))
    BY DEF BufferedLater
  <2>1. CASE r = s
    <3>1. p \in early[s] /\ p \notin ready
      BY <1>3, <2>1 DEF Shapes
    <3>2. lastReleased'[s] = KeyOf(last)
      BY <1>2, <1>8
    <3> QED
      BY <1>6, <2>1, <3>1, <3>2
  <2>2. CASE r # s
    <3>1. p \in early[r] /\ lastReleased'[r] = lastReleased[r]
      BY <1>2, <1>3, <1>8, <2>2 DEF Shapes
    <3> QED
      BY <3>1 DEF BufferedLater
  <2> QED
    BY <2>1, <2>2
<1>11. LastIsPast'
  <2> SUFFICES ASSUME NEW r \in Servers
               PROVE  lastReleased'[r] = NoKey \/ lastReleased'[r].deadline <= trueTime
    BY <1>3 DEF LastIsPast
  <2>1. CASE r = s
    BY <1>2, <1>5, <1>8, <2>1 DEF KeyOf
  <2>2. CASE r # s
    BY <1>2, <1>8, <2>2 DEF LastIsPast
  <2> QED
    BY <2>1, <2>2
<1>12. AllPlaced'
  <2> SUFFICES ASSUME NEW q \in proposed, NEW r \in Servers PROVE Placed(q, r)'
    BY <1>3 DEF AllPlaced
  <2>1. Placed(q, r)
    BY DEF AllPlaced
  <2>2. early[r] \subseteq early'[r] \cup released'[r] /\ released[r] \subseteq released'[r]
    BY <1>3 DEF Shapes
  <2> QED
    BY <1>3, <2>1, <2>2, PlacedStays
<1>13. NotBeforeDeadline'
  BY <1>3, <1>5 DEF NotBeforeDeadline, Shapes
<1>14. ExtendedIsNeverLate'
  BY <1>3 DEF ExtendedIsNeverLate
<1>15. ASSUME NEW r \in Servers, NEW p \in released'[r] \ released[r]
       PROVE  lastReleased[r] = NoKey \/ Before(lastReleased[r], KeyOf(p))
  <2>1. r = s /\ p \in early[s]
    BY <1>3, <1>4, <1>15 DEF Shapes
  <2> QED
    BY <2>1 DEF BufferedLater
<1> QED
  BY <1>9, <1>10, <1>11, <1>12, <1>13, <1>14, <1>15

\* The proposals taken from a buffer are recorded as gone; a server that restarts
\* forgets the key it released last as well.
LEMMA ForgetStep ==
  ASSUME MulticastInv, NEW s \in Servers, NEW removed \in SUBSET early[s],
         early' = [early EXCEPT ![s] = @ \ removed],
         gone' = [gone EXCEPT ![s] = @ \cup removed],
         \/ lastReleased' = lastReleased
         \/ lastReleased' = [lastReleased EXCEPT ![s] = NoKey],
         UNCHANGED <<trueTime, network, proposed, released, late, panicked>>
  PROVE  MulticastInv'
<1> USE DEF MulticastInv
<1>1. Shapes'
  BY DEF Shapes
<1>2. \A r \in Servers : /\ early'[r] \subseteq early[r]
                         /\ early[r] \subseteq early'[r] \cup gone'[r] /\ gone[r] \subseteq gone'[r]
                         /\ lastReleased'[r] \in {lastReleased[r], NoKey}
  BY DEF Shapes
<1>3. BufferedLater'
  BY <1>2 DEF BufferedLater
<1>4. LastIsPast' /\ NotBeforeDeadline' /\ ExtendedIsNeverLate'
  BY <1>2 DEF LastIsPast, NotBeforeDeadline, ExtendedIsNeverLate
<1>5. AllPlaced'
  BY <1>2, PlacedStays DEF AllPlaced
<1> QED
  BY <1>1, <1>3, <1>4, <1>5

\* Every step keeps the invariant, and what it releases comes after the last.
LEMMA MulticastStep ==
  ASSUME MulticastInv, [Next]_vars
  PROVE  /\ MulticastInv'
         /\ \A s \in Servers : \A p \in released'[s] \ released[s] :
               lastReleased[s] = NoKey \/ Before(lastReleased[s], KeyOf(p))
<1> DEFINE InOrder == \A s \in Servers : \A p \in released'[s] \ released[s] :
                         lastReleased[s] = NoKey \/ Before(lastReleased[s], KeyOf(p))
<1>1. CASE Pass
  <2>1. trueTime \in Int /\ trueTime' \in Int /\ trueTime <= trueTime'
    BY <1>1, MulticastAssumption DEF Pass, MulticastInv, Shapes
  <2> QED
    BY <1>1, <2>1, QuietStep DEF Pass, messages, buffers
<1>2. ASSUME NEW m \in network, ReceiveDomPropose(m) PROVE MulticastInv' /\ InOrder
  BY <1>2, ReceiveStep DEF ReceiveDomPropose, Insert
<1>3. ASSUME NEW m \in network, ReceiveDomAck(m) PROVE MulticastInv' /\ InOrder
  <2>1. trueTime \in Int /\ trueTime' = trueTime /\ UNCHANGED <<buffers, proposed>>
    BY <1>3 DEF ReceiveDomAck, MulticastInv, Shapes
  <2>2. m.type = "DomAck" /\ network' = network \ {m}
    BY <1>3 DEF ReceiveDomAck
  <2>3. MulticastInv'
    BY <2>1, <2>2, QuietStep
  <2> QED
    BY <2>1, <2>3 DEF buffers
<1>4. ASSUME NEW s \in Servers, NEW id \in EntryIds, AppendWithId(s, id) PROVE MulticastInv' /\ InOrder
  BY ZenonT(60), <1>4, AppendStep DEF AppendWithId, Insert
<1>5. ASSUME NEW s \in Servers, NEW id \in EntryIds, RemoveFromBuffers(s, id) PROVE MulticastInv' /\ InOrder
  <2> DEFINE removed == {p \in early[s] : p.id = id}
  <2>1. /\ early' = [early EXCEPT ![s] = @ \ removed]
        /\ gone' = [gone EXCEPT ![s] = @ \cup removed]
        /\ UNCHANGED <<trueTime, network, proposed, lastReleased, released, late, panicked>>
    BY <1>5 DEF RemoveFromBuffers, messages
  <2>2. removed \in SUBSET early[s]
    OBVIOUS
  <2> HIDE DEF removed
  <2>3. MulticastInv'
    BY <2>1, <2>2, ForgetStep
  <2> QED
    BY <2>1, <2>3
<1>6. ASSUME NEW s \in Servers, ReleaseReady(s) PROVE MulticastInv' /\ InOrder
  BY <1>6, ReleaseStep
<1>7. ASSUME NEW s \in Servers, Restart(s) PROVE MulticastInv' /\ InOrder
  <2>1. /\ early' = [early EXCEPT ![s] = @ \ early[s]]
        /\ gone' = [gone EXCEPT ![s] = @ \cup early[s]]
        /\ lastReleased' = [lastReleased EXCEPT ![s] = NoKey]
        /\ UNCHANGED <<trueTime, network, proposed, released, late, panicked>>
    BY <1>7 DEF Restart, messages, MulticastInv, Shapes
  <2> QED
    BY <2>1, ForgetStep
<1>8. CASE UNCHANGED vars
  <2>1. trueTime \in Int /\ UNCHANGED <<trueTime, network, proposed, buffers>>
    BY <1>8 DEF vars, messages, MulticastInv, Shapes
  <2>2. MulticastInv'
    BY <2>1, QuietStep
  <2> QED
    BY <2>1, <2>2 DEF buffers
<1>9. Proposers \subseteq Servers
  BY MulticastAssumption
<1> QED
  BY <1>1, <1>2, <1>3, <1>4, <1>5, <1>6, <1>7, <1>8, <1>9 DEF Next, Receive

\* The invariant of the multicast: everything is somewhere, buffered proposals come after
\* the released ones, and what was released is past (dom/mod.rs, dom/buffer.rs).
THEOREM MulticastInvariant == Spec => []MulticastInv
  BY MulticastInit, MulticastStep, PTL DEF Spec

\* release_ready releases no proposal before its deadline in true time.
THEOREM ReleasedAfterDeadline == Spec => []NotBeforeDeadline
<1>1. MulticastInv => NotBeforeDeadline
  BY DEF MulticastInv
<1> QED
  BY <1>1, MulticastInvariant, PTL

\* The expect("proposal cannot be late") of handle_dom_propose never fails.
THEOREM ExtensionsNeverPanic == Spec => []ExtendedIsNeverLate
<1>1. MulticastInv => ExtendedIsNeverLate
  BY DEF MulticastInv
<1> QED
  BY <1>1, MulticastInvariant, PTL

\* A server releases after what it has released: shared proposals come in one order
\* everywhere (buffer.rs, is_late).
THEOREM ReleasesAreOrdered == Spec => ReleasedInOrder
<1>1. MulticastInv /\ [Next]_vars =>
        [\A s \in Servers : \A p \in released'[s] \ released[s] :
            lastReleased[s] = NoKey \/ Before(lastReleased[s], KeyOf(p))]_vars
  BY MulticastStep
<1> QED
  BY <1>1, MulticastInvariant, PTL DEF Spec, ReleasedInOrder

\* A server that has released past a proposal has released it, or got it too late.
THEOREM BuffersAgree == Spec => []NothingSkipped
<1>1. MulticastInv => NothingSkipped
  <2> SUFFICES ASSUME MulticastInv, NEW p \in proposed, NEW s \in Servers,
                      lastReleased[s] # NoKey, ~Before(lastReleased[s], KeyOf(p))
               PROVE  \/ p \in released[s] \cup gone[s]
                      \/ \E l \in late[s] : l.prop = p /\ p.deadline <= l.at
                      \/ /\ [type |-> "DomPropose", to |-> s, prop |-> p] \in network
                         /\ p.deadline <= trueTime
    BY DEF NothingSkipped
  <2>1. p \in Proposals
    BY DEF MulticastInv, Shapes
  <2>2. p.deadline <= trueTime
    BY <2>1, LateInTrueTime DEF IsLate, MulticastInv
  <2>3. p \notin early[s]
    BY DEF MulticastInv, BufferedLater
  <2>4. Placed(p, s)
    BY DEF MulticastInv, AllPlaced
  <2> QED
    BY <2>2, <2>3, <2>4 DEF Placed
<1> QED
  BY <1>1, MulticastInvariant, PTL

-----------------------------------------------------------------------------
\* Deadlines and delays.  The windows of samples do not matter: whatever is in them, the
\* estimate is cut off at MaxOwd before anybody sees it.

\* Every delay a server was told of, or will be told of by an acknowledgement under way.
DelaysBounded ==
    /\ DOMAIN outgoing = Servers
    /\ \A s \in Servers : \A r \in DOMAIN outgoing[s] : outgoing[s][r] \in 0..MaxOwd
    /\ \A m \in network : m.type = "DomAck" => m.owd \in 0..MaxOwd

DelayInv == trueTime \in Int /\ DelaysBounded /\ DeadlineWithinMaxOwd

\* What is estimated from a window is never above MaxOwd (estimate_from_window).
LEMMA EstimateBounded ==
  ASSUME NEW window
  PROVE  /\ EstimateFromWindow(window) \in 0..MaxOwd
         /\ AtLeastZero(EstimateFromWindow(window)) \in 0..MaxOwd
<1>1. MaxOwd \in Nat
  BY EstimatorAssumption
<1>2. EstimateFromWindow(window) \in {MaxOwd} \cup 1..MaxOwd
  BY DEF EstimateFromWindow
<1> QED
  BY <1>1, <1>2 DEF AtLeastZero

\* A nonempty set of delays has a largest one.
LEMMA LargestDelay ==
  ASSUME NEW known \in SUBSET (0..MaxOwd), known # {}
  PROVE  \E e \in known : \A other \in known : other <= e
<1>1. MaxOwd \in Nat
  BY EstimatorAssumption
<1> DEFINE below == {MaxOwd - e : e \in known}
<1>2. below \in SUBSET Nat /\ below # {}
  <2>1. \A e \in known : MaxOwd - e \in Nat
    BY <1>1
  <2>2. below \subseteq Nat
    BY <2>1
  <2>3. PICK e : e \in known
    OBVIOUS
  <2>4. MaxOwd - e \in below
    BY <2>3
  <2> HIDE DEF below
  <2> QED
    BY <2>2, <2>4
<1>3. PICK x \in below : \A y \in below : ~ (<<y, x>> \in OpToRel(<, Nat))
  <2> HIDE DEF below
  <2> QED
    BY <1>2, WFMin, NatLessThanWellFounded
<1>4. \A y \in below : ~(y < x)
  <2> HIDE DEF below
  <2> QED
    BY <1>2, <1>3 DEF OpToRel
<1>5. PICK e \in known : x = MaxOwd - e
  OBVIOUS
<1>6. ASSUME NEW other \in known PROVE other <= e
  <2>1. ~(MaxOwd - other < MaxOwd - e)
    BY <1>4, <1>5
  <2> QED
    BY <1>1, <2>1
<1> QED
  BY <1>6

\* get_max_owd is one of the delays, or MaxOwd while there is none.
LEMMA MaxOwdBounded ==
  ASSUME DelaysBounded, NEW s \in Servers
  PROVE  GetMaxOwd(s) \in 0..MaxOwd
<1> DEFINE known == {outgoing[s][r] : r \in DOMAIN outgoing[s]}
<1>1. CASE DOMAIN outgoing[s] = {}
  BY <1>1, EstimatorAssumption DEF GetMaxOwd
<1>2. CASE DOMAIN outgoing[s] # {}
  <2>1. known \in SUBSET (0..MaxOwd) /\ known # {}
    BY <1>2 DEF DelaysBounded
  <2>2. GetMaxOwd(s) = CHOOSE e \in known : \A other \in known : other <= e
    BY <1>2 DEF GetMaxOwd
  <2> HIDE DEF known
  <2>3. GetMaxOwd(s) \in known
    BY <2>1, <2>2, LargestDelay
  <2> QED
    BY <2>1, <2>3
<1> QED
  BY <1>1, <1>2

\* Recording a bounded delay keeps the delays bounded; the record of a server that does
\* not exist is not written.
LEMMA AckBounded ==
  ASSUME DelaysBounded, NEW s, NEW r, NEW owd, AtLeastZero(owd) \in 0..MaxOwd,
         outgoing' = [outgoing EXCEPT ![s] = Acknowledged(s, r, owd)],
         \A m \in network' : m.type = "DomAck" => m.owd \in 0..MaxOwd
  PROVE  DelaysBounded'
<1>1. DOMAIN outgoing' = Servers
  BY DEF DelaysBounded
<1>2. ASSUME NEW t \in Servers, NEW q \in DOMAIN outgoing'[t]
      PROVE  outgoing'[t][q] \in 0..MaxOwd
  <2>1. CASE t = s
    <3>1. outgoing'[t] = Acknowledged(s, r, owd)
      BY <2>1 DEF DelaysBounded
    <3> QED
      BY <1>2, <2>1, <3>1 DEF DelaysBounded, Acknowledged
  <2>2. CASE t # s
    <3>1. outgoing'[t] = outgoing[t]
      BY <2>2 DEF DelaysBounded
    <3> QED
      BY <1>2, <3>1 DEF DelaysBounded
  <2> QED
    BY <2>1, <2>2
<1> QED
  BY <1>1, <1>2 DEF DelaysBounded

\* A proposal gets its deadline from the delays the proposer knows of.
LEMMA AppendDelay ==
  ASSUME DelayInv, NEW s \in Servers, NEW id \in EntryIds, AppendWithId(s, id)
  PROVE  DelayInv'
<1>1. PICK sent, deadline, p, window :
        /\ sent \in Readings /\ deadline \in Times
        /\ p = [id |-> id, sender |-> s, sent |-> sent, deadline |-> deadline]
        /\ deadline = sent.time + GetMaxOwd(s)
        /\ proposed' = proposed \cup {p}
        /\ network' = network \cup {[type |-> "DomPropose", to |-> r, prop |-> p] : r \in Servers \ {s}}
        /\ outgoing' = [outgoing EXCEPT ![s] = Acknowledged(s, s, EstimateFromWindow(window))]
        /\ trueTime' = trueTime
  BY DEF AppendWithId
<1>2. \A m \in network' : m.type = "DomAck" => m.owd \in 0..MaxOwd
  BY <1>1 DEF DelayInv, DelaysBounded
<1>3. DelaysBounded'
  BY <1>1, <1>2, EstimateBounded, AckBounded DEF DelayInv
<1>4. p.sent.time <= p.deadline /\ p.deadline <= p.sent.time + MaxOwd
  <2>1. sent.time \in Int /\ GetMaxOwd(s) \in 0..MaxOwd /\ MaxOwd \in Nat
    BY <1>1, ReadingBounds, MaxOwdBounded, EstimatorAssumption DEF DelayInv
  <2>2. p.sent.time = sent.time /\ p.deadline = sent.time + GetMaxOwd(s)
    BY <1>1
  <2> QED
    BY <2>1, <2>2
<1> QED
  BY <1>1, <1>3, <1>4 DEF DelayInv, DeadlineWithinMaxOwd

\* Every step keeps the delays and the deadlines in their range.
LEMMA DelayStep == DelayInv /\ [Next]_vars => DelayInv'
<1> SUFFICES ASSUME DelayInv, [Next]_vars PROVE DelayInv'
  OBVIOUS
<1>1. trueTime \in Int /\ DelaysBounded /\ DeadlineWithinMaxOwd
  BY DEF DelayInv
<1>2. ASSUME UNCHANGED <<proposed, outgoing, network>>, trueTime' \in Int PROVE DelayInv'
  BY <1>1, <1>2 DEF DelayInv, DelaysBounded, DeadlineWithinMaxOwd
<1>3. CASE Pass
  BY <1>2, <1>3, MulticastAssumption DEF Pass, messages, estimates
<1>4. ASSUME NEW m \in network, ReceiveDomPropose(m) PROVE DelayInv'
  <2>1. PICK window, id, to, sender :
          /\ network' = (network \ {m}) \cup
                 {[type |-> "DomAck", to |-> to, sender |-> sender, id |-> id,
                   owd |-> EstimateFromWindow(window)]}
          /\ UNCHANGED <<trueTime, proposed, outgoing>>
    BY <1>4 DEF ReceiveDomPropose
  <2>2. EstimateFromWindow(window) \in 0..MaxOwd
    BY EstimateBounded
  <2>3. \A k \in network' : k.type = "DomAck" => k.owd \in 0..MaxOwd
    BY <1>1, <2>1, <2>2 DEF DelaysBounded
  <2> QED
    BY <1>1, <2>1, <2>3 DEF DelayInv, DelaysBounded, DeadlineWithinMaxOwd
<1>5. ASSUME NEW m \in network, ReceiveDomAck(m) PROVE DelayInv'
  <2>1. /\ outgoing' = [outgoing EXCEPT ![m.to] = Acknowledged(m.to, m.sender, m.owd)]
        /\ network' = network \ {m} /\ UNCHANGED <<trueTime, proposed>>
        /\ m.owd \in 0..MaxOwd
    BY <1>1, <1>5 DEF ReceiveDomAck, DelaysBounded
  <2>2. AtLeastZero(m.owd) \in 0..MaxOwd
    BY <2>1, EstimatorAssumption DEF AtLeastZero
  <2>3. \A k \in network' : k.type = "DomAck" => k.owd \in 0..MaxOwd
    BY <1>1, <2>1 DEF DelaysBounded
  <2>4. DelaysBounded'
    BY <1>1, <2>1, <2>2, <2>3, AckBounded
  <2> QED
    BY <1>1, <2>1, <2>4 DEF DelayInv, DeadlineWithinMaxOwd
<1>6. ASSUME NEW s \in Proposers, NEW id \in EntryIds, AppendWithId(s, id) PROVE DelayInv'
  BY <1>6, AppendDelay, MulticastAssumption
<1>7. ASSUME NEW s \in Servers, NEW id \in EntryIds, RemoveFromBuffers(s, id) PROVE DelayInv'
  BY <1>1, <1>2, <1>7 DEF RemoveFromBuffers, messages, estimates
<1>8. ASSUME NEW s \in Servers, ReleaseReady(s) PROVE DelayInv'
  BY <1>1, <1>2, <1>8 DEF ReleaseReady, messages, estimates
<1>9. ASSUME NEW s \in Servers, Restart(s) PROVE DelayInv'
  <2>1. /\ outgoing' = [outgoing EXCEPT ![s] = << >>]
        /\ UNCHANGED <<trueTime, network, proposed>>
    BY <1>9 DEF Restart, messages
  <2>2. DelaysBounded'
    <3>1. DOMAIN outgoing' = Servers /\ \A t \in Servers : outgoing'[t] = IF t = s THEN << >> ELSE outgoing[t]
      BY <1>1, <2>1 DEF DelaysBounded
    <3> QED
      BY <1>1, <2>1, <3>1 DEF DelaysBounded
  <2> QED
    BY <1>1, <2>1, <2>2 DEF DelayInv, DeadlineWithinMaxOwd
<1>10. CASE UNCHANGED vars
  BY <1>1, <1>2, <1>10 DEF vars, messages, estimates
<1> QED
  BY <1>3, <1>4, <1>5, <1>6, <1>7, <1>8, <1>9, <1>10 DEF Next, Receive

\* No deadline is further away than MaxOwd, whatever delays were measured, acknowledged,
\* lost or forgotten at a restart (get_max_owd, create_dom_propose).
THEOREM DeadlinesAreNear == Spec => []DeadlineWithinMaxOwd
<1>1. ASSUME Init PROVE DelayInv
  <2>1. /\ trueTime \in Int /\ network = {} /\ proposed = {}
        /\ outgoing = [s \in Servers |-> << >>] /\ DOMAIN << >> = {}
    BY <1>1, MulticastAssumption DEF Init
  <2>2. DelaysBounded
    BY <2>1 DEF DelaysBounded
  <2> QED
    BY <2>1, <2>2 DEF DelayInv, DeadlineWithinMaxOwd
<1>2. DelayInv => DeadlineWithinMaxOwd
  BY DEF DelayInv
<1> QED
  BY <1>1, <1>2, DelayStep, PTL DEF Spec
===============================================================================
