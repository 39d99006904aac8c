----------------------------- MODULE SessionProofs -----------------------------
(***************************************************************************)
(* Why a follower in its session holds a prefix of the leader's log, and why  *)
(* a write quorum holds what is decided, for any number of followers and any  *)
(* messages lost.  Every sequence number of a link stands for a length of the *)
(* leader's log: `top` maps the one to the other.                            *)
(***************************************************************************)
EXTENDS Session, FiniteSetTheorems, SequenceTheorems, TLAPS

SeqNum == [session : Nat, counter : Nat]
AtMost(p, q) == p.session < q.session \/ (p.session = q.session /\ p.counter <= q.counter)
Before(q) == [session |-> q.session, counter |-> q.counter - 1]

Stops == Server \cup {None}
Logs == Seq(Nat)

PromiseMsg == [type : {"Promise"}, inRound : BOOLEAN, accepted : Nat]
AcceptedMsg == [type : {"Accepted"}, accepted : Nat]
ReplyMsg == PromiseMsg \cup AcceptedMsg \cup [type : {"PrepareReq"}]
            \cup [type : {"ForwardStopSign"}, stop : Server]

AcceptSyncMsg == [type : {"AcceptSync"}, seq : SeqNum, decided : Nat,
                  sync : [idx : Nat, suffix : Logs, stop : Stops]]
AcceptDecideMsg == [type : {"AcceptDecide"}, seq : SeqNum, entries : Logs, decided : Nat]
AcceptStopSignMsg == [type : {"AcceptStopSign"}, seq : SeqNum, stop : Stops]
DecideMsg == [type : {"Decide"}, seq : SeqNum, decided : Nat]
DownMsg == [type : {"Prepare"}] \cup AcceptSyncMsg \cup AcceptDecideMsg \cup AcceptStopSignMsg
           \cup DecideMsg

Leads == [phase : {"Prepare", "Accept"}, log : Logs, stop : Stops, decided : Nat,
          promise : [Follower -> Seq(PromiseMsg)], seq : [Follower -> SeqNum],
          acc : [Server -> Nat], latest : [Follower -> Nat]]
Follows == [phase : {None, "Prepare", "Recover", "Accept"}, promised : BOOLEAN,
            inRound : BOOLEAN, log : Logs, stop : Stops, accepted : Nat, decided : Nat,
            seq : SeqNum, cached : Seq(PromiseMsg), latest : Nat, again : BOOLEAN]

\* The entries from a + 1 on; an entry is its own position.
Counts(log, a) == log \in Logs /\ \A i \in 1..Len(log) : log[i] = a + i

\* Follower w holds what an accepted index a stands for.
Holds(w, a) ==
    \/ a <= Len(w.log)
    \/ w.stop # None /\ (a <= Len(w.log) + 1 \/ w.again)

LeaderOK(ld) ==
    /\ ld \in Leads /\ Counts(ld.log, 0)
    /\ ld.phase = "Prepare" => /\ ld.log = <<>> /\ ld.stop = None
                               /\ \A f \in Follower : ld.latest[f] = 0

FollowerOK(ld, w) ==
    /\ w \in Follows /\ Counts(w.log, 0) /\ Len(w.log) <= Len(ld.log)
    /\ w.stop # None => w.stop = ld.stop /\ Len(w.log) = Len(ld.log)
    /\ Holds(w, w.accepted) /\ w.decided <= ld.decided
    /\ \A i \in 1..Len(w.cached) : Holds(w, w.cached[i].accepted)

HasPromised(ld, f) == ld.phase = "Accept" /\ ld.promise[f] # <<>>

\* The numbers of a link grow with the leader's log.
TopOK(f, ld, top) ==
    /\ top \in [SeqNum -> Nat]
    /\ \A p, q \in SeqNum : AtMost(p, q) /\ AtMost(q, ld.seq[f]) => top[p] <= top[q]
    /\ top[ld.seq[f]] <= Len(ld.log)
    /\ HasPromised(ld, f) =>
          /\ top[ld.seq[f]] = Len(ld.log) /\ ld.seq[f].counter >= 1
          /\ ld.stop # None /\ ld.seq[f].counter >= 2 => top[Before(ld.seq[f])] = Len(ld.log)

\* Where a follower in its session stands
InStep(f, ld, w, top) ==
    w.phase = "Accept" =>
        w.seq.counter >= 1 /\ AtMost(w.seq, ld.seq[f]) /\ Len(w.log) = top[w.seq]

SyncFits(ld, w, top, m) ==
    /\ m.decided <= ld.decided /\ Holds(w, m.sync.idx) /\ Counts(m.sync.suffix, m.sync.idx)
    /\ Len(m.sync.suffix) = IF m.sync.idx <= top[m.seq] THEN top[m.seq] - m.sync.idx ELSE 0
    /\ m.sync.stop # None => m.sync.stop = ld.stop /\ top[m.seq] = Len(ld.log)
    /\ w.stop # None => m.sync.stop # None

\* A message on its way to a follower is what its number stands for.
MsgFits(f, ld, w, top, m) ==
    /\ m \in DownMsg
    /\ m.type # "Prepare" =>
          m.seq.counter >= 1 /\ AtMost(m.seq, ld.seq[f]) /\ Len(w.log) <= top[m.seq]
    /\ m.type = "AcceptSync" => SyncFits(ld, w, top, m)
    /\ m.type = "AcceptDecide" =>
          /\ m.seq.counter >= 2 /\ m.decided <= ld.decided
          /\ Counts(m.entries, top[Before(m.seq)])
          /\ top[m.seq] = top[Before(m.seq)] + Len(m.entries)
    /\ m.type = "AcceptStopSign" =>
          /\ m.stop = ld.stop /\ ld.stop # None
          /\ m.seq.counter >= 2 => top[Before(m.seq)] = Len(ld.log)
    /\ m.type = "Decide" =>
          /\ m.decided <= ld.decided
          /\ m.seq.counter >= 2 => top[Before(m.seq)] = top[m.seq]

Carries(m) == m.type = "AcceptStopSign" \/ (m.type = "AcceptSync" /\ m.sync.stop # None)

\* One message is sent before another.
InOrder(ld, m, n) ==
    /\ m.type # "Prepare" /\ n.type # "Prepare" =>
          AtMost(m.seq, n.seq) /\ (ld.stop = None => m.seq # n.seq)
    /\ Carries(m) /\ n.type = "AcceptSync" => Carries(n)

\* What is on its way to the follower of a link, oldest first
PipeOK(f, ld, w, top, p) ==
    /\ p \in Seq(DownMsg)
    /\ \A i \in 1..Len(p) : MsgFits(f, ld, w, top, p[i])
    /\ \A i, j \in 1..Len(p) : i < j => InOrder(ld, p[i], p[j])

\* The message that later entries join has the last number.
MergeOK(f, ld, w, ot) ==
    ld.latest[f] # 0 =>
        /\ HasPromised(ld, f) /\ ld.latest[f] \in 1..Len(ot)
        /\ ot[ld.latest[f]].type = "AcceptDecide"
        /\ ld.stop = None =>
              /\ ld.latest[f] = Len(ot) /\ ot[Len(ot)].seq = ld.seq[f]
              /\ w.phase = "Accept" => w.seq # ld.seq[f]

Held(w, m) == m.type \in {"Promise", "Accepted"} => Holds(w, m.accepted)

RepliesOK(w, r) == r \in Seq(ReplyMsg) /\ \A i \in 1..Len(r) : Held(w, r[i])

\* What the leader, the way back and the follower's answers say that the follower holds
UpOK(f, ld, w, us, rs) ==
    /\ RepliesOK(w, us) /\ RepliesOK(w, rs)
    /\ w.latest # 0 => w.latest \in 1..Len(rs) /\ rs[w.latest].type = "Accepted"
    /\ Holds(w, ld.acc[f]) /\ \A i \in 1..Len(ld.promise[f]) : Holds(w, ld.promise[f][i].accepted)

DownOK(f, ld, w, dn, ot, top) ==
    /\ FollowerOK(ld, w) /\ TopOK(f, ld, top) /\ InStep(f, ld, w, top)
    /\ dn \in Seq(DownMsg) /\ ot \in Seq(DownMsg) /\ PipeOK(f, ld, w, top, dn \o ot)
    /\ MergeOK(f, ld, w, ot)

Linked(f, ld, w, dn, ot) == \E top : DownOK(f, ld, w, dn, ot, top)

LinkOK(f) == Linked(f, lead, foll[f], down[f], out[f]) /\ UpOK(f, lead, foll[f], up[f], reply[f])

Holders(a) == {f \in Follower : Holds(foll[f], a)}

DecidedOK == lead.decided = 0 \/ IsAcceptQuorum(Quorum, Cardinality(Holders(lead.decided)) + 1)

SessionInv ==
    /\ LeaderOK(lead) /\ buffered \in [Server -> Stops]
    /\ DOMAIN foll = Follower /\ DOMAIN down = Follower /\ DOMAIN out = Follower
    /\ DOMAIN up = Follower /\ DOMAIN reply = Follower
    /\ \A f \in Follower : LinkOK(f)
    /\ DecidedOK

--------------------------------------------------------------------------------
(* A link: what is kept while the follower's or the leader's log grows *)

\* A follower never holds less than before.
Grows(w, v) ==
    /\ Len(w.log) <= Len(v.log)
    /\ w.stop # None => v.stop # None
    /\ w.again => v.again

\* What a follower holds it goes on holding.
LEMMA HoldsKept ==
    ASSUME NEW w \in Follows, NEW v \in Follows, Grows(w, v), NEW a \in Nat, Holds(w, a)
    PROVE  Holds(v, a)
<1>1. Len(w.log) \in Nat /\ Len(v.log) \in Nat
    BY DEF Follows, Logs
<1> QED BY <1>1 DEF Holds, Grows

\* The fields of a message that has a number.
LEMMA DownFields ==
    ASSUME NEW m \in DownMsg
    PROVE  /\ m.type \in {"Prepare", "AcceptSync", "AcceptDecide", "AcceptStopSign", "Decide"}
           /\ m.type # "Prepare" => m.seq \in SeqNum
           /\ m.type = "AcceptSync" =>
                 /\ m.decided \in Nat /\ m.sync.idx \in Nat /\ m.sync.suffix \in Logs
                 /\ m.sync.stop \in Stops /\ m \in AcceptSyncMsg
           /\ m.type = "AcceptDecide" =>
                 m.decided \in Nat /\ m.entries \in Logs /\ m \in AcceptDecideMsg
           /\ m.type = "AcceptStopSign" => m.stop \in Stops
           /\ m.type = "Decide" => m.decided \in Nat
BY DEF DownMsg, AcceptSyncMsg, AcceptDecideMsg, AcceptStopSignMsg, DecideMsg

\* The number before one that is not the first of a session is a number, and less.
LEMMA BeforeFacts ==
    ASSUME NEW q \in SeqNum, q.counter >= 1
    PROVE  /\ Before(q) \in SeqNum /\ AtMost(Before(q), q) /\ Before(q) # q
           /\ Before(q).session = q.session /\ Before(q).counter = q.counter - 1
BY DEF SeqNum, Before, AtMost

\* Numbers are ordered.
LEMMA AtMostFacts ==
    ASSUME NEW p \in SeqNum, NEW q \in SeqNum, NEW r \in SeqNum
    PROVE  /\ AtMost(p, p) /\ (AtMost(p, q) /\ AtMost(q, r) => AtMost(p, r))
           /\ AtMost(p, q) \/ AtMost(q, p)
           /\ AtMost(p, q) /\ AtMost(q, p) => p = q
BY DEF SeqNum, AtMost

\* How a step of the leader may change what a link sees of it.
LeadGrows(f, ld, l2) ==
    /\ Len(ld.log) <= Len(l2.log) /\ ld.decided <= l2.decided
    /\ ld.stop # None => l2.stop = ld.stop /\ Len(l2.log) = Len(ld.log)
    /\ AtMost(ld.seq[f], l2.seq[f])

\* The numbers used so far keep their meaning.
Agree(f, ld, top, t2) ==
    t2 \in [SeqNum -> Nat] /\ \A q \in SeqNum : AtMost(q, ld.seq[f]) => t2[q] = top[q]

\* A follower is not disturbed by a step of the leader.
LEMMA FollowerKept ==
    ASSUME NEW f \in Follower, NEW ld \in Leads, NEW l2 \in Leads, NEW w \in Follows,
           LeadGrows(f, ld, l2), FollowerOK(ld, w)
    PROVE  FollowerOK(l2, w)
<1>1. /\ Len(w.log) \in Nat /\ Len(ld.log) \in Nat /\ Len(l2.log) \in Nat
      /\ w.decided \in Nat /\ ld.decided \in Nat /\ l2.decided \in Nat
    BY DEF Follows, Leads, Logs
<1>2. w.stop # None => ld.stop # None
    BY DEF FollowerOK
<1> QED BY <1>1, <1>2 DEF FollowerOK, LeadGrows

\* A message on its way is not disturbed by a step of the leader.
LEMMA MsgKept ==
    ASSUME NEW f \in Follower, NEW ld \in Leads, NEW l2 \in Leads, NEW w \in Follows,
           NEW top \in [SeqNum -> Nat], NEW t2, NEW m,
           LeadGrows(f, ld, l2), Agree(f, ld, top, t2), MsgFits(f, ld, w, top, m)
    PROVE  MsgFits(f, l2, w, t2, m)
<1>1. /\ Len(ld.log) \in Nat /\ Len(l2.log) \in Nat /\ ld.decided \in Nat /\ l2.decided \in Nat
      /\ ld.seq[f] \in SeqNum /\ l2.seq[f] \in SeqNum
    BY DEF Leads, Logs
<1>2. m \in DownMsg
    BY DEF MsgFits
<1>3. CASE m.type = "Prepare"
    BY <1>2, <1>3 DEF MsgFits
<1>4. CASE m.type # "Prepare"
    <2>1. m.seq \in SeqNum /\ m.seq.counter >= 1 /\ AtMost(m.seq, ld.seq[f])
        BY <1>2, <1>4, DownFields DEF MsgFits
    <2>2. t2[m.seq] = top[m.seq] /\ AtMost(m.seq, l2.seq[f])
        BY <1>1, <2>1, AtMostFacts DEF Agree, LeadGrows
    <2>3. Before(m.seq) \in SeqNum /\ AtMost(Before(m.seq), ld.seq[f])
        BY <1>1, <2>1, AtMostFacts, BeforeFacts
    <2>4. t2[Before(m.seq)] = top[Before(m.seq)]
        BY <2>3 DEF Agree
    <2>5. m.type = "AcceptSync" => SyncFits(l2, w, t2, m)
        BY SMTT(30), <1>1, <1>2, <2>2, DownFields DEF MsgFits, SyncFits, LeadGrows
    <2>6. m.type = "AcceptDecide" =>
              /\ m.seq.counter >= 2 /\ m.decided <= l2.decided
              /\ Counts(m.entries, t2[Before(m.seq)])
              /\ t2[m.seq] = t2[Before(m.seq)] + Len(m.entries)
        BY SMTT(30), <1>1, <1>2, <2>2, <2>4, DownFields DEF MsgFits, LeadGrows
    <2>7. m.type = "AcceptStopSign" =>
              /\ m.stop = l2.stop /\ l2.stop # None
              /\ m.seq.counter >= 2 => t2[Before(m.seq)] = Len(l2.log)
        BY <2>4 DEF MsgFits, LeadGrows
    <2>8. m.type = "Decide" =>
              /\ m.decided <= l2.decided
              /\ m.seq.counter >= 2 => t2[Before(m.seq)] = t2[m.seq]
        BY <1>1, <1>2, <2>2, <2>4, DownFields DEF MsgFits, LeadGrows
    <2> QED BY <1>2, <1>4, <2>1, <2>2, <2>5, <2>6, <2>7, <2>8 DEF MsgFits
<1> QED BY <1>3, <1>4

\* Nor is the order of the messages.
LEMMA PipeKept ==
    ASSUME NEW f \in Follower, NEW ld \in Leads, NEW l2 \in Leads, NEW w \in Follows,
           NEW top \in [SeqNum -> Nat], NEW t2, NEW p,
           LeadGrows(f, ld, l2), Agree(f, ld, top, t2), PipeOK(f, ld, w, top, p)
    PROVE  PipeOK(f, l2, w, t2, p)
<1>1. \A i \in 1..Len(p) : MsgFits(f, l2, w, t2, p[i])
    BY MsgKept DEF PipeOK
<1>2. l2.stop = None => ld.stop = None
    BY DEF LeadGrows
<1>3. \A i, j \in 1..Len(p) : i < j => InOrder(l2, p[i], p[j])
    BY <1>2 DEF PipeOK, InOrder
<1> QED BY <1>1, <1>3 DEF PipeOK

\* A message is put behind the others.
LEMMA PipeAppend ==
    ASSUME NEW f \in Follower, NEW ld, NEW w, NEW top, NEW p, NEW m,
           PipeOK(f, ld, w, top, p), MsgFits(f, ld, w, top, m),
           \A i \in 1..Len(p) : InOrder(ld, p[i], m)
    PROVE  PipeOK(f, ld, w, top, Append(p, m))
<1>1. p \in Seq(DownMsg) /\ m \in DownMsg
    BY DEF PipeOK, MsgFits
<1>2. PICK r : r = Append(p, m)
    OBVIOUS
<1>3. /\ r \in Seq(DownMsg) /\ Len(r) = Len(p) + 1 /\ Len(p) \in Nat
      /\ \A i \in 1..Len(p) : r[i] = p[i]
      /\ r[Len(p) + 1] = m
    BY <1>1, <1>2, AppendProperties, LenProperties
<1>4. \A i \in 1..Len(r) : MsgFits(f, ld, w, top, r[i])
    <2> SUFFICES ASSUME NEW i \in 1..Len(r) PROVE MsgFits(f, ld, w, top, r[i])
        OBVIOUS
    <2>1. CASE i \in 1..Len(p)
        BY <1>3, <2>1 DEF PipeOK
    <2>2. CASE i = Len(p) + 1
        BY <1>3, <2>2
    <2> QED BY <1>3, <2>1, <2>2
<1>5. \A i, j \in 1..Len(r) : i < j => InOrder(ld, r[i], r[j])
    <2> SUFFICES ASSUME NEW i \in 1..Len(r), NEW j \in 1..Len(r), i < j
                 PROVE  InOrder(ld, r[i], r[j])
        OBVIOUS
    <2>1. i \in 1..Len(p) /\ r[i] = p[i]
        BY <1>3
    <2>2. CASE j \in 1..Len(p)
        BY <1>3, <2>1, <2>2 DEF PipeOK
    <2>3. CASE j = Len(p) + 1
        BY <1>3, <2>1, <2>3
    <2> QED BY <1>3, <2>2, <2>3
<1>6. PipeOK(f, ld, w, top, r)
    BY <1>3, <1>4, <1>5 DEF PipeOK
<1> QED BY <1>2, <1>6

\* What a follower takes over from a message: at most what the message stands for.
Takes(w, v, top, m) ==
    /\ Grows(w, v)
    /\ Len(v.log) = Len(w.log) \/ (m.type # "Prepare" /\ Len(v.log) <= top[m.seq])
    /\ v.stop = None \/ w.stop # None \/ Carries(m)

\* The messages behind the one that the follower handles still fit.
LEMMA PipeTail ==
    ASSUME NEW f \in Follower, NEW ld \in Leads, NEW w \in Follows, NEW v \in Follows, NEW top,
           NEW p, TopOK(f, ld, top), PipeOK(f, ld, w, top, p), p # <<>>, Takes(w, v, top, p[1])
    PROVE  PipeOK(f, ld, v, top, Tail(p))
<1>1. p \in Seq(DownMsg) /\ top \in [SeqNum -> Nat]
    BY DEF PipeOK, TopOK
<1>2. PICK r : r = Tail(p)
    OBVIOUS
<1>3. /\ r \in Seq(DownMsg) /\ Len(r) = Len(p) - 1 /\ Len(p) \in Nat /\ Len(p) >= 1
      /\ \A i \in 1..Len(r) : r[i] = p[i + 1]
    BY <1>1, <1>2, HeadTailProperties, LenProperties, EmptySeq
<1>4. Len(w.log) \in Nat /\ Len(v.log) \in Nat
    BY DEF Follows, Logs
<1>5. ASSUME NEW i \in 1..Len(r) PROVE MsgFits(f, ld, v, top, r[i])
    <2>1. PICK m : m = r[i]
        OBVIOUS
    <2>2. /\ m = p[i + 1] /\ i + 1 \in 1..Len(p) /\ 1 \in 1..Len(p) /\ 1 < i + 1
        BY <1>3, <2>1
    <2>3. /\ MsgFits(f, ld, w, top, m) /\ InOrder(ld, p[1], m) /\ MsgFits(f, ld, w, top, p[1])
        BY <2>2 DEF PipeOK
    <2>4. m \in DownMsg /\ p[1] \in DownMsg
        BY <2>3 DEF MsgFits
    <2>5. ASSUME m.type # "Prepare" PROVE Len(v.log) <= top[m.seq]
        <3>1. m.seq \in SeqNum /\ AtMost(m.seq, ld.seq[f]) /\ Len(w.log) <= top[m.seq]
            BY <2>3, <2>4, <2>5, DownFields DEF MsgFits
        <3>2. CASE Len(v.log) = Len(w.log)
            BY <3>1, <3>2
        <3>3. CASE p[1].type # "Prepare" /\ Len(v.log) <= top[p[1].seq]
            <4>1. p[1].seq \in SeqNum /\ AtMost(p[1].seq, m.seq)
                BY <2>3, <2>4, <2>5, <3>3, DownFields DEF InOrder
            <4>2. top[p[1].seq] <= top[m.seq] /\ top[p[1].seq] \in Nat /\ top[m.seq] \in Nat
                BY <1>1, <3>1, <4>1 DEF TopOK
            <4> QED BY <1>4, <3>3, <4>2
        <3> QED BY <3>2, <3>3 DEF Takes
    <2>6. ASSUME m.type = "AcceptSync" PROVE SyncFits(ld, v, top, m)
        <3>1. SyncFits(ld, w, top, m) /\ m.sync.idx \in Nat
            BY <2>3, <2>4, <2>6, DownFields DEF MsgFits
        <3>2. Holds(v, m.sync.idx)
            BY <3>1, HoldsKept DEF SyncFits, Takes
        <3>3. v.stop # None => m.sync.stop # None
            BY <2>3, <2>6, <3>1 DEF InOrder, Carries, SyncFits, Takes
        <3> QED BY <3>1, <3>2, <3>3 DEF SyncFits
    <2>7. MsgFits(f, ld, v, top, m)
        BY <2>3, <2>5, <2>6 DEF MsgFits
    <2> QED BY <2>1, <2>7
<1>6. \A i, j \in 1..Len(r) : i < j => InOrder(ld, r[i], r[j])
    <2> SUFFICES ASSUME NEW i \in 1..Len(r), NEW j \in 1..Len(r), i < j
                 PROVE  InOrder(ld, r[i], r[j])
        OBVIOUS
    <2>1. /\ r[i] = p[i + 1] /\ r[j] = p[j + 1] /\ i + 1 < j + 1
          /\ i + 1 \in 1..Len(p) /\ j + 1 \in 1..Len(p)
        BY <1>3
    <2> QED BY <2>1 DEF PipeOK
<1>7. PipeOK(f, ld, v, top, r)
    BY <1>3, <1>5, <1>6 DEF PipeOK
<1> QED BY <1>2, <1>7

\* What was said of the follower still holds of it.
LEMMA RepliesKept ==
    ASSUME NEW w \in Follows, NEW v \in Follows, Grows(w, v), NEW r, RepliesOK(w, r)
    PROVE  RepliesOK(v, r)
<1> SUFFICES ASSUME NEW i \in 1..Len(r) PROVE Held(v, r[i])
    BY DEF RepliesOK
<1>1. r[i] \in ReplyMsg /\ Held(w, r[i])
    BY ElementOfSeq DEF RepliesOK
<1>2. r[i].type \in {"Promise", "Accepted"} => r[i].accepted \in Nat
    BY <1>1 DEF ReplyMsg, PromiseMsg, AcceptedMsg
<1> QED BY <1>1, <1>2, HoldsKept DEF Held

\* Answers are put behind the others.
LEMMA RepliesConcat ==
    ASSUME NEW w, NEW r, NEW s, RepliesOK(w, r), RepliesOK(w, s)
    PROVE  RepliesOK(w, r \o s)
<1>1. PICK t : t = r \o s
    OBVIOUS
<1>2. /\ t \in Seq(ReplyMsg) /\ Len(t) = Len(r) + Len(s) /\ Len(r) \in Nat /\ Len(s) \in Nat
      /\ \A i \in 1..Len(t) : t[i] = IF i <= Len(r) THEN r[i] ELSE s[i - Len(r)]
    BY <1>1, ConcatProperties, LenProperties DEF RepliesOK
<1>3. ASSUME NEW i \in 1..Len(t) PROVE Held(w, t[i])
    <2>1. CASE i <= Len(r)
        BY <1>2, <2>1 DEF RepliesOK
    <2>2. CASE ~(i <= Len(r))
        <3>1. i - Len(r) \in 1..Len(s) /\ t[i] = s[i - Len(r)]
            BY <1>2, <2>2
        <3> QED BY <3>1 DEF RepliesOK
    <2> QED BY <2>1, <2>2
<1> QED BY <1>1, <1>2, <1>3 DEF RepliesOK

\* The first answer is taken.
LEMMA RepliesTail ==
    ASSUME NEW w, NEW r, RepliesOK(w, r), r # <<>>
    PROVE  RepliesOK(w, Tail(r)) /\ Head(r) \in ReplyMsg /\ Held(w, Head(r))
<1>1. PICK t : t = Tail(r)
    OBVIOUS
<1>2. /\ t \in Seq(ReplyMsg) /\ Len(t) = Len(r) - 1 /\ Len(r) \in Nat /\ Len(r) >= 1
      /\ \A i \in 1..Len(t) : t[i] = r[i + 1]
      /\ Head(r) \in ReplyMsg
    BY <1>1, HeadTailProperties, LenProperties, EmptySeq DEF RepliesOK
<1>3. Head(r) = r[1]
    BY <1>2
<1>4. Held(w, r[1])
    BY <1>2 DEF RepliesOK
<1>5. \A i \in 1..Len(t) : Held(w, t[i])
    BY <1>2 DEF RepliesOK
<1> QED BY <1>1, <1>2, <1>3, <1>4, <1>5 DEF RepliesOK

--------------------------------------------------------------------------------
(* The follower *)

\* The follower w has become v when it has handled m.
Handles(f, ld, w, v, top, m) ==
    /\ v \in Follows /\ Takes(w, v, top, m) /\ FollowerOK(ld, v) /\ InStep(f, ld, v, top)
    /\ v.phase = "Accept" => \/ w.phase = "Accept" /\ v.seq = w.seq
                             \/ m.type # "Prepare" /\ v.seq = m.seq

\* The lesser of two numbers
LEMMA MinFacts ==
    ASSUME NEW a \in Nat, NEW b \in Nat
    PROVE  /\ Min({a, b}) \in Nat /\ Min({a, b}) <= a /\ Min({a, b}) <= b
           /\ a <= b => Min({a, b}) = a
           /\ b <= a => Min({a, b}) = b
<1>1. \E x \in {a, b} : \A y \in {a, b} : x <= y
    OBVIOUS
<1>2. Min({a, b}) \in {a, b} /\ \A y \in {a, b} : Min({a, b}) <= y
    BY <1>1 DEF Min
<1> QED BY <1>2

\* Entries that go on where the log ends
LEMMA CountsConcat ==
    ASSUME NEW s, NEW t, Counts(s, 0), Counts(t, Len(s))
    PROVE  Counts(s \o t, 0) /\ Len(s \o t) = Len(s) + Len(t)
<1>1. s \in Seq(Nat) /\ t \in Seq(Nat) /\ Len(s) \in Nat /\ Len(t) \in Nat
    BY LenProperties DEF Counts, Logs
<1>2. PICK r : r = s \o t
    OBVIOUS
<1>3. /\ r \in Seq(Nat) /\ Len(r) = Len(s) + Len(t)
      /\ \A i \in 1..Len(s) + Len(t) : r[i] = IF i <= Len(s) THEN s[i] ELSE t[i - Len(s)]
    BY <1>1, <1>2, ConcatProperties
<1>4. ASSUME NEW i \in 1..Len(r) PROVE r[i] = 0 + i
    <2>1. CASE i <= Len(s)
        <3>1. i \in 1..Len(s) /\ r[i] = s[i]
            BY <1>1, <1>3, <2>1
        <3> QED BY <3>1 DEF Counts
    <2>2. CASE ~(i <= Len(s))
        <3>1. i - Len(s) \in 1..Len(t) /\ r[i] = t[i - Len(s)]
            BY <1>1, <1>3, <2>2
        <3>2. t[i - Len(s)] = Len(s) + (i - Len(s))
            BY <3>1 DEF Counts
        <3> QED BY <1>1, <3>1, <3>2
    <2> QED BY <2>1, <2>2
<1> QED BY <1>2, <1>3, <1>4 DEF Counts, Logs

\* v is w but for the decided index, which is at most idx if it is new.
Updated(w, v, idx) ==
    /\ v \in Follows /\ v.phase = w.phase /\ v.log = w.log /\ v.stop = w.stop
    /\ v.accepted = w.accepted /\ v.seq = w.seq /\ v.cached = w.cached
    /\ v.latest = w.latest /\ v.again = w.again
    /\ v.decided = w.decided \/ v.decided <= idx

\* update_decided_idx_and_get_accepted_idx changes nothing but the decided index.
LEMMA UpdateDecidedFacts ==
    ASSUME NEW st \in Follows, NEW idx \in Nat, NEW v, v = UpdateDecided(st, idx)
    PROVE  Updated(st, v, idx)
<1>1. PICK d : d = IF idx <= st.decided THEN st.decided ELSE Min({idx, st.accepted})
    OBVIOUS
<1>2. d \in Nat /\ (d = st.decided \/ d <= idx)
    BY <1>1, MinFacts DEF Follows
<1>3. v = [st EXCEPT !.decided = d]
    BY <1>1 DEF UpdateDecided
<1> QED BY <1>2, <1>3 DEF Follows, Updated

\* The message that the follower expects stands for what comes next.
LEMMA ExpectedIsNext ==
    ASSUME NEW f \in Follower, NEW ld \in Leads, NEW w \in Follows, NEW top, NEW m,
           FollowerOK(ld, w), TopOK(f, ld, top), InStep(f, ld, w, top),
           MsgFits(f, ld, w, top, m), m.type # "Prepare",
           w.phase = "Accept", Expected(w.seq, m.seq)
    PROVE  /\ m \in DownMsg /\ m.seq \in SeqNum /\ m.seq.counter >= 2 /\ Before(m.seq) = w.seq
           /\ AtMost(m.seq, ld.seq[f])
           /\ Len(w.log) = top[Before(m.seq)] /\ top[m.seq] \in Nat
           /\ Len(w.log) <= top[m.seq] /\ top[m.seq] <= Len(ld.log)
<1>1. m \in DownMsg /\ m.seq \in SeqNum /\ w.seq \in SeqNum /\ ld.seq[f] \in SeqNum
    BY DownFields DEF MsgFits, Follows, Leads
<1>2. w.seq.counter >= 1 /\ Len(w.log) = top[w.seq]
    BY DEF InStep
<1>3. m.seq.counter >= 2 /\ Before(m.seq) = w.seq
    BY <1>1, <1>2 DEF Expected, Before, SeqNum
<1>4. AtMost(m.seq, ld.seq[f]) /\ Len(w.log) <= top[m.seq]
    BY DEF MsgFits
<1>5. /\ top[m.seq] \in Nat /\ top[ld.seq[f]] \in Nat /\ Len(ld.log) \in Nat
      /\ top[m.seq] <= top[ld.seq[f]] /\ top[ld.seq[f]] <= Len(ld.log)
    BY <1>1, <1>4, AtMostFacts DEF TopOK, Leads, Logs
<1> QED BY <1>1, <1>2, <1>3, <1>4, <1>5

\* The follower v that stands where the number of m does, and holds what m carries.
Advances(ld, w, v, top, m) ==
    /\ v.phase = "Accept" /\ v.seq = m.seq /\ Counts(v.log, 0) /\ Len(v.log) = top[m.seq]
    /\ w.stop # None => v.stop # None
    /\ v.stop # None => /\ v.stop = ld.stop /\ Len(v.log) = Len(ld.log)
                        /\ w.stop # None \/ Carries(m)
    /\ w.again => v.again
    /\ Holds(v, v.accepted) /\ v.decided <= ld.decided
    /\ v.cached = w.cached \/ v.cached = <<>>

\* Who advances to the number of a message has handled it.
LEMMA AdvanceHandles ==
    ASSUME NEW f \in Follower, NEW ld \in Leads, NEW w \in Follows, NEW v \in Follows, NEW top,
           NEW m, FollowerOK(ld, w), TopOK(f, ld, top), MsgFits(f, ld, w, top, m),
           m.type # "Prepare", Advances(ld, w, v, top, m)
    PROVE  Handles(f, ld, w, v, top, m)
<1>1. /\ m.seq \in SeqNum /\ m.seq.counter >= 1 /\ AtMost(m.seq, ld.seq[f])
      /\ Len(w.log) <= top[m.seq] /\ ld.seq[f] \in SeqNum
    BY DownFields DEF MsgFits, Leads
<1>2. /\ top[m.seq] \in Nat /\ top[ld.seq[f]] \in Nat /\ Len(ld.log) \in Nat
      /\ top[m.seq] <= top[ld.seq[f]] /\ top[ld.seq[f]] <= Len(ld.log)
    BY <1>1, AtMostFacts DEF TopOK, Leads, Logs
<1>3. Len(v.log) = top[m.seq] /\ Len(w.log) \in Nat
    BY DEF Advances, Follows, Logs
<1>4. Grows(w, v)
    BY <1>1, <1>3 DEF Grows, Advances
<1>5. Takes(w, v, top, m)
    BY <1>1, <1>2, <1>3, <1>4 DEF Takes, Advances
<1>6. ASSUME NEW i \in 1..Len(v.cached) PROVE Holds(v, v.cached[i].accepted)
    <2>1. v.cached = w.cached
        BY DEF Advances
    <2>2. v.cached[i] \in PromiseMsg /\ Holds(w, v.cached[i].accepted)
        BY <2>1 DEF FollowerOK, Follows
    <2>3. v.cached[i].accepted \in Nat
        BY <2>2 DEF PromiseMsg
    <2> QED BY <1>4, <2>2, <2>3, HoldsKept
<1>7. Len(v.log) <= Len(ld.log)
    BY <1>2, <1>3
<1>8. FollowerOK(ld, v)
    BY <1>6, <1>7 DEF FollowerOK, Advances
<1>9. InStep(f, ld, v, top)
    BY <1>1 DEF InStep, Advances
<1> QED BY <1>5, <1>8, <1>9 DEF Handles, Advances

\* handle_acceptdecide: the entries continue the follower's log.
LEMMA TakesEntries ==
    ASSUME NEW f \in Follower, NEW ld \in Leads, NEW w \in Follows, NEW top, NEW m,
           FollowerOK(ld, w), TopOK(f, ld, top), InStep(f, ld, w, top),
           MsgFits(f, ld, w, top, m), m.type = "AcceptDecide",
           w.phase = "Accept", Expected(w.seq, m.seq),
           NEW n, n = Len(m.entries), NEW log, log = w.log \o m.entries,
           NEW v \in Follows, v.phase = "Accept", v.seq = m.seq, v.log = log,
           v.stop = w.stop, v.accepted = w.accepted + n, v.cached = w.cached,
           w.again => v.again, v.decided = w.decided \/ v.decided <= m.decided
    PROVE  Handles(f, ld, w, v, top, m)
<1>1. /\ m.seq \in SeqNum /\ AtMost(m.seq, ld.seq[f]) /\ m.seq.counter >= 2
      /\ Len(w.log) = top[Before(m.seq)] /\ top[m.seq] \in Nat /\ Len(w.log) <= top[m.seq]
      /\ top[m.seq] <= Len(ld.log) /\ m \in DownMsg
    BY ExpectedIsNext
<1>2. /\ m.decided \in Nat /\ m.decided <= ld.decided /\ m.entries \in Logs
      /\ Counts(m.entries, Len(w.log)) /\ top[m.seq] = top[Before(m.seq)] + Len(m.entries)
    BY <1>1, DownFields DEF MsgFits
<1>3. Counts(w.log, 0) /\ w.decided <= ld.decided /\ Holds(w, w.accepted)
    BY DEF FollowerOK
<1>4. Counts(log, 0) /\ Len(log) = Len(w.log) + Len(m.entries)
    BY <1>2, <1>3, CountsConcat
<1>5. Len(log) = top[m.seq]
    BY <1>1, <1>2, <1>4
<1>6. v.decided <= ld.decided
    BY SMTT(30), <1>2, <1>3 DEF Follows, Leads
<1>7. Len(w.log) \in Nat /\ Len(ld.log) \in Nat /\ w.accepted \in Nat /\ n \in Nat
    BY SMTT(60), <1>2 DEF Follows, Leads, Logs
<1>8. w.stop # None => Len(w.log) = Len(ld.log)
    BY DEF FollowerOK
<1>9. w.stop # None => n = 0 /\ Len(log) = Len(ld.log)
    BY <1>1, <1>2, <1>5, <1>7, <1>8
<1>10. Holds(v, v.accepted)
    <2>1. CASE w.stop = None
        <3>1. w.accepted <= Len(w.log)
            BY <1>3, <2>1 DEF Holds
        <3>2. w.accepted + n <= top[m.seq]
            BY <1>1, <1>2, <1>7, <3>1
        <3> QED BY <1>5, <3>2 DEF Holds
    <2>2. CASE w.stop # None
        BY <1>1, <1>3, <1>5, <1>7, <1>8, <1>9, <2>2 DEF Holds
    <2> QED BY <2>1, <2>2
<1>11. v.stop # None => v.stop = ld.stop /\ Len(v.log) = Len(ld.log) /\ w.stop # None
    BY <1>9 DEF FollowerOK
<1>12. Advances(ld, w, v, top, m)
    BY <1>4, <1>5, <1>6, <1>10, <1>11 DEF Advances
<1> QED BY <1>12, AdvanceHandles

\* handle_accept_stopsign: the stop sign comes after all entries.
LEMMA TakesStopSign ==
    ASSUME NEW f \in Follower, NEW ld \in Leads, NEW w \in Follows, NEW top, NEW m,
           FollowerOK(ld, w), TopOK(f, ld, top), InStep(f, ld, w, top),
           MsgFits(f, ld, w, top, m), m.type = "AcceptStopSign",
           w.phase = "Accept", Expected(w.seq, m.seq),
           NEW v \in Follows, v.phase = "Accept", v.seq = m.seq, v.log = w.log,
           v.stop = m.stop, v.cached = w.cached, w.again => v.again, v.decided = w.decided,
           v.accepted = IF w.stop = None THEN w.accepted + 1 ELSE w.accepted
    PROVE  Handles(f, ld, w, v, top, m)
<1>1. /\ m.seq \in SeqNum /\ m.seq.counter >= 2
      /\ Len(w.log) = top[Before(m.seq)] /\ top[m.seq] \in Nat /\ Len(w.log) <= top[m.seq]
      /\ top[m.seq] <= Len(ld.log)
    BY ExpectedIsNext
<1>2. m.stop = ld.stop /\ ld.stop # None /\ top[Before(m.seq)] = Len(ld.log)
    BY <1>1 DEF MsgFits
<1>3. Len(w.log) \in Nat /\ Len(ld.log) \in Nat /\ w.accepted \in Nat
    BY DEF Follows, Leads, Logs
<1>4. Len(v.log) = top[m.seq] /\ Len(v.log) = Len(ld.log)
    BY <1>1, <1>2, <1>3
<1>5. Counts(w.log, 0) /\ Holds(w, w.accepted) /\ w.decided <= ld.decided
    BY DEF FollowerOK
<1>6. Holds(v, v.accepted)
    <2>1. CASE w.stop = None
        BY <1>2, <1>3, <1>5, <2>1 DEF Holds
    <2>2. CASE w.stop # None
        BY <1>2, <1>5, <2>2 DEF Holds
    <2> QED BY <2>1, <2>2
<1>7. Advances(ld, w, v, top, m)
    BY <1>2, <1>4, <1>5, <1>6 DEF Advances, Carries
<1> QED BY <1>7, AdvanceHandles

\* handle_decide: the log stays.
LEMMA TakesDecide ==
    ASSUME NEW f \in Follower, NEW ld \in Leads, NEW w \in Follows, NEW top, NEW m,
           FollowerOK(ld, w), TopOK(f, ld, top), InStep(f, ld, w, top),
           MsgFits(f, ld, w, top, m), m.type = "Decide",
           w.phase = "Accept", Expected(w.seq, m.seq),
           NEW v \in Follows, v.phase = "Accept", v.seq = m.seq, v.log = w.log,
           v.stop = w.stop, v.cached = w.cached, w.again => v.again, v.accepted = w.accepted,
           v.decided = w.decided \/ v.decided <= m.decided
    PROVE  Handles(f, ld, w, v, top, m)
<1>1. /\ m \in DownMsg /\ m.seq.counter >= 2 /\ Len(w.log) = top[Before(m.seq)]
    BY ExpectedIsNext
<1>2. m.decided \in Nat /\ m.decided <= ld.decided /\ top[Before(m.seq)] = top[m.seq]
    BY <1>1, DownFields DEF MsgFits
<1>3. /\ Counts(w.log, 0) /\ Holds(w, w.accepted) /\ w.decided <= ld.decided
      /\ w.stop # None => w.stop = ld.stop /\ Len(w.log) = Len(ld.log)
    BY DEF FollowerOK
<1>4. v.decided <= ld.decided
    BY <1>2, <1>3 DEF Follows, Leads
<1>5. Holds(v, v.accepted)
    BY <1>3 DEF Holds
<1>6. Len(v.log) = top[m.seq]
    BY <1>1, <1>2
<1>7. Advances(ld, w, v, top, m)
    BY <1>3, <1>4, <1>5, <1>6 DEF Advances
<1> QED BY <1>7, AdvanceHandles

\* The first n entries, of a log of at least n and of a shorter one
LEMMA PrefixFacts ==
    ASSUME NEW log, Len(log) \in Nat, NEW n \in Nat
    PROVE  /\ n <= Len(log) => Prefix(log, n) = SubSeq(log, 1, n)
           /\ Len(log) <= n => Prefix(log, n) = SubSeq(log, 1, Len(log))
<1>1. PICK k : k = Len(log)
    OBVIOUS
<1>2. (n <= k => Min({n, k}) = n) /\ (k <= n => Min({n, k}) = k)
    BY <1>1, MinFacts
<1> QED BY <1>1, <1>2 DEF Prefix

\* The first entries of a log
LEMMA CountsPrefix ==
    ASSUME NEW s, Counts(s, 0), NEW k \in Nat, k <= Len(s)
    PROVE  Counts(SubSeq(s, 1, k), 0) /\ Len(SubSeq(s, 1, k)) = k
<1>1. s \in Seq(Nat) /\ Len(s) \in Nat
    BY LenProperties DEF Counts, Logs
<1>2. \A i \in 1..k : s[i] \in Nat
    BY <1>1
<1>3. PICK r : r = SubSeq(s, 1, k)
    OBVIOUS
<1>4. r \in Seq(Nat) /\ Len(r) = k /\ \A i \in 1..k : r[i] = s[i]
    <2>1. /\ r \in Seq(Nat) /\ Len(r) = IF 1 <= k THEN k - 1 + 1 ELSE 0
          /\ \A i \in 1..k - 1 + 1 : r[i] = s[1 + i - 1]
        BY <1>2, <1>3, SubSeqProperties
    <2> QED BY <2>1
<1>5. \A i \in 1..Len(r) : r[i] = 0 + i
    BY SMTT(30), <1>1, <1>4 DEF Counts
<1> QED BY <1>3, <1>4, <1>5 DEF Counts, Logs

\* handle_acceptsync with sync_log: the follower's log becomes what the leader's was.
LEMMA TakesSync ==
    ASSUME NEW f \in Follower, NEW ld \in Leads, NEW w \in Follows, NEW top, NEW m,
           FollowerOK(ld, w), TopOK(f, ld, top), MsgFits(f, ld, w, top, m),
           m.type = "AcceptSync",
           NEW log, log = Prefix(w.log, m.sync.idx) \o m.sync.suffix,
           NEW n, n = Len(m.sync.suffix), NEW k, k = IF m.sync.stop = None THEN 0 ELSE 1,
           NEW v \in Follows, v.phase = "Accept", v.seq = m.seq, v.log = log,
           v.stop = m.sync.stop, v.cached = <<>>, v.decided = m.decided,
           w.again \/ m.sync.idx > Len(w.log) => v.again, v.accepted = m.sync.idx + n + k
    PROVE  Handles(f, ld, w, v, top, m)
<1>1. /\ m \in DownMsg /\ SyncFits(ld, w, top, m) /\ Len(w.log) <= top[m.seq]
      /\ AtMost(m.seq, ld.seq[f])
    BY DEF MsgFits
<1>2. /\ m.seq \in SeqNum /\ m.sync.idx \in Nat /\ m.decided \in Nat /\ m.sync.suffix \in Logs
    BY <1>1, DownFields
<1>3. PICK idx, t, suffix : idx = m.sync.idx /\ t = top[m.seq] /\ suffix = m.sync.suffix
    OBVIOUS
<1>4. /\ idx \in Nat /\ t \in Nat /\ suffix \in Logs /\ n = Len(suffix) /\ n \in Nat
      /\ Len(w.log) <= t /\ Counts(suffix, idx) /\ Holds(w, idx)
      /\ n = IF idx <= t THEN t - idx ELSE 0
      /\ log = Prefix(w.log, idx) \o suffix /\ v.accepted = idx + n + k
    BY <1>1, <1>2, <1>3 DEF SyncFits, TopOK, Logs
<1>5. Len(w.log) \in Nat /\ w.log \in Logs /\ Len(ld.log) \in Nat /\ Counts(w.log, 0)
    BY SMTT(30) DEF Follows, Leads, Logs, FollowerOK
<1>6. t <= Len(ld.log)
    <2>1. ld.seq[f] \in SeqNum
        BY DEF Leads
    <2>2. top[m.seq] <= top[ld.seq[f]] /\ top[ld.seq[f]] <= Len(ld.log) /\ top[ld.seq[f]] \in Nat
        BY <1>1, <1>2, <2>1, AtMostFacts DEF TopOK
    <2> QED BY <1>3, <1>4, <1>5, <2>2
<1>7. CASE idx <= Len(w.log)
    <2>1. Prefix(w.log, idx) = SubSeq(w.log, 1, idx)
        BY <1>4, <1>5, <1>7, PrefixFacts
    <2>2. PICK pre : pre = SubSeq(w.log, 1, idx)
        OBVIOUS
    <2>3. Counts(pre, 0) /\ Len(pre) = idx
        BY <1>4, <1>5, <1>7, <2>2, CountsPrefix
    <2>4. log = pre \o suffix /\ Counts(suffix, Len(pre))
        BY <1>4, <2>1, <2>2, <2>3
    <2>5. Counts(log, 0) /\ Len(log) = Len(pre) + Len(suffix)
        BY <2>3, <2>4, CountsConcat
    <2>6. idx <= t /\ n = t - idx
        BY <1>4, <1>5, <1>7
    <2>7. Len(log) = t
        <3>1. Len(log) = idx + n
            BY <1>4, <2>3, <2>5
        <3> QED BY <1>4, <2>6, <3>1
    <2>8. v.accepted = t + k
        <3>1. k \in Nat /\ v.accepted = idx + n + k
            BY <1>4
        <3> QED BY <1>4, <2>6, <3>1
    <2>9. Holds(v, v.accepted)
        BY <1>4, <2>7, <2>8 DEF Holds
    <2>10. Advances(ld, w, v, top, m)
        BY <1>1, <1>3, <2>5, <2>7, <2>9 DEF Advances, SyncFits, Carries
    <2> QED BY <2>10, AdvanceHandles
<1>8. CASE ~(idx <= Len(w.log))
    <2>1. w.stop # None
        BY <1>4, <1>8 DEF Holds
    <2>2. Len(w.log) = Len(ld.log)
        BY <2>1 DEF FollowerOK
    <2>3. t = Len(w.log) /\ n = 0
        BY <1>4, <1>5, <1>6, <1>8, <2>2
    <2>4. Prefix(w.log, idx) = SubSeq(w.log, 1, Len(w.log))
        <3>1. idx \in Nat /\ Len(w.log) \in Nat /\ Len(w.log) <= idx
            BY <1>4, <1>5, <1>8
        <3> QED BY <3>1, PrefixFacts
    <2>5. SubSeq(w.log, 1, Len(w.log)) = w.log /\ suffix = <<>>
        BY <1>4, <1>5, <2>3, SubSeqFull, EmptySeq DEF Logs
    <2>6. log = w.log
        BY <1>4, <1>5, <2>4, <2>5, ConcatEmptySeq DEF Logs
    <2>7. v.again
        BY <1>3, <1>4, <1>5, <1>8
    <2>8. m.sync.stop # None
        BY <1>1, <2>1 DEF SyncFits
    <2>9. Holds(v, v.accepted)
        BY <2>7, <2>8 DEF Holds
    <2>10. Advances(ld, w, v, top, m)
        BY <1>1, <1>3, <1>5, <2>3, <2>6, <2>8, <2>9 DEF Advances, SyncFits, Carries
    <2> QED BY <2>10, AdvanceHandles
<1> QED BY <1>7, <1>8

\* The first message of two queues, one behind the other
LEMMA CatTail ==
    ASSUME NEW S, NEW s \in Seq(S), NEW t \in Seq(S), s # <<>>
    PROVE  /\ s \o t # <<>> /\ (s \o t)[1] = Head(s) /\ Tail(s \o t) = Tail(s) \o t
           /\ Tail(s) \in Seq(S) /\ Head(s) \in S
<1>1. PICK p : p = s \o t
    OBVIOUS
<1>2. PICK r : r = Tail(s)
    OBVIOUS
<1>3. /\ r \in Seq(S) /\ Len(r) = Len(s) - 1 /\ Len(s) \in Nat /\ Len(s) >= 1
      /\ \A i \in 1..Len(r) : r[i] = s[i + 1]
      /\ Head(s) \in S /\ Head(s) = s[1] /\ Len(t) \in Nat
    BY <1>2, HeadTailProperties, LenProperties, EmptySeq
<1>4. /\ p \in Seq(S) /\ Len(p) = Len(s) + Len(t)
      /\ \A i \in 1..Len(s) + Len(t) : p[i] = IF i <= Len(s) THEN s[i] ELSE t[i - Len(s)]
    BY <1>1, ConcatProperties
<1>5. Len(p) >= 1 /\ p # <<>> /\ p[1] = s[1]
    BY <1>3, <1>4
<1>6. PICK q : q = Tail(p)
    OBVIOUS
<1>7. /\ q \in Seq(S) /\ Len(q) = Len(p) - 1 /\ \A i \in 1..Len(q) : q[i] = p[i + 1]
    BY <1>4, <1>5, <1>6, HeadTailProperties
<1>8. PICK u : u = r \o t
    OBVIOUS
<1>9. /\ u \in Seq(S) /\ Len(u) = Len(r) + Len(t)
      /\ \A i \in 1..Len(r) + Len(t) : u[i] = IF i <= Len(r) THEN r[i] ELSE t[i - Len(r)]
    BY <1>3, <1>8, ConcatProperties
<1>10. Len(q) = Len(u)
    BY <1>3, <1>4, <1>7, <1>9
<1>11. ASSUME NEW i \in 1..Len(q) PROVE q[i] = u[i]
    <2>1. /\ i \in Nat /\ i >= 1 /\ i + 1 \in 1..Len(s) + Len(t) /\ i \in 1..Len(r) + Len(t)
          /\ q[i] = p[i + 1]
        BY <1>3, <1>4, <1>7, <1>9
    <2>2. CASE i <= Len(r)
        BY SMTT(30), <1>3, <1>4, <1>9, <2>1, <2>2
    <2>3. CASE ~(i <= Len(r))
        <3>1. ~(i + 1 <= Len(s)) /\ i + 1 - Len(s) = i - Len(r)
            BY <1>3, <2>1, <2>3
        <3> QED BY SMTT(60), <1>4, <1>9, <2>1, <2>3, <3>1
    <2> QED BY <2>2, <2>3
<1>12. q = u
    BY <1>7, <1>9, <1>10, <1>11, SeqEqual
<1> QED BY <1>1, <1>2, <1>3, <1>5, <1>6, <1>8, <1>12

\* The last message of two queues, one behind the other
LEMMA CatLast ==
    ASSUME NEW S, NEW s \in Seq(S), NEW t \in Seq(S), NEW i \in 1..Len(t)
    PROVE  /\ (s \o t)[Len(s) + i] = t[i] /\ Len(s \o t) = Len(s) + Len(t)
           /\ Len(s) \in Nat /\ Len(t) \in Nat /\ Len(s) + i \in 1..Len(s \o t)
<1>1. PICK p : p = s \o t
    OBVIOUS
<1>2. /\ Len(p) = Len(s) + Len(t) /\ Len(s) \in Nat /\ Len(t) \in Nat
      /\ \A j \in 1..Len(s) + Len(t) : p[j] = IF j <= Len(s) THEN s[j] ELSE t[j - Len(s)]
    BY <1>1, ConcatProperties, LenProperties
<1>3. /\ Len(s) + i \in 1..Len(s) + Len(t) /\ ~(Len(s) + i <= Len(s)) /\ Len(s) + i - Len(s) = i
    BY <1>2
<1>4. p[Len(s) + i] = t[i]
    BY <1>2, <1>3
<1> QED BY <1>1, <1>2, <1>3, <1>4

\* A link whose follower has handled the message that came first
LEMMA DownMoves ==
    ASSUME NEW f \in Follower, NEW ld \in Leads, NEW w \in Follows, NEW v, NEW dn, NEW ot, NEW top,
           DownOK(f, ld, w, dn, ot, top), dn # <<>>, Handles(f, ld, w, v, top, Head(dn))
    PROVE  DownOK(f, ld, v, Tail(dn), ot, top)
<1>1. /\ dn \in Seq(DownMsg) /\ ot \in Seq(DownMsg) /\ TopOK(f, ld, top)
      /\ PipeOK(f, ld, w, top, dn \o ot) /\ MergeOK(f, ld, w, ot)
    BY DEF DownOK
<1>2. PICK p : p = dn \o ot
    OBVIOUS
<1>3. PICK m : m = Head(dn)
    OBVIOUS
<1>4. p # <<>> /\ p[1] = m /\ Tail(p) = Tail(dn) \o ot /\ Tail(dn) \in Seq(DownMsg)
    BY <1>1, <1>2, <1>3, CatTail
<1>5. /\ v \in Follows /\ Takes(w, v, top, p[1]) /\ FollowerOK(ld, v) /\ InStep(f, ld, v, top)
      /\ v.phase = "Accept" => \/ w.phase = "Accept" /\ v.seq = w.seq
                               \/ m.type # "Prepare" /\ v.seq = m.seq
    BY <1>3, <1>4 DEF Handles
<1>6. PipeOK(f, ld, w, top, p)
    BY <1>1, <1>2
<1>7. PipeOK(f, ld, v, top, Tail(dn) \o ot)
    <2>1. PipeOK(f, ld, v, top, Tail(p))
        BY <1>1, <1>4, <1>5, <1>6, PipeTail
    <2> QED BY <1>4, <2>1
<1>8. MergeOK(f, ld, v, ot)
    <2> SUFFICES ASSUME ld.latest[f] # 0, ld.stop = None, v.phase = "Accept"
                 PROVE  v.seq # ld.seq[f]
        BY <1>1 DEF MergeOK
    <2>1. /\ ld.latest[f] = Len(ot) /\ Len(ot) \in 1..Len(ot) /\ ot[Len(ot)].type = "AcceptDecide"
          /\ ot[Len(ot)].seq = ld.seq[f] /\ (w.phase = "Accept" => w.seq # ld.seq[f])
        BY <1>1 DEF MergeOK
    <2>2. CASE w.phase = "Accept" /\ v.seq = w.seq
        BY <2>1, <2>2
    <2>3. CASE m.type # "Prepare" /\ v.seq = m.seq
        <3>1. /\ p[Len(dn) + Len(ot)] = ot[Len(ot)] /\ Len(p) = Len(dn) + Len(ot)
              /\ Len(dn) \in Nat /\ Len(ot) \in Nat /\ Len(dn) + Len(ot) \in 1..Len(p)
            BY <1>1, <1>2, <2>1, CatLast
        <3>2. Len(dn) >= 1
            BY <1>1, EmptySeq
        <3>3. PICK k : k = Len(dn) + Len(ot)
            OBVIOUS
        <3>4. k \in 1..Len(p) /\ 1 \in 1..Len(p) /\ 1 < k /\ p[k] = ot[Len(ot)]
            BY <2>1, <3>1, <3>2, <3>3
        <3>5. InOrder(ld, p[1], p[k])
            BY <1>6, <3>4 DEF PipeOK
        <3> QED BY <1>4, <2>1, <2>3, <3>4, <3>5 DEF InOrder
    <2> QED BY <1>5, <2>2, <2>3
<1> QED BY <1>1, <1>4, <1>5, <1>7, <1>8 DEF DownOK

\* A follower that changes neither its log nor its place in the session has handled nothing.
Stays(w, v) ==
    /\ v \in Follows /\ v.log = w.log /\ v.stop = w.stop /\ v.accepted = w.accepted
    /\ v.decided = w.decided /\ (w.again => v.again)
    /\ \A i \in 1..Len(v.cached) : Holds(w, v.cached[i].accepted)
    /\ v.phase = "Accept" => w.phase = "Accept" /\ v.seq = w.seq

\* Such a follower fits whatever comes.
LEMMA StaysHandles ==
    ASSUME NEW f \in Follower, NEW ld \in Leads, NEW w \in Follows, NEW v, NEW top, NEW m,
           FollowerOK(ld, w), InStep(f, ld, w, top), Stays(w, v)
    PROVE  Handles(f, ld, w, v, top, m) /\ Grows(w, v)
<1>1. v \in Follows /\ Grows(w, v) /\ Takes(w, v, top, m)
    BY DEF Stays, Grows, Takes, Follows, Logs
<1>2. ASSUME NEW i \in 1..Len(v.cached) PROVE Holds(v, v.cached[i].accepted)
    <2>1. v.cached[i] \in PromiseMsg /\ Holds(w, v.cached[i].accepted)
        BY <1>1 DEF Stays, Follows
    <2>2. v.cached[i].accepted \in Nat
        BY <2>1 DEF PromiseMsg
    <2> QED BY <1>1, <2>1, <2>2, HoldsKept
<1>3. Holds(v, v.accepted)
    <2>1. Holds(w, w.accepted) /\ w.accepted \in Nat
        BY DEF FollowerOK, Follows
    <2>2. Holds(v, w.accepted)
        BY <1>1, <2>1, HoldsKept
    <2> QED BY <2>2 DEF Stays
<1>4. /\ Counts(v.log, 0) /\ Len(v.log) <= Len(ld.log) /\ v.decided <= ld.decided
      /\ v.stop # None => v.stop = ld.stop /\ Len(v.log) = Len(ld.log)
    BY DEF FollowerOK, Stays
<1>5. FollowerOK(ld, v)
    BY <1>1, <1>2, <1>3, <1>4 DEF FollowerOK
<1>6. InStep(f, ld, v, top)
    BY DEF InStep, Stays
<1> QED BY <1>1, <1>5, <1>6 DEF Handles, Stays

\* A link whose follower handles nothing
LEMMA DownStays ==
    ASSUME NEW f \in Follower, NEW ld \in Leads, NEW w \in Follows, NEW v, NEW dn, NEW ot, NEW top,
           DownOK(f, ld, w, dn, ot, top), Stays(w, v)
    PROVE  DownOK(f, ld, v, dn, ot, top)
<1>1. /\ dn \in Seq(DownMsg) /\ ot \in Seq(DownMsg) /\ TopOK(f, ld, top) /\ FollowerOK(ld, w)
      /\ PipeOK(f, ld, w, top, dn \o ot) /\ MergeOK(f, ld, w, ot) /\ InStep(f, ld, w, top)
    BY DEF DownOK
<1>2. /\ FollowerOK(ld, v) /\ InStep(f, ld, v, top) /\ Grows(w, v) /\ v \in Follows
    BY <1>1, StaysHandles DEF Handles
<1>3. PICK p : p = dn \o ot
    OBVIOUS
<1>4. ASSUME NEW i \in 1..Len(p) PROVE MsgFits(f, ld, v, top, p[i])
    <2>1. PICK m : m = p[i]
        OBVIOUS
    <2>2. MsgFits(f, ld, w, top, m) /\ m \in DownMsg
        BY <1>1, <1>3, <2>1 DEF PipeOK, MsgFits
    <2>3. ASSUME m.type = "AcceptSync" PROVE SyncFits(ld, v, top, m)
        <3>1. SyncFits(ld, w, top, m) /\ m.sync.idx \in Nat
            BY <2>2, <2>3, DownFields DEF MsgFits
        <3>2. Holds(v, m.sync.idx)
            BY <1>2, <3>1, HoldsKept DEF SyncFits
        <3> QED BY <3>1, <3>2 DEF SyncFits, Stays
    <2>4. MsgFits(f, ld, v, top, m)
        BY <2>2, <2>3 DEF MsgFits, Stays
    <2> QED BY <2>1, <2>4
<1>5. PipeOK(f, ld, v, top, dn \o ot)
    BY <1>1, <1>3, <1>4 DEF PipeOK
<1>6. MergeOK(f, ld, v, ot)
    BY <1>1 DEF MergeOK, Stays
<1> QED BY <1>1, <1>2, <1>5, <1>6 DEF DownOK

\* The way back after a step of the follower
LEMMA UpMoves ==
    ASSUME NEW f \in Follower, NEW ld \in Leads, NEW w \in Follows, NEW v \in Follows,
           NEW us, NEW rs, UpOK(f, ld, w, us, rs), Grows(w, v),
           NEW u2, NEW r2, RepliesOK(v, u2), RepliesOK(v, r2),
           v.latest # 0 => v.latest \in 1..Len(r2) /\ r2[v.latest].type = "Accepted"
    PROVE  UpOK(f, ld, v, u2, r2)
<1>1. ld.acc[f] \in Nat /\ Holds(v, ld.acc[f])
    <2>1. f \in Server /\ ld.acc \in [Server -> Nat]
        BY DEF Server, Leads
    <2>2. Holds(w, ld.acc[f])
        BY DEF UpOK
    <2> QED BY <2>1, <2>2, HoldsKept
<1>2. ASSUME NEW i \in 1..Len(ld.promise[f]) PROVE Holds(v, ld.promise[f][i].accepted)
    <2>1. ld.promise[f][i] \in PromiseMsg /\ Holds(w, ld.promise[f][i].accepted)
        BY DEF Leads, UpOK
    <2>2. ld.promise[f][i].accepted \in Nat
        BY <2>1 DEF PromiseMsg
    <2> QED BY <2>1, <2>2, HoldsKept
<1> QED BY <1>1, <1>2 DEF UpOK

\* The follower answers with msgs.
LEMMA UpAnswers ==
    ASSUME NEW f \in Follower, NEW ld \in Leads, NEW w \in Follows, NEW v \in Follows,
           NEW us, NEW rs, UpOK(f, ld, w, us, rs), Grows(w, v), NEW ms, RepliesOK(v, ms),
           \/ v.latest = w.latest
           \/ v.latest = Len(rs) + 1 /\ Len(ms) = 1 /\ ms[1].type = "Accepted"
    PROVE  UpOK(f, ld, v, us, rs \o ms)
<1>1. /\ RepliesOK(v, us) /\ RepliesOK(v, rs)
      /\ w.latest # 0 => w.latest \in 1..Len(rs) /\ rs[w.latest].type = "Accepted"
    BY RepliesKept DEF UpOK
<1>2. PICK r2 : r2 = rs \o ms
    OBVIOUS
<1>3. RepliesOK(v, r2)
    BY <1>1, <1>2, RepliesConcat
<1>4. /\ Len(r2) = Len(rs) + Len(ms) /\ Len(rs) \in Nat /\ Len(ms) \in Nat
      /\ \A i \in 1..Len(rs) + Len(ms) : r2[i] = IF i <= Len(rs) THEN rs[i] ELSE ms[i - Len(rs)]
    BY <1>1, <1>2, ConcatProperties, LenProperties DEF RepliesOK
<1>5. v.latest # 0 => v.latest \in 1..Len(r2) /\ r2[v.latest].type = "Accepted"
    <2>1. CASE v.latest = w.latest
        BY <1>1, <1>4, <2>1
    <2>2. CASE v.latest = Len(rs) + 1 /\ Len(ms) = 1 /\ ms[1].type = "Accepted"
        <3>1. PICK k : k = Len(rs)
            OBVIOUS
        <3>2. k + 1 \in 1..k + 1 /\ ~(k + 1 <= k) /\ k + 1 - k = 1
            BY <1>4, <3>1
        <3>3. r2[k + 1] = ms[1] /\ Len(r2) = k + 1
            BY <1>4, <2>2, <3>1, <3>2
        <3> QED BY <1>4, <2>2, <3>1, <3>2, <3>3
    <2> QED BY <2>1, <2>2
<1> QED BY <1>1, <1>2, <1>3, <1>5, UpMoves

\* reply_accepted updates the answer that waits.
LEMMA UpUpdates ==
    ASSUME NEW f \in Follower, NEW ld \in Leads, NEW w \in Follows, NEW v \in Follows,
           NEW us, NEW rs, UpOK(f, ld, w, us, rs), Grows(w, v), Holds(v, v.accepted),
           v.latest = w.latest, w.latest # 0
    PROVE  UpOK(f, ld, v, us, [rs EXCEPT ![v.latest].accepted = v.accepted])
<1>1. /\ RepliesOK(v, us) /\ RepliesOK(v, rs)
      /\ v.latest \in 1..Len(rs) /\ rs[v.latest].type = "Accepted"
    BY RepliesKept DEF UpOK
<1>2. PICK k : k = v.latest
    OBVIOUS
<1>3. PICK a : a = [rs[k] EXCEPT !.accepted = v.accepted]
    OBVIOUS
<1>4. PICK r2 : r2 = [rs EXCEPT ![k] = a]
    OBVIOUS
<1>5. rs \in Seq(ReplyMsg) /\ rs[k] \in ReplyMsg /\ k \in 1..Len(rs) /\ rs[k].type = "Accepted"
    BY <1>1, <1>2, ElementOfSeq DEF RepliesOK
<1>6. rs[k] \in AcceptedMsg
    BY <1>5 DEF ReplyMsg, AcceptedMsg, PromiseMsg
<1>7. a \in AcceptedMsg /\ a.type = "Accepted" /\ a.accepted = v.accepted
    BY <1>3, <1>6 DEF AcceptedMsg, Follows
<1>8. /\ r2 \in Seq(ReplyMsg) /\ Len(r2) = Len(rs) /\ r2[k] = a
      /\ \A i \in 1..Len(rs) : i # k => r2[i] = rs[i]
    BY <1>4, <1>5, <1>7, ExceptSeq DEF ReplyMsg
<1>9. RepliesOK(v, r2)
    BY <1>1, <1>7, <1>8 DEF RepliesOK, Held
<1>10. UpOK(f, ld, v, us, r2)
    BY <1>1, <1>2, <1>5, <1>7, <1>8, <1>9, UpMoves
<1> QED BY <1>2, <1>3, <1>4, <1>10

--------------------------------------------------------------------------------
(* The steps at a follower *)

\* An accepted index stands for all that come before it.
LEMMA HoldsLess ==
    ASSUME NEW w \in Follows, NEW a \in Nat, NEW b \in Nat, Holds(w, a), b <= a
    PROVE  Holds(w, b)
<1>1. Len(w.log) \in Nat
    BY DEF Follows, Logs
<1> QED BY <1>1 DEF Holds

\* Reads what the invariant says of one follower.
LEMMA LinkFacts ==
    ASSUME SessionInv, NEW f \in Follower
    PROVE  /\ lead \in Leads /\ foll[f] \in Follows /\ f \in Server
           /\ Linked(f, lead, foll[f], down[f], out[f])
           /\ UpOK(f, lead, foll[f], up[f], reply[f])
           /\ FollowerOK(lead, foll[f])
<1>1. LinkOK(f) /\ lead \in Leads
    BY DEF SessionInv, LeaderOK
<1>2. FollowerOK(lead, foll[f])
    BY <1>1 DEF LinkOK, Linked, DownOK
<1> QED BY <1>1, <1>2 DEF LinkOK, FollowerOK, Server

\* What a write quorum holds it goes on holding.
LEMMA HoldersGrow ==
    ASSUME SessionAssumption, NEW a, NEW b,
           \A g \in Follower : Holds(foll[g], a) => Holds(foll'[g], b),
           IsAcceptQuorum(Quorum, Cardinality(Holders(a)) + 1)
    PROVE  IsAcceptQuorum(Quorum, Cardinality({g \in Follower : Holds(foll'[g], b)}) + 1)
<1>1. PICK A, B : A = Holders(a) /\ B = {g \in Follower : Holds(foll'[g], b)}
    OBVIOUS
<1>2. A \subseteq B /\ B \subseteq Follower /\ IsFiniteSet(Follower)
    BY <1>1 DEF Holders, SessionAssumption
<1>3. IsFiniteSet(B) /\ IsFiniteSet(A)
    BY <1>2, FS_Subset
<1>4. Cardinality(A) \in Nat /\ Cardinality(B) \in Nat /\ Cardinality(A) <= Cardinality(B)
    BY <1>2, <1>3, FS_Subset, FS_CardinalityType
<1>5. Quorum.write \in Nat
    <2>1. Cardinality(Server) \in Nat
        <3>1. IsFiniteSet(Server)
            BY FS_Singleton, FS_Union DEF SessionAssumption, Server
        <3> QED BY <3>1, FS_CardinalityType
    <2> QED BY <2>1 DEF SessionAssumption, IsValidQuorum
<1> QED BY <1>1, <1>4, <1>5 DEF IsAcceptQuorum

\* y is x with a at f.
Moved(x, y, f, a) ==
    DOMAIN y = Follower /\ y[f] = a /\ \A g \in Follower \ {f} : y[g] = x[g]

\* What EXCEPT and UNCHANGED move
LEMMA MovedFacts ==
    ASSUME NEW f \in Follower, NEW x, DOMAIN x = Follower, NEW y, NEW a
    PROVE  /\ y = [x EXCEPT ![f] = a] => Moved(x, y, f, a)
           /\ y = x => Moved(x, y, f, x[f])
BY DEF Moved

\* A step of one follower, and of the channels to and from it
LEMMA FollowerMoved ==
    ASSUME SessionAssumption, SessionInv, NEW f \in Follower, NEW v, NEW dn, NEW us, NEW rs,
           lead' = lead, out' = out, buffered' \in [Server -> Stops],
           Moved(foll, foll', f, v), Moved(down, down', f, dn),
           Moved(up, up', f, us), Moved(reply, reply', f, rs),
           v \in Follows, Grows(foll[f], v),
           Linked(f, lead, v, dn, out[f]), UpOK(f, lead, v, us, rs)
    PROVE  SessionInv'
<1>1. /\ DOMAIN foll = Follower /\ DOMAIN down = Follower
      /\ DOMAIN up = Follower /\ DOMAIN reply = Follower /\ DOMAIN out = Follower
    BY DEF SessionInv
<1>2. foll'[f] = v /\ down'[f] = dn /\ up'[f] = us /\ reply'[f] = rs
    BY DEF Moved
<1>3. ASSUME NEW g \in Follower PROVE LinkOK(g)'
    <2>1. CASE g = f
        BY <1>2, <2>1 DEF LinkOK
    <2>2. CASE g # f
        <3>1. foll'[g] = foll[g] /\ down'[g] = down[g] /\ up'[g] = up[g] /\ reply'[g] = reply[g]
            BY <2>2 DEF Moved
        <3> QED BY <3>1 DEF SessionInv, LinkOK
    <2> QED BY <2>1, <2>2
<1>4. DecidedOK'
    <2>1. PICK d : d = lead.decided
        OBVIOUS
    <2>2. d \in Nat
        BY <2>1 DEF SessionInv, LeaderOK, Leads
    <2>3. ASSUME NEW g \in Follower, Holds(foll[g], d) PROVE Holds(foll'[g], d)
        <3>1. CASE g = f
            BY <1>2, <2>2, <2>3, <3>1, HoldsKept, LinkFacts
        <3>2. CASE g # f
            BY <2>3, <3>2 DEF Moved
        <3> QED BY <3>1, <3>2
    <2>4. CASE d = 0
        BY <2>1, <2>4 DEF DecidedOK
    <2>5. CASE IsAcceptQuorum(Quorum, Cardinality(Holders(d)) + 1)
        <3>1. IsAcceptQuorum(Quorum, Cardinality({g \in Follower : Holds(foll'[g], d)}) + 1)
            BY <2>3, <2>5, HoldersGrow
        <3> QED BY <2>1, <3>1 DEF DecidedOK, Holders
    <2> QED BY <2>1, <2>4, <2>5 DEF SessionInv, DecidedOK
<1>5. /\ DOMAIN foll' = Follower /\ DOMAIN down' = Follower /\ DOMAIN out' = Follower
      /\ DOMAIN up' = Follower /\ DOMAIN reply' = Follower
    BY <1>1 DEF Moved
<1>6. LeaderOK(lead)'
    BY DEF SessionInv
<1> QED BY <1>3, <1>4, <1>5, <1>6 DEF SessionInv

\* The follower has handled the message that came first, and answered.
LEMMA FollowerHandled ==
    ASSUME SessionAssumption, SessionInv, NEW f \in Follower, NEW t, FromLeader(f, t),
           NEW v, NEW rs, Moved(foll, foll', f, v), Moved(reply, reply', f, rs),
           \A top : DownOK(f, lead, foll[f], down[f], out[f], top)
                    => Handles(f, lead, foll[f], v, top, Head(down[f])),
           UpOK(f, lead, v, up[f], rs)
    PROVE  SessionInv'
<1>1. /\ lead' = lead /\ out' = out /\ buffered' = buffered /\ up' = up /\ down[f] # <<>>
      /\ down' = [down EXCEPT ![f] = Tail(@)]
    BY DEF FromLeader
<1>2. Moved(down, down', f, Tail(down[f])) /\ Moved(up, up', f, up[f])
    BY <1>1, MovedFacts DEF SessionInv
<1>3. PICK top : DownOK(f, lead, foll[f], down[f], out[f], top)
    BY LinkFacts DEF Linked
<1>4. Handles(f, lead, foll[f], v, top, Head(down[f]))
    BY <1>3
<1>5. v \in Follows /\ Grows(foll[f], v)
    BY <1>4 DEF Handles, Takes
<1>6. DownOK(f, lead, v, Tail(down[f]), out[f], top)
    <2>1. lead \in Leads /\ foll[f] \in Follows
        BY LinkFacts
    <2> QED BY <1>1, <1>3, <1>4, <2>1, DownMoves
<1>7. Linked(f, lead, v, Tail(down[f]), out[f])
    BY <1>6 DEF Linked
<1>8. buffered' \in [Server -> Stops]
    BY <1>1 DEF SessionInv
<1> QED BY <1>1, <1>2, <1>5, <1>7, <1>8, FollowerMoved

\* The follower passes over the message that came first.
LEMMA FollowerIgnored ==
    ASSUME SessionAssumption, SessionInv, NEW f \in Follower, NEW t, FromLeader(f, t), Ignores
    PROVE  SessionInv'
<1>1. foll' = foll /\ reply' = reply /\ DOMAIN foll = Follower /\ DOMAIN reply = Follower
    BY DEF Ignores, SessionInv
<1>2. Moved(foll, foll', f, foll[f]) /\ Moved(reply, reply', f, reply[f])
    BY <1>1, MovedFacts
<1>3. /\ lead \in Leads /\ foll[f] \in Follows /\ UpOK(f, lead, foll[f], up[f], reply[f])
      /\ FollowerOK(lead, foll[f])
    BY LinkFacts
<1>4. Stays(foll[f], foll[f])
    BY <1>3 DEF Stays, FollowerOK
<1>5. ASSUME NEW top, DownOK(f, lead, foll[f], down[f], out[f], top)
      PROVE  Handles(f, lead, foll[f], foll[f], top, Head(down[f]))
    BY <1>3, <1>4, <1>5, StaysHandles DEF DownOK
<1> QED BY <1>2, <1>3, <1>5, FollowerHandled

\* The step of a follower that neither changes its log nor handles a message
LEMMA FollowerStayed ==
    ASSUME SessionAssumption, SessionInv, NEW f \in Follower, NEW v, NEW us, NEW rs,
           lead' = lead, out' = out, down' = down, buffered' \in [Server -> Stops],
           Moved(foll, foll', f, v), Moved(up, up', f, us), Moved(reply, reply', f, rs),
           Stays(foll[f], v), UpOK(f, lead, v, us, rs)
    PROVE  SessionInv'
<1>1. PICK top : DownOK(f, lead, foll[f], down[f], out[f], top)
    BY LinkFacts DEF Linked
<1>2. /\ lead \in Leads /\ foll[f] \in Follows /\ FollowerOK(lead, foll[f])
      /\ InStep(f, lead, foll[f], top)
    BY <1>1, LinkFacts DEF DownOK
<1>3. v \in Follows /\ Grows(foll[f], v)
    BY <1>2, StaysHandles DEF Handles
<1>4. DownOK(f, lead, v, down[f], out[f], top)
    BY <1>1, <1>2, DownStays
<1>5. Linked(f, lead, v, down[f], out[f])
    BY <1>4 DEF Linked
<1>6. Moved(down, down', f, down[f])
    BY MovedFacts DEF SessionInv
<1> QED BY <1>3, <1>5, <1>6, FollowerMoved

\* One answer is a sequence of answers.
LEMMA OneReply ==
    ASSUME NEW w, NEW m \in ReplyMsg, Held(w, m)
    PROVE  RepliesOK(w, <<m>>) /\ Len(<<m>>) = 1 /\ <<m>>[1] = m
BY DEF RepliesOK

\* reconnected leaves what the follower holds as it is.
LEMMA ReconnectedStays ==
    ASSUME SessionInv, NEW f \in Follower, Reconnected(f)
    PROVE  \E v, rs : /\ Moved(foll, foll', f, v) /\ Moved(reply, reply', f, rs)
                      /\ Stays(foll[f], v) /\ UpOK(f, lead, v, up[f], rs)
<1>1. PICK w, v, ms : /\ w = foll[f] /\ v = [foll[f] EXCEPT !.phase = "Recover"]
                      /\ ms = <<[type |-> "PrepareReq"]>>
    OBVIOUS
<1>2. /\ lead \in Leads /\ w \in Follows /\ UpOK(f, lead, w, up[f], reply[f])
      /\ FollowerOK(lead, w)
    BY <1>1, LinkFacts
<1>3. /\ v \in Follows /\ v.log = w.log /\ v.stop = w.stop /\ v.accepted = w.accepted
      /\ v.decided = w.decided /\ (w.again => v.again) /\ v.cached = w.cached
      /\ v.phase # "Accept" /\ v.latest = w.latest
    BY <1>1, <1>2 DEF Follows
<1>4. Stays(w, v)
    BY <1>3, <1>2 DEF Stays, FollowerOK
<1>5. Grows(w, v)
    BY <1>2, <1>3 DEF Grows, Follows, Logs
<1>6. RepliesOK(v, ms)
    <2>1. [type |-> "PrepareReq"] \in ReplyMsg /\ Held(v, [type |-> "PrepareReq"])
        BY DEF ReplyMsg, Held
    <2> QED BY <1>1, <2>1, OneReply
<1>7. UpOK(f, lead, v, up[f], reply[f] \o ms)
    BY <1>2, <1>3, <1>5, <1>6, UpAnswers
<1>8. Moved(foll, foll', f, v) /\ Moved(reply, reply', f, reply[f] \o ms)
    <2>1. DOMAIN foll = Follower /\ DOMAIN reply = Follower
        BY DEF SessionInv
    <2>2. foll' = [foll EXCEPT ![f] = v] /\ reply' = [reply EXCEPT ![f] = reply[f] \o ms]
        BY <1>1, <2>1 DEF Reconnected, Replies
    <2> QED BY <2>1, <2>2, MovedFacts
<1> QED BY <1>1, <1>4, <1>7, <1>8

\* reconnected while a message of the session is handled
LEMMA ReconnectedKeeps ==
    ASSUME SessionAssumption, SessionInv, NEW f \in Follower, NEW t, FromLeader(f, t), Reconnected(f)
    PROVE  SessionInv'
<1>1. PICK v, rs : /\ Moved(foll, foll', f, v) /\ Moved(reply, reply', f, rs)
                   /\ Stays(foll[f], v) /\ UpOK(f, lead, v, up[f], rs)
    BY ReconnectedStays
<1>2. lead \in Leads /\ foll[f] \in Follows /\ FollowerOK(lead, foll[f])
    BY LinkFacts
<1>3. ASSUME NEW top, DownOK(f, lead, foll[f], down[f], out[f], top)
      PROVE  Handles(f, lead, foll[f], v, top, Head(down[f]))
    BY <1>1, <1>2, <1>3, StaysHandles DEF DownOK
<1> QED BY <1>1, <1>3, FollowerHandled

\* handle_prepare keeps the invariant.
LEMMA ReceivePrepareKeeps ==
    ASSUME SessionAssumption, SessionInv, NEW f \in Follower, ReceivePrepare(f)
    PROVE  SessionInv'
<1>1. FromLeader(f, "Prepare")
    BY DEF ReceivePrepare
<1>2. CASE Ignores
    BY <1>1, <1>2, FollowerIgnored
<1>3. CASE ~Ignores
    <2>1. PICK w, prom : w = foll[f]
              /\ prom = [type |-> "Promise", inRound |-> w.inRound, accepted |-> w.accepted]
        OBVIOUS
    <2>2. PICK v, ms : v = [w EXCEPT !.phase = "Prepare", !.promised = TRUE, !.seq = Zero,
                                     !.cached = <<prom>>] /\ ms = <<prom>>
        OBVIOUS
    <2>3. /\ lead \in Leads /\ w \in Follows /\ UpOK(f, lead, w, up[f], reply[f])
          /\ FollowerOK(lead, w) /\ DOMAIN foll = Follower /\ DOMAIN reply = Follower
        BY <2>1, LinkFacts DEF SessionInv
    <2>4. prom \in PromiseMsg /\ prom \in ReplyMsg /\ prom.accepted = w.accepted
        BY <2>1, <2>3 DEF PromiseMsg, ReplyMsg, Follows
    <2>5. Holds(w, w.accepted)
        BY <2>3 DEF FollowerOK
    <2>6. /\ v \in Follows /\ v.log = w.log /\ v.stop = w.stop /\ v.accepted = w.accepted
          /\ v.decided = w.decided /\ (w.again => v.again) /\ v.cached = <<prom>>
          /\ v.phase # "Accept" /\ v.latest = w.latest
        <3>1. PICK c, z : c = <<prom>> /\ z = Zero
            OBVIOUS
        <3>2. c \in Seq(PromiseMsg) /\ z \in SeqNum
            BY <2>4, <3>1 DEF SeqNum, Zero
        <3>3. v = [w EXCEPT !.phase = "Prepare", !.promised = TRUE, !.seq = z, !.cached = c]
            BY <2>2, <3>1
        <3> QED BY <2>3, <3>1, <3>2, <3>3 DEF Follows
    <2>7. Stays(w, v) /\ Grows(w, v)
        <3>1. \A i \in 1..Len(v.cached) : v.cached[i] = prom
            BY <2>6
        <3> QED BY <2>3, <2>4, <2>5, <2>6, <3>1 DEF Stays, Grows, Follows, Logs
    <2>8. RepliesOK(v, ms)
        <3>1. Held(v, prom)
            BY <2>4, <2>5, <2>6 DEF Held, Holds
        <3> QED BY <2>2, <2>4, <3>1, OneReply
    <2>9. UpOK(f, lead, v, up[f], reply[f] \o ms)
        BY <2>3, <2>6, <2>7, <2>8, UpAnswers
    <2>10. Moved(foll, foll', f, v) /\ Moved(reply, reply', f, reply[f] \o ms)
        <3>1. foll' = [foll EXCEPT ![f] = v] /\ reply' = [reply EXCEPT ![f] = reply[f] \o ms]
            BY <1>3, <2>1, <2>2, <2>3 DEF ReceivePrepare, Replies
        <3> QED BY <2>3, <3>1, MovedFacts
    <2>11. ASSUME NEW top, DownOK(f, lead, foll[f], down[f], out[f], top)
           PROVE  Handles(f, lead, foll[f], v, top, Head(down[f]))
        BY <2>1, <2>3, <2>7, <2>11, StaysHandles DEF DownOK
    <2> QED BY <1>1, <2>9, <2>10, <2>11, FollowerHandled
<1> QED BY <1>2, <1>3

\* The message that comes first fits.
LEMMA HeadFits ==
    ASSUME NEW f \in Follower, NEW ld, NEW w, NEW dn, NEW ot, NEW top,
           DownOK(f, ld, w, dn, ot, top), dn # <<>>
    PROVE  MsgFits(f, ld, w, top, Head(dn)) /\ Head(dn) \in DownMsg
<1>1. /\ dn \in Seq(DownMsg) /\ ot \in Seq(DownMsg) /\ PipeOK(f, ld, w, top, dn \o ot)
    BY DEF DownOK
<1>2. PICK p : p = dn \o ot
    OBVIOUS
<1>3. p \in Seq(DownMsg) /\ p # <<>> /\ p[1] = Head(dn) /\ Head(dn) \in DownMsg
    BY <1>1, <1>2, CatTail DEF PipeOK
<1>4. 1 \in 1..Len(p)
    BY <1>3, EmptySeq
<1> QED BY <1>1, <1>2, <1>3, <1>4 DEF PipeOK

\* Where an answer waits does not matter to the link.
LEMMA LatestHandles ==
    ASSUME NEW f, NEW ld, NEW w, NEW u, NEW top, NEW m, Handles(f, ld, w, u, top, m),
           NEW n \in Nat, NEW v, v = [u EXCEPT !.latest = n]
    PROVE  /\ Handles(f, ld, w, v, top, m)
           /\ v \in Follows /\ v.latest = n /\ v.accepted = u.accepted /\ v.log = u.log
           /\ v.stop = u.stop /\ v.again = u.again
<1>1. u \in Follows
    BY DEF Handles
<1>2. /\ v \in Follows /\ v.latest = n /\ v.accepted = u.accepted /\ v.log = u.log
      /\ v.stop = u.stop /\ v.again = u.again /\ v.phase = u.phase /\ v.seq = u.seq
      /\ v.cached = u.cached /\ v.decided = u.decided
    BY <1>1 DEF Follows
<1>3. FollowerOK(ld, v)
    BY <1>2 DEF Handles, FollowerOK, Holds
<1>4. InStep(f, ld, v, top) /\ Takes(w, v, top, m)
    BY <1>2 DEF Handles, InStep, Takes, Grows
<1> QED BY <1>2, <1>3, <1>4 DEF Handles

\* reply_accepted keeps the invariant.
LEMMA ReplyAcceptedKeeps ==
    ASSUME SessionAssumption, SessionInv, NEW f \in Follower, NEW t, FromLeader(f, t),
           NEW u, ReplyAccepted(f, u), u.latest = foll[f].latest,
           \A top : DownOK(f, lead, foll[f], down[f], out[f], top)
                    => Handles(f, lead, foll[f], u, top, Head(down[f]))
    PROVE  SessionInv'
<1>1. PICK w : w = foll[f]
    OBVIOUS
<1>2. /\ lead \in Leads /\ w \in Follows /\ UpOK(f, lead, w, up[f], reply[f])
      /\ DOMAIN foll = Follower /\ DOMAIN reply = Follower
    BY <1>1, LinkFacts DEF SessionInv
<1>3. PICK top : DownOK(f, lead, w, down[f], out[f], top)
    BY <1>1, LinkFacts DEF Linked
<1>4. Handles(f, lead, w, u, top, Head(down[f]))
    BY <1>1, <1>3
<1>5. u \in Follows /\ Grows(w, u) /\ Holds(u, u.accepted)
    BY <1>4 DEF Handles, Takes, FollowerOK
<1>6. CASE u.latest # 0
    <2>1. UpOK(f, lead, u, up[f], [reply[f] EXCEPT ![u.latest].accepted = u.accepted])
        BY <1>1, <1>2, <1>5, <1>6, UpUpdates
    <2>2. PICK rs : rs = [reply[f] EXCEPT ![u.latest].accepted = u.accepted]
        OBVIOUS
    <2>3. Moved(foll, foll', f, u) /\ Moved(reply, reply', f, rs)
        <3>1. foll' = [foll EXCEPT ![f] = u] /\ reply' = [reply EXCEPT ![f] = rs]
            BY <1>2, <1>6, <2>2 DEF ReplyAccepted
        <3> QED BY <1>2, <3>1, MovedFacts
    <2>4. UpOK(f, lead, u, up[f], rs)
        BY <2>1, <2>2
    <2> QED BY <2>3, <2>4, FollowerHandled
<1>7. CASE u.latest = 0
    <2>1. PICK n, m : n = Len(reply[f]) + 1 /\ m = [type |-> "Accepted", accepted |-> u.accepted]
        OBVIOUS
    <2>2. n \in Nat
        BY <1>2, <2>1, LenProperties DEF UpOK, RepliesOK
    <2>3. PICK v : v = [u EXCEPT !.latest = n]
        OBVIOUS
    <2>4. ASSUME NEW q, DownOK(f, lead, foll[f], down[f], out[f], q)
          PROVE  Handles(f, lead, foll[f], v, q, Head(down[f]))
        BY <2>2, <2>3, <2>4, LatestHandles
    <2>5. /\ v \in Follows /\ v.latest = n /\ v.accepted = u.accepted /\ v.log = u.log
          /\ v.stop = u.stop /\ v.again = u.again
        BY <1>4, <2>2, <2>3, LatestHandles
    <2>6. Grows(w, v) /\ Holds(v, u.accepted)
        BY <1>5, <2>5 DEF Grows, Holds
    <2>7. m \in ReplyMsg /\ Held(v, m) /\ m.type = "Accepted"
        BY <1>5, <2>1, <2>6 DEF ReplyMsg, AcceptedMsg, Held, Follows
    <2>8. RepliesOK(v, <<m>>) /\ Len(<<m>>) = 1 /\ <<m>>[1] = m
        BY <2>7, OneReply
    <2>9. UpOK(f, lead, v, up[f], reply[f] \o <<m>>)
        BY <1>2, <2>1, <2>5, <2>6, <2>7, <2>8, UpAnswers
    <2>10. Moved(foll, foll', f, v) /\ Moved(reply, reply', f, reply[f] \o <<m>>)
        <3>1. foll' = [foll EXCEPT ![f] = v] /\ reply' = [reply EXCEPT ![f] = reply[f] \o <<m>>]
            BY <1>2, <1>7, <2>1, <2>3 DEF ReplyAccepted, Replies
        <3> QED BY <1>2, <3>1, MovedFacts
    <2> QED BY <2>4, <2>9, <2>10, FollowerHandled
<1> QED BY <1>6, <1>7

\* handle_acceptsync keeps the invariant.
LEMMA ReceiveAcceptSyncKeeps ==
    ASSUME SessionAssumption, SessionInv, NEW f \in Follower, ReceiveAcceptSync(f)
    PROVE  SessionInv'
<1>1. FromLeader(f, "AcceptSync")
    BY DEF ReceiveAcceptSync
<1>2. CASE Ignores
    BY <1>1, <1>2, FollowerIgnored
<1>3. CASE ~Ignores
    <2>1. PICK w, msg : w = foll[f] /\ msg = Head(down[f])
        OBVIOUS
    <2>2. PICK n, k, log : /\ n = Len(msg.sync.suffix)
                           /\ k = (IF msg.sync.stop = None THEN 0 ELSE 1)
                           /\ log = Prefix(w.log, msg.sync.idx) \o msg.sync.suffix
        OBVIOUS
    <2>3. PICK a, g, l : /\ a = msg.sync.idx + n + k
                         /\ g = (w.again \/ msg.sync.idx > Len(w.log))
                         /\ l = Len(reply[f]) + 1
        OBVIOUS
    <2>4. PICK v : v = [w EXCEPT !.phase = "Accept", !.inRound = TRUE, !.seq = msg.seq,
                                 !.cached = <<>>, !.log = log, !.stop = msg.sync.stop,
                                 !.decided = msg.decided, !.accepted = a, !.again = g, !.latest = l]
        OBVIOUS
    <2>5. PICK m : m = [type |-> "Accepted", accepted |-> a]
        OBVIOUS
    <2>6. /\ foll' = [foll EXCEPT ![f] = v] /\ reply' = [reply EXCEPT ![f] = reply[f] \o <<m>>]
        <3>1. DOMAIN foll = Follower /\ DOMAIN reply = Follower
            BY DEF SessionInv
        <3>2. v.accepted = a
            BY <2>1, <2>4, LinkFacts DEF Follows
        <3> QED BY ZenonT(60), <1>3, <2>1, <2>2, <2>3, <2>4, <2>5, <3>1, <3>2
                   DEF ReceiveAcceptSync, Replies
    <2>7. /\ lead \in Leads /\ w \in Follows /\ UpOK(f, lead, w, up[f], reply[f])
          /\ DOMAIN foll = Follower /\ DOMAIN reply = Follower
        BY <2>1, LinkFacts DEF SessionInv
    <2>8. PICK top : DownOK(f, lead, w, down[f], out[f], top)
        BY <2>1, LinkFacts DEF Linked
    <2>9. down[f] # <<>> /\ msg.type = "AcceptSync"
        BY <1>1, <2>1 DEF FromLeader
    <2>10. MsgFits(f, lead, w, top, msg) /\ msg \in DownMsg
        BY <2>1, <2>7, <2>8, <2>9, HeadFits
    <2>11. /\ n \in Nat /\ k \in Nat /\ a \in Nat /\ g \in BOOLEAN /\ l \in Nat /\ log \in Logs
           /\ msg.seq \in SeqNum /\ msg.sync.stop \in Stops /\ msg.decided \in Nat
        <3>1. /\ msg.seq \in SeqNum /\ msg.sync.stop \in Stops /\ msg.decided \in Nat
              /\ msg.sync.idx \in Nat /\ msg.sync.suffix \in Logs
            BY <2>9, <2>10, DownFields
        <3>2. Len(reply[f]) \in Nat
            BY <2>7, LenProperties DEF UpOK, RepliesOK
        <3>3. n \in Nat /\ k \in Nat
            BY <2>2, <3>1 DEF Logs
        <3>4. Prefix(w.log, msg.sync.idx) \in Logs
            <4>1. /\ w.log \in Seq(Nat) /\ Len(w.log) \in Nat
                  /\ \A i \in 1..Len(w.log) : w.log[i] \in Nat
                BY <2>7 DEF Follows, Logs
            <4>2. PICK j : j = Min({msg.sync.idx, Len(w.log)})
                OBVIOUS
            <4>3. j \in Nat /\ j <= Len(w.log)
                BY <3>1, <4>1, <4>2, MinFacts
            <4>4. \A i \in 1..j : w.log[i] \in Nat
                BY <4>1, <4>3
            <4>5. SubSeq(w.log, 1, j) \in Seq(Nat)
                <5>1. 1 \in Int /\ j \in Int
                    BY <4>3
                <5> QED BY <4>4, <5>1, SubSeqProperties, Zenon
            <4> QED BY <4>2, <4>5 DEF Prefix, Logs
        <3>5. log \in Logs
            BY <2>2, <3>1, <3>4, ConcatProperties DEF Logs
        <3>6. w.again \in BOOLEAN
            BY <2>7 DEF Follows
        <3> QED BY SMTT(30), <2>3, <3>1, <3>2, <3>3, <3>5, <3>6
    <2>12. /\ v \in Follows /\ v.phase = "Accept" /\ v.seq = msg.seq /\ v.cached = <<>>
           /\ v.log = log /\ v.stop = msg.sync.stop /\ v.decided = msg.decided /\ v.accepted = a
           /\ v.latest = l
        <3>1. PICK q, s, d, c : q = msg.seq /\ s = msg.sync.stop /\ d = msg.decided /\ c = <<>>
            OBVIOUS
        <3>2. v = [w EXCEPT !.phase = "Accept", !.inRound = TRUE, !.seq = q, !.cached = c,
                            !.log = log, !.stop = s, !.decided = d, !.accepted = a,
                            !.again = g, !.latest = l]
            BY <2>4, <3>1
        <3>3. c \in Seq(PromiseMsg) /\ q \in SeqNum /\ s \in Stops /\ d \in Nat
            BY <2>11, <3>1
        <3>4. v \in Follows
            BY <2>7, <2>11, <3>2, <3>3 DEF Follows
        <3>5. /\ v.phase = "Accept" /\ v.seq = q /\ v.cached = c /\ v.log = log /\ v.stop = s
              /\ v.decided = d /\ v.accepted = a /\ v.latest = l
            BY <2>7, <3>2 DEF Follows
        <3> QED BY <3>1, <3>4, <3>5
    <2>13. w.again \/ msg.sync.idx > Len(w.log) => v.again
        BY <2>3, <2>4, <2>7 DEF Follows
    <2>14. ASSUME NEW q, DownOK(f, lead, w, down[f], out[f], q)
           PROVE  Handles(f, lead, w, v, q, msg)
        <3>1. FollowerOK(lead, w) /\ TopOK(f, lead, q) /\ MsgFits(f, lead, w, q, msg)
            BY <2>1, <2>9, <2>14, HeadFits DEF DownOK
        <3>2. v.accepted = msg.sync.idx + n + k
            BY <2>3, <2>12
        <3> QED BY <2>2, <2>7, <2>9, <2>12, <2>13, <3>1, <3>2, TakesSync
    <2>15. Handles(f, lead, w, v, top, msg)
        BY <2>8, <2>14
    <2>16. Grows(w, v) /\ Holds(v, v.accepted)
        BY <2>15 DEF Handles, Takes, FollowerOK
    <2>17. m \in ReplyMsg /\ Held(v, m) /\ m.type = "Accepted"
        BY <2>5, <2>11, <2>12, <2>16 DEF ReplyMsg, AcceptedMsg, Held
    <2>18. RepliesOK(v, <<m>>) /\ Len(<<m>>) = 1 /\ <<m>>[1] = m
        BY <2>17, OneReply
    <2>19. UpOK(f, lead, v, up[f], reply[f] \o <<m>>)
        BY <2>3, <2>7, <2>12, <2>16, <2>17, <2>18, UpAnswers
    <2>20. Moved(foll, foll', f, v) /\ Moved(reply, reply', f, reply[f] \o <<m>>)
        BY <2>6, <2>7, MovedFacts
    <2>21. \A q : DownOK(f, lead, foll[f], down[f], out[f], q)
                  => Handles(f, lead, foll[f], v, q, Head(down[f]))
        BY <2>1, <2>14
    <2> QED BY <1>1, <2>19, <2>20, <2>21, FollowerHandled
<1> QED BY <1>2, <1>3

\* handle_acceptdecide keeps the invariant.
LEMMA ReceiveAcceptDecideKeeps ==
    ASSUME SessionAssumption, SessionInv, NEW f \in Follower, ReceiveAcceptDecide(f)
    PROVE  SessionInv'
<1>1. FromLeader(f, "AcceptDecide")
    BY DEF ReceiveAcceptDecide, InSession
<1>2. PICK w, msg : w = foll[f] /\ msg = Head(down[f])
    OBVIOUS
<1>3. PICK n, log : n = Len(msg.entries) /\ log = w.log \o msg.entries
    OBVIOUS
<1>4. PICK a : a = [[w EXCEPT !.seq = msg.seq] EXCEPT !.log = log, !.accepted = @ + n]
    OBVIOUS
<1>5. PICK v : v = UpdateDecided(a, msg.decided)
    OBVIOUS
<1>6. \/ Ignores \/ Reconnected(f)
      \/ foll[f].phase = "Accept" /\ Expected(foll[f].seq, Head(down[f]).seq) /\ ReplyAccepted(f, v)
    <2>1. foll[f].seq \in SeqNum /\ w \in Follows
        BY <1>2, LinkFacts DEF Follows
    <2>2. PICK u : u = [[w EXCEPT !.seq = msg.seq] EXCEPT !.log = @ \o msg.entries,
                                                          !.accepted = @ + Len(msg.entries)]
        OBVIOUS
    <2>3. u = a
        BY <1>3, <1>4, <2>1, <2>2 DEF Follows
    <2>4. InSession(f, "AcceptDecide", ReplyAccepted(f, UpdateDecided(u, msg.decided)))
        BY <1>2, <2>2 DEF ReceiveAcceptDecide, Numbered
    <2> QED BY <1>5, <2>3, <2>4 DEF InSession
<1>7. CASE Ignores
    BY <1>1, <1>7, FollowerIgnored
<1>8. CASE Reconnected(f)
    BY <1>1, <1>8, ReconnectedKeeps
<1>9. CASE w.phase = "Accept" /\ Expected(w.seq, msg.seq) /\ ReplyAccepted(f, v)
    <2>1. lead \in Leads /\ w \in Follows /\ down[f] # <<>> /\ msg.type = "AcceptDecide"
        BY <1>1, <1>2, LinkFacts DEF FromLeader
    <2>2. PICK top : DownOK(f, lead, w, down[f], out[f], top)
        BY <1>2, LinkFacts DEF Linked
    <2>3. MsgFits(f, lead, w, top, msg) /\ msg \in DownMsg
        BY <1>2, <2>1, <2>2, HeadFits
    <2>4. msg.seq \in SeqNum /\ msg.decided \in Nat /\ msg.entries \in Logs
        BY <2>1, <2>3, DownFields
    <2>5. n \in Nat /\ log \in Logs
        BY <1>3, <2>1, <2>4, ConcatProperties, LenProperties DEF Follows, Logs
    <2>6. /\ a \in Follows /\ a.phase = w.phase /\ a.seq = msg.seq /\ a.log = log
          /\ a.stop = w.stop /\ a.accepted = w.accepted + n /\ a.cached = w.cached
          /\ (w.again => a.again) /\ a.decided = w.decided /\ a.latest = w.latest
        <3>1. PICK q : q = msg.seq
            OBVIOUS
        <3>2. a = [w EXCEPT !.seq = q, !.log = log, !.accepted = w.accepted + n]
            BY <1>4, <2>1, <3>1 DEF Follows
        <3>3. q \in SeqNum /\ w.accepted + n \in Nat
            BY <2>1, <2>4, <2>5, <3>1 DEF Follows
        <3> QED BY <2>1, <2>5, <3>1, <3>2, <3>3 DEF Follows
    <2>7. /\ v \in Follows /\ v.phase = a.phase /\ v.log = a.log /\ v.stop = a.stop
          /\ v.accepted = a.accepted /\ v.seq = a.seq /\ v.cached = a.cached
          /\ v.latest = a.latest /\ v.again = a.again
          /\ v.decided = a.decided \/ v.decided <= msg.decided
        <3>1. PICK d : d = msg.decided
            OBVIOUS
        <3>2. a \in Follows /\ d \in Nat /\ v = UpdateDecided(a, d)
            BY <1>5, <2>4, <2>6, <3>1
        <3>3. Updated(a, v, d)
            BY <3>2, UpdateDecidedFacts
        <3> QED BY <3>1, <3>3, Zenon DEF Updated
    <2>8. /\ v \in Follows /\ v.phase = "Accept" /\ v.seq = msg.seq /\ v.log = log
          /\ v.stop = w.stop /\ v.accepted = w.accepted + n /\ v.cached = w.cached
          /\ (w.again => v.again) /\ (v.decided = w.decided \/ v.decided <= msg.decided)
          /\ v.latest = w.latest
        BY <1>9, <2>6, <2>7
    <2>9. ASSUME NEW q, DownOK(f, lead, w, down[f], out[f], q)
          PROVE  Handles(f, lead, w, v, q, msg)
        <3>1. /\ FollowerOK(lead, w) /\ TopOK(f, lead, q) /\ MsgFits(f, lead, w, q, msg)
              /\ InStep(f, lead, w, q)
            BY <1>2, <2>1, <2>9, HeadFits DEF DownOK
        <3> QED BY <1>3, <1>9, <2>1, <2>8, <3>1, TakesEntries
    <2>10. \A q : DownOK(f, lead, foll[f], down[f], out[f], q)
                  => Handles(f, lead, foll[f], v, q, Head(down[f]))
        BY <1>2, <2>9
    <2>11. v.latest = foll[f].latest /\ ReplyAccepted(f, v)
        BY <1>2, <1>9, <2>8
    <2> QED BY <1>1, <2>10, <2>11, ReplyAcceptedKeeps
<1> QED BY <1>2, <1>6, <1>7, <1>8, <1>9

\* handle_accept_stopsign keeps the invariant.
LEMMA ReceiveAcceptStopSignKeeps ==
    ASSUME SessionAssumption, SessionInv, NEW f \in Follower, ReceiveAcceptStopSign(f)
    PROVE  SessionInv'
<1>1. FromLeader(f, "AcceptStopSign")
    BY DEF ReceiveAcceptStopSign, InSession
<1>2. PICK w, msg : w = foll[f] /\ msg = Head(down[f])
    OBVIOUS
<1>3. PICK a : a = IF w.stop = None THEN w.accepted + 1 ELSE w.accepted
    OBVIOUS
<1>4. PICK v : v = [w EXCEPT !.seq = msg.seq, !.stop = msg.stop, !.accepted = a]
    OBVIOUS
<1>5. \/ Ignores \/ Reconnected(f)
      \/ foll[f].phase = "Accept" /\ Expected(foll[f].seq, Head(down[f]).seq) /\ ReplyAccepted(f, v)
    <2>1. w \in Follows
        BY <1>2, LinkFacts
    <2>2. PICK u : u = [[w EXCEPT !.seq = msg.seq] EXCEPT !.stop = msg.stop,
                                       !.accepted = IF w.stop = None THEN @ + 1 ELSE @]
        OBVIOUS
    <2>3. u = v
        BY <1>3, <1>4, <2>1, <2>2 DEF Follows
    <2>4. InSession(f, "AcceptStopSign", ReplyAccepted(f, u))
        BY <1>2, <2>2 DEF ReceiveAcceptStopSign, Numbered
    <2> QED BY <2>3, <2>4 DEF InSession
<1>6. CASE Ignores
    BY <1>1, <1>6, FollowerIgnored
<1>7. CASE Reconnected(f)
    BY <1>1, <1>7, ReconnectedKeeps
<1>8. CASE w.phase = "Accept" /\ Expected(w.seq, msg.seq) /\ ReplyAccepted(f, v)
    <2>1. lead \in Leads /\ w \in Follows /\ down[f] # <<>> /\ msg.type = "AcceptStopSign"
        BY <1>1, <1>2, LinkFacts DEF FromLeader
    <2>2. PICK top : DownOK(f, lead, w, down[f], out[f], top)
        BY <1>2, LinkFacts DEF Linked
    <2>3. MsgFits(f, lead, w, top, msg) /\ msg \in DownMsg
        BY <1>2, <2>1, <2>2, HeadFits
    <2>4. msg.seq \in SeqNum /\ msg.stop \in Stops
        BY <2>1, <2>3, DownFields
    <2>5. /\ v \in Follows /\ v.phase = w.phase /\ v.seq = msg.seq /\ v.log = w.log
          /\ v.stop = msg.stop /\ v.cached = w.cached /\ (w.again => v.again)
          /\ v.decided = w.decided /\ v.latest = w.latest /\ v.accepted = a
        <3>1. PICK q, s : q = msg.seq /\ s = msg.stop
            OBVIOUS
        <3>2. v = [w EXCEPT !.seq = q, !.stop = s, !.accepted = a]
            BY <1>4, <3>1
        <3>3. q \in SeqNum /\ s \in Stops /\ a \in Nat
            BY <1>3, <2>1, <2>4, <3>1 DEF Follows
        <3> QED BY <2>1, <3>1, <3>2, <3>3 DEF Follows
    <2>6. ASSUME NEW q, DownOK(f, lead, w, down[f], out[f], q)
          PROVE  Handles(f, lead, w, v, q, msg)
        <3>1. /\ FollowerOK(lead, w) /\ TopOK(f, lead, q) /\ MsgFits(f, lead, w, q, msg)
              /\ InStep(f, lead, w, q)
            BY <1>2, <2>1, <2>6, HeadFits DEF DownOK
        <3>2. v.accepted = IF w.stop = None THEN w.accepted + 1 ELSE w.accepted
            BY <1>3, <2>5
        <3> QED BY <1>8, <2>1, <2>5, <3>1, <3>2, TakesStopSign
    <2>7. \A q : DownOK(f, lead, foll[f], down[f], out[f], q)
                 => Handles(f, lead, foll[f], v, q, Head(down[f]))
        BY <1>2, <2>6
    <2>8. v.latest = foll[f].latest /\ ReplyAccepted(f, v)
        BY <1>2, <1>8, <2>5
    <2> QED BY <1>1, <2>7, <2>8, ReplyAcceptedKeeps
<1> QED BY <1>2, <1>5, <1>6, <1>7, <1>8

\* handle_decide keeps the invariant.
LEMMA ReceiveDecideKeeps ==
    ASSUME SessionAssumption, SessionInv, NEW f \in Follower, ReceiveDecide(f)
    PROVE  SessionInv'
<1>1. FromLeader(f, "Decide")
    BY DEF ReceiveDecide, InSession
<1>2. PICK w, msg : w = foll[f] /\ msg = Head(down[f])
    OBVIOUS
<1>3. PICK a : a = [w EXCEPT !.seq = msg.seq]
    OBVIOUS
<1>4. PICK v : v = UpdateDecided(a, msg.decided)
    OBVIOUS
<1>5. \/ Ignores \/ Reconnected(f)
      \/ /\ foll[f].phase = "Accept" /\ Expected(foll[f].seq, Head(down[f]).seq)
         /\ ReplyAccepted(f, v) \/ (foll' = [foll EXCEPT ![f] = v] /\ reply' = reply)
    BY <1>2, <1>3, <1>4 DEF ReceiveDecide, InSession, Numbered
<1>6. CASE Ignores
    BY <1>1, <1>6, FollowerIgnored
<1>7. CASE Reconnected(f)
    BY <1>1, <1>7, ReconnectedKeeps
<1>8. CASE /\ w.phase = "Accept" /\ Expected(w.seq, msg.seq)
           /\ ReplyAccepted(f, v) \/ (foll' = [foll EXCEPT ![f] = v] /\ reply' = reply)
    <2>1. lead \in Leads /\ w \in Follows /\ down[f] # <<>> /\ msg.type = "Decide"
        BY <1>1, <1>2, LinkFacts DEF FromLeader
    <2>2. PICK top : DownOK(f, lead, w, down[f], out[f], top)
        BY <1>2, LinkFacts DEF Linked
    <2>3. MsgFits(f, lead, w, top, msg) /\ msg \in DownMsg
        BY <1>2, <2>1, <2>2, HeadFits
    <2>4. msg.seq \in SeqNum /\ msg.decided \in Nat
        BY <2>1, <2>3, DownFields
    <2>5. /\ a \in Follows /\ a.phase = w.phase /\ a.seq = msg.seq /\ a.log = w.log
          /\ a.stop = w.stop /\ a.accepted = w.accepted /\ a.cached = w.cached
          /\ (w.again => a.again) /\ a.decided = w.decided /\ a.latest = w.latest
        <3>1. PICK q : q = msg.seq
            OBVIOUS
        <3> QED BY <1>3, <2>1, <2>4, <3>1 DEF Follows
    <2>6. /\ v \in Follows /\ v.phase = a.phase /\ v.log = a.log /\ v.stop = a.stop
          /\ v.accepted = a.accepted /\ v.seq = a.seq /\ v.cached = a.cached
          /\ v.latest = a.latest /\ v.again = a.again
          /\ v.decided = a.decided \/ v.decided <= msg.decided
        BY <1>4, <2>4, <2>5, UpdateDecidedFacts DEF Updated
    <2>7. /\ v \in Follows /\ v.phase = "Accept" /\ v.seq = msg.seq /\ v.log = w.log
          /\ v.stop = w.stop /\ v.accepted = w.accepted /\ v.cached = w.cached
          /\ (w.again => v.again) /\ (v.decided = w.decided \/ v.decided <= msg.decided)
          /\ v.latest = w.latest
        BY <1>8, <2>5, <2>6
    <2>8. ASSUME NEW q, DownOK(f, lead, w, down[f], out[f], q)
          PROVE  Handles(f, lead, w, v, q, msg)
        <3>1. /\ FollowerOK(lead, w) /\ TopOK(f, lead, q) /\ MsgFits(f, lead, w, q, msg)
              /\ InStep(f, lead, w, q)
            BY <1>2, <2>1, <2>8, HeadFits DEF DownOK
        <3> QED BY <1>8, <2>1, <2>7, <3>1, TakesDecide
    <2>9. \A q : DownOK(f, lead, foll[f], down[f], out[f], q)
                 => Handles(f, lead, foll[f], v, q, Head(down[f]))
        BY <1>2, <2>8
    <2>10. CASE ReplyAccepted(f, v)
        <3>1. v.latest = foll[f].latest
            BY <1>2, <2>7
        <3> QED BY <1>1, <2>9, <2>10, <3>1, ReplyAcceptedKeeps
    <2>11. CASE foll' = [foll EXCEPT ![f] = v] /\ reply' = reply
        <3>1. Moved(foll, foll', f, v) /\ Moved(reply, reply', f, reply[f])
            BY <2>11, MovedFacts DEF SessionInv
        <3>2. Grows(w, v) /\ UpOK(f, lead, w, up[f], reply[f])
            BY <1>2, <2>2, <2>8, LinkFacts DEF Handles, Takes
        <3>3. RepliesOK(v, up[f]) /\ RepliesOK(v, reply[f])
            BY <2>1, <2>7, <3>2, RepliesKept DEF UpOK
        <3>4. v.latest # 0 => v.latest \in 1..Len(reply[f]) /\ reply[f][v.latest].type = "Accepted"
            BY <2>7, <3>2 DEF UpOK
        <3>5. UpOK(f, lead, v, up[f], reply[f])
            BY <2>1, <2>7, <3>2, <3>3, <3>4, UpMoves
        <3> QED BY <1>1, <2>9, <3>1, <3>5, FollowerHandled
    <2> QED BY <1>8, <2>10, <2>11
<1> QED BY <1>2, <1>5, <1>6, <1>7, <1>8

\* take_outgoing_messages of a follower keeps the invariant.
LEMMA TakeAtFollowerKeeps ==
    ASSUME SessionAssumption, SessionInv, NEW f \in Follower, TakeAtFollower(f)
    PROVE  SessionInv'
<1>1. PICK w, v : w = foll[f] /\ v = [foll[f] EXCEPT !.latest = 0]
    OBVIOUS
<1>2. /\ lead \in Leads /\ w \in Follows /\ UpOK(f, lead, w, up[f], reply[f])
      /\ FollowerOK(lead, w)
    BY <1>1, LinkFacts
<1>3. /\ v \in Follows /\ v.log = w.log /\ v.stop = w.stop /\ v.accepted = w.accepted
      /\ v.decided = w.decided /\ (w.again => v.again) /\ v.cached = w.cached
      /\ v.phase = w.phase /\ v.seq = w.seq /\ v.latest = 0
    BY <1>1, <1>2 DEF Follows
<1>4. Stays(w, v)
    BY <1>2, <1>3 DEF Stays, FollowerOK
<1>5. Grows(w, v)
    BY <1>2, <1>3 DEF Grows, Follows, Logs
<1>6. RepliesOK(v, up[f] \o reply[f])
    <2>1. RepliesOK(v, up[f]) /\ RepliesOK(v, reply[f])
        BY <1>2, <1>3, <1>5, RepliesKept DEF UpOK
    <2> QED BY <2>1, RepliesConcat
<1>7. RepliesOK(v, <<>>)
    BY DEF RepliesOK
<1>8. UpOK(f, lead, v, up[f] \o reply[f], <<>>)
    BY <1>2, <1>3, <1>5, <1>6, <1>7, UpMoves
<1>9. /\ Moved(foll, foll', f, v) /\ Moved(up, up', f, up[f] \o reply[f])
      /\ Moved(reply, reply', f, <<>>)
    <2>1. DOMAIN foll = Follower /\ DOMAIN reply = Follower /\ DOMAIN up = Follower
        BY DEF SessionInv
    <2>2. /\ foll' = [foll EXCEPT ![f] = v] /\ reply' = [reply EXCEPT ![f] = <<>>]
          /\ up' = [up EXCEPT ![f] = up[f] \o reply[f]]
        BY <1>1, <2>1 DEF TakeAtFollower
    <2> QED BY <2>1, <2>2, MovedFacts
<1>10. /\ lead' = lead /\ out' = out /\ down' = down /\ buffered' \in [Server -> Stops]
    BY DEF TakeAtFollower, SessionInv
<1> QED BY <1>1, <1>4, <1>8, <1>9, <1>10, FollowerStayed

\* The step of a follower that only sends
LEMMA FollowerSends ==
    ASSUME SessionAssumption, SessionInv, NEW f \in Follower, NEW ms,
           lead' = lead, out' = out, down' = down, buffered' \in [Server -> Stops],
           foll' = foll, up' = up, Replies(f, ms), RepliesOK(foll[f], ms)
    PROVE  SessionInv'
<1>1. PICK w : w = foll[f]
    OBVIOUS
<1>2. /\ lead \in Leads /\ w \in Follows /\ UpOK(f, lead, w, up[f], reply[f])
      /\ FollowerOK(lead, w)
    BY <1>1, LinkFacts
<1>3. Stays(w, w) /\ Grows(w, w)
    BY <1>2 DEF Stays, FollowerOK, Grows, Follows, Logs
<1>4. UpOK(f, lead, w, up[f], reply[f] \o ms)
    BY <1>1, <1>2, <1>3, UpAnswers
<1>5. /\ Moved(foll, foll', f, w) /\ Moved(up, up', f, up[f])
      /\ Moved(reply, reply', f, reply[f] \o ms)
    BY <1>1, MovedFacts DEF SessionInv, Replies
<1> QED BY <1>1, <1>3, <1>4, <1>5, FollowerStayed

\* resend_messages_follower keeps the invariant.
LEMMA ResendAtFollowerKeeps ==
    ASSUME SessionAssumption, SessionInv, NEW f \in Follower, ResendAtFollower(f)
    PROVE  SessionInv'
<1>1. foll[f] \in Follows /\ FollowerOK(lead, foll[f])
    BY LinkFacts
<1>2. RepliesOK(foll[f], foll[f].cached)
    <2>1. foll[f].cached \in Seq(PromiseMsg)
        BY <1>1 DEF Follows
    <2>2. foll[f].cached \in Seq(ReplyMsg)
        BY <2>1 DEF ReplyMsg
    <2> QED BY <1>1, <2>2 DEF RepliesOK, Held, FollowerOK
<1>3. RepliesOK(foll[f], <<[type |-> "PrepareReq"]>>)
    <2>1. [type |-> "PrepareReq"] \in ReplyMsg /\ Held(foll[f], [type |-> "PrepareReq"])
        BY DEF ReplyMsg, Held
    <2> QED BY <2>1, OneReply
<1>4. /\ lead' = lead /\ out' = out /\ down' = down /\ foll' = foll /\ up' = up
      /\ buffered' \in [Server -> Stops]
    BY DEF ResendAtFollower, SessionInv
<1>5. Replies(f, foll[f].cached) \/ Replies(f, <<[type |-> "PrepareReq"]>>)
    BY DEF ResendAtFollower
<1> QED BY <1>2, <1>3, <1>4, <1>5, FollowerSends

\* reconnected of the user keeps the invariant.
LEMMA UserReconnectedKeeps ==
    ASSUME SessionAssumption, SessionInv, NEW f \in Follower, UserReconnected(f)
    PROVE  SessionInv'
<1>1. Reconnected(f) /\ lead' = lead /\ out' = out /\ down' = down /\ up' = up
    BY DEF UserReconnected
<1>2. buffered' \in [Server -> Stops]
    BY DEF UserReconnected, SessionInv
<1>3. PICK v, rs : /\ Moved(foll, foll', f, v) /\ Moved(reply, reply', f, rs)
                   /\ Stays(foll[f], v) /\ UpOK(f, lead, v, up[f], rs)
    BY <1>1, ReconnectedStays
<1>4. Moved(up, up', f, up[f])
    BY <1>1, MovedFacts DEF SessionInv
<1> QED BY <1>1, <1>2, <1>3, <1>4, FollowerStayed

\* A lost message disturbs nothing: what comes after it fits as well.
LEMMA LoseKeeps ==
    ASSUME SessionAssumption, SessionInv, NEW f \in Follower, Lose(f)
    PROVE  SessionInv'
<1>1. PICK w : w = foll[f]
    OBVIOUS
<1>2. /\ lead \in Leads /\ w \in Follows /\ UpOK(f, lead, w, up[f], reply[f])
      /\ FollowerOK(lead, w) /\ Linked(f, lead, w, down[f], out[f])
    BY <1>1, LinkFacts
<1>3. Stays(w, w) /\ Grows(w, w)
    BY <1>2 DEF Stays, FollowerOK, Grows, Follows, Logs
<1>4. /\ lead' = lead /\ foll' = foll /\ out' = out /\ reply' = reply
      /\ buffered' \in [Server -> Stops]
    BY DEF Lose, SessionInv
<1>5. Moved(foll, foll', f, w) /\ Moved(reply, reply', f, reply[f])
    BY <1>1, <1>4, MovedFacts DEF SessionInv
<1>6. CASE down[f] # <<>> /\ down' = [down EXCEPT ![f] = Tail(@)] /\ up' = up
    <2>1. PICK top : DownOK(f, lead, w, down[f], out[f], top)
        BY <1>2 DEF Linked
    <2>2. Handles(f, lead, w, w, top, Head(down[f]))
        BY <1>2, <1>3, <2>1, StaysHandles DEF DownOK
    <2>3. DownOK(f, lead, w, Tail(down[f]), out[f], top)
        BY <1>2, <1>6, <2>1, <2>2, DownMoves
    <2>4. Linked(f, lead, w, Tail(down[f]), out[f])
        BY <2>3 DEF Linked
    <2>5. Moved(down, down', f, Tail(down[f])) /\ Moved(up, up', f, up[f])
        BY <1>6, MovedFacts DEF SessionInv
    <2> QED BY <1>1, <1>2, <1>3, <1>4, <1>5, <2>4, <2>5, FollowerMoved
<1>7. CASE up[f] # <<>> /\ up' = [up EXCEPT ![f] = Tail(@)] /\ down' = down
    <2>1. RepliesOK(w, Tail(up[f])) /\ RepliesOK(w, reply[f])
        BY <1>2, <1>7, RepliesTail DEF UpOK
    <2>2. UpOK(f, lead, w, Tail(up[f]), reply[f])
        BY <1>2, <2>1 DEF UpOK
    <2>3. Moved(up, up', f, Tail(up[f]))
        BY <1>7, MovedFacts DEF SessionInv
    <2> QED BY <1>1, <1>3, <1>4, <1>5, <1>7, <2>2, <2>3, FollowerStayed
<1> QED BY <1>6, <1>7 DEF Lose

\* reconfigure at a follower keeps the invariant.
LEMMA ReconfigureAtFollowerKeeps ==
    ASSUME SessionAssumption, SessionInv, NEW f \in Follower, Reconfigure(f)
    PROVE  SessionInv'
<1>1. f # Leader /\ f \in Server
    BY DEF SessionAssumption, Server
<1>2. lead' = lead /\ foll' = foll /\ out' = out /\ down' = down /\ up' = up
    BY <1>1 DEF Reconfigure
<1>3. CASE Replies(f, <<[type |-> "ForwardStopSign", stop |-> f]>>) /\ UNCHANGED buffered
    <2>1. PICK m : m = [type |-> "ForwardStopSign", stop |-> f]
        OBVIOUS
    <2>2. m \in ReplyMsg /\ Held(foll[f], m)
        BY <1>1, <2>1 DEF ReplyMsg, Held
    <2>3. RepliesOK(foll[f], <<m>>) /\ Replies(f, <<m>>)
        BY <1>3, <2>1, <2>2, OneReply
    <2>4. buffered' \in [Server -> Stops]
        BY <1>3 DEF SessionInv
    <2> QED BY <1>2, <2>3, <2>4, FollowerSends
<1>4. CASE reply' = reply /\ (buffered' = buffered \/ buffered' = [buffered EXCEPT ![f] = f])
    <2>1. buffered' \in [Server -> Stops]
        BY <1>1, <1>4 DEF SessionInv, Stops
    <2>2. RepliesOK(foll[f], <<>>)
        BY DEF RepliesOK
    <2>3. Moved(reply, reply', f, reply[f]) /\ Moved(foll, foll', f, foll[f])
          /\ Moved(up, up', f, up[f])
        BY <1>2, <1>4, MovedFacts DEF SessionInv
    <2>4. foll[f] \in Follows /\ FollowerOK(lead, foll[f]) /\ UpOK(f, lead, foll[f], up[f], reply[f])
        BY LinkFacts
    <2>5. Stays(foll[f], foll[f])
        BY <2>4 DEF Stays, FollowerOK
    <2> QED BY <1>2, <2>1, <2>3, <2>4, <2>5, FollowerStayed
<1> QED BY <1>1, <1>3, <1>4 DEF Reconfigure

\* What a follower does with a message keeps the invariant.
LEMMA HandleAtFollowerKeeps ==
    ASSUME SessionAssumption, SessionInv, NEW f \in Follower, HandleAtFollower(f)
    PROVE  SessionInv'
BY ReceivePrepareKeeps, ReceiveAcceptSyncKeeps, ReceiveAcceptDecideKeeps,
   ReceiveAcceptStopSignKeeps, ReceiveDecideKeeps DEF HandleAtFollower

--------------------------------------------------------------------------------
(* A link and the steps of the leader *)

\* A message put behind the second of two queues
LEMMA CatAppend ==
    ASSUME NEW S, NEW s \in Seq(S), NEW t \in Seq(S), NEW m \in S
    PROVE  /\ s \o Append(t, m) = Append(s \o t, m)
           /\ s \o t \in Seq(S) /\ Append(t, m) \in Seq(S)
           /\ Len(Append(t, m)) = Len(t) + 1 /\ Append(t, m)[Len(t) + 1] = m
           /\ \A i \in 1..Len(t) : Append(t, m)[i] = t[i]
<1>1. PICK o : o = <<m>>
    OBVIOUS
<1>2. o \in Seq(S) /\ s \o t \in Seq(S)
    BY <1>1, ConcatProperties
<1>3. Append(t, m) = t \o o /\ Append(s \o t, m) = (s \o t) \o o
    BY <1>1, <1>2, AppendIsConcat
<1>4. (s \o t) \o o = s \o (t \o o)
    BY SMTT(30), <1>2, ConcatAssociative
<1> QED BY <1>2, <1>3, <1>4, AppendProperties

\* u is t with m at k, and p is what it was behind s.
Changed(S, s, t, k, m, u, p) ==
    /\ s \o u = [p EXCEPT ![Len(s) + k] = m] /\ u \in Seq(S) /\ Len(u) = Len(t)
    /\ u[k] = m /\ \A i \in 1..Len(t) : i # k => u[i] = t[i]

\* A message changed in the second of two queues
LEMMA CatExcept ==
    ASSUME NEW S, NEW s \in Seq(S), NEW t \in Seq(S), NEW k \in 1..Len(t), NEW m \in S
    PROVE  Changed(S, s, t, k, m, [t EXCEPT ![k] = m], s \o t)
<1>1. PICK u, p, n : u = [t EXCEPT ![k] = m] /\ p = s \o t /\ n = Len(s)
    OBVIOUS
<1>2. /\ u \in Seq(S) /\ Len(u) = Len(t) /\ \A i \in 1..Len(t) : u[i] = IF i = k THEN m ELSE t[i]
    BY <1>1, ExceptSeq
<1>3. /\ p \in Seq(S) /\ Len(p) = n + Len(t) /\ n \in Nat /\ Len(t) \in Nat
      /\ \A i \in 1..n + Len(t) : p[i] = IF i <= n THEN s[i] ELSE t[i - n]
    BY <1>1, ConcatProperties, LenProperties
<1>4. n + k \in 1..Len(p)
    BY <1>3
<1>5. PICK r : r = [p EXCEPT ![n + k] = m]
    OBVIOUS
<1>6. /\ r \in Seq(S) /\ Len(r) = Len(p)
      /\ \A i \in 1..Len(p) : r[i] = IF i = n + k THEN m ELSE p[i]
    BY <1>3, <1>4, <1>5, ExceptSeq
<1>7. PICK q : q = s \o u
    OBVIOUS
<1>8. /\ q \in Seq(S) /\ Len(q) = n + Len(t)
      /\ \A i \in 1..n + Len(t) : q[i] = IF i <= n THEN s[i] ELSE u[i - n]
    BY <1>1, <1>2, <1>7, ConcatProperties
<1>9. ASSUME NEW i \in 1..Len(q) PROVE q[i] = r[i]
    <2>1. CASE i <= n
        BY <1>3, <1>6, <1>8, <2>1
    <2>2. CASE ~(i <= n)
        <3>1. i - n \in 1..Len(t) /\ (i - n = k <=> i = n + k) /\ i \in 1..n + Len(t)
            BY <1>3, <1>8, <2>2
        <3>2. q[i] = u[i - n] /\ p[i] = t[i - n]
            BY <1>3, <1>8, <2>2, <3>1
        <3> QED BY <1>2, <1>3, <1>6, <3>1, <3>2
    <2> QED BY <2>1, <2>2
<1>10. q = r
    BY <1>3, <1>6, <1>8, <1>9, SeqEqual
<1>11. Changed(S, s, t, k, m, u, p)
    BY <1>1, <1>2, <1>5, <1>7, <1>10 DEF Changed
<1> QED BY <1>1, <1>11

\* The next numbers
LEMMA NextFacts ==
    ASSUME NEW q \in SeqNum
    PROVE  /\ Next1(q) \in SeqNum /\ AtMost(q, Next1(q)) /\ Next1(q) # q
           /\ Next1(q).counter >= 1 /\ Before(Next1(q)) = q
           /\ Next1(q).counter = q.counter + 1
           /\ NextSession(q) \in SeqNum /\ AtMost(q, NextSession(q)) /\ NextSession(q) # q
           /\ NextSession(q).counter = 1
BY DEF SeqNum, Next1, NextSession, AtMost, Before

\* The numbers up to q keep their meaning, the others stand for n.
Meaning(top, q, n) == [p \in SeqNum |-> IF AtMost(p, q) THEN top[p] ELSE n]

\* The number l2.seq[f] comes next after q.
LEMMA MeaningFacts ==
    ASSUME NEW f \in Follower, NEW l2 \in Leads, NEW q \in SeqNum,
           NEW s, s = l2.seq[f], AtMost(q, s), s # q, s.counter >= 1,
           NEW top \in [SeqNum -> Nat], NEW n, n = Len(l2.log), top[q] <= n,
           \A p, r \in SeqNum : AtMost(p, r) /\ AtMost(r, q) => top[p] <= top[r],
           l2.stop # None /\ s.counter >= 2 => Before(s) = q /\ top[q] = n,
           NEW t2, t2 = Meaning(top, q, n)
    PROVE  /\ TopOK(f, l2, t2) /\ t2[s] = n
           /\ \A p \in SeqNum : AtMost(p, q) => t2[p] = top[p]
<1>1. s \in SeqNum /\ n \in Nat
    BY DEF Leads, Logs
<1>2. t2 \in [SeqNum -> Nat] /\ \A p \in SeqNum : AtMost(p, q) => t2[p] = top[p]
    BY <1>1 DEF Meaning
<1>3. \A p \in SeqNum : ~AtMost(p, q) => t2[p] = n
    BY DEF Meaning
<1>4. ~AtMost(s, q)
    BY <1>1, AtMostFacts
<1>5. t2[s] = n
    BY <1>1, <1>3, <1>4
<1>6. ASSUME NEW p \in SeqNum, NEW r \in SeqNum, AtMost(p, r), AtMost(r, s)
      PROVE  t2[p] <= t2[r]
    <2>1. CASE AtMost(r, q)
        <3>1. AtMost(p, q)
            BY <1>6, <2>1, AtMostFacts
        <3> QED BY <1>2, <1>6, <2>1, <3>1
    <2>2. CASE ~AtMost(r, q)
        <3>1. CASE AtMost(p, q)
            <4>1. top[p] <= top[q] /\ top[p] \in Nat /\ top[q] \in Nat
                BY <3>1, AtMostFacts
            <4> QED BY <1>1, <1>2, <1>3, <2>2, <3>1, <4>1
        <3>2. CASE ~AtMost(p, q)
            BY <1>1, <1>3, <2>2, <3>2
        <3> QED BY <3>1, <3>2
    <2> QED BY <2>1, <2>2
<1>7. l2.stop # None /\ s.counter >= 2 => t2[Before(s)] = n
    BY <1>2, AtMostFacts
<1> QED BY <1>1, <1>2, <1>5, <1>6, <1>7 DEF TopOK

\* The leader sends nothing to the follower.
LEMMA LeadStays ==
    ASSUME NEW f \in Follower, NEW ld \in Leads, NEW l2 \in Leads, NEW w \in Follows,
           NEW dn, NEW ot, NEW top, DownOK(f, ld, w, dn, ot, top), LeadGrows(f, ld, l2),
           l2.seq[f] = ld.seq[f], l2.latest[f] \in {0, ld.latest[f]},
           HasPromised(l2, f) => HasPromised(ld, f) /\ l2.log = ld.log /\ l2.stop = ld.stop,
           l2.latest[f] # 0 => HasPromised(l2, f)
    PROVE  DownOK(f, l2, w, dn, ot, top)
<1>1. /\ dn \in Seq(DownMsg) /\ ot \in Seq(DownMsg) /\ TopOK(f, ld, top) /\ FollowerOK(ld, w)
      /\ PipeOK(f, ld, w, top, dn \o ot) /\ MergeOK(f, ld, w, ot) /\ InStep(f, ld, w, top)
    BY DEF DownOK
<1>2. top \in [SeqNum -> Nat] /\ Agree(f, ld, top, top)
    BY <1>1 DEF TopOK, Agree
<1>3. FollowerOK(l2, w) /\ PipeOK(f, l2, w, top, dn \o ot)
    BY <1>1, <1>2, FollowerKept, PipeKept
<1>4. InStep(f, l2, w, top)
    BY <1>1 DEF InStep
<1>5. TopOK(f, l2, top)
    <2>1. /\ top[l2.seq[f]] \in Nat /\ Len(ld.log) \in Nat /\ Len(l2.log) \in Nat
          /\ top[l2.seq[f]] <= Len(ld.log) /\ Len(ld.log) <= Len(l2.log)
        BY <1>1, <1>2 DEF TopOK, Leads, Logs, LeadGrows
    <2>2. top[l2.seq[f]] <= Len(l2.log)
        BY <2>1
    <2>3. HasPromised(l2, f) =>
             /\ top[l2.seq[f]] = Len(l2.log) /\ l2.seq[f].counter >= 1
             /\ l2.stop # None /\ l2.seq[f].counter >= 2 => top[Before(l2.seq[f])] = Len(l2.log)
        BY <1>1 DEF TopOK
    <2>4. \A p, q \in SeqNum : AtMost(p, q) /\ AtMost(q, l2.seq[f]) => top[p] <= top[q]
        BY <1>1 DEF TopOK
    <2> QED BY <1>2, <2>2, <2>3, <2>4 DEF TopOK
<1>6. MergeOK(f, l2, w, ot)
    BY <1>1 DEF MergeOK
<1> QED BY <1>1, <1>3, <1>4, <1>5, <1>6 DEF DownOK

\* take_outgoing_messages of the leader
LEMMA AllTaken ==
    ASSUME NEW f \in Follower, NEW ld, NEW w, NEW dn, NEW ot, NEW top,
           DownOK(f, ld, w, dn, ot, top), ld.latest[f] = 0
    PROVE  DownOK(f, ld, w, dn \o ot, <<>>, top)
<1>1. PICK p : p = dn \o ot
    OBVIOUS
<1>2. p \in Seq(DownMsg) /\ PipeOK(f, ld, w, top, p)
    BY <1>1 DEF DownOK, PipeOK
<1>3. p \o <<>> = p /\ <<>> \in Seq(DownMsg)
    BY <1>2, ConcatEmptySeq
<1>4. MergeOK(f, ld, w, <<>>)
    BY DEF MergeOK
<1>5. DownOK(f, ld, w, p, <<>>, top)
    BY <1>2, <1>3, <1>4 DEF DownOK
<1> QED BY <1>1, <1>5

\* A message that has no number or the last one is put behind the others.
LEMMA SentBehind ==
    ASSUME NEW f \in Follower, NEW ld, NEW w, NEW dn, NEW ot, NEW top, NEW m,
           DownOK(f, ld, w, dn, ot, top), MsgFits(f, ld, w, top, m),
           \/ m.type = "Prepare" /\ ld.latest[f] = 0
           \/ m.type \in {"AcceptStopSign", "Decide"} /\ m.seq = ld.seq[f] /\ ld.stop # None
    PROVE  DownOK(f, ld, w, dn, Append(ot, m), top)
<1>1. /\ dn \in Seq(DownMsg) /\ ot \in Seq(DownMsg) /\ TopOK(f, ld, top) /\ FollowerOK(ld, w)
      /\ PipeOK(f, ld, w, top, dn \o ot) /\ MergeOK(f, ld, w, ot) /\ InStep(f, ld, w, top)
      /\ m \in DownMsg
    BY DEF DownOK, MsgFits
<1>2. PICK p : p = dn \o ot
    OBVIOUS
<1>3. PipeOK(f, ld, w, top, p)
    BY <1>1, <1>2
<1>4. \A i \in 1..Len(p) : InOrder(ld, p[i], m)
    BY <1>3 DEF PipeOK, MsgFits, InOrder
<1>5. PipeOK(f, ld, w, top, Append(p, m))
    BY <1>3, <1>4, PipeAppend
<1>6. dn \o Append(ot, m) = Append(p, m) /\ Append(ot, m) \in Seq(DownMsg)
      /\ Len(Append(ot, m)) = Len(ot) + 1 /\ \A i \in 1..Len(ot) : Append(ot, m)[i] = ot[i]
    BY <1>1, <1>2, CatAppend
<1>7. MergeOK(f, ld, w, Append(ot, m))
    <2> SUFFICES ASSUME ld.latest[f] # 0 PROVE MergeOK(f, ld, w, Append(ot, m))
        BY DEF MergeOK
    <2>1. ld.stop # None
        OBVIOUS
    <2>2. PICK k, o : k = ld.latest[f] /\ o = Append(ot, m)
        OBVIOUS
    <2>3. HasPromised(ld, f) /\ k \in 1..Len(ot) /\ ot[k].type = "AcceptDecide" /\ Len(ot) \in Nat
        BY <1>1, <2>2, LenProperties DEF MergeOK
    <2>4. k \in 1..Len(o) /\ o[k].type = "AcceptDecide"
        BY <1>6, <2>2, <2>3
    <2> QED BY <2>1, <2>2, <2>3, <2>4 DEF MergeOK
<1> QED BY <1>1, <1>5, <1>6, <1>7 DEF DownOK

\* A number before s is at most the one before s.
LEMMA BelowNext ==
    ASSUME NEW p \in SeqNum, NEW s \in SeqNum, AtMost(p, s), p # s, s.counter >= 1
    PROVE  AtMost(p, Before(s))
BY DEF SeqNum, AtMost, Before

\* What the leader l2 sends to the follower w under its next number
Fresh(ld, l2, w, m) ==
    /\ m.type = "AcceptSync" =>
          /\ m.decided <= l2.decided /\ Holds(w, m.sync.idx)
          /\ Counts(m.sync.suffix, m.sync.idx) /\ m.sync.stop = l2.stop
          /\ Len(m.sync.suffix)
                 = IF m.sync.idx <= Len(l2.log) THEN Len(l2.log) - m.sync.idx ELSE 0
    /\ m.type = "AcceptDecide" =>
          /\ m.decided <= l2.decided /\ Counts(m.entries, Len(ld.log))
          /\ Len(l2.log) = Len(ld.log) + Len(m.entries)
    /\ m.type = "AcceptStopSign" =>
          m.stop = l2.stop /\ l2.stop # None /\ Len(l2.log) = Len(ld.log)
    /\ m.type = "Decide" => m.decided <= l2.decided /\ Len(l2.log) = Len(ld.log)

\* Which number comes next
NextNumber(f, ld, l2, q, type) ==
    \/ q = NextSession(ld.seq[f]) /\ type = "AcceptSync"
    \/ /\ q = Next1(ld.seq[f]) /\ type \in {"AcceptDecide", "AcceptStopSign", "Decide"}
       /\ HasPromised(ld, f) /\ (l2.stop # None => Len(l2.log) = Len(ld.log))

\* Such a message fits.
LEMMA FreshFits ==
    ASSUME NEW f \in Follower, NEW ld \in Leads, NEW l2 \in Leads, NEW w \in Follows, NEW top,
           FollowerOK(ld, w), TopOK(f, ld, top), LeadGrows(f, ld, l2),
           NEW m \in DownMsg, NEW q, q = m.seq, q = l2.seq[f], NextNumber(f, ld, l2, q, m.type),
           Fresh(ld, l2, w, m), NEW t2, t2 = Meaning(top, ld.seq[f], Len(l2.log))
    PROVE  /\ TopOK(f, l2, t2) /\ MsgFits(f, l2, w, t2, m) /\ Agree(f, ld, top, t2)
           /\ AtMost(ld.seq[f], q) /\ q # ld.seq[f] /\ q \in SeqNum
<1>1. PICK s, n : s = ld.seq[f] /\ n = Len(l2.log)
    OBVIOUS
<1>2. /\ s \in SeqNum /\ n \in Nat /\ Len(ld.log) \in Nat /\ Len(w.log) \in Nat
      /\ Len(ld.log) <= n /\ Len(w.log) <= Len(ld.log) /\ top \in [SeqNum -> Nat]
    BY SMTT(30), <1>1 DEF Leads, Follows, Logs, LeadGrows, FollowerOK, TopOK
<1>3. /\ q \in SeqNum /\ AtMost(s, q) /\ q # s /\ q.counter >= 1
      /\ q.counter >= 2 => q = Next1(s) /\ Before(q) = s /\ HasPromised(ld, f)
                           /\ (l2.stop # None => n = Len(ld.log))
    BY <1>1, <1>2, NextFacts DEF NextNumber
<1>4. /\ \A p, r \in SeqNum : AtMost(p, r) /\ AtMost(r, s) => top[p] <= top[r]
      /\ top[s] <= Len(ld.log) /\ top[s] \in Nat
      /\ HasPromised(ld, f) => top[s] = Len(ld.log) /\ s.counter >= 1
    BY <1>1, <1>2 DEF TopOK
<1>5. top[s] <= n
    BY <1>2, <1>4
<1>6. l2.stop # None /\ q.counter >= 2 => Before(q) = s /\ top[s] = n
    BY <1>3, <1>4
<1>7. /\ TopOK(f, l2, t2) /\ t2[q] = n
      /\ \A p \in SeqNum : AtMost(p, s) => t2[p] = top[p]
    <2>1. t2 = Meaning(top, s, n)
        BY <1>1
    <2> QED BY SMTT(30), <1>1, <1>2, <1>3, <1>4, <1>5, <1>6, <2>1, MeaningFacts
<1>8. Agree(f, ld, top, t2)
    BY <1>1, <1>7 DEF Agree, TopOK
<1>9. m.type # "Prepare" /\ Len(w.log) <= t2[m.seq] /\ AtMost(q, q)
    BY <1>2, <1>3, <1>7, AtMostFacts DEF NextNumber
<1>10. ASSUME m.type # "AcceptSync"
       PROVE  q.counter >= 2 /\ Before(q) = s /\ HasPromised(ld, f) /\ t2[s] = Len(ld.log)
    <2>1. q = Next1(s) /\ HasPromised(ld, f)
        BY <1>1, <1>10 DEF NextNumber
    <2>2. q.counter >= 2 /\ Before(q) = s
        BY SMTT(30), <1>2, <1>4, <2>1, NextFacts DEF SeqNum
    <2> QED BY <1>2, <1>4, <1>7, <2>1, <2>2, AtMostFacts
<1>11. ASSUME m.type = "AcceptSync" PROVE SyncFits(l2, w, t2, m)
    <2>1. w.stop # None => m.sync.stop # None
        BY <1>11 DEF Fresh, FollowerOK, LeadGrows
    <2> QED BY <1>1, <1>7, <1>11, <2>1 DEF Fresh, SyncFits
<1>12. m.type = "AcceptDecide" =>
          /\ m.seq.counter >= 2 /\ m.decided <= l2.decided
          /\ Counts(m.entries, t2[Before(m.seq)])
          /\ t2[m.seq] = t2[Before(m.seq)] + Len(m.entries)
    BY <1>1, <1>7, <1>10 DEF Fresh
<1>13. m.type = "AcceptStopSign" =>
          /\ m.stop = l2.stop /\ l2.stop # None
          /\ m.seq.counter >= 2 => t2[Before(m.seq)] = Len(l2.log)
    BY <1>1, <1>7, <1>10 DEF Fresh
<1>14. m.type = "Decide" =>
          /\ m.decided <= l2.decided
          /\ m.seq.counter >= 2 => t2[Before(m.seq)] = t2[m.seq]
    BY <1>1, <1>7, <1>10 DEF Fresh
<1>15. MsgFits(f, l2, w, t2, m)
    BY <1>3, <1>9, <1>11, <1>12, <1>13, <1>14 DEF MsgFits
<1> QED BY <1>1, <1>3, <1>7, <1>8, <1>15

\* A message with a new number is put behind the others.
LEMMA SentFresh ==
    ASSUME NEW f \in Follower, NEW ld \in Leads, NEW l2 \in Leads, NEW w \in Follows,
           NEW dn, NEW ot, NEW top, DownOK(f, ld, w, dn, ot, top), LeadGrows(f, ld, l2),
           NEW m \in DownMsg, NEW q, q = m.seq, q = l2.seq[f], NextNumber(f, ld, l2, q, m.type),
           Fresh(ld, l2, w, m),
           \/ l2.latest[f] = 0
           \/ l2.latest[f] = ld.latest[f] /\ l2.stop # None /\ HasPromised(l2, f)
           \/ l2.latest[f] = Len(ot) + 1 /\ m.type = "AcceptDecide" /\ HasPromised(l2, f)
    PROVE  Linked(f, l2, w, dn, Append(ot, m))
<1>1. /\ dn \in Seq(DownMsg) /\ ot \in Seq(DownMsg) /\ TopOK(f, ld, top) /\ FollowerOK(ld, w)
      /\ PipeOK(f, ld, w, top, dn \o ot) /\ MergeOK(f, ld, w, ot) /\ InStep(f, ld, w, top)
    BY DEF DownOK
<1>2. PICK t2 : t2 = Meaning(top, ld.seq[f], Len(l2.log))
    OBVIOUS
<1>3. /\ TopOK(f, l2, t2) /\ MsgFits(f, l2, w, t2, m) /\ Agree(f, ld, top, t2)
      /\ AtMost(ld.seq[f], q) /\ q # ld.seq[f] /\ q \in SeqNum
    BY <1>1, <1>2, FreshFits
<1>4. PICK p, o : p = dn \o ot /\ o = Append(ot, m)
    OBVIOUS
<1>5. top \in [SeqNum -> Nat] /\ PipeOK(f, ld, w, top, p)
    BY <1>1, <1>4 DEF TopOK
<1>6. FollowerOK(l2, w) /\ PipeOK(f, l2, w, t2, p)
    BY <1>1, <1>3, <1>5, FollowerKept, PipeKept
<1>7. /\ ld.seq[f] \in SeqNum
      /\ \A r \in SeqNum : AtMost(r, ld.seq[f]) => AtMost(r, q) /\ r # q
    <2>1. ld.seq[f] \in SeqNum
        BY DEF Leads
    <2> QED BY <1>3, <2>1, AtMostFacts
<1>8. ASSUME NEW i \in 1..Len(p) PROVE InOrder(l2, p[i], m)
    <2>1. MsgFits(f, ld, w, top, p[i]) /\ p[i] \in DownMsg
        BY <1>5 DEF PipeOK, MsgFits
    <2>2. p[i].type # "Prepare" => p[i].seq \in SeqNum /\ AtMost(p[i].seq, ld.seq[f])
        BY <2>1, DownFields DEF MsgFits
    <2>3. Carries(p[i]) => ld.stop # None
        <3>1. p[i].type = "AcceptSync" => SyncFits(ld, w, top, p[i])
            BY <2>1 DEF MsgFits
        <3> QED BY <2>1, <3>1 DEF Carries, MsgFits, SyncFits
    <2>4. ld.stop # None /\ m.type = "AcceptSync" => Carries(m)
        BY DEF LeadGrows, Fresh, Carries
    <2> QED BY <1>7, <2>2, <2>3, <2>4 DEF InOrder
<1>9. PipeOK(f, l2, w, t2, Append(p, m))
    BY <1>3, <1>6, <1>8, PipeAppend
<1>10. /\ dn \o o = Append(p, m) /\ o \in Seq(DownMsg)
       /\ Len(o) = Len(ot) + 1 /\ o[Len(ot) + 1] = m /\ \A i \in 1..Len(ot) : o[i] = ot[i]
       /\ Len(ot) \in Nat
    BY <1>1, <1>4, CatAppend, LenProperties
<1>11. InStep(f, l2, w, t2)
    <2> SUFFICES ASSUME w.phase = "Accept"
                 PROVE  w.seq.counter >= 1 /\ AtMost(w.seq, l2.seq[f]) /\ Len(w.log) = t2[w.seq]
        BY DEF InStep
    <2>1. w.seq \in SeqNum /\ w.seq.counter >= 1 /\ AtMost(w.seq, ld.seq[f])
          /\ Len(w.log) = top[w.seq]
        BY <1>1 DEF InStep, Follows
    <2> QED BY <1>3, <1>7, <2>1 DEF Agree
<1>12. MergeOK(f, l2, w, o)
    <2>1. CASE l2.latest[f] = 0
        BY <2>1 DEF MergeOK
    <2>2. CASE l2.latest[f] # 0 /\ l2.latest[f] = ld.latest[f] /\ l2.stop # None /\ HasPromised(l2, f)
        <3>1. PICK k : k = l2.latest[f]
            OBVIOUS
        <3>2. k \in 1..Len(ot) /\ ot[k].type = "AcceptDecide"
            BY <1>1, <2>2, <3>1 DEF MergeOK
        <3>3. k \in 1..Len(o) /\ o[k].type = "AcceptDecide"
            BY <1>10, <3>2
        <3> QED BY <2>2, <3>1, <3>3 DEF MergeOK
    <2>3. CASE l2.latest[f] = Len(ot) + 1 /\ m.type = "AcceptDecide" /\ HasPromised(l2, f)
        <3>1. PICK k : k = l2.latest[f]
            OBVIOUS
        <3>2. k \in 1..Len(o) /\ k = Len(o) /\ o[k] = m
            BY <1>10, <2>3, <3>1
        <3>3. w.phase = "Accept" => w.seq # q
            BY <1>1, <1>7 DEF InStep, Follows
        <3> QED BY <2>3, <3>1, <3>2, <3>3 DEF MergeOK
    <2> QED BY <2>1, <2>2, <2>3
<1>13. DownOK(f, l2, w, dn, o, t2)
    BY <1>1, <1>3, <1>6, <1>9, <1>10, <1>11, <1>12 DEF DownOK
<1> QED BY <1>4, <1>13 DEF Linked

\* A queue whose last message is replaced
LEMMA LastReplaced ==
    ASSUME NEW S, NEW p \in Seq(S), p # <<>>, NEW n, n = Len(p), NEW m \in S,
           NEW r, r = SubSeq(p, 1, n - 1)
    PROVE  /\ n \in Nat /\ n >= 1 /\ r \in Seq(S) /\ Len(r) = n - 1
           /\ \A i \in 1..Len(r) : i \in 1..n /\ r[i] = p[i]
           /\ [p EXCEPT ![n] = m] = Append(r, m)
<1>1. n \in Nat /\ n >= 1 /\ n \in 1..Len(p)
    BY EmptySeq
<1>2. \A i \in 1..n - 1 : p[i] \in S
    BY <1>1, ElementOfSeq
<1>3. /\ r \in Seq(S) /\ Len(r) = IF 1 <= n - 1 THEN n - 1 - 1 + 1 ELSE 0
      /\ \A i \in 1..n - 1 - 1 + 1 : r[i] = p[1 + i - 1]
    <2>1. PICK j : j = n - 1
        OBVIOUS
    <2>2. 1 \in Int /\ j \in Int /\ \A i \in 1..j : p[i] \in S
        BY <1>1, <1>2, <2>1
    <2>3. /\ r \in Seq(S) /\ Len(r) = IF 1 <= j THEN j - 1 + 1 ELSE 0
          /\ \A i \in 1..j - 1 + 1 : r[i] = p[1 + i - 1]
        <3>1. r = SubSeq(p, 1, j)
            BY <2>1
        <3> QED BY <2>2, <3>1, SubSeqProperties
    <2> QED BY <2>1, <2>3
<1>4. Len(r) = n - 1 /\ \A i \in 1..Len(r) : i \in 1..n /\ r[i] = p[i]
    BY <1>1, <1>3
<1>5. PICK u, v : u = [p EXCEPT ![n] = m] /\ v = Append(r, m)
    OBVIOUS
<1>6. /\ u \in Seq(S) /\ Len(u) = n /\ \A i \in 1..n : u[i] = IF i = n THEN m ELSE p[i]
    BY <1>1, <1>5, ExceptSeq
<1>7. /\ v \in Seq(S) /\ Len(v) = n /\ v[n] = m /\ \A i \in 1..n - 1 : v[i] = r[i]
    <2>1. /\ v \in Seq(S) /\ Len(v) = Len(r) + 1 /\ v[Len(r) + 1] = m
          /\ \A i \in 1..Len(r) : v[i] = r[i]
        BY <1>3, <1>5, AppendProperties
    <2> QED BY <1>1, <1>4, <2>1
<1>8. \A i \in 1..n : u[i] = v[i]
    <2> SUFFICES ASSUME NEW i \in 1..n PROVE u[i] = v[i]
        OBVIOUS
    <2>1. CASE i = n
        BY <1>1, <1>6, <1>7, <2>1
    <2>2. CASE i # n
        BY <1>1, <1>4, <1>6, <1>7, <2>2
    <2> QED BY <2>1, <2>2
<1>9. u = v
    BY <1>6, <1>7, <1>8, SeqEqual
<1> QED BY <1>1, <1>3, <1>4, <1>5, <1>9

\* One more entry
LEMMA CountsAppend ==
    ASSUME NEW s, NEW a \in Nat, Counts(s, a), NEW e, e = a + Len(s) + 1
    PROVE  /\ Counts(Append(s, e), a) /\ Len(Append(s, e)) = Len(s) + 1
           /\ e \in Nat /\ Len(s) \in Nat
<1>1. s \in Seq(Nat) /\ Len(s) \in Nat /\ e \in Nat
    BY LenProperties DEF Counts, Logs
<1>2. PICK r : r = Append(s, e)
    OBVIOUS
<1>3. /\ r \in Seq(Nat) /\ Len(r) = Len(s) + 1 /\ r[Len(s) + 1] = e
      /\ \A i \in 1..Len(s) : r[i] = s[i]
    BY <1>1, <1>2, AppendProperties
<1>4. ASSUME NEW i \in 1..Len(r) PROVE r[i] = a + i
    <2>1. CASE i \in 1..Len(s)
        BY <1>3, <2>1 DEF Counts
    <2>2. CASE i = Len(s) + 1
        BY <1>1, <1>3, <2>2
    <2> QED BY <1>1, <1>3, <2>1, <2>2
<1> QED BY <1>1, <1>2, <1>3, <1>4 DEF Counts, Logs

\* An entry joins the message that waits: the last number now stands for one more.
LEMMA EntryMerged ==
    ASSUME NEW f \in Follower, NEW ld \in Leads, NEW l2 \in Leads, NEW w \in Follows,
           NEW dn, NEW ot, NEW top, DownOK(f, ld, w, dn, ot, top), LeadGrows(f, ld, l2),
           l2.seq[f] = ld.seq[f], l2.latest[f] = ld.latest[f], ld.latest[f] # 0,
           ld.stop = None, l2.stop = None, l2.decided = ld.decided,
           HasPromised(l2, f), NEW e, e = Len(ld.log) + 1, Len(l2.log) = e,
           NEW k, k = ld.latest[f], NEW m, m = ot[k],
           NEW m2, m2 = AcceptDecide(m.seq, Append(m.entries, e), ld.decided)
    PROVE  /\ m \in AcceptDecideMsg
           /\ Linked(f, l2, w, dn, [ot EXCEPT ![k] = m2])
<1>1. /\ dn \in Seq(DownMsg) /\ ot \in Seq(DownMsg) /\ TopOK(f, ld, top) /\ FollowerOK(ld, w)
      /\ PipeOK(f, ld, w, top, dn \o ot) /\ MergeOK(f, ld, w, ot) /\ InStep(f, ld, w, top)
    BY DEF DownOK
<1>2. PICK s, b, p : s = ld.seq[f] /\ b = Before(s) /\ p = dn \o ot
    OBVIOUS
<1>3. /\ HasPromised(ld, f) /\ k \in 1..Len(ot) /\ k = Len(ot)
      /\ m.type = "AcceptDecide" /\ m.seq = s /\ (w.phase = "Accept" => w.seq # s)
    BY <1>1, <1>2 DEF MergeOK
<1>4. PICK n : n = Len(dn) + k
    OBVIOUS
<1>5. /\ p \in Seq(DownMsg) /\ p[n] = m /\ n = Len(p) /\ n \in 1..Len(p) /\ PipeOK(f, ld, w, top, p)
    BY SMTT(30), <1>1, <1>2, <1>3, <1>4, CatLast, ConcatProperties
<1>6. MsgFits(f, ld, w, top, m) /\ m \in DownMsg
    BY <1>5 DEF PipeOK, MsgFits
<1>7. /\ m \in AcceptDecideMsg /\ m.entries \in Logs /\ m.decided \in Nat /\ m.seq \in SeqNum
    BY <1>3, <1>6, DownFields
<1>8. /\ s \in SeqNum /\ s.counter >= 2 /\ Len(w.log) <= top[s]
      /\ Counts(m.entries, top[b]) /\ top[s] = top[b] + Len(m.entries)
    BY <1>2, <1>3, <1>6, <1>7 DEF MsgFits
<1>9. b \in SeqNum /\ AtMost(b, s) /\ b # s /\ s.counter >= 1
    <2>1. s.counter >= 1
        BY <1>8 DEF SeqNum
    <2> QED BY <1>2, <1>8, <2>1, BeforeFacts
<1>10. /\ top \in [SeqNum -> Nat] /\ top[s] = Len(ld.log) /\ Len(ld.log) \in Nat /\ e \in Nat
       /\ \A q, r \in SeqNum : AtMost(q, r) /\ AtMost(r, b) => top[q] <= top[r]
    <2>1. /\ top \in [SeqNum -> Nat] /\ top[s] = Len(ld.log) /\ Len(ld.log) \in Nat
          /\ \A q, r \in SeqNum : AtMost(q, r) /\ AtMost(r, s) => top[q] <= top[r]
        BY SMTT(30), <1>1, <1>2, <1>3 DEF TopOK, Leads, Logs
    <2>2. \A r \in SeqNum : AtMost(r, b) => AtMost(r, s)
        BY <1>8, <1>9, AtMostFacts
    <2> QED BY <2>1, <2>2
<1>11. PICK t2 : t2 = Meaning(top, b, e)
    OBVIOUS
<1>12. /\ TopOK(f, l2, t2) /\ t2[s] = e /\ \A q \in SeqNum : AtMost(q, b) => t2[q] = top[q]
    <2>1. top[b] <= e
        BY <1>8, <1>9, <1>10, AtMostFacts, LenProperties DEF Logs, Counts
    <2>2. s = l2.seq[f] /\ e = Len(l2.log)
        BY <1>2
    <2> QED BY SMTT(30), <1>8, <1>9, <1>10, <1>11, <2>1, <2>2, MeaningFacts
<1>13. PICK l1 : l1 = [ld EXCEPT !.seq = [@ EXCEPT ![f] = b]]
    OBVIOUS
<1>14. /\ l1 \in Leads /\ l1.seq[f] = b /\ l1.log = ld.log /\ l1.stop = ld.stop
       /\ l1.decided = ld.decided
    <2>1. PICK sq : sq = [ld.seq EXCEPT ![f] = b]
        OBVIOUS
    <2>2. sq \in [Follower -> SeqNum] /\ sq[f] = b
        BY <1>9, <2>1 DEF Leads
    <2>3. l1 = [ld EXCEPT !.seq = sq]
        BY <1>13, <2>1 DEF Leads
    <2> QED BY <2>2, <2>3 DEF Leads
<1>15. PICK r : r = SubSeq(p, 1, n - 1)
    OBVIOUS
<1>16. m2 \in DownMsg /\ m2.type = "AcceptDecide" /\ m2.seq = s /\ m2.decided = ld.decided
       /\ m2.entries = Append(m.entries, e)
    <2>1. Append(m.entries, e) \in Logs
        BY <1>7, <1>10, AppendProperties DEF Logs
    <2>2. ld.decided \in Nat
        BY DEF Leads
    <2> QED BY <1>3, <1>7, <2>1, <2>2 DEF AcceptDecide, DownMsg, AcceptDecideMsg
<1>17. /\ n \in Nat /\ n >= 1 /\ r \in Seq(DownMsg) /\ Len(r) = n - 1
       /\ \A i \in 1..Len(r) : i \in 1..n /\ r[i] = p[i]
       /\ [p EXCEPT ![n] = m2] = Append(r, m2)
    <2>1. p # <<>>
        BY <1>5, EmptySeq
    <2>2. p \in Seq(DownMsg) /\ n = Len(p) /\ m2 \in DownMsg
        BY ZenonT(60), <1>5, <1>16
    <2> QED BY <1>15, <2>1, <2>2, LastReplaced
<1>18. ASSUME NEW i \in 1..Len(r)
       PROVE  /\ MsgFits(f, l1, w, top, r[i])
              /\ r[i].type # "Prepare" => r[i].seq \in SeqNum /\ AtMost(r[i].seq, b)
    <2>1. r[i] = p[i] /\ i < n /\ i \in 1..Len(p)
        BY <1>5, <1>17
    <2>2. MsgFits(f, ld, w, top, r[i]) /\ InOrder(ld, r[i], m) /\ r[i] \in DownMsg
        BY <1>5, <2>1 DEF PipeOK, MsgFits
    <2>3. r[i].type # "Prepare" => r[i].seq \in SeqNum /\ AtMost(r[i].seq, b)
        BY <1>2, <1>3, <1>8, <1>9, <2>2, BelowNext, DownFields DEF InOrder
    <2>4. MsgFits(f, l1, w, top, r[i])
        BY <1>14, <2>2, <2>3 DEF MsgFits, SyncFits
    <2> QED BY <2>3, <2>4
<1>19. PipeOK(f, l1, w, top, r)
    <2>1. ASSUME NEW i \in 1..Len(r), NEW j \in 1..Len(r), i < j PROVE InOrder(l1, r[i], r[j])
        <3>1. r[i] = p[i] /\ r[j] = p[j] /\ i \in 1..Len(p) /\ j \in 1..Len(p)
            BY <1>5, <1>17
        <3>2. InOrder(ld, p[i], p[j])
            BY <1>5, <2>1, <3>1 DEF PipeOK
        <3> QED BY <1>14, <3>1, <3>2 DEF InOrder
    <2> QED BY <1>17, <1>18, <2>1 DEF PipeOK
<1>20. LeadGrows(f, l1, l2) /\ Agree(f, l1, top, t2)
    BY <1>2, <1>9, <1>12, <1>14 DEF LeadGrows, Agree, TopOK
<1>21. PipeOK(f, l2, w, t2, r)
    BY <1>10, <1>14, <1>19, <1>20, PipeKept
<1>22. MsgFits(f, l2, w, t2, m2)
    <2>1. Counts(m2.entries, top[b]) /\ Len(m2.entries) = Len(m.entries) + 1 /\ top[b] \in Nat
          /\ Len(m.entries) \in Nat
        <3>1. top[b] \in Nat /\ Counts(m.entries, top[b])
            BY <1>8, <1>9, <1>10
        <3>2. PICK c, a : c = m.entries /\ a = top[b]
            OBVIOUS
        <3>3. PICK x, y : x = Len(ld.log) /\ y = Len(c)
            OBVIOUS
        <3>4. y \in Nat /\ x \in Nat /\ x = a + y /\ e = x + 1 /\ a \in Nat
            BY SMTT(30), <1>7, <1>8, <1>10, <3>1, <3>2, <3>3, LenProperties DEF Logs
        <3>5. e = a + Len(c) + 1 /\ Counts(c, a) /\ a \in Nat
            BY <3>1, <3>2, <3>3, <3>4
        <3>6. Counts(Append(c, e), a) /\ Len(Append(c, e)) = Len(c) + 1 /\ Len(c) \in Nat
            BY <3>5, CountsAppend
        <3> QED BY ZenonT(60), <1>16, <3>1, <3>2, <3>6
    <2>2. t2[Before(m2.seq)] = top[b]
        BY ZenonT(60), <1>2, <1>9, <1>12, <1>16, AtMostFacts
    <2>3. t2[m2.seq] = e /\ e = top[s] + 1
        BY ZenonT(60), <1>10, <1>12, <1>16
    <2>4. t2[m2.seq] = t2[Before(m2.seq)] + Len(m2.entries)
        <3>1. PICK a, c, c2 : a = top[b] /\ c = Len(m.entries) /\ c2 = Len(m2.entries)
            OBVIOUS
        <3>2. e = a + c + 1 /\ c2 = c + 1 /\ a \in Nat /\ c \in Nat
            BY <1>8, <2>1, <2>3, <3>1
        <3>3. e = a + c2
            BY SMTT(30), <3>2
        <3> QED BY <2>2, <2>3, <3>1, <3>3
    <2>5. Len(w.log) <= t2[m2.seq] /\ Len(w.log) \in Nat
        BY SMTT(30), <1>8, <1>10, <2>3 DEF Follows, Logs
    <2>6. m2.decided <= l2.decided /\ l2.decided \in Nat
        BY SMTT(60), <1>16 DEF Leads
    <2>7. AtMost(m2.seq, l2.seq[f]) /\ m2.seq.counter >= 1 /\ m2.seq.counter >= 2
        <3>1. AtMost(s, s) /\ s.counter >= 1 /\ s.counter >= 2
            BY <1>8, <1>9, AtMostFacts
        <3>2. m2.seq = s /\ l2.seq[f] = s
            BY ZenonT(60), <1>2, <1>16
        <3> QED BY <3>1, <3>2
    <2> QED BY ZenonT(60), <1>8, <1>16, <2>1, <2>2, <2>4, <2>5, <2>6, <2>7 DEF MsgFits
<1>23. \A i \in 1..Len(r) : InOrder(l2, r[i], m2)
    <2> SUFFICES ASSUME NEW i \in 1..Len(r) PROVE InOrder(l2, r[i], m2)
        OBVIOUS
    <2>1. r[i].type # "Prepare" => AtMost(r[i].seq, s) /\ r[i].seq # s
        BY <1>8, <1>9, <1>18, AtMostFacts
    <2> QED BY ZenonT(60), <1>16, <2>1 DEF InOrder
<1>24. PICK o : o = [ot EXCEPT ![k] = m2]
    OBVIOUS
<1>25. /\ dn \o o = [p EXCEPT ![n] = m2] /\ o \in Seq(DownMsg) /\ Len(o) = Len(ot) /\ o[k] = m2
    <2>1. dn \in Seq(DownMsg) /\ ot \in Seq(DownMsg) /\ k \in 1..Len(ot) /\ m2 \in DownMsg
        BY <1>1, <1>3, <1>16
    <2>2. Changed(DownMsg, dn, ot, k, m2, [ot EXCEPT ![k] = m2], dn \o ot)
        BY <2>1, CatExcept
    <2>3. Changed(DownMsg, dn, ot, k, m2, o, p)
        BY <1>2, <1>24, <2>2
    <2> QED BY <1>4, <2>3 DEF Changed
<1>26. PipeOK(f, l2, w, t2, dn \o o)
    <2>1. PipeOK(f, l2, w, t2, Append(r, m2))
        BY <1>21, <1>22, <1>23, PipeAppend
    <2> QED BY <1>17, <1>25, <2>1
<1>27. FollowerOK(l2, w)
    BY <1>1, FollowerKept
<1>28. InStep(f, l2, w, t2)
    <2> SUFFICES ASSUME w.phase = "Accept"
                 PROVE  w.seq.counter >= 1 /\ AtMost(w.seq, l2.seq[f]) /\ Len(w.log) = t2[w.seq]
        BY DEF InStep
    <2>1. /\ w.seq \in SeqNum /\ w.seq.counter >= 1 /\ AtMost(w.seq, s)
          /\ Len(w.log) = top[w.seq] /\ w.seq # s
        BY <1>1, <1>2, <1>3 DEF InStep, Follows
    <2>2. AtMost(w.seq, b)
        BY <1>2, <1>8, <1>9, <2>1, BelowNext
    <2> QED BY <1>2, <1>12, <2>1, <2>2
<1>29. MergeOK(f, l2, w, o)
    BY <1>2, <1>3, <1>16, <1>25 DEF MergeOK
<1>30. DownOK(f, l2, w, dn, o, t2)
    BY <1>1, <1>12, <1>25, <1>26, <1>27, <1>28, <1>29 DEF DownOK
<1> QED BY <1>7, <1>24, <1>30 DEF Linked

\* The decided index joins the message that waits.
LEMMA DecidedMerged ==
    ASSUME NEW f \in Follower, NEW ld \in Leads, NEW w \in Follows,
           NEW dn, NEW ot, NEW top, DownOK(f, ld, w, dn, ot, top),
           ld.latest[f] # 0, NEW d \in Nat, d <= ld.decided,
           NEW k, k = ld.latest[f], NEW m2, m2 = [ot[k] EXCEPT !.decided = d]
    PROVE  DownOK(f, ld, w, dn, [ot EXCEPT ![k] = m2], top)
<1>1. /\ dn \in Seq(DownMsg) /\ ot \in Seq(DownMsg) /\ TopOK(f, ld, top) /\ FollowerOK(ld, w)
      /\ PipeOK(f, ld, w, top, dn \o ot) /\ MergeOK(f, ld, w, ot) /\ InStep(f, ld, w, top)
    BY DEF DownOK
<1>2. PICK p, m, o, n : p = dn \o ot /\ m = ot[k] /\ o = [ot EXCEPT ![k] = m2] /\ n = Len(dn) + k
    OBVIOUS
<1>3. /\ HasPromised(ld, f) /\ k \in 1..Len(ot) /\ m.type = "AcceptDecide"
      /\ ld.stop = None =>
              /\ k = Len(ot) /\ ot[Len(ot)].seq = ld.seq[f]
              /\ w.phase = "Accept" => w.seq # ld.seq[f]
    BY <1>1, <1>2 DEF MergeOK
<1>4. /\ p \in Seq(DownMsg) /\ p[n] = m /\ n \in 1..Len(p) /\ PipeOK(f, ld, w, top, p)
    BY SMTT(30), <1>1, <1>2, <1>3, CatLast, ConcatProperties
<1>5. MsgFits(f, ld, w, top, m) /\ m \in DownMsg
    BY <1>4 DEF PipeOK, MsgFits
<1>6. m \in AcceptDecideMsg
    BY <1>3, <1>5, DownFields
<1>7. /\ m2 \in DownMsg /\ m2.type = m.type /\ m2.seq = m.seq /\ m2.entries = m.entries
      /\ m2.decided = d
    <2>1. m2 = [m EXCEPT !.decided = d]
        BY <1>2
    <2>2. m2 \in AcceptDecideMsg /\ m2.type = m.type /\ m2.seq = m.seq /\ m2.entries = m.entries
          /\ m2.decided = d
        BY <1>6, <2>1 DEF AcceptDecideMsg
    <2> QED BY <2>2 DEF DownMsg
<1>8. MsgFits(f, ld, w, top, m2)
    BY <1>3, <1>5, <1>7 DEF MsgFits
<1>9. PICK r : r = [p EXCEPT ![n] = m2]
    OBVIOUS
<1>10. dn \o o = r /\ o \in Seq(DownMsg) /\ Len(o) = Len(ot) /\ o[k] = m2
    <2>1. Changed(DownMsg, dn, ot, k, m2, [ot EXCEPT ![k] = m2], dn \o ot)
        BY <1>1, <1>3, <1>7, CatExcept
    <2>2. Changed(DownMsg, dn, ot, k, m2, o, p)
        BY <1>2, <2>1
    <2> QED BY <1>2, <1>9, <2>2 DEF Changed
<1>11. /\ r \in Seq(DownMsg) /\ Len(r) = Len(p)
       /\ \A i \in 1..Len(p) : r[i] = IF i = n THEN m2 ELSE p[i]
    BY <1>4, <1>7, <1>9, ExceptSeq
<1>12. PipeOK(f, ld, w, top, r)
    <2>1. ASSUME NEW i \in 1..Len(r) PROVE MsgFits(f, ld, w, top, r[i])
        BY <1>4, <1>8, <1>11 DEF PipeOK
    <2>2. ASSUME NEW i \in 1..Len(r), NEW j \in 1..Len(r), i < j PROVE InOrder(ld, r[i], r[j])
        <3>1. InOrder(ld, p[i], p[j])
            BY <1>4, <1>11, <2>2 DEF PipeOK
        <3>2. /\ r[i].type = p[i].type /\ r[j].type = p[j].type
              /\ r[i].type # "AcceptDecide" => r[i] = p[i]
              /\ r[j].type # "AcceptDecide" => r[j] = p[j]
            BY <1>3, <1>4, <1>7, <1>11
        <3>3. r[i].seq = p[i].seq /\ r[j].seq = p[j].seq
            BY <1>4, <1>7, <1>11
        <3> QED BY <3>1, <3>2, <3>3 DEF InOrder, Carries
    <2> QED BY <1>11, <2>1, <2>2 DEF PipeOK
<1>13. PipeOK(f, ld, w, top, dn \o o)
    BY <1>10, <1>12
<1>14. MergeOK(f, ld, w, o)
    <2>1. o[k].type = "AcceptDecide" /\ k \in 1..Len(o)
        BY <1>3, <1>7, <1>10
    <2>2. ld.stop = None => k = Len(o) /\ o[Len(o)].seq = ld.seq[f]
        BY <1>2, <1>3, <1>7, <1>10
    <2> QED BY <1>3, <2>1, <2>2 DEF MergeOK
<1>15. DownOK(f, ld, w, dn, o, top)
    BY <1>1, <1>10, <1>13, <1>14 DEF DownOK
<1> QED BY <1>2, <1>15

--------------------------------------------------------------------------------
(* The steps at the leader *)

\* The step of a leader, followers and what they have sent staying as they are
LEMMA LeaderMoved ==
    ASSUME SessionAssumption, SessionInv, foll' = foll, reply' = reply,
           DOMAIN down' = Follower, DOMAIN out' = Follower, DOMAIN up' = Follower,
           LeaderOK(lead'), buffered' \in [Server -> Stops],
           \A f \in Follower : /\ Linked(f, lead', foll[f], down'[f], out'[f])
                               /\ UpOK(f, lead', foll[f], up'[f], reply[f]),
           \/ lead'.decided = lead.decided
           \/ IsAcceptQuorum(Quorum, Cardinality(Holders(lead'.decided)) + 1)
    PROVE  SessionInv'
<1>1. \A f \in Follower : LinkOK(f)'
    BY DEF LinkOK
<1>2. DecidedOK'
    <2>1. CASE lead'.decided = lead.decided
        <3>1. Holders(lead.decided)' = Holders(lead.decided)
            BY <2>1 DEF Holders
        <3> QED BY <2>1, <3>1 DEF DecidedOK, SessionInv
    <2>2. CASE IsAcceptQuorum(Quorum, Cardinality(Holders(lead'.decided)) + 1)
        BY <2>2 DEF DecidedOK, Holders
    <2> QED BY <2>1, <2>2
<1> QED BY <1>1, <1>2 DEF SessionInv

\* The way back while the leader's step changes neither the follower's promise nor its index
LEMMA UpStays ==
    ASSUME NEW f \in Follower, NEW ld, NEW l2, NEW w, NEW us, NEW rs, UpOK(f, ld, w, us, rs),
           NEW u2, RepliesOK(w, u2),
           l2.acc[f] = ld.acc[f] \/ Holds(w, l2.acc[f]),
           \/ l2.promise[f] = ld.promise[f]
           \/ \A i \in 1..Len(l2.promise[f]) : Holds(w, l2.promise[f][i].accepted)
    PROVE  UpOK(f, l2, w, u2, rs)
BY DEF UpOK

\* The leader takes the first message of f off the channel.
LEMMA TakenFrom ==
    ASSUME SessionInv, NEW f \in Follower, NEW t, FromFollower(f, t)
    PROVE  /\ foll' = foll /\ reply' = reply /\ down' = down /\ DOMAIN down' = Follower
           /\ DOMAIN up' = Follower /\ Head(up[f]).type = t
           /\ Held(foll[f], Head(up[f])) /\ Head(up[f]) \in ReplyMsg
           /\ \A g \in Follower : RepliesOK(foll[g], up'[g])
<1>1. /\ foll' = foll /\ reply' = reply /\ down' = down /\ up[f] # <<>>
      /\ up' = [up EXCEPT ![f] = Tail(up[f])] /\ Head(up[f]).type = t
    BY DEF FromFollower, SessionInv
<1>2. DOMAIN down' = Follower /\ DOMAIN up' = Follower /\ DOMAIN up = Follower
    BY <1>1 DEF SessionInv
<1>3. \A g \in Follower : RepliesOK(foll[g], up[g])
    BY LinkFacts DEF UpOK
<1>4. RepliesOK(foll[f], Tail(up[f])) /\ Head(up[f]) \in ReplyMsg /\ Held(foll[f], Head(up[f]))
    BY <1>1, <1>3, RepliesTail
<1>5. ASSUME NEW g \in Follower PROVE RepliesOK(foll[g], up'[g])
    <2>1. CASE g = f
        BY <1>1, <1>2, <1>4, <2>1
    <2>2. CASE g # f
        BY <1>1, <1>2, <1>3, <2>2
    <2> QED BY <2>1, <2>2
<1> QED BY <1>1, <1>2, <1>4, <1>5

\* A link on which the leader's step changes nothing
LEMMA LinkedStays ==
    ASSUME NEW f \in Follower, NEW ld \in Leads, NEW l2 \in Leads, NEW w \in Follows,
           NEW dn, NEW ot, Linked(f, ld, w, dn, ot), LeadGrows(f, ld, l2),
           l2.seq[f] = ld.seq[f], l2.latest[f] \in {0, ld.latest[f]},
           HasPromised(l2, f) => HasPromised(ld, f) /\ l2.log = ld.log /\ l2.stop = ld.stop,
           l2.latest[f] # 0 => HasPromised(l2, f)
    PROVE  Linked(f, l2, w, dn, ot)
<1>1. PICK top : DownOK(f, ld, w, dn, ot, top)
    BY DEF Linked
<1>2. DownOK(f, l2, w, dn, ot, top)
    BY <1>1, LeadStays
<1> QED BY <1>2 DEF Linked

\* Nothing changes but what the leader has been told and what it will propose.
LEMMA LeaderQuiet ==
    ASSUME SessionAssumption, SessionInv, lead' = lead, out' = out, down' = down,
           foll' = foll, reply' = reply, DOMAIN up' = Follower,
           \A g \in Follower : RepliesOK(foll[g], up'[g]), buffered' \in [Server -> Stops]
    PROVE  SessionInv'
<1>1. LeaderOK(lead') /\ DOMAIN down' = Follower /\ DOMAIN out' = Follower
    BY DEF SessionInv
<1>2. ASSUME NEW g \in Follower
      PROVE  /\ Linked(g, lead', foll[g], down'[g], out'[g])
             /\ UpOK(g, lead', foll[g], up'[g], reply[g])
    <2>1. Linked(g, lead, foll[g], down[g], out[g]) /\ UpOK(g, lead, foll[g], up[g], reply[g])
        BY LinkFacts
    <2>2. UpOK(g, lead, foll[g], up'[g], reply[g])
        BY <2>1, UpStays
    <2> QED BY <2>1, <2>2
<1> QED BY <1>1, <1>2, LeaderMoved

\* A latest message belongs to a promised follower.
LEMMA MergesPromised ==
    ASSUME SessionInv, NEW g \in Follower, lead.latest[g] # 0
    PROVE  HasPromised(lead, g)
<1>1. PICK top : DownOK(g, lead, foll[g], down[g], out[g], top)
    BY LinkFacts DEF Linked
<1> QED BY <1>1 DEF DownOK, MergeOK

\* accept_entry_leader keeps the invariant.
LEMMA AppendEntryKeeps ==
    ASSUME SessionAssumption, SessionInv, AppendEntry
    PROVE  SessionInv'
<1>1. PICK e, log, news : /\ e = Len(lead.log) + 1 /\ log = Append(lead.log, e)
                          /\ news = Promised \ {f \in Follower : Merges(f)}
    OBVIOUS
<1>2. PICK sq, lt, ac :
          /\ sq = [f \in Follower |-> IF f \in news THEN Next1(lead.seq[f]) ELSE lead.seq[f]]
          /\ lt = [f \in Follower |-> IF f \in news THEN Len(out[f]) + 1 ELSE lead.latest[f]]
          /\ ac = [lead.acc EXCEPT ![Leader] = Len(log)]
    OBVIOUS
<1>3. PICK l2 : l2 = [lead EXCEPT !.log = log, !.acc = ac, !.seq = sq, !.latest = lt]
    OBVIOUS
<1>4. lead \in Leads /\ Counts(lead.log, 0) /\ DOMAIN out = Follower
    BY DEF SessionInv, LeaderOK
<1>5. lead.phase = "Accept" /\ lead.stop = None /\ lead' = l2
    <2>1. lead' = [lead EXCEPT !.log = log, !.acc[Leader] = Len(log),
                                !.seq = [f \in Follower |-> IF f \in news THEN Next1(@[f]) ELSE @[f]],
                                !.latest = [f \in Follower |->
                                               IF f \in news THEN Len(out[f]) + 1 ELSE @[f]]]
        BY <1>1 DEF AppendEntry
    <2>2. lead' = l2
        BY <1>2, <1>3, <1>4, <2>1 DEF Leads
    <2> QED BY <2>2 DEF AppendEntry
<1>6. /\ Counts(log, 0) /\ Len(log) = e /\ e \in Nat /\ Len(lead.log) \in Nat /\ log \in Logs
      /\ e = Len(lead.log) + 1
    <2>1. e = 0 + Len(lead.log) + 1 /\ Len(lead.log) \in Nat
        BY <1>1, <1>4 DEF Leads, Logs
    <2>2. Counts(log, 0) /\ Len(log) = Len(lead.log) + 1 /\ e \in Nat
        BY <1>1, <1>4, <2>1, CountsAppend
    <2> QED BY <1>1, <2>1, <2>2 DEF Counts
<1>7. /\ l2 \in Leads /\ l2.log = log /\ l2.stop = None /\ l2.phase = "Accept"
      /\ l2.decided = lead.decided /\ l2.promise = lead.promise /\ l2.acc = ac /\ l2.seq = sq
      /\ l2.latest = lt
    <2>1. sq \in [Follower -> SeqNum]
        BY <1>2, <1>4, NextFacts DEF Leads
    <2>2. lt \in [Follower -> Nat]
        <3>1. \A f \in Follower : out[f] \in Seq(DownMsg) /\ Len(out[f]) \in Nat
            BY LinkFacts, LenProperties DEF Linked, DownOK
        <3> QED BY <1>2, <1>4, <3>1 DEF Leads
    <2>3. ac \in [Server -> Nat]
        BY <1>2, <1>4, <1>6 DEF Leads
    <2> QED BY <1>3, <1>4, <1>5, <1>6, <2>1, <2>2, <2>3 DEF Leads
<1>8. LeaderOK(l2)
    BY <1>6, <1>7 DEF LeaderOK
<1>9. /\ foll' = foll /\ reply' = reply /\ down' = down /\ up' = up /\ buffered' = buffered
      /\ out' = [f \in Follower |->
             CASE f \in news -> Append(out[f], AcceptDecide(Next1(lead.seq[f]), <<e>>, lead.decided))
               [] f \in Promised \ news ->
                      [out[f] EXCEPT ![lead.latest[f]] =
                             AcceptDecide(@.seq, Append(@.entries, e), lead.decided)]
               [] OTHER -> out[f]]
    BY <1>1 DEF AppendEntry
<1>10. ASSUME NEW g \in Follower
       PROVE  /\ Linked(g, l2, foll[g], down[g], out'[g])
              /\ UpOK(g, l2, foll[g], up[g], reply[g])
    <2>1. /\ foll[g] \in Follows /\ Linked(g, lead, foll[g], down[g], out[g])
          /\ UpOK(g, lead, foll[g], up[g], reply[g]) /\ lead.seq[g] \in SeqNum
        BY LinkFacts DEF Leads
    <2>2. UpOK(g, l2, foll[g], up[g], reply[g])
        <3>1. l2.acc[g] = lead.acc[g]
            BY <1>2, <1>4, <1>7 DEF SessionAssumption, Leads, Server
        <3>2. RepliesOK(foll[g], up[g])
            BY <2>1 DEF UpOK
        <3> QED BY <1>7, <2>1, <3>1, <3>2, UpStays
    <2>3. LeadGrows(g, lead, l2)
        <3>1. AtMost(lead.seq[g], l2.seq[g])
            BY <1>2, <1>7, <2>1, NextFacts, AtMostFacts
        <3>2. lead.decided <= l2.decided
            BY <1>4, <1>7 DEF Leads
        <3> QED BY <1>5, <1>6, <1>7, <3>1, <3>2 DEF LeadGrows
    <2>4. g \in Promised <=> HasPromised(lead, g)
        BY <1>5 DEF Promised, HasPromised
    <2>5. HasPromised(l2, g) <=> HasPromised(lead, g)
        BY <1>5, <1>7 DEF HasPromised
    <2>6. CASE g \in news
        <3>1. PICK q, m : q = Next1(lead.seq[g]) /\ m = AcceptDecide(q, <<e>>, lead.decided)
            OBVIOUS
        <3>2. /\ q \in SeqNum /\ q = l2.seq[g] /\ l2.latest[g] = Len(out[g]) + 1
              /\ out'[g] = Append(out[g], m)
            BY <1>2, <1>7, <1>9, <2>1, <2>6, <3>1, NextFacts
        <3>3. /\ m \in DownMsg /\ m.seq = q /\ m.type = "AcceptDecide" /\ m.entries = <<e>>
              /\ m.decided = lead.decided
            <4>1. <<e>> \in Logs /\ lead.decided \in Nat
                BY <1>4, <1>6 DEF Logs, Leads
            <4> QED BY <3>1, <3>2, <4>1 DEF AcceptDecide, DownMsg, AcceptDecideMsg
        <3>4. HasPromised(lead, g)
            BY <1>1, <2>4, <2>6
        <3>5. NextNumber(g, lead, l2, q, m.type)
            BY <1>7, <3>1, <3>3, <3>4 DEF NextNumber
        <3>6. Fresh(lead, l2, foll[g], m)
            <4>1. Counts(m.entries, Len(lead.log)) /\ Len(m.entries) = 1
                BY <1>6, <3>3 DEF Counts, Logs
            <4>2. m.decided <= l2.decided
                BY <1>4, <1>7, <3>3 DEF Leads
            <4>3. Len(l2.log) = Len(lead.log) + Len(m.entries)
                BY <1>6, <1>7, <4>1
            <4> QED BY <3>3, <4>1, <4>2, <4>3 DEF Fresh
        <3>7. PICK top : DownOK(g, lead, foll[g], down[g], out[g], top)
            BY <2>1 DEF Linked
        <3>8. Linked(g, l2, foll[g], down[g], Append(out[g], m))
            BY <1>4, <1>7, <2>1, <2>3, <2>5, <3>2, <3>3, <3>4, <3>5, <3>6, <3>7, SentFresh
        <3> QED BY <2>2, <3>2, <3>8
    <2>7. CASE g \in Promised \ news
        <3>1. lead.latest[g] # 0
            BY <1>1, <2>7 DEF Merges
        <3>2. PICK k, m : k = lead.latest[g] /\ m = out[g][k]
            OBVIOUS
        <3>3. PICK m2 : m2 = AcceptDecide(m.seq, Append(m.entries, e), lead.decided)
            OBVIOUS
        <3>4. PICK top : DownOK(g, lead, foll[g], down[g], out[g], top)
            BY <2>1 DEF Linked
        <3>5. l2.seq[g] = lead.seq[g] /\ l2.latest[g] = lead.latest[g] /\ HasPromised(l2, g)
            BY <1>2, <1>7, <2>4, <2>5, <2>7
        <3>6. m \in AcceptDecideMsg /\ Linked(g, l2, foll[g], down[g], [out[g] EXCEPT ![k] = m2])
            <4>1. /\ lead.stop = None /\ l2.stop = None /\ l2.decided = lead.decided
                  /\ e = Len(lead.log) + 1 /\ Len(l2.log) = e
                BY <1>5, <1>6, <1>7
            <4> QED BY <1>4, <1>7, <2>1, <2>3, <3>1, <3>2, <3>3, <3>4, <3>5, <4>1, EntryMerged
        <3>7. out'[g] = [out[g] EXCEPT ![k] = m2]
            BY <1>9, <2>7, <3>2, <3>3
        <3> QED BY <2>2, <3>6, <3>7
    <2>8. CASE g \notin Promised
        <3>1. l2.seq[g] = lead.seq[g] /\ l2.latest[g] = lead.latest[g] /\ out'[g] = out[g]
            BY <1>1, <1>2, <1>7, <1>9, <2>8
        <3>2. ~HasPromised(l2, g) /\ l2.latest[g] = 0
            BY <2>4, <2>5, <2>8, <3>1, MergesPromised
        <3> QED BY <1>4, <1>7, <2>1, <2>2, <2>3, <3>1, <3>2, LinkedStays
    <2> QED BY <2>6, <2>7, <2>8
<1>11. DOMAIN down' = Follower /\ DOMAIN out' = Follower /\ DOMAIN up' = Follower
       /\ buffered' \in [Server -> Stops]
    BY <1>9 DEF SessionInv
<1> QED BY <1>5, <1>7, <1>8, <1>9, <1>10, <1>11, LeaderMoved

\* reconfigure and handle_forwarded_stopsign at the leader keep the invariant.
LEMMA StopSignKeeps ==
    ASSUME SessionAssumption, SessionInv, NEW ss \in Server, StopSignAtLeader(ss),
           down' = down, foll' = foll, reply' = reply, DOMAIN up' = Follower,
           \A g \in Follower : RepliesOK(foll[g], up'[g])
    PROVE  SessionInv'
<1>1. CASE lead' = lead /\ out' = out /\ (buffered' = buffered
                                          \/ buffered' = [buffered EXCEPT ![Leader] = ss])
    <2>1. buffered' \in [Server -> Stops]
        BY <1>1 DEF SessionInv, Stops
    <2> QED BY <1>1, <2>1, LeaderQuiet
<1>2. CASE AcceptStopSignAtLeader(ss) /\ buffered' = buffered
           /\ lead.stop = None /\ lead.phase # "Prepare"
    <2>1. PICK sq, ac :
              /\ sq = [f \in Follower |-> IF f \in Promised THEN Next1(lead.seq[f]) ELSE lead.seq[f]]
              /\ ac = [lead.acc EXCEPT ![Leader] = Len(lead.log) + 1]
        OBVIOUS
    <2>2. PICK l2 : l2 = [lead EXCEPT !.stop = ss, !.acc = ac, !.seq = sq]
        OBVIOUS
    <2>3. lead \in Leads /\ Counts(lead.log, 0) /\ DOMAIN out = Follower /\ lead.phase = "Accept"
        BY <1>2 DEF SessionInv, LeaderOK, Leads
    <2>4. lead' = l2
        BY <1>2, <2>1, <2>2, <2>3 DEF AcceptStopSignAtLeader, Leads
    <2>5. /\ l2 \in Leads /\ l2.log = lead.log /\ l2.stop = ss /\ l2.phase = "Accept"
          /\ l2.decided = lead.decided /\ l2.promise = lead.promise /\ l2.acc = ac /\ l2.seq = sq
          /\ l2.latest = lead.latest /\ ss # None
        <3>1. sq \in [Follower -> SeqNum]
            BY <2>1, <2>3, NextFacts DEF Leads
        <3>2. ac \in [Server -> Nat]
            <4>1. Len(lead.log) + 1 \in Nat /\ lead.acc \in [Server -> Nat]
                BY <2>3 DEF Leads, Logs
            <4> QED BY <2>1, <4>1
        <3>3. ss \in Stops /\ ss # None
            BY DEF Stops, SessionAssumption
        <3> QED BY <2>2, <2>3, <3>1, <3>2, <3>3 DEF Leads
    <2>6. LeaderOK(l2)
        BY <2>3, <2>5 DEF LeaderOK
    <2>7. ASSUME NEW g \in Follower
          PROVE  /\ Linked(g, l2, foll[g], down[g], out'[g])
                 /\ UpOK(g, l2, foll[g], up'[g], reply[g])
        <3>1. /\ foll[g] \in Follows /\ Linked(g, lead, foll[g], down[g], out[g])
              /\ UpOK(g, lead, foll[g], up[g], reply[g]) /\ lead.seq[g] \in SeqNum
            BY LinkFacts DEF Leads
        <3>2. UpOK(g, l2, foll[g], up'[g], reply[g])
            <4>1. l2.acc[g] = lead.acc[g]
                BY <2>1, <2>3, <2>5 DEF SessionAssumption, Leads, Server
            <4> QED BY <2>5, <3>1, <4>1, UpStays
        <3>3. LeadGrows(g, lead, l2)
            <4>1. AtMost(lead.seq[g], l2.seq[g])
                BY <2>1, <2>5, <3>1, NextFacts, AtMostFacts
            <4>2. lead.decided <= l2.decided /\ Len(lead.log) <= Len(l2.log)
                BY <2>3, <2>5 DEF Leads, Logs
            <4> QED BY <1>2, <2>5, <4>1, <4>2 DEF LeadGrows
        <3>4. (g \in Promised <=> HasPromised(lead, g)) /\ (HasPromised(l2, g) <=> HasPromised(lead, g))
            BY <2>3, <2>5 DEF Promised, HasPromised
        <3>5. CASE g \in Promised
            <4>1. PICK q, m : /\ q = Next1(lead.seq[g])
                              /\ m = [type |-> "AcceptStopSign", seq |-> q, stop |-> ss]
                OBVIOUS
            <4>2. q \in SeqNum /\ q = l2.seq[g] /\ out'[g] = Append(out[g], m)
                BY <1>2, <2>1, <2>5, <3>1, <3>5, <4>1, NextFacts DEF AcceptStopSignAtLeader
            <4>3. m \in DownMsg /\ m.seq = q /\ m.type = "AcceptStopSign" /\ m.stop = ss
                BY <4>1, <4>2 DEF DownMsg, AcceptStopSignMsg, Stops
            <4>4. NextNumber(g, lead, l2, q, m.type)
                BY <2>5, <3>4, <3>5, <4>1, <4>3 DEF NextNumber
            <4>5. Fresh(lead, l2, foll[g], m)
                BY <2>5, <4>3 DEF Fresh
            <4>6. PICK top : DownOK(g, lead, foll[g], down[g], out[g], top)
                BY <3>1 DEF Linked
            <4>7. l2.latest[g] = lead.latest[g] /\ l2.stop # None /\ HasPromised(l2, g)
                BY <2>5, <3>4, <3>5
            <4>8. Linked(g, l2, foll[g], down[g], Append(out[g], m))
                BY <2>3, <2>5, <3>1, <3>3, <4>2, <4>3, <4>4, <4>5, <4>6, <4>7, SentFresh
            <4> QED BY <3>2, <4>2, <4>8
        <3>6. CASE g \notin Promised
            <4>1. l2.seq[g] = lead.seq[g] /\ l2.latest[g] = lead.latest[g] /\ out'[g] = out[g]
                BY <1>2, <2>1, <2>5, <3>6 DEF AcceptStopSignAtLeader
            <4>2. ~HasPromised(l2, g) /\ l2.latest[g] = 0
                BY <3>4, <3>6, <4>1, MergesPromised
            <4> QED BY <2>3, <2>5, <3>1, <3>2, <3>3, <4>1, <4>2, LinkedStays
        <3> QED BY <3>5, <3>6
    <2>8. DOMAIN down' = Follower /\ DOMAIN out' = Follower /\ buffered' \in [Server -> Stops]
        BY <1>2 DEF SessionInv, AcceptStopSignAtLeader
    <2> QED BY <2>4, <2>5, <2>6, <2>7, <2>8, LeaderMoved
<1> QED BY <1>1, <1>2 DEF StopSignAtLeader

\* handle_forwarded_stopsign keeps the invariant.
LEMMA ReceiveForwardStopSignKeeps ==
    ASSUME SessionAssumption, SessionInv, NEW f \in Follower, ReceiveForwardStopSign(f)
    PROVE  SessionInv'
<1>1. FromFollower(f, "ForwardStopSign") /\ StopSignAtLeader(Head(up[f]).stop)
    BY DEF ReceiveForwardStopSign
<1>2. /\ foll' = foll /\ reply' = reply /\ down' = down /\ DOMAIN up' = Follower
      /\ Head(up[f]).type = "ForwardStopSign" /\ Head(up[f]) \in ReplyMsg
      /\ \A g \in Follower : RepliesOK(foll[g], up'[g])
    BY <1>1, TakenFrom
<1>3. Head(up[f]).stop \in Server
    BY <1>2 DEF ReplyMsg, PromiseMsg, AcceptedMsg
<1> QED BY <1>1, <1>2, <1>3, StopSignKeeps

\* reconfigure at the leader keeps the invariant.
LEMMA ReconfigureAtLeaderKeeps ==
    ASSUME SessionAssumption, SessionInv, Reconfigure(Leader)
    PROVE  SessionInv'
<1>1. Leader \in Server /\ StopSignAtLeader(Leader)
    BY DEF Reconfigure, Server
<1>2. /\ foll' = foll /\ reply' = reply /\ down' = down /\ up' = up
    BY DEF Reconfigure
<1>3. DOMAIN up' = Follower
    BY <1>2 DEF SessionInv
<1>4. \A g \in Follower : RepliesOK(foll[g], up'[g])
    BY <1>2, LinkFacts DEF UpOK
<1> QED BY <1>1, <1>2, <1>3, <1>4, StopSignKeeps

\* handle_preparereq keeps the invariant.
LEMMA ReceivePrepareReqKeeps ==
    ASSUME SessionAssumption, SessionInv, NEW f \in Follower, ReceivePrepareReq(f)
    PROVE  SessionInv'
<1>1. /\ foll' = foll /\ reply' = reply /\ down' = down /\ DOMAIN up' = Follower
      /\ DOMAIN down' = Follower /\ \A g \in Follower : RepliesOK(foll[g], up'[g])
    <2>1. FromFollower(f, "PrepareReq")
        BY DEF ReceivePrepareReq
    <2> QED BY <2>1, TakenFrom
<1>2. PICK pr, lt, m : /\ pr = [lead.promise EXCEPT ![f] = <<>>]
                       /\ lt = [lead.latest EXCEPT ![f] = 0] /\ m = [type |-> "Prepare"]
    OBVIOUS
<1>3. PICK l2 : l2 = [lead EXCEPT !.promise = pr, !.latest = lt]
    OBVIOUS
<1>4. lead \in Leads /\ LeaderOK(lead) /\ DOMAIN out = Follower
    BY DEF SessionInv, LeaderOK
<1>5. /\ lead' = l2 /\ out' = [out EXCEPT ![f] = Append(out[f], m)] /\ buffered' = buffered
    BY <1>2, <1>3, <1>4 DEF ReceivePrepareReq, Leads
<1>6. /\ l2 \in Leads /\ l2.log = lead.log /\ l2.stop = lead.stop /\ l2.phase = lead.phase
      /\ l2.decided = lead.decided /\ l2.promise = pr /\ l2.acc = lead.acc /\ l2.seq = lead.seq
      /\ l2.latest = lt
    <2>1. pr \in [Follower -> Seq(PromiseMsg)] /\ lt \in [Follower -> Nat]
        BY <1>2, <1>4 DEF Leads
    <2> QED BY <1>3, <1>4, <2>1 DEF Leads
<1>7. LeaderOK(l2)
    BY <1>2, <1>4, <1>6 DEF LeaderOK, Leads
<1>8. ASSUME NEW g \in Follower
      PROVE  /\ Linked(g, l2, foll[g], down[g], out'[g])
             /\ UpOK(g, l2, foll[g], up'[g], reply[g])
    <2>1. /\ foll[g] \in Follows /\ Linked(g, lead, foll[g], down[g], out[g])
          /\ UpOK(g, lead, foll[g], up[g], reply[g]) /\ lead.seq[g] \in SeqNum
        BY LinkFacts DEF Leads
    <2>2. LeadGrows(g, lead, l2)
        BY <1>4, <1>6, <2>1, AtMostFacts DEF LeadGrows, Leads, Logs
    <2>3. CASE g = f
        <3>1. l2.promise[g] = <<>> /\ l2.latest[g] = 0
            BY <1>2, <1>4, <1>6, <2>3 DEF Leads
        <3>2. UpOK(g, l2, foll[g], up'[g], reply[g])
            <4>1. \A i \in 1..Len(l2.promise[g]) : Holds(foll[g], l2.promise[g][i].accepted)
                BY <3>1
            <4> QED BY <1>1, <1>6, <2>1, <4>1, UpStays
        <3>3. PICK top : DownOK(g, lead, foll[g], down[g], out[g], top)
            BY <2>1 DEF Linked
        <3>4. DownOK(g, l2, foll[g], down[g], out[g], top)
            <4>1. ~HasPromised(l2, g)
                BY <3>1 DEF HasPromised
            <4> QED BY <1>4, <1>6, <2>1, <2>2, <3>1, <3>3, <4>1, LeadStays
        <3>5. MsgFits(g, l2, foll[g], top, m) /\ m.type = "Prepare"
            BY <1>2 DEF MsgFits, DownMsg
        <3>6. DownOK(g, l2, foll[g], down[g], Append(out[g], m), top)
            BY <3>1, <3>4, <3>5, SentBehind
        <3>7. out'[g] = Append(out[g], m)
            BY <1>4, <1>5, <2>3
        <3> QED BY <3>2, <3>6, <3>7 DEF Linked
    <2>4. CASE g # f
        <3>1. l2.promise[g] = lead.promise[g] /\ l2.latest[g] = lead.latest[g] /\ out'[g] = out[g]
            BY <1>2, <1>4, <1>5, <1>6, <2>4 DEF Leads
        <3>2. HasPromised(l2, g) <=> HasPromised(lead, g)
            BY <1>6, <3>1 DEF HasPromised
        <3>3. l2.latest[g] # 0 => HasPromised(l2, g)
            BY <3>1, <3>2, MergesPromised
        <3>4. Linked(g, l2, foll[g], down[g], out[g])
            BY <1>4, <1>6, <2>1, <2>2, <3>1, <3>2, <3>3, LinkedStays
        <3>5. UpOK(g, l2, foll[g], up'[g], reply[g])
            BY <1>1, <1>6, <2>1, <3>1, UpStays
        <3> QED BY <3>1, <3>4, <3>5
    <2> QED BY <2>3, <2>4
<1>9. DOMAIN out' = Follower /\ buffered' \in [Server -> Stops]
    BY <1>5 DEF SessionInv
<1> QED BY <1>1, <1>5, <1>6, <1>7, <1>8, <1>9, LeaderMoved

\* A leader's AcceptSync carries what comes after the index that the follower has promised.
LEMMA AcceptSyncFits ==
    ASSUME NEW f \in Follower, NEW ld, NEW l1 \in Leads, NEW l2, NEW w \in Follows, NEW prom \in PromiseMsg,
           prom = l1.promise[f][1], Holds(w, prom.accepted), Counts(l1.log, 0),
           l2.log = l1.log, l2.stop = l1.stop, l2.decided = l1.decided,
           NEW m, m = AcceptSync(l1, f)
    PROVE  /\ m \in DownMsg /\ m.type = "AcceptSync" /\ m.seq = NextSession(l1.seq[f])
           /\ Fresh(ld, l2, w, m)
<1>1. PICK idx, n, suffix, log :
          /\ idx = (IF prom.inRound THEN prom.accepted ELSE 0) /\ log = l1.log /\ n = Len(log)
          /\ suffix = SubSeq(log, idx + 1, n)
    OBVIOUS
<1>2. idx \in Nat /\ n \in Nat /\ log \in Logs /\ n = Len(log) /\ prom.accepted \in Nat
    BY <1>1 DEF PromiseMsg, Leads, Logs
<1>3. Holds(w, idx)
    BY <1>1, <1>2 DEF Holds, Follows, Logs
<1>4. \A i \in idx + 1..n : log[i] \in Nat /\ log[i] = i
    BY SMTT(30), <1>1, <1>2 DEF Counts, Logs
<1>5. /\ suffix \in Seq(Nat) /\ Len(suffix) = (IF idx + 1 <= n THEN n - (idx + 1) + 1 ELSE 0)
      /\ \A i \in 1..n - (idx + 1) + 1 : suffix[i] = log[idx + 1 + i - 1]
    <2>1. PICK j : j = idx + 1
        OBVIOUS
    <2>2. j \in Int /\ n \in Int /\ \A i \in j..n : log[i] \in Nat
        BY <1>2, <1>4, <2>1
    <2>3. suffix = SubSeq(log, j, n)
        BY <1>1, <2>1
    <2>4. /\ suffix \in Seq(Nat) /\ Len(suffix) = (IF j <= n THEN n - j + 1 ELSE 0)
          /\ \A i \in 1..n - j + 1 : suffix[i] = log[j + i - 1]
        BY <2>2, <2>3, SubSeqProperties
    <2> QED BY <2>1, <2>4
<1>6. Len(suffix) = (IF idx <= n THEN n - idx ELSE 0)
    BY <1>2, <1>5
<1>7. Counts(suffix, idx)
    <2>1. ASSUME NEW i \in 1..Len(suffix) PROVE suffix[i] = idx + i
        <3>1. i \in 1..n - (idx + 1) + 1 /\ idx + i \in idx + 1..n /\ idx + 1 + i - 1 = idx + i
            BY <1>2, <1>6
        <3> QED BY <1>4, <1>5, <3>1
    <2> QED BY <1>5, <2>1 DEF Counts, Logs
<1>8. PICK sy, sq : sy = [idx |-> idx, suffix |-> suffix, stop |-> l1.stop] /\ sq = NextSession(l1.seq[f])
    OBVIOUS
<1>9. m = [type |-> "AcceptSync", seq |-> sq, decided |-> l1.decided, sync |-> sy]
    BY <1>1, <1>8 DEF AcceptSync
<1>10. /\ sy \in [idx : Nat, suffix : Logs, stop : Stops] /\ sq \in SeqNum /\ l1.decided \in Nat
       /\ sy.idx = idx /\ sy.suffix = suffix /\ sy.stop = l1.stop
    <2>1. l1.seq[f] \in SeqNum /\ l1.stop \in Stops /\ l1.decided \in Nat
        BY DEF Leads
    <2> QED BY <1>2, <1>5, <1>8, <2>1, NextFacts DEF Logs
<1>11. /\ m \in DownMsg /\ m.type = "AcceptSync" /\ m.seq = sq /\ m.sync = sy
       /\ m.decided = l1.decided
    BY SMTT(30), <1>9, <1>10 DEF DownMsg, AcceptSyncMsg
<1>12. Len(m.sync.suffix) = (IF m.sync.idx <= Len(l2.log) THEN Len(l2.log) - m.sync.idx ELSE 0)
    BY <1>1, <1>6, <1>10, <1>11
<1>13. m.decided <= l2.decided /\ m.sync.stop = l2.stop
    BY <1>10, <1>11
<1> QED BY <1>3, <1>7, <1>8, <1>10, <1>11, <1>12, <1>13 DEF Fresh

\* send_accsync on one link
LEMMA SyncSent ==
    ASSUME NEW f \in Follower, NEW ld \in Leads, NEW l1 \in Leads, NEW l2 \in Leads,
           NEW w \in Follows, NEW dn, NEW ot, Linked(f, ld, w, dn, ot), LeadGrows(f, ld, l2),
           NEW prom \in PromiseMsg, prom = l1.promise[f][1], Holds(w, prom.accepted),
           Counts(l1.log, 0), l2.log = l1.log, l2.stop = l1.stop, l2.decided = l1.decided,
           l1.seq[f] = ld.seq[f], l2.seq[f] = NextSession(ld.seq[f]), l2.latest[f] = 0
    PROVE  Linked(f, l2, w, dn, Append(ot, AcceptSync(l1, f)))
<1>1. PICK m, q : m = AcceptSync(l1, f) /\ q = NextSession(ld.seq[f])
    OBVIOUS
<1>2. m \in DownMsg /\ m.type = "AcceptSync" /\ m.seq = q /\ Fresh(ld, l2, w, m)
    BY SMTT(30), <1>1, AcceptSyncFits
<1>3. NextNumber(f, ld, l2, q, m.type)
    BY <1>1, <1>2 DEF NextNumber
<1>4. PICK top : DownOK(f, ld, w, dn, ot, top)
    BY DEF Linked
<1>5. q = m.seq /\ q = l2.seq[f]
    BY <1>1, <1>2
<1>6. Linked(f, l2, w, dn, Append(ot, m))
    BY <1>2, <1>3, <1>4, <1>5, SentFresh
<1> QED BY <1>1, <1>6

\* send_accsync to the followers of F, after a promise of f, keeps the invariant.
LEMMA SyncKeeps ==
    ASSUME SessionAssumption, SessionInv, NEW f \in Follower, FromFollower(f, "Promise"),
           NEW l1 \in Leads, NEW F \in SUBSET Follower, SendAcceptSync(l1, F),
           l1.phase = "Accept", l1.log = lead.log, lead.stop # None => l1.stop = lead.stop,
           l1.decided = lead.decided, l1.seq = lead.seq, l1.latest = lead.latest,
           l1.promise = [lead.promise EXCEPT ![f] = <<Head(up[f])>>],
           \A g \in Follower : l1.acc[g] = lead.acc[g],
           \A g \in F : l1.promise[g] # <<>> /\ lead.latest[g] = 0,
           \A g \in Follower \ F : HasPromised(l1, g) <=> HasPromised(lead, g),
           \A g \in Follower \ F : HasPromised(l1, g) => l1.stop = lead.stop,
           buffered' \in [Server -> Stops]
    PROVE  SessionInv'
<1>1. /\ foll' = foll /\ reply' = reply /\ down' = down /\ DOMAIN up' = Follower
      /\ DOMAIN down' = Follower /\ \A g \in Follower : RepliesOK(foll[g], up'[g])
      /\ Head(up[f]).type = "Promise" /\ Held(foll[f], Head(up[f])) /\ Head(up[f]) \in ReplyMsg
    BY TakenFrom
<1>2. PICK msg : msg = Head(up[f])
    OBVIOUS
<1>3. msg \in PromiseMsg /\ Holds(foll[f], msg.accepted)
    BY <1>1, <1>2 DEF ReplyMsg, AcceptedMsg, Held
<1>4. PICK sq : sq = [g \in Follower |-> IF g \in F THEN NextSession(lead.seq[g]) ELSE lead.seq[g]]
    OBVIOUS
<1>5. PICK l2 : l2 = [l1 EXCEPT !.seq = sq]
    OBVIOUS
<1>6. lead \in Leads /\ LeaderOK(lead) /\ DOMAIN out = Follower /\ Counts(lead.log, 0)
    BY DEF SessionInv, LeaderOK
<1>7. /\ lead' = l2
      /\ out' = [g \in Follower |-> IF g \in F THEN Append(out[g], AcceptSync(l1, g)) ELSE out[g]]
    BY <1>4, <1>5, <1>6 DEF SendAcceptSync, Leads
<1>8. /\ l2 \in Leads /\ l2.log = lead.log /\ l2.stop = l1.stop /\ l2.phase = "Accept"
      /\ l2.decided = lead.decided /\ l2.promise = l1.promise /\ l2.acc = l1.acc /\ l2.seq = sq
      /\ l2.latest = lead.latest
    <2>1. sq \in [Follower -> SeqNum]
        BY <1>4, <1>6, NextFacts DEF Leads
    <2> QED BY <1>5, <2>1 DEF Leads
<1>9. LeaderOK(l2)
    BY <1>6, <1>8 DEF LeaderOK
<1>10. ASSUME NEW g \in Follower
       PROVE  /\ Linked(g, l2, foll[g], down[g], out'[g])
              /\ UpOK(g, l2, foll[g], up'[g], reply[g])
    <2>1. /\ foll[g] \in Follows /\ Linked(g, lead, foll[g], down[g], out[g])
          /\ UpOK(g, lead, foll[g], up[g], reply[g]) /\ lead.seq[g] \in SeqNum
        BY LinkFacts DEF Leads
    <2>2. LeadGrows(g, lead, l2)
        <3>1. AtMost(lead.seq[g], l2.seq[g])
            BY <1>4, <1>8, <2>1, NextFacts, AtMostFacts
        <3>2. lead.decided <= l2.decided /\ Len(lead.log) <= Len(l2.log)
            BY <1>6, <1>8 DEF Leads, Logs
        <3> QED BY <1>8, <3>1, <3>2 DEF LeadGrows
    <2>3. /\ l1.promise[g] \in Seq(PromiseMsg)
          /\ \A i \in 1..Len(l1.promise[g]) : Holds(foll[g], l1.promise[g][i].accepted)
        <3>1. CASE g = f
            <4>1. l1.promise[g] = <<msg>>
                BY <1>2, <1>6, <3>1 DEF Leads
            <4>2. /\ <<msg>> \in Seq(PromiseMsg)
                  /\ \A i \in 1..Len(<<msg>>) : <<msg>>[i].accepted = msg.accepted
                BY <1>3
            <4>3. Holds(foll[g], msg.accepted)
                BY <1>3, <3>1
            <4> QED BY <4>1, <4>2, <4>3
        <3>2. CASE g # f
            <4>1. l1.promise[g] = lead.promise[g]
                BY <1>6, <3>2 DEF Leads
            <4> QED BY <1>6, <2>1, <4>1 DEF UpOK, Leads
        <3> QED BY <3>1, <3>2
    <2>4. UpOK(g, l2, foll[g], up'[g], reply[g])
        <3>1. l2.acc[g] = lead.acc[g]
            BY <1>8
        <3>2. \A i \in 1..Len(l2.promise[g]) : Holds(foll[g], l2.promise[g][i].accepted)
            BY <1>8, <2>3
        <3> QED BY <1>1, <2>1, <3>1, <3>2, UpStays
    <2>5. CASE g \in F
        <3>1. PICK prom : prom = l1.promise[g][1]
            OBVIOUS
        <3>2. prom \in PromiseMsg /\ Holds(foll[g], prom.accepted)
            <4>1. Len(l1.promise[g]) \in Nat /\ Len(l1.promise[g]) >= 1
                BY <2>3, <2>5, EmptySeq
            <4> QED BY <2>3, <3>1, <4>1, ElementOfSeq
        <3>3. /\ l1.seq[g] = lead.seq[g] /\ l2.seq[g] = NextSession(lead.seq[g])
              /\ l2.latest[g] = 0 /\ l2.log = l1.log /\ l2.decided = l1.decided
              /\ Counts(l1.log, 0) /\ out'[g] = Append(out[g], AcceptSync(l1, g))
            BY <1>4, <1>6, <1>7, <1>8, <2>5
        <3>4. Linked(g, l2, foll[g], down[g], Append(out[g], AcceptSync(l1, g)))
            BY <1>6, <1>8, <2>1, <2>2, <3>1, <3>2, <3>3, SyncSent
        <3> QED BY <2>4, <3>3, <3>4
    <2>6. CASE g \notin F
        <3>1. l2.seq[g] = lead.seq[g] /\ l2.latest[g] = lead.latest[g] /\ out'[g] = out[g]
            BY <1>4, <1>7, <1>8, <2>6
        <3>2. HasPromised(l2, g) <=> HasPromised(lead, g)
            BY <1>8, <2>6 DEF HasPromised
        <3>3. HasPromised(l2, g) => l2.log = lead.log /\ l2.stop = lead.stop
            BY <1>8, <2>6 DEF HasPromised
        <3>4. l2.latest[g] # 0 => HasPromised(l2, g)
            BY <3>1, <3>2, MergesPromised
        <3>5. Linked(g, l2, foll[g], down[g], out[g])
            BY <1>6, <1>8, <2>1, <2>2, <3>1, <3>2, <3>3, <3>4, LinkedStays
        <3> QED BY <2>4, <3>1, <3>5
    <2> QED BY <2>5, <2>6
<1>11. DOMAIN out' = Follower
    BY <1>7
<1> QED BY <1>1, <1>7, <1>8, <1>9, <1>10, <1>11, LeaderMoved

\* handle_promise_accept keeps the invariant.
LEMMA ReceivePromiseInAcceptKeeps ==
    ASSUME SessionAssumption, SessionInv, TakenBeforePromise, NEW f \in Follower,
           ReceivePromiseInAccept(f)
    PROVE  SessionInv'
<1>1. PICK pr, F : pr = [lead.promise EXCEPT ![f] = <<Head(up[f])>>] /\ F = {f}
    OBVIOUS
<1>2. PICK l1 : l1 = [lead EXCEPT !.promise = pr]
    OBVIOUS
<1>3. lead \in Leads
    BY DEF SessionInv, LeaderOK
<1>4. /\ FromFollower(f, "Promise") /\ lead.phase = "Accept" /\ lead.latest[f] = 0
      /\ SendAcceptSync(l1, F) /\ buffered' = buffered
    <2>1. l1 = [lead EXCEPT !.promise[f] = <<Head(up[f])>>]
        BY <1>1, <1>2, <1>3 DEF Leads
    <2> QED BY <1>1, <2>1 DEF ReceivePromiseInAccept, Merges
<1>5. pr \in [Follower -> Seq(PromiseMsg)] /\ pr[f] # <<>> /\ \A g \in Follower \ F : pr[g] = lead.promise[g]
    <2>1. Head(up[f]).type = "Promise" /\ Head(up[f]) \in ReplyMsg
        BY <1>4, TakenFrom
    <2>2. PICK msg : msg = Head(up[f])
        OBVIOUS
    <2>3. msg \in PromiseMsg
        BY <2>1, <2>2 DEF ReplyMsg, AcceptedMsg
    <2>4. <<msg>> \in Seq(PromiseMsg) /\ <<msg>> # <<>>
        BY <2>3
    <2> QED BY <1>1, <1>3, <2>2, <2>4 DEF Leads
<1>6. /\ l1 \in Leads /\ l1.log = lead.log /\ l1.stop = lead.stop /\ l1.phase = "Accept"
      /\ l1.decided = lead.decided /\ l1.promise = pr /\ l1.acc = lead.acc /\ l1.seq = lead.seq
      /\ l1.latest = lead.latest
    BY <1>2, <1>3, <1>4, <1>5 DEF Leads
<1>7. \A g \in Follower \ F : HasPromised(l1, g) <=> HasPromised(lead, g)
    BY <1>4, <1>5, <1>6 DEF HasPromised
<1>8. F \in SUBSET Follower /\ \A g \in F : l1.promise[g] # <<>> /\ lead.latest[g] = 0
    BY <1>1, <1>4, <1>5, <1>6
<1>9. buffered' \in [Server -> Stops]
    BY <1>4 DEF SessionInv
<1>10. l1.promise = [lead.promise EXCEPT ![f] = <<Head(up[f])>>]
    BY <1>1, <1>6
<1> QED BY ZenonT(60), <1>4, <1>6, <1>7, <1>8, <1>9, <1>10, SyncKeeps

\* handle_promise_prepare keeps the invariant.
LEMMA ReceivePromiseInPrepareKeeps ==
    ASSUME SessionAssumption, SessionInv, NEW f \in Follower, ReceivePromiseInPrepare(f)
    PROVE  SessionInv'
<1>1. PICK pr, F, ss :
          /\ pr = [lead.promise EXCEPT ![f] = <<Head(up[f])>>]
          /\ F = {g \in Follower : pr[g] # <<>>} /\ ss = buffered[Leader]
    OBVIOUS
<1>2. lead \in Leads /\ LeaderOK(lead) /\ lead.phase = "Prepare" /\ FromFollower(f, "Promise")
      /\ buffered \in [Server -> Stops] /\ DOMAIN out = Follower
    BY DEF SessionInv, LeaderOK, ReceivePromiseInPrepare
<1>3. lead.log = <<>> /\ lead.stop = None /\ \A g \in Follower : lead.latest[g] = 0
    BY <1>2 DEF LeaderOK
<1>4. PICK msg : msg = Head(up[f])
    OBVIOUS
<1>5. /\ foll' = foll /\ reply' = reply /\ down' = down /\ DOMAIN up' = Follower
      /\ DOMAIN down' = Follower /\ \A g \in Follower : RepliesOK(foll[g], up'[g])
      /\ msg \in PromiseMsg /\ Holds(foll[f], msg.accepted)
    <2>1. /\ foll' = foll /\ reply' = reply /\ down' = down /\ DOMAIN up' = Follower
          /\ DOMAIN down' = Follower /\ \A g \in Follower : RepliesOK(foll[g], up'[g])
          /\ msg.type = "Promise" /\ Held(foll[f], msg) /\ msg \in ReplyMsg
        BY <1>2, <1>4, TakenFrom
    <2> QED BY <2>1 DEF ReplyMsg, AcceptedMsg, Held
<1>6. pr \in [Follower -> Seq(PromiseMsg)] /\ pr[f] = <<msg>>
      /\ \A g \in Follower : g # f => pr[g] = lead.promise[g]
    <2>1. <<msg>> \in Seq(PromiseMsg)
        BY <1>5
    <2> QED BY <1>1, <1>2, <1>4, <2>1 DEF Leads
<1>7. \A g \in Follower : ~HasPromised(lead, g)
    BY <1>2 DEF HasPromised
<1>8. CASE IsPrepareQuorum(Quorum, Cardinality(F) + 1)
    <2>1. PICK ac : ac = [lead.acc EXCEPT ![Leader] = IF ss = None THEN 0 ELSE 1]
        OBVIOUS
    <2>2. PICK l1 : l1 = [lead EXCEPT !.phase = "Accept", !.promise = pr, !.stop = ss, !.acc = ac]
        OBVIOUS
    <2>3. SendAcceptSync(l1, F) /\ buffered' = [buffered EXCEPT ![Leader] = None]
        <3>1. l1 = [lead EXCEPT !.phase = "Accept", !.promise = pr, !.stop = ss,
                                !.acc[Leader] = IF ss = None THEN 0 ELSE 1]
            BY <1>2, <2>1, <2>2 DEF Leads
        <3> QED BY <1>1, <1>8, <3>1 DEF ReceivePromiseInPrepare
    <2>4. ac \in [Server -> Nat] /\ \A g \in Follower : ac[g] = lead.acc[g]
        BY <1>2, <2>1 DEF Leads, Server, SessionAssumption
    <2>5. ss \in Stops
        BY <1>1, <1>2 DEF Server
    <2>6. /\ l1 \in Leads /\ l1.log = lead.log /\ l1.stop = ss /\ l1.phase = "Accept"
          /\ l1.decided = lead.decided /\ l1.promise = pr /\ l1.acc = ac /\ l1.seq = lead.seq
          /\ l1.latest = lead.latest
        BY <1>2, <1>6, <2>2, <2>4, <2>5 DEF Leads
    <2>7. \A g \in Follower \ F : ~HasPromised(l1, g)
        BY <1>1, <2>6 DEF HasPromised
    <2>8. F \in SUBSET Follower /\ \A g \in F : l1.promise[g] # <<>> /\ lead.latest[g] = 0
        BY <1>1, <1>3, <2>6
    <2>9. buffered' \in [Server -> Stops]
        BY <1>2, <2>3 DEF Stops
    <2>10. l1.promise = [lead.promise EXCEPT ![f] = <<Head(up[f])>>]
        BY <1>1, <2>6
    <2>11. /\ \A g \in Follower : l1.acc[g] = lead.acc[g]
           /\ lead.stop # None => l1.stop = lead.stop
           /\ \A g \in Follower \ F : HasPromised(l1, g) <=> HasPromised(lead, g)
           /\ \A g \in Follower \ F : HasPromised(l1, g) => l1.stop = lead.stop
        BY <1>3, <1>7, <2>4, <2>6, <2>7
    <2>12. /\ FromFollower(f, "Promise") /\ l1 \in Leads /\ F \in SUBSET Follower
           /\ SendAcceptSync(l1, F) /\ l1.phase = "Accept" /\ l1.log = lead.log
           /\ l1.decided = lead.decided /\ l1.seq = lead.seq /\ l1.latest = lead.latest
           /\ \A g \in F : l1.promise[g] # <<>> /\ lead.latest[g] = 0
        BY <1>2, <2>3, <2>6, <2>8
    <2> QED BY ZenonT(60), <2>9, <2>10, <2>11, <2>12, SyncKeeps
<1>9. CASE ~IsPrepareQuorum(Quorum, Cardinality(F) + 1)
    <2>1. PICK l2 : l2 = [lead EXCEPT !.promise = pr]
        OBVIOUS
    <2>2. lead' = l2 /\ out' = out /\ buffered' = buffered
        BY <1>1, <1>9, <2>1 DEF ReceivePromiseInPrepare
    <2>3. /\ l2 \in Leads /\ l2.log = lead.log /\ l2.stop = lead.stop /\ l2.phase = lead.phase
          /\ l2.decided = lead.decided /\ l2.promise = pr /\ l2.acc = lead.acc /\ l2.seq = lead.seq
          /\ l2.latest = lead.latest
        BY <1>2, <1>6, <2>1 DEF Leads
    <2>4. LeaderOK(l2)
        BY <1>2, <2>3 DEF LeaderOK
    <2>5. ASSUME NEW g \in Follower
          PROVE  /\ Linked(g, l2, foll[g], down'[g], out'[g])
                 /\ UpOK(g, l2, foll[g], up'[g], reply[g])
        <3>1. /\ foll[g] \in Follows /\ Linked(g, lead, foll[g], down[g], out[g])
              /\ UpOK(g, lead, foll[g], up[g], reply[g]) /\ lead.seq[g] \in SeqNum
            BY LinkFacts DEF Leads
        <3>2. LeadGrows(g, lead, l2)
            BY <1>2, <2>3, <3>1, AtMostFacts DEF LeadGrows, Leads, Logs
        <3>3. l2.seq[g] = lead.seq[g] /\ l2.latest[g] = 0 /\ ~HasPromised(l2, g)
            BY <1>2, <1>3, <2>3 DEF HasPromised
        <3>4. Linked(g, l2, foll[g], down[g], out[g])
            BY <1>2, <2>3, <3>1, <3>2, <3>3, LinkedStays
        <3>5. \/ l2.promise[g] = lead.promise[g]
              \/ \A i \in 1..Len(l2.promise[g]) : Holds(foll[g], l2.promise[g][i].accepted)
            <4>1. Len(<<msg>>) = 1 /\ <<msg>>[1] = msg
                OBVIOUS
            <4> QED BY <1>5, <1>6, <2>3, <4>1
        <3>6. UpOK(g, l2, foll[g], up'[g], reply[g])
            BY <1>5, <2>3, <3>1, <3>5, UpStays
        <3> QED BY <1>5, <2>2, <3>4, <3>6
    <2>6. DOMAIN out' = Follower /\ buffered' \in [Server -> Stops]
        BY <1>2, <2>2
    <2> QED BY <1>5, <2>2, <2>3, <2>4, <2>5, <2>6, LeaderMoved
<1> QED BY <1>8, <1>9

\* The write quorum of an accepted index, but the leader, holds what the index stands for.
LEMMA ChosenIsHeld ==
    ASSUME SessionAssumption, NEW acc \in [Server -> Nat], NEW idx \in Nat, IsChosen(acc, idx),
           \A g \in Follower : foll[g] \in Follows /\ Holds(foll[g], acc[g])
    PROVE  IsAcceptQuorum(Quorum, Cardinality(Holders(idx)) + 1)
<1>1. PICK A, H : A = {s \in Server : acc[s] >= idx} /\ H = Holders(idx)
    OBVIOUS
<1>2. A \subseteq H \cup {Leader} /\ H \subseteq Follower /\ Leader \notin H
    <2>1. ASSUME NEW g \in Follower, acc[g] >= idx PROVE g \in H
        <3>1. acc[g] \in Nat
            BY DEF Server
        <3>2. Holds(foll[g], idx)
            BY <2>1, <3>1, HoldsLess
        <3> QED BY <1>1, <3>2 DEF Holders
    <2> QED BY <1>1, <2>1 DEF Server, Holders, SessionAssumption
<1>3. IsFiniteSet(H)
    BY <1>2, FS_Subset DEF SessionAssumption
<1>4. IsFiniteSet(H \cup {Leader}) /\ Cardinality(H \cup {Leader}) = Cardinality(H) + 1
    BY <1>2, <1>3, FS_AddElement
<1>5. /\ Cardinality(A) <= Cardinality(H) + 1 /\ Cardinality(A) \in Nat /\ Cardinality(H) \in Nat
    BY <1>2, <1>3, <1>4, FS_Subset, FS_CardinalityType
<1>6. Quorum.write \in Nat
    <2>1. Cardinality(Server) \in Nat
        <3>1. IsFiniteSet(Server)
            BY FS_Singleton, FS_Union DEF SessionAssumption, Server
        <3> QED BY <3>1, FS_CardinalityType
    <2> QED BY <2>1 DEF SessionAssumption, IsValidQuorum
<1>7. Cardinality(A) >= Quorum.write
    BY <1>1 DEF IsChosen, IsAcceptQuorum
<1> QED BY <1>1, <1>5, <1>6, <1>7 DEF IsAcceptQuorum

\* handle_accepted keeps the invariant.
LEMMA ReceiveAcceptedKeeps ==
    ASSUME SessionAssumption, SessionInv, NEW f \in Follower, ReceiveAccepted(f)
    PROVE  SessionInv'
<1>1. PICK idx, ac, news : /\ idx = Head(up[f]).accepted /\ ac = [lead.acc EXCEPT ![f] = idx]
                           /\ news = Promised \ {g \in Follower : Merges(g)}
    OBVIOUS
<1>2. FromFollower(f, "Accepted") /\ buffered' = buffered
    BY DEF ReceiveAccepted
<1>3. /\ foll' = foll /\ reply' = reply /\ down' = down /\ DOMAIN up' = Follower
      /\ DOMAIN down' = Follower /\ \A g \in Follower : RepliesOK(foll[g], up'[g])
      /\ idx \in Nat /\ Holds(foll[f], idx)
    <2>1. PICK msg : msg = Head(up[f])
        OBVIOUS
    <2>2. /\ foll' = foll /\ reply' = reply /\ down' = down /\ DOMAIN up' = Follower
          /\ DOMAIN down' = Follower /\ \A g \in Follower : RepliesOK(foll[g], up'[g])
          /\ msg.type = "Accepted" /\ Held(foll[f], msg) /\ msg \in ReplyMsg
        BY <1>2, <2>1, TakenFrom
    <2>3. msg.accepted \in Nat /\ Holds(foll[f], msg.accepted)
        BY <2>2 DEF ReplyMsg, PromiseMsg, AcceptedMsg, Held
    <2> QED BY <1>1, <2>1, <2>2, <2>3
<1>4. lead \in Leads /\ LeaderOK(lead) /\ DOMAIN out = Follower /\ buffered \in [Server -> Stops]
    BY DEF SessionInv, LeaderOK
<1>5. buffered' \in [Server -> Stops]
    BY <1>2, <1>4
<1>6. /\ ac \in [Server -> Nat]
      /\ \A g \in Follower : foll[g] \in Follows /\ Holds(foll[g], ac[g])
    <2>1. ASSUME NEW g \in Follower PROVE foll[g] \in Follows /\ Holds(foll[g], ac[g])
        <3>1. foll[g] \in Follows /\ Holds(foll[g], lead.acc[g]) /\ g \in Server
            BY LinkFacts DEF UpOK
        <3>2. ac[g] = IF g = f THEN idx ELSE lead.acc[g]
            BY <1>1, <1>4, <3>1 DEF Leads
        <3> QED BY <1>3, <3>1, <3>2
    <2> QED BY <1>1, <1>3, <1>4, <2>1 DEF Leads
<1>7. CASE lead.phase = "Accept" /\ idx > lead.decided /\ IsChosen(ac, idx)
    <2>1. PICK sq : sq = [g \in Follower |-> IF g \in news THEN Next1(lead.seq[g]) ELSE lead.seq[g]]
        OBVIOUS
    <2>2. PICK l2 : l2 = [lead EXCEPT !.acc = ac, !.decided = idx, !.seq = sq]
        OBVIOUS
    <2>3. /\ lead' = [lead EXCEPT !.acc = ac, !.decided = idx,
                          !.seq = [g \in Follower |-> IF g \in news THEN Next1(@[g]) ELSE @[g]]]
          /\ out' = [g \in Follower |->
                CASE g \in news ->
                        Append(out[g], [type |-> "Decide", seq |-> Next1(lead.seq[g]), decided |-> idx])
                  [] g \in Promised \ news -> [out[g] EXCEPT ![lead.latest[g]].decided = idx]
                  [] OTHER -> out[g]]
        BY <1>1, <1>7 DEF ReceiveAccepted
    <2>4. lead' = l2
        BY <1>4, <2>1, <2>2, <2>3 DEF Leads
    <2>5. /\ l2 \in Leads /\ l2.log = lead.log /\ l2.stop = lead.stop /\ l2.phase = lead.phase
          /\ l2.decided = idx /\ l2.promise = lead.promise /\ l2.acc = ac /\ l2.seq = sq
          /\ l2.latest = lead.latest
        <3>1. sq \in [Follower -> SeqNum]
            BY <1>4, <2>1, NextFacts DEF Leads
        <3> QED BY <1>3, <1>4, <1>6, <2>2, <3>1 DEF Leads
    <2>6. LeaderOK(l2)
        BY <1>4, <2>5 DEF LeaderOK
    <2>7. ASSUME NEW g \in Follower
          PROVE  /\ Linked(g, l2, foll[g], down[g], out'[g])
                 /\ UpOK(g, l2, foll[g], up'[g], reply[g])
        <3>1. /\ foll[g] \in Follows /\ Linked(g, lead, foll[g], down[g], out[g])
              /\ UpOK(g, lead, foll[g], up[g], reply[g]) /\ lead.seq[g] \in SeqNum
            BY LinkFacts DEF Leads
        <3>2. UpOK(g, l2, foll[g], up'[g], reply[g])
            <4>1. Holds(foll[g], l2.acc[g]) /\ l2.promise[g] = lead.promise[g]
                BY <1>6, <2>5
            <4> QED BY <1>3, <3>1, <4>1, UpStays
        <3>3. LeadGrows(g, lead, l2)
            <4>1. AtMost(lead.seq[g], l2.seq[g])
                BY <2>1, <2>5, <3>1, NextFacts, AtMostFacts
            <4>2. lead.decided <= l2.decided /\ Len(lead.log) <= Len(l2.log)
                BY <1>3, <1>4, <1>7, <2>5 DEF Leads, Logs
            <4> QED BY <2>5, <4>1, <4>2 DEF LeadGrows
        <3>4. /\ g \in Promised <=> HasPromised(lead, g)
              /\ HasPromised(l2, g) <=> HasPromised(lead, g)
            BY <1>7, <2>5 DEF Promised, HasPromised
        <3>5. PICK top : DownOK(g, lead, foll[g], down[g], out[g], top)
            BY <3>1 DEF Linked
        <3>6. CASE g \in news
            <4>1. PICK q, m : /\ q = Next1(lead.seq[g])
                              /\ m = [type |-> "Decide", seq |-> q, decided |-> idx]
                OBVIOUS
            <4>2. /\ q \in SeqNum /\ q = l2.seq[g] /\ out'[g] = Append(out[g], m)
                  /\ l2.latest[g] = 0 /\ HasPromised(lead, g)
                BY <1>1, <2>1, <2>3, <2>5, <3>1, <3>4, <3>6, <4>1, NextFacts DEF Merges
            <4>3. m \in DownMsg /\ m.seq = q /\ m.type = "Decide" /\ m.decided = idx
                BY <1>3, <4>1, <4>2 DEF DownMsg, DecideMsg
            <4>4. NextNumber(g, lead, l2, q, m.type)
                BY <2>5, <4>1, <4>2, <4>3 DEF NextNumber
            <4>5. Fresh(lead, l2, foll[g], m)
                BY <1>3, <2>5, <4>3 DEF Fresh
            <4>6. Linked(g, l2, foll[g], down[g], Append(out[g], m))
                BY <1>4, <2>5, <3>1, <3>3, <3>5, <4>2, <4>3, <4>4, <4>5, SentFresh
            <4> QED BY <3>2, <4>2, <4>6
        <3>7. CASE g \in Promised \ news
            <4>1. PICK k : k = lead.latest[g]
                OBVIOUS
            <4>2. k # 0 /\ k = l2.latest[g] /\ l2.seq[g] = lead.seq[g] /\ HasPromised(l2, g)
                BY <1>1, <2>1, <2>5, <3>4, <3>7, <4>1 DEF Merges
            <4>3. DownOK(g, l2, foll[g], down[g], out[g], top)
                BY <1>4, <2>5, <3>1, <3>3, <3>4, <3>5, <4>1, <4>2, LeadStays
            <4>4. PICK m2 : m2 = [out[g][k] EXCEPT !.decided = idx]
                OBVIOUS
            <4>5. idx <= l2.decided /\ l2.latest[g] # 0
                BY <1>3, <2>5, <4>2
            <4>6. DownOK(g, l2, foll[g], down[g], [out[g] EXCEPT ![k] = m2], top)
                BY <1>3, <2>5, <3>1, <4>2, <4>3, <4>4, <4>5, DecidedMerged
            <4>7. out'[g] = [out[g] EXCEPT ![k] = m2]
                BY <2>3, <3>7, <4>1, <4>4
            <4> QED BY <3>2, <4>6, <4>7 DEF Linked
        <3>8. CASE g \notin Promised
            <4>1. l2.seq[g] = lead.seq[g] /\ l2.latest[g] = lead.latest[g] /\ out'[g] = out[g]
                BY <1>1, <2>1, <2>3, <2>5, <3>8
            <4>2. ~HasPromised(l2, g) /\ l2.latest[g] = 0
                BY <3>4, <3>8, <4>1, MergesPromised
            <4>3. Linked(g, l2, foll[g], down[g], out[g])
                BY <1>4, <2>5, <3>1, <3>3, <4>1, <4>2, LinkedStays
            <4> QED BY <3>2, <4>1, <4>3
        <3> QED BY <3>6, <3>7, <3>8
    <2>8. IsAcceptQuorum(Quorum, Cardinality(Holders(idx)) + 1)
        BY <1>3, <1>6, <1>7, ChosenIsHeld
    <2>9. DOMAIN out' = Follower
        BY <2>3
    <2>10. \A g \in Follower : /\ Linked(g, lead', foll[g], down'[g], out'[g])
                               /\ UpOK(g, lead', foll[g], up'[g], reply[g])
        BY <1>3, <2>4, <2>7
    <2>11. LeaderOK(lead') /\ IsAcceptQuorum(Quorum, Cardinality(Holders(lead'.decided)) + 1)
        BY <2>4, <2>5, <2>6, <2>8
    <2> QED BY <1>3, <1>5, <2>9, <2>10, <2>11, LeaderMoved
<1>8. CASE lead.phase # "Accept"
    <2>1. lead' = lead /\ out' = out
        BY <1>8 DEF ReceiveAccepted
    <2> QED BY <1>3, <1>5, <2>1, LeaderQuiet
<1>9. CASE lead.phase = "Accept" /\ ~(idx > lead.decided /\ IsChosen(ac, idx))
    <2>1. PICK l2 : l2 = [lead EXCEPT !.acc = ac]
        OBVIOUS
    <2>2. lead' = l2 /\ out' = out
        BY <1>1, <1>9, <2>1 DEF ReceiveAccepted
    <2>3. /\ l2 \in Leads /\ l2.log = lead.log /\ l2.stop = lead.stop /\ l2.phase = lead.phase
          /\ l2.decided = lead.decided /\ l2.promise = lead.promise /\ l2.acc = ac
          /\ l2.seq = lead.seq /\ l2.latest = lead.latest
        BY <1>4, <1>6, <2>1 DEF Leads
    <2>4. LeaderOK(l2)
        BY <1>4, <2>3 DEF LeaderOK
    <2>5. ASSUME NEW g \in Follower
          PROVE  /\ Linked(g, l2, foll[g], down'[g], out'[g])
                 /\ UpOK(g, l2, foll[g], up'[g], reply[g])
        <3>1. /\ foll[g] \in Follows /\ Linked(g, lead, foll[g], down[g], out[g])
              /\ UpOK(g, lead, foll[g], up[g], reply[g]) /\ lead.seq[g] \in SeqNum
            BY LinkFacts DEF Leads
        <3>2. LeadGrows(g, lead, l2)
            BY <1>4, <2>3, <3>1, AtMostFacts DEF LeadGrows, Leads, Logs
        <3>3. HasPromised(l2, g) <=> HasPromised(lead, g)
            BY <2>3 DEF HasPromised
        <3>4. l2.latest[g] # 0 => HasPromised(l2, g)
            BY <2>3, <3>3, MergesPromised
        <3>5. Linked(g, l2, foll[g], down[g], out[g])
            BY <1>4, <2>3, <3>1, <3>2, <3>3, <3>4, LinkedStays
        <3>6. UpOK(g, l2, foll[g], up'[g], reply[g])
            BY <1>3, <1>6, <2>3, <3>1, UpStays
        <3> QED BY <1>3, <2>2, <3>5, <3>6
    <2>6. DOMAIN out' = Follower
        BY <1>4, <2>2
    <2> QED BY <1>3, <1>5, <2>2, <2>3, <2>4, <2>5, <2>6, LeaderMoved
<1> QED BY <1>7, <1>8, <1>9

\* What resend_messages_leader sends again fits.
LEMMA ResentFits ==
    ASSUME SessionInv, NEW f \in Follower, HasPromised(lead, f), lead.stop # None,
           NEW top, DownOK(f, lead, foll[f], down[f], out[f], top), NEW m,
           \/ m = [type |-> "Decide", seq |-> lead.seq[f], decided |-> lead.decided]
           \/ m = [type |-> "AcceptStopSign", seq |-> lead.seq[f], stop |-> lead.stop]
    PROVE  DownOK(f, lead, foll[f], down[f], Append(out[f], m), top)
<1>1. PICK q : q = lead.seq[f]
    OBVIOUS
<1>2. /\ q \in SeqNum /\ lead.decided \in Nat /\ lead.stop \in Stops /\ AtMost(q, q)
    BY <1>1, LinkFacts, AtMostFacts DEF Leads
<1>3. /\ top[q] = Len(lead.log) /\ q.counter >= 1
      /\ q.counter >= 2 => top[Before(q)] = Len(lead.log)
      /\ Len(foll[f].log) <= Len(lead.log)
    BY <1>1 DEF DownOK, TopOK, FollowerOK
<1>4. /\ m \in DownMsg /\ m.seq = q /\ m.type \in {"Decide", "AcceptStopSign"}
      /\ m.type = "Decide" => m.decided = lead.decided
      /\ m.type = "AcceptStopSign" => m.stop = lead.stop
    BY <1>1, <1>2 DEF DownMsg, DecideMsg, AcceptStopSignMsg
<1>5. MsgFits(f, lead, foll[f], top, m)
    BY <1>1, <1>2, <1>3, <1>4 DEF MsgFits
<1> QED BY <1>1, <1>4, <1>5, SentBehind

\* resend_messages_leader keeps the invariant.
LEMMA ResendAtLeaderKeeps ==
    ASSUME SessionAssumption, SessionInv, ResendAtLeader
    PROVE  SessionInv'
<1>1. /\ lead' = lead /\ foll' = foll /\ reply' = reply /\ down' = down /\ up' = up
      /\ buffered' = buffered
      /\ out' = [f \in Follower |-> out[f] \o
                    ((IF lead.phase = "Accept" THEN ResendStopSign(f) ELSE <<>>)
                     \o (IF f \in Promised THEN <<>> ELSE <<[type |-> "Prepare"]>>))]
    BY DEF ResendAtLeader
<1>2. /\ LeaderOK(lead) /\ buffered \in [Server -> Stops] /\ DOMAIN down = Follower
      /\ DOMAIN up = Follower
    BY DEF SessionInv
<1>3. ASSUME NEW g \in Follower
      PROVE  /\ Linked(g, lead, foll[g], down[g], out'[g])
             /\ UpOK(g, lead, foll[g], up[g], reply[g])
    <2>1. /\ Linked(g, lead, foll[g], down[g], out[g])
          /\ UpOK(g, lead, foll[g], up[g], reply[g])
        BY LinkFacts
    <2>2. PICK top : DownOK(g, lead, foll[g], down[g], out[g], top)
        BY <2>1 DEF Linked
    <2>3. out[g] \in Seq(DownMsg)
        BY <2>2 DEF DownOK
    <2>4. PICK msgs : msgs = (IF lead.phase = "Accept" THEN ResendStopSign(g) ELSE <<>>)
                             \o (IF g \in Promised THEN <<>> ELSE <<[type |-> "Prepare"]>>)
        OBVIOUS
    <2>5. out'[g] = out[g] \o msgs
        BY <1>1, <2>4
    <2>6. CASE g \notin Promised
        <3>1. PICK m : m = [type |-> "Prepare"]
            OBVIOUS
        <3>2. msgs = <<m>>
            <4>1. (IF lead.phase = "Accept" THEN ResendStopSign(g) ELSE <<>>) = <<>>
                BY <2>6 DEF ResendStopSign
            <4>2. msgs = <<>> \o <<m>>
                BY <2>4, <2>6, <3>1, <4>1, Zenon
            <4>3. <<m>> \in Seq({m})
                OBVIOUS
            <4> QED BY <4>2, <4>3, ConcatEmptySeq
        <3>3. out'[g] = Append(out[g], m)
            BY <2>3, <2>5, <3>1, <3>2
        <3>4. lead.latest[g] = 0
            BY <2>6, MergesPromised DEF Promised, HasPromised
        <3>5. MsgFits(g, lead, foll[g], top, m) /\ m.type = "Prepare"
            BY <3>1 DEF MsgFits, DownMsg
        <3>6. DownOK(g, lead, foll[g], down[g], Append(out[g], m), top)
            BY <2>2, <3>4, <3>5, SentBehind
        <3> QED BY <2>1, <3>3, <3>6 DEF Linked
    <2>7. CASE g \in Promised
        <3>1. msgs = <<>> \/ (lead.phase = "Accept" /\ msgs = ResendStopSign(g))
            <4>1. msgs = (IF lead.phase = "Accept" THEN ResendStopSign(g) ELSE <<>>) \o <<>>
                BY <2>4, <2>7
            <4>2. ResendStopSign(g) \o <<>> = ResendStopSign(g) /\ <<>> \o <<>> = <<>>
                BY DEF ResendStopSign
            <4> QED BY <4>1, <4>2
        <3>2. CASE msgs = <<>>
            <4>1. out'[g] = out[g]
                BY <2>3, <2>5, <3>2, ConcatEmptySeq
            <4> QED BY <2>1, <4>1
        <3>3. CASE msgs # <<>>
            <4>1. lead.phase = "Accept" /\ msgs = ResendStopSign(g)
                BY <3>1, <3>3
            <4>2. PICK m : /\ lead.stop # None /\ msgs = <<m>>
                           /\ \/ m = [type |-> "Decide", seq |-> lead.seq[g], decided |-> lead.decided]
                              \/ m = [type |-> "AcceptStopSign", seq |-> lead.seq[g], stop |-> lead.stop]
                BY <3>3, <4>1 DEF ResendStopSign
            <4>3. out'[g] = Append(out[g], m)
                BY <2>3, <2>5, <4>2
            <4>4. HasPromised(lead, g)
                BY <2>7, <4>1 DEF Promised, HasPromised
            <4>5. DownOK(g, lead, foll[g], down[g], Append(out[g], m), top)
                BY <2>2, <4>2, <4>4, ResentFits
            <4> QED BY <2>1, <4>3, <4>5 DEF Linked
        <3> QED BY <3>2, <3>3
    <2> QED BY <2>6, <2>7
<1>4. DOMAIN out' = Follower
    BY <1>1
<1> QED BY <1>1, <1>2, <1>3, <1>4, LeaderMoved

\* take_outgoing_messages of the leader keeps the invariant.
LEMMA TakeAtLeaderKeeps ==
    ASSUME SessionAssumption, SessionInv, TakeAtLeader
    PROVE  SessionInv'
<1>1. PICK lt : lt = [f \in Follower |-> 0]
    OBVIOUS
<1>2. PICK l2 : l2 = [lead EXCEPT !.latest = lt]
    OBVIOUS
<1>3. /\ lead' = l2 /\ foll' = foll /\ reply' = reply /\ up' = up /\ buffered' = buffered
      /\ down' = [f \in Follower |-> down[f] \o out[f]] /\ out' = [f \in Follower |-> <<>>]
    BY <1>1, <1>2 DEF TakeAtLeader
<1>4. lead \in Leads /\ LeaderOK(lead) /\ buffered \in [Server -> Stops] /\ DOMAIN up = Follower
    BY DEF SessionInv, LeaderOK
<1>5. /\ l2 \in Leads /\ l2.log = lead.log /\ l2.stop = lead.stop /\ l2.phase = lead.phase
      /\ l2.decided = lead.decided /\ l2.promise = lead.promise /\ l2.acc = lead.acc
      /\ l2.seq = lead.seq /\ l2.latest = lt
    BY <1>1, <1>2, <1>4 DEF Leads
<1>6. LeaderOK(l2)
    BY <1>1, <1>4, <1>5 DEF LeaderOK
<1>7. ASSUME NEW g \in Follower
      PROVE  /\ Linked(g, l2, foll[g], down'[g], out'[g])
             /\ UpOK(g, l2, foll[g], up'[g], reply[g])
    <2>1. /\ foll[g] \in Follows /\ Linked(g, lead, foll[g], down[g], out[g])
          /\ UpOK(g, lead, foll[g], up[g], reply[g]) /\ lead.seq[g] \in SeqNum
        BY LinkFacts DEF Leads
    <2>2. LeadGrows(g, lead, l2)
        BY <1>4, <1>5, <2>1, AtMostFacts DEF LeadGrows, Leads, Logs
    <2>3. PICK top : DownOK(g, lead, foll[g], down[g], out[g], top)
        BY <2>1 DEF Linked
    <2>4. l2.latest[g] = 0 /\ (HasPromised(l2, g) <=> HasPromised(lead, g))
        BY <1>1, <1>5 DEF HasPromised
    <2>5. DownOK(g, l2, foll[g], down[g], out[g], top)
        BY <1>4, <1>5, <2>1, <2>2, <2>3, <2>4, LeadStays
    <2>6. DownOK(g, l2, foll[g], down[g] \o out[g], <<>>, top)
        BY <2>4, <2>5, AllTaken
    <2>7. UpOK(g, l2, foll[g], up[g], reply[g])
        BY <1>5, <2>1 DEF UpOK
    <2> QED BY <1>3, <2>6, <2>7 DEF Linked
<1>8. DOMAIN out' = Follower /\ DOMAIN down' = Follower
    BY <1>3
<1> QED BY <1>3, <1>4, <1>5, <1>6, <1>7, <1>8, LeaderMoved

--------------------------------------------------------------------------------
(* The theorems.  They assume that the outgoing messages are taken before a promise is
   handled: without it an entry may join a message of the session before. *)

\* An empty queue fits, and the first Prepare does.
LEMMA InitKeeps ==
    ASSUME SessionAssumption, Init
    PROVE  SessionInv
<1>1. PICK z, ps, sq, ac, lt :
          /\ z = Zero /\ ps = [f \in Follower |-> <<>>] /\ sq = [f \in Follower |-> z]
          /\ ac = [s \in Server |-> 0] /\ lt = [f \in Follower |-> 0]
    OBVIOUS
<1>2. z \in SeqNum /\ z.counter = 0 /\ z.session = 0
    BY <1>1 DEF Zero, SeqNum
<1>3. lead = [phase |-> "Prepare", log |-> <<>>, stop |-> None, decided |-> 0,
              promise |-> ps, seq |-> sq, acc |-> ac, latest |-> lt]
    BY <1>1 DEF Init
<1>4. /\ lead.phase = "Prepare" /\ lead.log = <<>> /\ lead.stop = None /\ lead.decided = 0
      /\ lead.promise = ps /\ lead.seq = sq /\ lead.acc = ac /\ lead.latest = lt
    BY <1>3
<1>5. lead \in Leads
    <2>1. /\ ps \in [Follower -> Seq(PromiseMsg)] /\ sq \in [Follower -> SeqNum]
          /\ ac \in [Server -> Nat] /\ lt \in [Follower -> Nat]
        BY <1>1, <1>2
    <2>2. <<>> \in Logs /\ None \in Stops
        BY DEF Logs, Stops
    <2> QED BY <1>3, <2>1, <2>2 DEF Leads
<1>6. LeaderOK(lead)
    BY <1>1, <1>4, <1>5 DEF LeaderOK, Counts, Logs
<1>7. PICK m : m = [type |-> "Prepare"]
    OBVIOUS
<1>8. /\ buffered \in [Server -> Stops]
      /\ foll = [f \in Follower |->
               [phase |-> None, promised |-> FALSE, inRound |-> FALSE, log |-> <<>>, stop |-> None,
                accepted |-> 0, decided |-> 0, seq |-> z, cached |-> <<>>, latest |-> 0,
                again |-> FALSE]]
      /\ out = [f \in Follower |-> <<m>>] /\ reply = [f \in Follower |-> <<>>]
      /\ down = [f \in Follower |-> <<>>] /\ up = [f \in Follower |-> <<>>]
    BY <1>1, <1>7 DEF Init, Stops
<1>9. ASSUME NEW f \in Follower PROVE LinkOK(f)
    <2>1. PICK w : w = foll[f]
        OBVIOUS
    <2>2. w = [phase |-> None, promised |-> FALSE, inRound |-> FALSE, log |-> <<>>, stop |-> None,
               accepted |-> 0, decided |-> 0, seq |-> z, cached |-> <<>>, latest |-> 0,
               again |-> FALSE]
        BY <1>8, <2>1
    <2>3. /\ w.phase = None /\ w.log = <<>> /\ w.stop = None /\ w.accepted = 0 /\ w.decided = 0
          /\ w.cached = <<>> /\ w.latest = 0 /\ w.seq = z
        BY <2>2
    <2>4. w \in Follows
        <3>1. <<>> \in Logs /\ None \in Stops /\ <<>> \in Seq(PromiseMsg)
            BY DEF Logs, Stops
        <3> QED BY <1>2, <2>2, <3>1 DEF Follows
    <2>5. Holds(w, 0)
        BY <2>3 DEF Holds
    <2>6. FollowerOK(lead, w)
        BY <1>4, <2>3, <2>4, <2>5 DEF FollowerOK, Counts, Logs
    <2>7. PICK top : top = [q \in SeqNum |-> 0]
        OBVIOUS
    <2>8. top \in [SeqNum -> Nat] /\ \A q \in SeqNum : top[q] = 0
        BY <2>7
    <2>9. TopOK(f, lead, top)
        <3>1. lead.seq[f] = z /\ ~HasPromised(lead, f) /\ Len(lead.log) = 0
            BY <1>1, <1>4 DEF HasPromised
        <3> QED BY <1>2, <2>8, <3>1 DEF TopOK
    <2>10. InStep(f, lead, w, top)
        BY <2>3 DEF InStep, None
    <2>11. down[f] = <<>> /\ out[f] = <<m>> /\ up[f] = <<>> /\ reply[f] = <<>>
        BY <1>8
    <2>12. PipeOK(f, lead, w, top, <<m>>)
        <3>1. MsgFits(f, lead, w, top, m)
            BY <1>7 DEF MsgFits, DownMsg
        <3>2. <<m>> \in Seq(DownMsg) /\ Len(<<m>>) = 1 /\ <<m>>[1] = m
            BY <3>1 DEF MsgFits
        <3>3. \A i \in 1..Len(<<m>>) : i = 1
            BY <3>2
        <3>4. \A i, j \in 1..Len(<<m>>) : ~(i < j)
            BY <3>3
        <3> QED BY <3>1, <3>2, <3>3, <3>4 DEF PipeOK
    <2>13. MergeOK(f, lead, w, <<m>>)
        BY <1>1, <1>4 DEF MergeOK
    <2>14. <<>> \o <<m>> = <<m>> /\ <<>> \in Seq(DownMsg) /\ <<m>> \in Seq(DownMsg)
        BY <2>12, ConcatEmptySeq DEF PipeOK
    <2>15. DownOK(f, lead, w, <<>>, <<m>>, top)
        BY <2>6, <2>9, <2>10, <2>12, <2>13, <2>14 DEF DownOK
    <2>16. UpOK(f, lead, w, <<>>, <<>>)
        <3>1. RepliesOK(w, <<>>)
            BY DEF RepliesOK
        <3>2. lead.acc[f] = 0 /\ lead.promise[f] = <<>>
            BY <1>1, <1>4 DEF Server
        <3> QED BY <2>3, <2>5, <3>1, <3>2 DEF UpOK
    <2> QED BY <2>1, <2>11, <2>15, <2>16 DEF LinkOK, Linked
<1> QED BY <1>4, <1>6, <1>8, <1>9 DEF SessionInv, DecidedOK

\* Every step keeps the invariant.
LEMMA NextKeeps ==
    ASSUME SessionAssumption, TakenBeforePromise, SessionInv, Next
    PROVE  SessionInv'
<1>1. CASE AppendEntry
    BY <1>1, AppendEntryKeeps
<1>2. CASE TakeAtLeader
    BY <1>2, TakeAtLeaderKeeps
<1>3. CASE ResendAtLeader
    BY <1>3, ResendAtLeaderKeeps
<1>4. ASSUME NEW s \in Server, Reconfigure(s)
      PROVE  SessionInv'
    <2>1. CASE s = Leader
        BY <1>4, <2>1, ReconfigureAtLeaderKeeps
    <2>2. CASE s \in Follower
        BY <1>4, <2>2, ReconfigureAtFollowerKeeps
    <2> QED BY <2>1, <2>2 DEF Server
<1>5. ASSUME NEW f \in Follower, HandleAtLeader(f)
      PROVE  SessionInv'
    BY <1>5, ReceiveForwardStopSignKeeps, ReceivePrepareReqKeeps, ReceivePromiseInPrepareKeeps,
       ReceivePromiseInAcceptKeeps, ReceiveAcceptedKeeps DEF HandleAtLeader
<1>6. ASSUME NEW f \in Follower,
             \/ HandleAtFollower(f) \/ TakeAtFollower(f) \/ ResendAtFollower(f)
             \/ UserReconnected(f) \/ Lose(f)
      PROVE  SessionInv'
    BY <1>6, HandleAtFollowerKeeps, TakeAtFollowerKeeps, ResendAtFollowerKeeps,
       UserReconnectedKeeps, LoseKeeps
<1> QED BY <1>1, <1>2, <1>3, <1>4, <1>5, <1>6 DEF Next

\* What the invariant says of a state it says of the same state later.
LEMMA StutterKeeps ==
    ASSUME SessionInv, UNCHANGED vars
    PROVE  SessionInv'
<1>1. /\ lead' = lead /\ foll' = foll /\ buffered' = buffered /\ out' = out /\ reply' = reply
      /\ down' = down /\ up' = up
    BY DEF vars
<1>2. \A f \in Follower : LinkOK(f)'
    BY <1>1 DEF LinkOK, SessionInv
<1>3. DecidedOK'
    BY <1>1 DEF DecidedOK, Holders, SessionInv
<1> QED BY <1>1, <1>2, <1>3 DEF SessionInv

\* Provided that outgoing messages are taken before a promise is handled, the invariant holds.
THEOREM SessionHolds ==
    ASSUME TakenBeforePromise
    PROVE  Spec => []SessionInv
<1>1. Init => SessionInv
    BY SessionAssumption, InitKeeps
<1>2. SessionInv /\ [Next]_vars => SessionInv'
    BY SessionAssumption, NextKeeps, StutterKeeps
<1> QED BY <1>1, <1>2, PTL DEF Spec

\* Two sequences with the same first entries
LEMMA SameFirst ==
    ASSUME NEW S, NEW s \in Seq(S), NEW t \in Seq(S), NEW k \in Nat, k <= Len(s), k <= Len(t),
           \A i \in 1..k : s[i] = t[i]
    PROVE  SubSeq(s, 1, k) = SubSeq(t, 1, k)
<1>1. PICK u, v : u = SubSeq(s, 1, k) /\ v = SubSeq(t, 1, k)
    OBVIOUS
<1>2. \A i \in 1..k : s[i] \in S /\ t[i] \in S
    BY LenProperties
<1>3. /\ u \in Seq(S) /\ Len(u) = (IF 1 <= k THEN k - 1 + 1 ELSE 0)
      /\ \A i \in 1..k - 1 + 1 : u[i] = s[1 + i - 1]
    BY <1>1, <1>2, SubSeqProperties
<1>4. /\ v \in Seq(S) /\ Len(v) = (IF 1 <= k THEN k - 1 + 1 ELSE 0)
      /\ \A i \in 1..k - 1 + 1 : v[i] = t[1 + i - 1]
    BY <1>1, <1>2, SubSeqProperties
<1>5. Len(u) = k /\ Len(v) = k /\ \A i \in 1..k : u[i] = s[i] /\ v[i] = t[i]
    BY <1>3, <1>4
<1>6. u = v
    BY <1>3, <1>4, <1>5, SeqEqual
<1> QED BY <1>1, <1>6

\* A log with its stop sign
LEMMA FullLogFacts ==
    ASSUME NEW st, Counts(st.log, 0), st.stop \in Stops, NEW n, n = Len(st.log), NEW s, s = FullLog(st)
    PROVE  /\ n \in Nat /\ s \in Seq(Nat \cup Stops) /\ \A i \in 1..n : s[i] = i
           /\ Len(s) = IF st.stop = None THEN n ELSE n + 1
<1>1. PICK log, S : log = st.log /\ S = Nat \cup Stops
    OBVIOUS
<1>2. log \in Seq(Nat) /\ log \in Seq(S) /\ n \in Nat /\ \A i \in 1..n : log[i] = i
    BY <1>1 DEF Counts, Logs
<1>3. CASE st.stop = None
    <2>1. s = log \o <<>>
        BY <1>1, <1>3 DEF FullLog
    <2>2. s = log
        BY <1>2, <2>1, ConcatEmptySeq
    <2> QED BY <1>1, <1>2, <1>3, <2>2
<1>4. CASE st.stop # None
    <2>1. PICK e : e = st.stop
        OBVIOUS
    <2>2. s = Append(log, e) /\ e \in S
        <3>1. s = log \o <<e>>
            BY <1>1, <1>4, <2>1 DEF FullLog
        <3> QED BY <1>1, <1>2, <2>1, <3>1
    <2>3. s \in Seq(S) /\ Len(s) = Len(log) + 1 /\ \A i \in 1..Len(log) : s[i] = log[i]
        BY <1>2, <2>2, AppendProperties
    <2> QED BY <1>1, <1>2, <1>4, <2>3
<1> QED BY <1>3, <1>4

\* What the invariant says of the logs of a follower and of the leader
LEMMA LogsOf ==
    ASSUME SessionInv, NEW f \in Follower, NEW w, w = foll[f], NEW s, s = FullLog(w),
           NEW t, t = FullLog(lead), NEW n, n = Len(w.log), NEW l, l = Len(lead.log)
    PROVE  /\ n \in Nat /\ l \in Nat /\ n <= l
           /\ s \in Seq(Nat \cup Stops) /\ t \in Seq(Nat \cup Stops)
           /\ Len(s) \in Nat /\ Len(t) \in Nat /\ Len(s) >= n /\ Len(t) >= l
           /\ \A i \in 1..n : s[i] = t[i]
           /\ w.stop = None => Len(s) = n
           /\ w.stop # None => s = t /\ n = l /\ lead.stop # None
           /\ Len(t) = LeadAccepted
<1>1. FollowerOK(lead, w) /\ w \in Follows /\ lead \in Leads /\ Counts(lead.log, 0)
    BY LinkFacts DEF SessionInv, LeaderOK
<1>2. /\ Counts(w.log, 0) /\ n <= l /\ w.stop \in Stops /\ lead.stop \in Stops
      /\ w.stop # None => w.stop = lead.stop /\ n = l
    BY <1>1 DEF FollowerOK, Follows, Leads
<1>3. /\ n \in Nat /\ s \in Seq(Nat \cup Stops) /\ \A i \in 1..n : s[i] = i
      /\ Len(s) = IF w.stop = None THEN n ELSE n + 1
    BY SMTT(60), <1>2, FullLogFacts
<1>4. /\ l \in Nat /\ t \in Seq(Nat \cup Stops) /\ \A i \in 1..l : t[i] = i
      /\ Len(t) = IF lead.stop = None THEN l ELSE l + 1
    BY SMTT(30), <1>1, <1>2, FullLogFacts
<1>5. w.stop # None => s = t
    <2>1. ASSUME w.stop # None PROVE w.log = lead.log
        <3>1. /\ w.log \in Seq(Nat) /\ lead.log \in Seq(Nat) /\ Len(w.log) = Len(lead.log)
              /\ \A i \in 1..Len(w.log) : w.log[i] = i /\ lead.log[i] = i
            BY <1>1, <1>2, <2>1 DEF Counts, Logs
        <3> QED BY <3>1, SeqEqual
    <2> QED BY <1>2, <2>1 DEF FullLog
<1>6. \A i \in 1..n : s[i] = t[i]
    BY <1>2, <1>3, <1>4
<1>7. Len(t) = LeadAccepted
    <2>1. PICK k : k = Len(t)
        OBVIOUS
    <2>2. k = (IF lead.stop = None THEN l ELSE l + 1) /\ l \in Nat
        BY <1>4, <2>1
    <2>3. k = l + (IF lead.stop = None THEN 0 ELSE 1)
        <3>1. CASE lead.stop = None
            <4>1. k = l + 0
                BY <2>2, <3>1
            <4> QED BY <3>1, <4>1, Zenon
        <3>2. CASE lead.stop # None
            <4>1. k = l + 1
                BY <2>2, <3>2
            <4> QED BY <3>2, <4>1, Zenon
        <3> QED BY <3>1, <3>2
    <2> QED BY <2>1, <2>3 DEF LeadAccepted
<1>8. Len(s) \in Nat /\ Len(t) \in Nat /\ Len(s) >= n /\ Len(t) >= l
    BY <1>3, <1>4
<1> QED BY <1>2, <1>3, <1>4, <1>5, <1>6, <1>7, <1>8

\* A follower's log, its stop sign included, is a prefix of the leader's.
LEMMA OrderKept ==
    ASSUME SessionInv
    PROVE  SessionKeepsOrder
<1> SUFFICES ASSUME NEW f \in Follower PROVE IsPrefix(FullLog(foll[f]), FullLog(lead))
    BY DEF SessionKeepsOrder
<1>1. PICK w, s, t, n, l : /\ w = foll[f] /\ s = FullLog(w) /\ t = FullLog(lead)
                           /\ n = Len(w.log) /\ l = Len(lead.log)
    OBVIOUS
<1>2. /\ n \in Nat /\ l \in Nat /\ n <= l
      /\ s \in Seq(Nat \cup Stops) /\ t \in Seq(Nat \cup Stops)
      /\ Len(s) \in Nat /\ Len(t) \in Nat /\ Len(s) >= n /\ Len(t) >= l
      /\ \A i \in 1..n : s[i] = t[i]
      /\ w.stop = None => Len(s) = n
      /\ w.stop # None => s = t
    BY <1>1, LogsOf
<1>3. IsPrefix(s, t)
    <2>1. CASE w.stop = None
        <3>1. n <= Len(s) /\ n <= Len(t)
            BY <1>2
        <3>2. SubSeq(s, 1, n) = SubSeq(t, 1, n)
            BY <1>2, <3>1, SameFirst
        <3> QED BY <1>2, <2>1, <3>1, <3>2 DEF IsPrefix
    <2>2. CASE w.stop # None
        BY <1>2, <2>2 DEF IsPrefix
    <2> QED BY <2>1, <2>2
<1> QED BY <1>1, <1>3

\* Who holds an index has the leader's log up to it.
LEMMA HoldsPrefix ==
    ASSUME SessionInv, NEW f \in Follower, NEW d \in Nat, Holds(foll[f], d)
    PROVE  /\ Prefix(FullLog(foll[f]), d) = Prefix(FullLog(lead), d)
           /\ d <= LeadAccepted \/ foll[f].again
<1>1. PICK w, s, t, n, l : /\ w = foll[f] /\ s = FullLog(w) /\ t = FullLog(lead)
                           /\ n = Len(w.log) /\ l = Len(lead.log)
    OBVIOUS
<1>2. /\ n \in Nat /\ l \in Nat /\ n <= l
      /\ s \in Seq(Nat \cup Stops) /\ t \in Seq(Nat \cup Stops)
      /\ Len(s) \in Nat /\ Len(t) \in Nat /\ Len(s) >= n /\ Len(t) >= l
      /\ \A i \in 1..n : s[i] = t[i]
      /\ w.stop # None => s = t /\ n = l /\ lead.stop # None
      /\ Len(t) = LeadAccepted
    BY <1>1, LogsOf
<1>3. d <= n \/ (w.stop # None /\ (d <= n + 1 \/ w.again))
    BY <1>1 DEF Holds
<1>4. Prefix(s, d) = Prefix(t, d)
    <2>1. CASE d <= n
        <3>1. d <= Len(s) /\ d <= Len(t) /\ \A i \in 1..d : s[i] = t[i]
            BY <1>2, <2>1
        <3>2. SubSeq(s, 1, d) = SubSeq(t, 1, d)
            BY <1>2, <3>1, SameFirst
        <3> QED BY <1>2, <3>1, <3>2, PrefixFacts
    <2>2. CASE w.stop # None
        BY <1>2, <2>2
    <2> QED BY <1>3, <2>1, <2>2
<1>5. d <= LeadAccepted \/ w.again
    <2>1. CASE d <= n
        BY <1>2, <2>1
    <2>2. CASE w.stop # None /\ d <= n + 1
        <3>1. LeadAccepted = l + 1
            BY <1>1, <1>2, <2>2 DEF LeadAccepted
        <3> QED BY <1>2, <2>2, <3>1
    <2> QED BY <1>3, <2>1, <2>2
<1> QED BY <1>1, <1>4, <1>5

\* What anyone takes for decided a write quorum holds.
LEMMA DecidedKept ==
    ASSUME SessionAssumption, SessionInv
    PROVE  DecidedIsHeld
<1>1. PICK d, H, P : /\ d = lead.decided /\ H = Holders(d)
                     /\ P = {f \in Follower : Prefix(FullLog(foll[f]), d) = Prefix(FullLog(lead), d)}
    OBVIOUS
<1>2. d \in Nat /\ lead \in Leads
    BY <1>1 DEF SessionInv, LeaderOK, Leads
<1>3. \A f \in H : f \in P /\ (d <= LeadAccepted \/ foll[f].again)
    BY <1>1, <1>2, HoldsPrefix DEF Holders
<1>4. H \subseteq P /\ P \subseteq Follower /\ IsFiniteSet(Follower)
    BY <1>1, <1>3 DEF SessionAssumption
<1>5. IsFiniteSet(P) /\ IsFiniteSet(H)
    BY <1>4, FS_Subset
<1>6. Cardinality(H) \in Nat /\ Cardinality(P) \in Nat /\ Cardinality(H) <= Cardinality(P)
    BY <1>4, <1>5, FS_Subset, FS_CardinalityType
<1>7. Quorum.write \in Nat /\ Quorum.write >= 2
    <2>1. Cardinality(Server) \in Nat
        <3>1. IsFiniteSet(Server)
            BY FS_Singleton, FS_Union DEF SessionAssumption, Server
        <3> QED BY <3>1, FS_CardinalityType
    <2> QED BY <2>1 DEF SessionAssumption, IsValidQuorum
<1>8. d = 0 \/ Cardinality(H) + 1 >= Quorum.write
    BY <1>1 DEF SessionInv, DecidedOK, IsAcceptQuorum
<1>9. IsAcceptQuorum(Quorum, Cardinality(P) + 1) \/ d = 0
    BY <1>6, <1>7, <1>8 DEF IsAcceptQuorum
<1>10. d <= LeadAccepted \/ \E f \in Follower : foll[f].again
    <2>1. CASE d = 0
        BY <1>2, <2>1 DEF LeadAccepted, Leads, Logs
    <2>2. CASE d # 0
        <3>1. H # {}
            BY <1>5, <1>6, <1>7, <1>8, <2>2, FS_EmptySet
        <3> QED BY <1>3, <1>4, <3>1
    <2> QED BY <2>1, <2>2
<1>11. \A f \in Follower : foll[f].decided <= d
    BY <1>1, LinkFacts DEF FollowerOK
<1> QED BY <1>1, <1>9, <1>10, <1>11 DEF DecidedIsHeld

\* A follower in its session holds a prefix of the leader's log, stop sign included, whatever
\* was lost, repeated or merged on the way (handle_sequence_num).
THEOREM OrderHolds ==
    ASSUME TakenBeforePromise
    PROVE  Spec => []SessionKeepsOrder
<1>1. SessionInv => SessionKeepsOrder
    BY OrderKept
<1>2. Spec => []SessionInv
    BY SessionHolds
<1> QED BY <1>1, <1>2, PTL

\* A write quorum holds what is decided, and nobody decides what the leader has not
\* (handle_accepted, reply_accepted).
THEOREM DecidedHolds ==
    ASSUME TakenBeforePromise
    PROVE  Spec => []DecidedIsHeld
<1>1. SessionInv => DecidedIsHeld
    BY SessionAssumption, DecidedKept
<1>2. Spec => []SessionInv
    BY SessionHolds
<1> QED BY <1>1, <1>2, PTL

===============================================================================
