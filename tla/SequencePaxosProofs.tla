-------------------------- MODULE SequencePaxosProofs --------------------------
(***************************************************************************)
(* Type correctness of SequencePaxos and the ballot invariant, which says     *)
(* that promises bind, for any number of servers, ballots, entries and        *)
(* faults; first, the sizes of quorums and the lemmas about its operators.    *)
(***************************************************************************)
EXTENDS SequencePaxos, FiniteSetTheorems, SequenceTheorems, TLAPS

--------------------------------------------------------------------------------
(* The sizes of FastQuorum are right for any number of servers: what a fast  *)
(* quorum decided can be found by any majority, and nothing else can be found *)
(* in its place.                                                             *)

\* Two sets of servers share at least as many as their sizes exceed the whole.
LEMMA Overlap ==
    ASSUME NEW S, IsFiniteSet(S), NEW P \in SUBSET S, NEW Q \in SUBSET S
    PROVE  /\ Cardinality(S) \in Nat /\ Cardinality(P) \in Nat /\ Cardinality(Q) \in Nat
           /\ Cardinality(P \cap Q) \in Nat
           /\ Cardinality(P) + Cardinality(Q) <= Cardinality(S) + Cardinality(P \cap Q)
<1>1. IsFiniteSet(P) /\ IsFiniteSet(Q) /\ IsFiniteSet(P \cup Q) /\ IsFiniteSet(P \cap Q)
    BY FS_Subset, FS_Union, FS_Intersection
<1>2. Cardinality(P \cup Q) = Cardinality(P) + Cardinality(Q) - Cardinality(P \cap Q)
    BY <1>1, FS_Union
<1>3. Cardinality(P \cup Q) <= Cardinality(S)
    BY FS_Subset
<1>4. /\ Cardinality(S) \in Nat /\ Cardinality(P) \in Nat /\ Cardinality(Q) \in Nat
      /\ Cardinality(P \cap Q) \in Nat
    BY <1>1, FS_CardinalityType
<1> QED BY <1>2, <1>3, <1>4

\* A leader that decides on the fast path waits for at least a majority, itself included
\* (try_fast_decide_idx), so a fast decision is also a slow quorum of holders.
THEOREM FastQuorumIsMajority ==
    \A n \in Nat : FastQuorumSize(n) >= MajoritySize(n)
BY DEF FastQuorumSize, MajoritySize

\* Without a FlexibleQuorum the sizes are valid, too: what holds of all valid quorums holds
\* of majorities (Quorum::with, ClusterConfig::validate).
THEOREM MajorityIsValid ==
    \A n \in Nat : n > 1 => IsValidQuorum(Majority(n), n)
BY DEF IsValidQuorum, Majority, MajoritySize

\* What validate demands is a majority of promises at least: the recovery of the fast path
\* needs no more, although validate knows nothing of it.
LEMMA ReadQuorumIsMajority ==
    ASSUME NEW n \in Nat, NEW q \in [read : Nat, write : Nat], IsValidQuorum(q, n)
    PROVE  q.read >= MajoritySize(n) /\ q.read + q.write > n /\ q.read \in Nat /\ q.write \in Nat
BY DEF IsValidQuorum, MajoritySize

\* A quorum of promises and a quorum of accepts share a server, whatever sizes validate lets
\* pass: a new leader hears of every slow decision (handle_majority_promises, handle_accepted).
THEOREM QuorumsIntersect ==
    ASSUME NEW S, IsFiniteSet(S), NEW P \in SUBSET S, NEW Q \in SUBSET S,
           NEW q \in [read : Nat, write : Nat], IsValidQuorum(q, Cardinality(S)),
           IsPrepareQuorum(q, Cardinality(P)), IsAcceptQuorum(q, Cardinality(Q))
    PROVE  P \cap Q # {}
<1> DEFINE n == Cardinality(S)
<1>1. n \in Nat /\ Cardinality(P) + Cardinality(Q) <= n + Cardinality(P \cap Q)
      /\ Cardinality(P \cap Q) \in Nat /\ Cardinality(P) \in Nat /\ Cardinality(Q) \in Nat
    BY Overlap
<1>2. /\ q.read \in Nat /\ q.write \in Nat /\ q.read + q.write > n
      /\ Cardinality(P) >= q.read /\ Cardinality(Q) >= q.write
    BY <1>1, ReadQuorumIsMajority DEF IsPrepareQuorum, IsAcceptQuorum
<1> HIDE DEF n
<1>3. Cardinality(P \cap Q) > 0
    BY <1>1, <1>2
<1>4. Cardinality({}) = 0
    BY FS_EmptySet
<1> QED BY <1>3, <1>4

\* Whatever a fast quorum voted for, every quorum of promises holds it recover_threshold
\* times: the new leader finds it (try_fast_decide_idx, handle_majority_promises).
THEOREM FastQuorumRecoverable ==
    ASSUME NEW S, IsFiniteSet(S), NEW F \in SUBSET S, NEW P \in SUBSET S,
           NEW q \in [read : Nat, write : Nat], IsValidQuorum(q, Cardinality(S)),
           Cardinality(F) >= FastQuorumSize(Cardinality(S)),
           IsPrepareQuorum(q, Cardinality(P))
    PROVE  Cardinality(F \cap P) >= RecoverThreshold(Cardinality(S))
<1> DEFINE n == Cardinality(S)
<1>1. n \in Nat /\ Cardinality(F) + Cardinality(P) <= n + Cardinality(F \cap P)
      /\ Cardinality(F \cap P) \in Nat /\ Cardinality(F) \in Nat /\ Cardinality(P) \in Nat
    BY Overlap
<1>2. PICK f \in Nat : f = n \div 2 /\ n <= 2 * f + 1
    BY <1>1
<1>3. q.read >= f + 1 /\ q.read \in Nat
    BY <1>1, <1>2, ReadQuorumIsMajority DEF MajoritySize
<1>4. Cardinality(F) >= f + (f + 1) \div 2 + 1 /\ Cardinality(P) >= f + 1
    BY <1>1, <1>2, <1>3 DEF FastQuorumSize, IsPrepareQuorum
<1>5. RecoverThreshold(n) = (f + 1) \div 2 + 1
    BY <1>2 DEF RecoverThreshold
<1>6. PICK h \in Nat : h = (f + 1) \div 2
    OBVIOUS
<1> HIDE DEF n
<1> QED BY <1>1, <1>2, <1>4, <1>5, <1>6 DEF n

\* When a fast quorum voted for an entry, those who did not are fewer than recover_threshold:
\* however many promises a leader collects, a flexible read quorum or all of them, nothing
\* rivals the entry at its index (get_matched_unsynced_entries).
THEOREM FastDecisionHasNoRival ==
    ASSUME NEW S, IsFiniteSet(S), NEW F \in SUBSET S, NEW A \in SUBSET S, A \cap F = {},
           Cardinality(F) >= FastQuorumSize(Cardinality(S))
    PROVE  Cardinality(A) < RecoverThreshold(Cardinality(S))
<1> DEFINE n == Cardinality(S)
<1>1. n \in Nat /\ Cardinality(A) + Cardinality(F) <= n + Cardinality(A \cap F)
      /\ Cardinality(F) \in Nat /\ Cardinality(A) \in Nat
    BY Overlap
<1>2. Cardinality(A \cap F) = 0
    BY FS_EmptySet
<1>3. PICK f \in Nat : f = n \div 2 /\ n <= 2 * f + 1
    BY <1>1
<1>4. PICK h \in Nat : h = (f + 1) \div 2 /\ 2 * h >= f
    BY <1>3
<1>5. Cardinality(F) >= f + h + 1
    BY <1>3, <1>4 DEF FastQuorumSize
<1>6. RecoverThreshold(n) = h + 1
    BY <1>3, <1>4 DEF RecoverThreshold
<1> HIDE DEF n
<1> QED BY <1>1, <1>2, <1>3, <1>4, <1>5, <1>6 DEF n

\* Among a bare majority of promises no two entries both reach recover_threshold: the
\* leader's choice at an index is unique (get_matched_unsynced_entries).
THEOREM RecoveryIsUnique ==
    ASSUME NEW S, IsFiniteSet(S), NEW Q \in SUBSET S, NEW A \in SUBSET Q, NEW B \in SUBSET Q,
           Cardinality(Q) = MajoritySize(Cardinality(S)),
           Cardinality(A) >= RecoverThreshold(Cardinality(S)),
           Cardinality(B) >= RecoverThreshold(Cardinality(S))
    PROVE  A \cap B # {}
<1> DEFINE n == Cardinality(S)
<1>1. IsFiniteSet(Q) /\ n \in Nat
    BY FS_Subset, FS_CardinalityType
<1>2. Cardinality(A) + Cardinality(B) <= Cardinality(Q) + Cardinality(A \cap B)
      /\ Cardinality(A \cap B) \in Nat /\ Cardinality(A) \in Nat /\ Cardinality(B) \in Nat
    BY <1>1, Overlap
<1>3. PICK f \in Nat : f = n \div 2
    BY <1>1
<1>4. Cardinality(Q) = f + 1
    BY <1>3 DEF MajoritySize
<1>5. PICK h \in Nat : h = (f + 1) \div 2 /\ 2 * h >= f
    BY <1>3
<1>6. Cardinality(A) >= h + 1 /\ Cardinality(B) >= h + 1
    BY <1>3, <1>5 DEF RecoverThreshold
<1>7. Cardinality(A \cap B) > 0
    BY <1>2, <1>4, <1>5, <1>6
<1>8. Cardinality({}) = 0
    BY FS_EmptySet
<1> QED BY <1>7, <1>8

--------------------------------------------------------------------------------
\* Channels

IsQueue(q) == q \in Seq(Range(q))

\* A sequence over any set is a sequence over its own range.
LEMMA QueueOfSeq ==
    ASSUME NEW S, NEW q \in Seq(S)
    PROVE  IsQueue(q) /\ Range(q) \subseteq S
<1>1. DOMAIN q = 1..Len(q) /\ Len(q) \in Nat
    BY LenProperties
<1>2. q \in [1..Len(q) -> Range(q)]
    BY <1>1, LenProperties DEF Range
<1>3. \A i \in 1..Len(q) : q[i] \in S
    BY ElementOfSeq
<1> QED BY SMTT(30), <1>1, <1>2, <1>3 DEF Range, IsQueue

\* Appending adds nothing but what is appended.
LEMMA QueueConcat ==
    ASSUME NEW q, NEW r, IsQueue(q), IsQueue(r)
    PROVE  IsQueue(q \o r) /\ Range(q \o r) \subseteq Range(q) \cup Range(r)
<1> DEFINE S == Range(q) \cup Range(r)
<1>1. q \in Seq(S) /\ r \in Seq(S)
    BY DEF IsQueue
<1>2. q \o r \in Seq(S)
    BY <1>1, ConcatProperties
<1> QED BY <1>2, QueueOfSeq

\* Receiving takes the head away.
LEMMA QueueTail ==
    ASSUME NEW q, IsQueue(q), q # <<>>
    PROVE  /\ IsQueue(Tail(q)) /\ Range(Tail(q)) \subseteq Range(q)
           /\ Head(q) \in Range(q)
<1> DEFINE S == Range(q)
<1>1. q \in Seq(S)
    BY DEF IsQueue
<1>2. Tail(q) \in Seq(S) /\ Head(q) \in S
    BY <1>1, HeadTailProperties
<1> QED BY <1>2, QueueOfSeq

IsOut(out) == DOMAIN out = Server /\ \A t \in Server : IsQueue(out[t])
IsChannels(ch) == DOMAIN ch = Server /\ \A a \in Server : IsOut(ch[a])

\* What a channel can hold after s has sent out.
LEMMA DeliverQueues ==
    ASSUME NEW ch, IsChannels(ch), NEW s \in Server, NEW out, IsOut(out)
    PROVE  /\ IsChannels(Deliver(ch, s, out))
           /\ \A a, b \in Server : Range(Deliver(ch, s, out)[a][b]) \subseteq
                                   Range(ch[a][b]) \cup (IF a = s THEN Range(out[b]) ELSE {})
<1> DEFINE after == [t \in Server |-> IF t = s THEN ch[s][t] ELSE ch[s][t] \o out[t]]
<1>1. Deliver(ch, s, out) = [ch EXCEPT ![s] = after]
    BY DEF Deliver, IsChannels
<1>2. IsOut(after) /\ \A t \in Server : Range(after[t]) \subseteq Range(ch[s][t]) \cup Range(out[t])
    BY QueueConcat DEF IsOut, IsChannels
<1>3. DOMAIN Deliver(ch, s, out) = Server /\ Deliver(ch, s, out)[s] = after
      /\ \A a \in Server \ {s} : Deliver(ch, s, out)[a] = ch[a]
    BY <1>1 DEF IsChannels
<1> HIDE DEF after
<1> QED BY <1>2, <1>3 DEF IsChannels

\* What a channel can hold after s has taken a message.
LEMMA TakeQueues ==
    ASSUME NEW ch, IsChannels(ch), NEW from \in Server, NEW s \in Server, ch[from][s] # <<>>
    PROVE  LET taken == [ch EXCEPT ![from][s] = Tail(@)] IN
           /\ IsChannels(taken)
           /\ \A a, b \in Server : Range(taken[a][b]) \subseteq Range(ch[a][b])
<1> DEFINE taken == [ch EXCEPT ![from][s] = Tail(@)]
<1>1. IsQueue(Tail(ch[from][s])) /\ Range(Tail(ch[from][s])) \subseteq Range(ch[from][s])
    BY QueueTail DEF IsChannels, IsOut
<1>2. /\ DOMAIN taken = Server /\ \A a \in Server : DOMAIN taken[a] = Server
      /\ taken[from][s] = Tail(ch[from][s])
      /\ \A a, b \in Server : a # from \/ b # s => taken[a][b] = ch[a][b]
    BY DEF IsChannels, IsOut
<1> HIDE DEF taken
<1>3. \A a, b \in Server : IsQueue(taken[a][b]) /\ Range(taken[a][b]) \subseteq Range(ch[a][b])
    BY <1>1, <1>2 DEF IsChannels, IsOut
<1>4. IsChannels(taken)
    BY <1>2, <1>3 DEF IsChannels, IsOut
<1> QED BY <1>3, <1>4 DEF taken

\* The shapes of what a step sends.
LEMMA SilentOut ==
    IsOut(Silent) /\ \A t \in Server : Range(Silent[t]) = {}
BY EmptySeq DEF IsOut, IsQueue, Silent, Range

\* One message.
LEMMA SingletonQueue ==
    ASSUME NEW m
    PROVE  IsQueue(<<m>>) /\ Range(<<m>>) = {m}
<1>1. <<m>> \in Seq({m})
    OBVIOUS
<1>2. DOMAIN <<m>> = {1} /\ <<m>>[1] = m
    OBVIOUS
<1>3. Range(<<m>>) = {m}
    BY <1>2 DEF Range
<1> QED BY <1>1, <1>3 DEF IsQueue

\* No message.
LEMMA EmptyQueue == IsQueue(<<>>) /\ Range(<<>>) = {}
BY EmptySeq DEF IsQueue, Range

\* The same message to several servers.
LEMMA ToAllOut ==
    ASSUME NEW T, NEW m
    PROVE  /\ IsOut(ToAll(T, m))
           /\ \A t \in Server : Range(ToAll(T, m)[t]) = IF t \in T THEN {m} ELSE {}
BY SingletonQueue, EmptyQueue DEF IsOut, ToAll

\* A message to one server, or to nobody.
LEMMA ToOut ==
    ASSUME NEW p, NEW m
    PROVE  IsOut(To(p, m)) /\ \A t \in Server : Range(To(p, m)[t]) \subseteq IF t = p THEN {m} ELSE {}
<1>1. To(p, m) = ToAll({p}, m)
    BY DEF To
<1>2. IsOut(ToAll({p}, m))
      /\ \A t \in Server : Range(ToAll({p}, m)[t]) = IF t \in {p} THEN {m} ELSE {}
    BY ToAllOut
<1> QED BY <1>1, <1>2

\* First the messages of one step, then those of another.
LEMMA ThenOut ==
    ASSUME NEW out1, NEW out2, IsOut(out1), IsOut(out2)
    PROVE  /\ IsOut(Then(out1, out2))
           /\ \A t \in Server : Range(Then(out1, out2)[t]) \subseteq Range(out1[t]) \cup Range(out2[t])
BY QueueConcat DEF IsOut, Then

--------------------------------------------------------------------------------
\* Types of the data

\* The owner of a ballot is a server; the default ballot has none.
LEMMA PidType ==
    ASSUME NEW b \in Ballot
    PROVE  b = 0 \/ PidOf(b) \in Server
BY BallotAssumption DEF Ballot, PidOf

\* A key is a deadline and an id.
LEMMA KeyType == Key \subseteq Nat \X Nat
BY EntryAssumption DEF Key

\* The empty unsynced log.
LEMMA EmptyUnsynced == IsUnsynced(<<>>)
<1>1. DOMAIN <<>> = {}
    OBVIOUS
<1> QED BY <1>1, FS_EmptySet DEF IsUnsynced

\* Hashes are closed under XOR.
LEMMA XorType ==
    ASSUME NEW h \in Hash, NEW g \in Hash
    PROVE  Xor(h, g) \in Hash
BY DEF Xor, SymDiff, Hash

\* The image of a finite set under a function is finite.
LEMMA ImageFinite ==
    ASSUME NEW S, IsFiniteSet(S), NEW f, DOMAIN f = S, NEW T, T = {f[x] : x \in S}
    PROVE  IsFiniteSet(T)
<1> DEFINE g == [x \in S |-> f[x]]
<1>1. g \in Surjection(S, T)
    BY DEF Surjection
<1> QED BY <1>1, FS_Surjection

\* A nonempty set of naturals has a least element.
LEMMA LeastExists ==
    ASSUME NEW T \in SUBSET Nat, T # {}
    PROVE  \E x \in T : \A y \in T : x <= y
<1>1. PICK x \in T : \A y \in T : ~ (<<y, x>> \in OpToRel(<, Nat))
    BY WFMin, NatLessThanWellFounded
<1>2. \A y \in T : ~(y < x)
    BY <1>1 DEF OpToRel
<1>3. \A y \in T : x <= y
    BY <1>2
<1> QED BY <1>3

\* A nonempty finite set of naturals has a greatest element.
LEMMA GreatestExists ==
    ASSUME NEW S \in SUBSET Nat, IsFiniteSet(S), S # {}
    PROVE  \E x \in S : \A y \in S : x >= y
<1> DEFINE above == [x \in S |-> {y \in S : y > x}]
           sizes == {Cardinality(above[x]) : x \in S}
<1>1. \A x \in S : IsFiniteSet(above[x]) /\ Cardinality(above[x]) \in Nat
    BY FS_Subset, FS_CardinalityType
<1>2. PICK c \in sizes : \A d \in sizes : c <= d
    <2> HIDE DEF above
    <2>1. sizes \in SUBSET Nat /\ sizes # {}
        BY <1>1
    <2> QED BY <2>1, LeastExists
<1>3. PICK x \in S : c = Cardinality(above[x])
    BY <1>2
<1>4. ASSUME NEW y \in above[x]
      PROVE  FALSE
    <2>1. y \in S /\ y > x
        OBVIOUS
    <2>2. above[x] = {z \in S : z > x} /\ above[y] = {z \in S : z > y}
        BY <2>1
    <2>3. x \in Int /\ y \in Int /\ \A z \in S : z \in Int
        BY <2>1
    <2>4. (\A z \in S : z > y => z > x) /\ ~(y > y)
        BY <2>1, <2>3
    <2> HIDE DEF above
    <2>5. above[y] \subseteq above[x] /\ y \notin above[y]
        BY <2>2, <2>4
    <2>6. Cardinality(above[y]) <= Cardinality(above[x])
          /\ Cardinality(above[x]) # Cardinality(above[y])
        BY <1>1, <2>5, FS_Subset
    <2>7. Cardinality(above[y]) \in sizes
        BY <2>1
    <2> HIDE DEF sizes
    <2> QED BY <1>1, <1>2, <1>3, <2>1, <2>6, <2>7
<1> QED BY <1>4

\* Max returns the greatest element.
LEMMA MaxType ==
    ASSUME NEW S \in SUBSET Nat, IsFiniteSet(S), S # {}
    PROVE  Max(S) \in S /\ \A x \in S : Max(S) >= x
BY GreatestExists DEF Max

\* The smaller of two indices is one of them.
LEMMA MinType ==
    ASSUME NEW a \in Nat, NEW b \in Nat
    PROVE  Min({a, b}) \in {a, b}
<1>1. \E x \in {a, b} : \A y \in {a, b} : x =< y
    OBVIOUS
<1> QED BY <1>1 DEF Min

\* A log suffix is a LogSync.
LEMMA CreateLogSyncType ==
    ASSUME NEW log \in Seq(EntryId), NEW idx \in Nat
    PROVE  CreateLogSync(log, idx) \in LogSync
<1>1. SubSeq(log, idx + 1, Len(log)) \in Seq(EntryId)
    BY SubSeqProperties, LenProperties, ElementOfSeq
<1> QED BY <1>1 DEF CreateLogSync, LogSync

\* The longest recovered run exists, and is a sequence of proposals.
LEMMA RecoveredType ==
    ASSUME NEW ls, DOMAIN ls.unsynced = Server, \A t \in Server : IsUnsynced(ls.unsynced[t]),
           NEW len \in Nat
    PROVE  Recovered(ls, len) \in Seq(Key)
<1> DEFINE heldBy == [t \in Server |-> {ls.unsynced[t][i].e : i \in DOMAIN ls.unsynced[t]}]
           held == UNION {{ls.unsynced[t][i].e : i \in DOMAIN ls.unsynced[t]} : t \in Server}
           before(w, k) == ToSet(SubSeq(w, 1, k - 1))
           fits(w) == \A k \in DOMAIN w :
                    /\ Winners(ls, len + k, Xor(ls.maxHash, before(w, k))) = {w[k]}
                    /\ w[k][2] \notin Ids(before(w, k))
           most == Cardinality(Ids(held))
           runs == {w \in SeqOf(held, most) : fits(w)}
<1>1. held \subseteq Key
    BY DEF IsUnsynced, UnsyncedEntry
<1>2. IsFiniteSet(held)
    <2>1. \A t \in Server : IsFiniteSet(heldBy[t])
        <3> SUFFICES ASSUME NEW t \in Server
                     PROVE  IsFiniteSet(heldBy[t])
            OBVIOUS
        <3> DEFINE f == [i \in DOMAIN ls.unsynced[t] |-> ls.unsynced[t][i].e]
        <3>1. DOMAIN f = DOMAIN ls.unsynced[t] /\ heldBy[t] = {f[i] : i \in DOMAIN ls.unsynced[t]}
            OBVIOUS
        <3>2. IsFiniteSet(DOMAIN ls.unsynced[t])
            BY DEF IsUnsynced
        <3> HIDE DEF f, heldBy
        <3> QED BY <3>1, <3>2, ImageFinite
    <2>2. DOMAIN heldBy = Server
        OBVIOUS
    <2> HIDE DEF heldBy
    <2>3. IsFiniteSet({heldBy[t] : t \in Server})
        BY <2>2, ImageFinite, ServerAssumption
    <2>4. held = UNION {heldBy[t] : t \in Server}
        BY DEF heldBy
    <2>5. \A T \in {heldBy[t] : t \in Server} : IsFiniteSet(T)
        BY <2>1
    <2> HIDE DEF held
    <2> QED BY <2>3, <2>4, <2>5, FS_UNION
<1> HIDE DEF held
<1>3. most \in Nat
    <2> DEFINE f == [e \in held |-> e[2]]
    <2>1. DOMAIN f = held /\ Ids(held) = {f[e] : e \in held}
        BY DEF Ids
    <2> HIDE DEF f
    <2>2. IsFiniteSet(Ids(held))
        BY <1>2, <2>1, ImageFinite
    <2> QED BY <2>2, FS_CardinalityType
<1> HIDE DEF most, fits
<1>4. \A w \in SeqOf(held, most) : w \in Seq(held) /\ Len(w) \in 0..most
    <2> SUFFICES ASSUME NEW w \in SeqOf(held, most)
                 PROVE  w \in Seq(held) /\ Len(w) \in 0..most
        OBVIOUS
    <2>1. PICK m \in 0..most : w \in [1..m -> held]
        BY DEF SeqOf
    <2>2. m \in Nat
        BY <1>3
    <2> QED BY <2>1, <2>2
<1>5. <<>> \in runs
    <2>1. <<>> \in [1..0 -> held] /\ 0 \in 0..most
        BY <1>3
    <2>2. <<>> \in SeqOf(held, most)
        BY <2>1 DEF SeqOf
    <2>3. fits(<<>>)
        BY DEF fits
    <2> QED BY <2>2, <2>3
<1> DEFINE lengths == {Len(w) : w \in runs}
<1>6. \E w \in runs : \A v \in runs : Len(v) <= Len(w)
    <2>1. lengths \subseteq 0..most /\ lengths # {}
        BY <1>4, <1>5
    <2>2. \A w \in runs : Len(w) \in lengths
        OBVIOUS
    <2>3. \A n \in lengths : \E w \in runs : n = Len(w)
        OBVIOUS
    <2> HIDE DEF lengths, runs
    <2>4. IsFiniteSet(0..most) /\ 0..most \subseteq Nat
        BY <1>3, FS_Interval
    <2>5. IsFiniteSet(lengths)
        BY <2>1, <2>4, FS_Subset
    <2>6. PICK n \in lengths : \A m \in lengths : n >= m
        BY <2>1, <2>5, <2>4, GreatestExists
    <2> QED BY <1>3, <2>1, <2>6, <2>2, <2>3
<1>7. Recovered(ls, len) \in runs
    <2>1. Recovered(ls, len) = CHOOSE w \in runs : \A v \in runs : Len(v) <= Len(w)
        BY DEF Recovered, held, most, fits
    <2> HIDE DEF runs
    <2> QED BY <1>6, <2>1
<1> QED BY <1>1, <1>4, <1>7

\* The keys are totally ordered, so the k-th of a finite set of them exists.
LEMMA NthType ==
    ASSUME NEW tail \in SUBSET Key, IsFiniteSet(tail), NEW k \in 1..Cardinality(tail)
    PROVE  Nth(tail, k) \in tail
<1> DEFINE rank == [x \in tail |-> Cardinality(Before(tail, x)) + 1]
           n == Cardinality(tail)
<1>1. n \in Nat
    BY FS_CardinalityType
<1>2. \A x \in tail : /\ IsFiniteSet(Before(tail, x))
                      /\ Cardinality(Before(tail, x)) \in Nat
                      /\ Cardinality(Before(tail, x)) < n
    <2> SUFFICES ASSUME NEW x \in tail
                 PROVE  /\ IsFiniteSet(Before(tail, x))
                        /\ Cardinality(Before(tail, x)) \in Nat
                        /\ Cardinality(Before(tail, x)) < n
        OBVIOUS
    <2>1. x[1] \in Nat /\ x[2] \in Nat
        BY EntryAssumption DEF Key
    <2>2. Before(tail, x) \subseteq tail /\ x \notin Before(tail, x)
        BY <2>1 DEF Before, Earlier, Later
    <2>3. IsFiniteSet(Before(tail, x)) /\ Cardinality(Before(tail, x)) <= n
          /\ Cardinality(Before(tail, x)) # n
        BY <2>2, FS_Subset
    <2> QED BY <1>1, <2>3, FS_CardinalityType
<1>3. rank \in [tail -> 1..n]
    BY <1>1, <1>2
<1>4. ASSUME NEW x \in tail, NEW y \in tail, Earlier(x, y)
      PROVE  rank[x] # rank[y]
    <2>1. x[1] \in Nat /\ x[2] \in Nat /\ y[1] \in Nat /\ y[2] \in Nat
          /\ \A z \in tail : z[1] \in Nat /\ z[2] \in Nat
        BY EntryAssumption DEF Key
    <2>2. \A z \in tail : Earlier(z, x) => Earlier(z, y)
        BY <1>4, <2>1 DEF Earlier, Later
    <2>3. Before(tail, x) \subseteq Before(tail, y) /\ x \in Before(tail, y) /\ x \notin Before(tail, x)
        BY <1>4, <2>1, <2>2 DEF Before, Earlier, Later
    <2>4. Cardinality(Before(tail, y)) # Cardinality(Before(tail, x))
        BY <1>2, <2>3, FS_Subset
    <2> QED BY <1>2, <2>4
<1>5. \A x, y \in tail : x # y => Earlier(x, y) \/ Earlier(y, x)
    <2> SUFFICES ASSUME NEW x \in tail, NEW y \in tail, x # y
                 PROVE  Earlier(x, y) \/ Earlier(y, x)
        OBVIOUS
    <2>1. x[1] \in Nat /\ x[2] \in Nat /\ y[1] \in Nat /\ y[2] \in Nat
        BY EntryAssumption DEF Key
    <2>2. x[1] # y[1] \/ x[2] # y[2]
        BY DEF Key
    <2> QED BY <2>1, <2>2 DEF Earlier, Later
<1> HIDE DEF rank
<1>6. rank \in Injection(tail, 1..n)
    BY <1>3, <1>4, <1>5 DEF Injection, IsInjective
<1>7. IsFiniteSet(1..n) /\ Cardinality(1..n) = n
    BY <1>1, FS_Interval
<1>8. rank \in Surjection(tail, 1..n)
    BY <1>6, <1>7, FS_Injection
<1>9. \E x \in tail : Cardinality(Before(tail, x)) = k - 1
    <2>1. PICK x \in tail : rank[x] = k
        BY <1>8 DEF Surjection
    <2> QED BY <1>2, <2>1 DEF rank
<1> QED BY <1>9 DEF Nth

\* rebuild_unsynced_tail yields an unsynced log.
LEMMA RebuildUnsyncedType ==
    ASSUME NEW accepted \in Nat, NEW hash \in Hash, NEW tail \in SUBSET Key, IsFiniteSet(tail)
    PROVE  LET rebuilt == RebuildUnsynced(accepted, hash, tail) IN
           /\ DOMAIN rebuilt = {"unsynced", "prefixHash", "unsyncedHash"}
           /\ IsUnsynced(rebuilt.unsynced)
           /\ rebuilt.prefixHash = hash /\ rebuilt.unsyncedHash = tail
<1> DEFINE D == (accepted + 1)..(accepted + Cardinality(tail))
           entry(i) == [e |-> Nth(tail, i - accepted),
                        prefix |-> Xor(hash, Before(tail, Nth(tail, i - accepted)))]
           own == [i \in D |-> entry(i)]
<1>1. Cardinality(tail) \in Nat
    BY FS_CardinalityType
<1>2. IsFiniteSet(D) /\ D \subseteq Nat
    BY SMTT(30), <1>1, FS_Interval
<1>3. \A i \in D : entry(i) \in UnsyncedEntry
    <2> SUFFICES ASSUME NEW i \in D
                 PROVE  entry(i) \in UnsyncedEntry
        OBVIOUS
    <2>1. i - accepted \in 1..Cardinality(tail)
        BY <1>1
    <2>2. Nth(tail, i - accepted) \in Key
        BY <2>1, NthType
    <2>3. Before(tail, Nth(tail, i - accepted)) \in Hash
        BY DEF Before, Hash
    <2> QED BY <2>2, <2>3, XorType DEF UnsyncedEntry
<1>4. RebuildUnsynced(accepted, hash, tail) =
          [unsynced |-> own, prefixHash |-> hash, unsyncedHash |-> tail]
    BY DEF RebuildUnsynced
<1>5. DOMAIN own = D /\ \A i \in D : own[i] = entry(i)
    OBVIOUS
<1>6. IsUnsynced(own)
    <2> HIDE DEF own, entry, D
    <2> QED BY <1>2, <1>3, <1>5 DEF IsUnsynced
<1> HIDE DEF own
<1> QED BY <1>4, <1>6

\* A finite set of proposals is held in an unsynced log.
LEMMA PreservedTailType ==
    ASSUME NEW own, IsUnsynced(own), NEW e
    PROVE  PreservedTail(own, e) \in SUBSET Key /\ IsFiniteSet(PreservedTail(own, e))
<1> DEFINE f == [i \in DOMAIN own |-> own[i].e]
           held == {own[i].e : i \in DOMAIN own}
<1>1. DOMAIN f = DOMAIN own /\ held = {f[i] : i \in DOMAIN own}
    OBVIOUS
<1>2. held \subseteq Key
    BY DEF IsUnsynced, UnsyncedEntry
<1>3. IsFiniteSet(held)
    <2> HIDE DEF f, held
    <2> QED BY <1>1, ImageFinite DEF IsUnsynced
<1>4. PreservedTail(own, e) \subseteq held
    BY DEF PreservedTail
<1> QED BY <1>2, <1>3, <1>4, FS_Subset

\* A new leader state has its shape.
LEMMA LeaderStateWithType ==
    ASSUME NEW n \in Ballot
    PROVE  IsLeaderState(LeaderStateWith(n))
<1>1. 0 \in Ballot /\ DOMAIN <<>> = {}
    BY BallotAssumption DEF Ballot
<1> QED BY <1>1, EmptyUnsynced
    DEF LeaderStateWith, IsLeaderState, PromiseState, SeqNum, Zero, Hash

\* What SetPromise needs of a promise, received or the leader's own.
IsPromiseData(m) ==
    /\ m.nAccepted \in Ballot /\ m.decided \in Nat /\ m.accIdx \in Nat
    /\ m.sync \in LogSync \cup {None} /\ IsUnsynced(m.unsync) /\ m.hash \in Hash

\* set_promise keeps the shape and the ballot of a leader state.
LEMMA SetPromiseType ==
    ASSUME NEW ls, IsLeaderState(ls), NEW m, IsPromiseData(m), NEW from \in Server, NEW check \in BOOLEAN
    PROVE  LET after == SetPromise(ls, m, from, check) IN
           /\ IsLeaderState(after)
           /\ after.n = ls.n
           /\ after.promises = [ls.promises EXCEPT ![from] = Promised(m)]
<1> DEFINE best == check /\ MoreUpToDate(m, ls.maxMeta)
           meta == IF best THEN [nAccepted |-> m.nAccepted, accIdx |-> m.accIdx] ELSE ls.maxMeta
           sync == IF best THEN m.sync ELSE ls.maxSync
           hash == IF best THEN m.hash ELSE ls.maxHash
           after == SetPromise(ls, m, from, check)
<1>1. meta \in [nAccepted : Ballot, accIdx : Nat] /\ sync \in LogSync \cup {None} /\ hash \in Hash
    BY DEF IsPromiseData, IsLeaderState
<1>2. Promised(m) \in PromiseState
    BY DEF Promised, PromiseState, IsPromiseData
<1>3. after = [ls EXCEPT !.maxMeta = meta, !.maxSync = sync, !.maxHash = hash,
                         !.promises[from] = Promised(m), !.unsynced[from] = m.unsync]
    BY DEF SetPromise
<1> HIDE DEF meta, sync, hash, after
<1>4. /\ DOMAIN after = DOMAIN ls
      /\ after.n = ls.n /\ after.seqs = ls.seqs /\ after.accIdx = ls.accIdx
      /\ after.map = ls.map /\ after.recovered = ls.recovered
      /\ after.maxMeta = meta /\ after.maxSync = sync /\ after.maxHash = hash
      /\ after.promises = [ls.promises EXCEPT ![from] = Promised(m)]
      /\ after.unsynced = [ls.unsynced EXCEPT ![from] = m.unsync]
    BY <1>3 DEF IsLeaderState
<1>5. DOMAIN after.unsynced = Server /\ \A t \in Server : IsUnsynced(after.unsynced[t])
    BY <1>4 DEF IsLeaderState, IsPromiseData
<1> QED BY <1>1, <1>2, <1>4, <1>5 DEF IsLeaderState, after

\* So does the next sequence number,
LEMMA NextSeqType ==
    ASSUME NEW ls, IsLeaderState(ls), NEW T
    PROVE  /\ IsLeaderState(NextSeq(ls, T))
           /\ NextSeq(ls, T).n = ls.n /\ NextSeq(ls, T).promises = ls.promises
<1> DEFINE seqs == [t \in Server |->
               IF t \in T THEN [session |-> ls.seqs[t].session, counter |-> ls.seqs[t].counter + 1]
               ELSE ls.seqs[t]]
<1>1. seqs \in [Server -> SeqNum]
    BY DEF IsLeaderState, SeqNum
<1>2. NextSeq(ls, T) = [ls EXCEPT !.seqs = seqs]
    BY DEF NextSeq
<1> HIDE DEF seqs
<1> QED BY <1>1, <1>2 DEF IsLeaderState

\* and the next session,
LEMMA NextSessionType ==
    ASSUME NEW ls, IsLeaderState(ls), NEW T
    PROVE  /\ IsLeaderState(NextSession(ls, T))
           /\ NextSession(ls, T).n = ls.n /\ NextSession(ls, T).promises = ls.promises
<1> DEFINE seqs == [t \in Server |->
               IF t \in T THEN [session |-> ls.seqs[t].session + 1, counter |-> 1] ELSE ls.seqs[t]]
<1>1. seqs \in [Server -> SeqNum]
    BY DEF IsLeaderState, SeqNum
<1>2. NextSession(ls, T) = [ls EXCEPT !.seqs = seqs]
    BY DEF NextSession
<1> HIDE DEF seqs
<1> QED BY <1>1, <1>2 DEF IsLeaderState

\* The map of candidates by index.
IsAcceptedMap(map) == DOMAIN map \subseteq Nat /\ \A i \in DOMAIN map : map[i] \in Candidate

\* a vote,
LEMMA SetAcceptedMapType ==
    ASSUME NEW map, IsAcceptedMap(map), NEW idx \in Nat, NEW e \in Key, NEW prefix \in Hash,
           NEW pid \in Server, NEW isFast \in BOOLEAN
    PROVE  IsAcceptedMap(SetAcceptedMap(map, idx, e, prefix, pid, isFast))
<1> DEFINE new == [entry |-> e, prefix |-> prefix, fast |-> {}, slow |-> {}]
           old == IF idx \in DOMAIN map THEN map[idx] ELSE new
           cand == IF isFast THEN [old EXCEPT !.fast = @ \cup {<<prefix, e, pid>>}]
                             ELSE [old EXCEPT !.slow = @ \cup {pid}]
           after == SetAcceptedMap(map, idx, e, prefix, pid, isFast)
<1>1. old \in Candidate
    BY DEF Candidate, IsAcceptedMap
<1>2. cand \in Candidate
    <2> HIDE DEF old
    <2> QED BY <1>1 DEF Candidate
<1>3. after = Insert(map, idx, cand)
    BY DEF SetAcceptedMap
<1> HIDE DEF cand, after
<1>4. DOMAIN after = {idx} \cup DOMAIN map /\ after[idx] = cand
      /\ \A i \in DOMAIN map : i # idx => after[i] = map[i]
    BY <1>3 DEF Insert
<1> QED BY <1>2, <1>4 DEF IsAcceptedMap, after

\* and pruning the map of candidates.
LEMMA PruneType ==
    ASSUME NEW map, IsAcceptedMap(map), NEW decided
    PROVE  IsAcceptedMap(PruneAcceptedMap(map, decided))
BY DEF PruneAcceptedMap, IsAcceptedMap, Restrict

--------------------------------------------------------------------------------
\* Messages of the leader

\* AcceptSync is a message in the ballot of the leader.
LEMMA AcceptSyncType ==
    ASSUME NEW ls, IsLeaderState(ls), NEW st \in Stored,
           NEW hash \in Hash, NEW to \in Server, ls.promises[to].type = "Promised"
    PROVE  /\ IsMessage(AcceptSync(ls, st, hash, to))
           /\ AcceptSync(ls, st, hash, to).type = "AcceptSync"
           /\ AcceptSync(ls, st, hash, to).n = ls.n
<1> DEFINE prom == ls.promises[to]
           valid == IF prom.nAccepted = ls.n THEN prom.accIdx
                    ELSE IF prom.nAccepted = ls.maxMeta.nAccepted
                         THEN Min({ls.maxMeta.accIdx, prom.accIdx})
                    ELSE prom.decided
           m == [type |-> "AcceptSync", n |-> ls.n, seq |-> ls.seqs[to], decided |-> st.decided,
                 sync |-> CreateLogSync(st.log, valid), hash |-> hash]
<1>1. prom \in [type : {"Promised"}, nAccepted : Ballot, accIdx : Nat, decided : Nat]
    BY DEF IsLeaderState, PromiseState, None, PromisedHigher
<1>2. Min({ls.maxMeta.accIdx, prom.accIdx}) \in Nat
    BY <1>1, MinType DEF IsLeaderState
<1>3. valid \in Nat
    BY <1>1, <1>2
<1>4. AcceptSync(ls, st, hash, to) = m
    BY DEF AcceptSync
<1> HIDE DEF prom, valid
<1>5. CreateLogSync(st.log, valid) \in LogSync
    BY <1>3, CreateLogSyncType DEF Stored
<1>6. m \in [type : {"AcceptSync"}, n : Ballot, seq : SeqNum, decided : Nat, sync : LogSync, hash : Hash]
    BY <1>5 DEF IsLeaderState, Stored
<1> QED BY <1>4, <1>6 DEF IsMessage

\* An AcceptSync goes to servers that have promised.
IsSync(sent, ls, T) ==
    /\ IsLeaderState(sent.lead)
    /\ sent.lead.n = ls.n /\ sent.lead.promises = ls.promises
    /\ IsOut(sent.out)
    /\ \A t \in Server : \A m \in Range(sent.out[t]) :
           t \in T /\ IsMessage(m) /\ m.type = "AcceptSync" /\ m.n = ls.n

\* send_accsync to servers that have promised.
LEMMA SendAcceptSyncType ==
    ASSUME NEW ls, IsLeaderState(ls), NEW st \in Stored,
           NEW hash \in Hash, NEW T \in SUBSET HasPromised(ls)
    PROVE  IsSync(SendAcceptSync(ls, st, hash, T), ls, T)
<1> DEFINE next == NextSession(ls, T)
           msg == [t \in Server |-> AcceptSync(next, st, hash, t)]
           out == [t \in Server |-> IF t \in T THEN <<msg[t]>> ELSE <<>>]
           sent == SendAcceptSync(ls, st, hash, T)
<1>1. IsLeaderState(next) /\ next.n = ls.n /\ next.promises = ls.promises
    BY NextSessionType
<1>2. \A t \in T : t \in Server /\ next.promises[t].type = "Promised"
    BY <1>1 DEF HasPromised
<1> HIDE DEF next
<1>3. \A t \in T : IsMessage(msg[t]) /\ msg[t].type = "AcceptSync" /\ msg[t].n = ls.n
    BY <1>1, <1>2, AcceptSyncType
<1>4. sent.lead = next /\ sent.out = out
    BY DEF SendAcceptSync, next
<1>5. IsOut(out) /\ \A t \in Server : Range(out[t]) = IF t \in T THEN {msg[t]} ELSE {}
    <2>1. DOMAIN out = Server /\ \A t \in Server : out[t] = IF t \in T THEN <<msg[t]>> ELSE <<>>
        OBVIOUS
    <2> HIDE DEF msg, out
    <2> QED BY <2>1, SingletonQueue, EmptyQueue DEF IsOut
<1> HIDE DEF out, msg, sent
<1>6. IsSync(sent, ls, T)
    BY <1>1, <1>3, <1>4, <1>5 DEF IsSync
<1> QED BY <1>6 DEF sent

\* What deciding up to idx does: a Decide goes to servers that have promised.
IsDecision(done, ls, st, idx) ==
    /\ done.store = st \/ done.store = [st EXCEPT !.decided = idx]
    /\ IsLeaderState(done.lead)
    /\ done.lead.n = ls.n /\ done.lead.promises = ls.promises
    /\ IsOut(done.out)
    /\ \A t \in Server : \A m \in Range(done.out[t]) :
           t \in HasPromised(ls) /\ IsMessage(m) /\ m.type = "Decide" /\ m.n = ls.n

\* What deciding returns.
LEMMA DecideUpToType ==
    ASSUME NEW ls, IsLeaderState(ls), NEW st \in Stored, NEW idx \in Nat
    PROVE  IsDecision(DecideUpTo(ls, st, idx), ls, st, idx)
<1> DEFINE pruned == [ls EXCEPT !.map = PruneAcceptedMap(@, idx)]
           T == PromisedFollowers(ls)
           next == NextSeq(pruned, T)
           msg == [t \in Server |-> [type |-> "Decide", n |-> ls.n, seq |-> next.seqs[t], decided |-> idx]]
           out == [t \in Server |-> IF t \in T THEN <<msg[t]>> ELSE <<>>]
           done == DecideUpTo(ls, st, idx)
<1>1. IsLeaderState(pruned) /\ pruned.n = ls.n /\ pruned.promises = ls.promises
    <2>1. IsAcceptedMap(PruneAcceptedMap(ls.map, idx))
        BY PruneType DEF IsLeaderState, IsAcceptedMap
    <2> QED BY <2>1 DEF IsLeaderState, IsAcceptedMap
<1> HIDE DEF pruned
<1>2. IsLeaderState(next) /\ next.n = ls.n /\ next.promises = ls.promises
    BY <1>1, NextSeqType
<1>3. done.store = [st EXCEPT !.decided = idx] /\ done.lead = next /\ done.out = out
    BY DEF DecideUpTo, pruned
<1> HIDE DEF next
<1>4. \A t \in Server : IsMessage(msg[t]) /\ msg[t].type = "Decide" /\ msg[t].n = ls.n
    BY <1>2 DEF IsLeaderState, IsMessage
<1>5. IsOut(out) /\ \A t \in Server : Range(out[t]) = IF t \in T THEN {msg[t]} ELSE {}
    <2>1. DOMAIN out = Server /\ \A t \in Server : out[t] = IF t \in T THEN <<msg[t]>> ELSE <<>>
        OBVIOUS
    <2> HIDE DEF msg, T, out
    <2> QED BY <2>1, SingletonQueue, EmptyQueue DEF IsOut
<1>6. T \subseteq HasPromised(ls)
    BY DEF PromisedFollowers
<1> HIDE DEF out, msg, T, done
<1>7. \A t \in Server : \A m \in Range(out[t]) :
          t \in HasPromised(ls) /\ IsMessage(m) /\ m.type = "Decide" /\ m.n = ls.n
    <2> SUFFICES ASSUME NEW t \in Server, NEW m \in Range(out[t])
                 PROVE  t \in HasPromised(ls) /\ IsMessage(m) /\ m.type = "Decide" /\ m.n = ls.n
        OBVIOUS
    <2>1. t \in T /\ m = msg[t]
        BY <1>5
    <2> QED BY <1>4, <1>6, <2>1
<1>8. IsDecision(done, ls, st, idx)
    BY <1>2, <1>3, <1>5, <1>7 DEF IsDecision
<1> QED BY <1>8 DEF done

\* What the fast-path check returns.
LEMMA TryFastDecideType ==
    ASSUME NEW ls, IsLeaderState(ls), NEW st \in Stored, NEW idx \in Nat, NEW s
    PROVE  IsDecision(TryFastDecide(s, ls, st, idx), ls, st, idx)
<1>1. CASE CanFastDecide(s, ls, st, idx)
    BY <1>1, DecideUpToType DEF TryFastDecide
<1>2. CASE ~CanFastDecide(s, ls, st, idx)
    <2> DEFINE done == TryFastDecide(s, ls, st, idx)
    <2>1. done.store = st /\ done.lead = ls /\ done.out = Silent
        BY <1>2 DEF TryFastDecide
    <2> HIDE DEF done
    <2>2. IsDecision(done, ls, st, idx)
        BY <2>1, SilentOut DEF IsDecision
    <2> QED BY <2>2 DEF done
<1> QED BY <1>1, <1>2

--------------------------------------------------------------------------------
\* One step of the network

\* What a channel holds after a step was there before or was just sent.
Adds(s, out) ==
    \A a, b \in Server : \A m \in Range(net'[a][b]) :
        m \in Range(net[a][b]) \/ (a = s /\ m \in Range(out[b]))

\* Sending adds what is sent.
LEMMA SendAdds ==
    ASSUME NetOK, NEW s \in Server, NEW out, IsOut(out), Send(s, out)
    PROVE  IsChannels(net') /\ Adds(s, out)
<1>1. IsChannels(net)
    BY DEF NetOK, IsChannels, IsOut, IsQueue
<1>2. IsChannels(net') /\ \A a, b \in Server : Range(net'[a][b]) \subseteq
                                   Range(net[a][b]) \cup (IF a = s THEN Range(out[b]) ELSE {})
    BY <1>1, DeliverQueues DEF Send
<1> QED BY <1>2 DEF Adds

\* Receiving adds only the answer.
LEMMA ReceiveAdds ==
    ASSUME NetOK, NEW from \in Server, NEW s \in Server, net[from][s] # <<>>,
           NEW out, IsOut(out), Receive(from, s, out)
    PROVE  IsChannels(net') /\ Adds(s, out)
<1> DEFINE taken == [net EXCEPT ![from][s] = Tail(@)]
<1>1. IsChannels(net)
    BY DEF NetOK, IsChannels, IsOut, IsQueue
<1>2. IsChannels(taken) /\ \A a, b \in Server : Range(taken[a][b]) \subseteq Range(net[a][b])
    BY <1>1, TakeQueues
<1>3. net' = Deliver(taken, s, out)
    BY DEF Receive
<1> HIDE DEF taken
<1>4. IsChannels(net') /\ \A a, b \in Server : Range(net'[a][b]) \subseteq
                                   Range(taken[a][b]) \cup (IF a = s THEN Range(out[b]) ELSE {})
    BY <1>2, <1>3, DeliverQueues
<1> QED BY <1>2, <1>4 DEF Adds

\* So the channels keep their shape when messages are sent.
LEMMA AddsNet ==
    ASSUME NetOK, NEW s, NEW out, IsChannels(net'), Adds(s, out),
           \A t \in Server : \A m \in Range(out[t]) : IsMessage(m)
    PROVE  NetOK'
<1>1. \A a, b \in Server : \A m \in Range(net'[a][b]) : IsMessage(m)
    BY ZenonT(60) DEF Adds, NetOK
<1> QED BY <1>1 DEF NetOK, IsChannels, IsOut, IsQueue

\* Sending messages keeps the channels in shape,
LEMMA SendNet ==
    ASSUME NetOK, NEW s \in Server, NEW out, IsOut(out), Send(s, out),
           \A t \in Server : \A m \in Range(out[t]) : IsMessage(m)
    PROVE  NetOK'
BY SendAdds, AddsNet

\* and so does answering one.
LEMMA ReceiveNet ==
    ASSUME NetOK, NEW from \in Server, NEW s \in Server, net[from][s] # <<>>,
           NEW out, IsOut(out), Receive(from, s, out),
           \A t \in Server : \A m \in Range(out[t]) : IsMessage(m)
    PROVE  NetOK'
BY ReceiveAdds, AddsNet

\* A message that arrives was under way.
LEMMA ArrivesType ==
    ASSUME NetOK, NEW from \in Server, NEW s \in Server, NEW type, Arrives(from, s, type)
    PROVE  /\ net[from][s] # <<>> /\ Msg(from, s) \in Range(net[from][s])
           /\ IsMessage(Msg(from, s)) /\ Msg(from, s).type = type
<1>1. net[from][s] # <<>> /\ Msg(from, s).type = type
    BY DEF Arrives, Msg
<1>2. Msg(from, s) \in Range(net[from][s])
    BY <1>1, QueueTail DEF NetOK, Msg, IsQueue
<1> QED BY <1>1, <1>2 DEF NetOK

\* The fields of a message, by its type.
LEMMA MessageFields ==
    ASSUME NEW m, IsMessage(m)
    PROVE  /\ m.type = "Promise" => IsPromise(m)
           /\ m.type = "Prepare" => m.n \in Ballot /\ m.decided \in Nat /\ m.nAccepted \in Ballot /\ m.accIdx \in Nat
           /\ m.type \in {"PrepareReq", "NotAccepted"} => m.n \in Ballot
           /\ m.type = "AcceptSync" => /\ m.n \in Ballot /\ m.seq \in SeqNum /\ m.decided \in Nat
                                       /\ m.sync \in LogSync /\ m.hash \in Hash
           /\ m.type = "AcceptDecide" => /\ m.n \in Ballot /\ m.seq \in SeqNum /\ m.decided \in Nat
                                         /\ m.e \in Key /\ m.hash \in Hash
           /\ m.type = "Decide" => m.n \in Ballot /\ m.seq \in SeqNum /\ m.decided \in Nat
           /\ m.type = "Accepted" => m.n \in Ballot /\ m.accIdx \in Nat
           /\ m.type = "FastAccepted" => m.n \in Ballot /\ m.idx \in Nat /\ m.e \in Key /\ m.prefix \in Hash
           /\ m.type = "DomPropose" => m.e \in Key
<1>1. CASE IsPromise(m)
    BY <1>1 DEF IsPromise
<1>2. CASE ~IsPromise(m)
    BY <1>2 DEF IsMessage
<1> QED BY <1>1, <1>2

\* Prepare is a message,
LEMMA PrepareMsgType ==
    ASSUME NEW n \in Ballot, NEW st \in Stored
    PROVE  IsMessage(PrepareMsg(n, st)) /\ PrepareMsg(n, st).type = "Prepare" /\ PrepareMsg(n, st).n = n
BY LenProperties DEF PrepareMsg, IsMessage, Stored

\* and so is PrepareReq.
LEMMA PrepareReqMsgType ==
    ASSUME StoreOK, NEW s \in Server
    PROVE  IsMessage(PrepareReqMsg(s)) /\ PrepareReqMsg(s).type = "PrepareReq"
BY DEF PrepareReqMsg, IsMessage, StoreOK, Stored

--------------------------------------------------------------------------------
\* Type correctness, action by action

\* The initial state has the shape.
LEMMA InitTypeOK == Init => TypeOK
<1> SUFFICES ASSUME Init PROVE TypeOK
    OBVIOUS
<1>1. 0 \in Ballot /\ <<>> \in Seq(EntryId)
    BY BallotAssumption DEF Ballot
<1>2. StoreOK
    BY <1>1 DEF Init, StoreOK, Stored
<1>3. StateOK
    BY DEF Init, StateOK, SeqNum, Zero, None
<1>4. FastOK
    BY EmptyUnsynced DEF Init, FastOK, FreshFast, Hash
<1>5. LeadOK
    BY <1>1, LeaderStateWithType DEF Init, LeadOK
<1>6. DomOK
    BY DEF Init, DomOK, FreshDom, NoKey
<1>7. NetOK
    BY EmptyQueue DEF Init, NetOK, IsQueue
<1>8. BoundsOK
    BY DEF Init, BoundsOK
<1>9. BallotsOrdered
    BY DEF Init, BallotsOrdered
<1> QED BY <1>2, <1>3, <1>4, <1>5, <1>6, <1>7, <1>8, <1>9 DEF TypeOK

\* Only the store, a leader's ballot and a server's role bear on the order of ballots.
LEMMA BallotsUnchanged ==
    ASSUME BallotsOrdered,
           \A s \in Server : /\ store'[s].promise = store[s].promise
                             /\ store'[s].accRound = store[s].accRound
                             /\ state'[s].role = "Leader" => state[s].role = "Leader"
                             /\ lead'[s].n = lead[s].n
    PROVE  BallotsOrdered'
BY DEF BallotsOrdered

\* A buffer keeps its shape when proposals are handled,
LEMMA HandleDomProposeType ==
    ASSUME NEW d, d \in [early : SUBSET Key, last : Nat \X Nat], NEW E \in SUBSET Key,
           NEW role, NEW ext \in Nat
    PROVE  HandleDomPropose(d, E, role, ext) \in [early : SUBSET Key, last : Nat \X Nat]
<1> DEFINE late == {e \in E : ~Later(e, d.last)}
           extended == IF role = "Leader" THEN {<<d.last[1] + ext, e[2]>> : e \in late} ELSE {}
<1>1. extended \in SUBSET Key
    BY DEF Key
<1>2. HandleDomPropose(d, E, role, ext) = [d EXCEPT !.early = @ \cup (E \ late) \cup extended]
    BY DEF HandleDomPropose
<1> HIDE DEF late, extended
<1> QED BY <1>1, <1>2

\* when proposals are removed,
LEMMA RemoveFromBuffersType ==
    ASSUME NEW d, d \in [early : SUBSET Key, last : Nat \X Nat], NEW ids
    PROVE  RemoveFromBuffers(d, ids) \in [early : SUBSET Key, last : Nat \X Nat]
BY DEF RemoveFromBuffers

\* and at every server when they are sent.
LEMMA BufferedType ==
    ASSUME NEW d, d \in [Server -> [early : SUBSET Key, last : Nat \X Nat]], NEW s \in Server,
           NEW E \in SUBSET Key, NEW ext \in Nat
    PROVE  Buffered(d, s, E, ext) \in [Server -> [early : SUBSET Key, last : Nat \X Nat]]
BY HandleDomProposeType DEF Buffered

\* The proposals of a sequence of keys, to each peer.
LEMMA ProposalsOut ==
    ASSUME NEW es \in Seq(Key), NEW s \in Server
    PROVE  /\ IsOut(Proposals(s, es))
           /\ \A t \in Server : \A m \in Range(Proposals(s, es)[t]) : IsMessage(m) /\ m.type = "DomPropose"
<1> DEFINE ms == [k \in DOMAIN es |-> DomPropose(es[k])]
           D == {DomPropose(e) : e \in Key}
<1>1. ms \in Seq(D)
    BY DEF DomPropose
<1>2. IsQueue(ms) /\ Range(ms) \subseteq D
    BY <1>1, QueueOfSeq
<1>3. \A m \in D : IsMessage(m) /\ m.type = "DomPropose"
    BY DEF DomPropose, IsMessage
<1>4. DOMAIN Proposals(s, es) = Server
      /\ \A t \in Server : Proposals(s, es)[t] = IF Timely \/ t = s THEN <<>> ELSE ms
    BY DEF Proposals
<1> HIDE DEF ms, D
<1> QED BY <1>2, <1>3, <1>4, EmptyQueue DEF IsOut

\* AppendWithId keeps the shape of every variable.
LEMMA AppendWithIdTypeOK ==
    ASSUME TypeOK, NEW s \in Server, NEW id \in EntryId, NEW deadline \in 1..MaxDeadline,
           NEW ext \in Extensions, AppendWithId(s, id, deadline, ext)
    PROVE  TypeOK'
<1>1. <<deadline, id>> \in Key /\ ext \in Nat
    BY BoundAssumption DEF Key
<1>2. <<<<deadline, id>>>> \in Seq(Key)
    BY <1>1
<1>3. NetOK'
    BY <1>2, ProposalsOut, SendNet DEF AppendWithId, TypeOK
<1>4. DomOK'
    BY <1>1, BufferedType DEF AppendWithId, TypeOK, DomOK
<1>5. BoundsOK'
    BY DEF AppendWithId, TypeOK, BoundsOK
<1>6. StoreOK' /\ StateOK' /\ FastOK' /\ LeadOK' /\ BallotsOrdered'
    BY DEF AppendWithId, TypeOK, StoreOK, StateOK, FastOK, LeadOK, BallotsOrdered
<1> QED BY <1>3, <1>4, <1>5, <1>6 DEF TypeOK

\* ReceiveDomPropose keeps the shape of every variable.
LEMMA ReceiveDomProposeTypeOK ==
    ASSUME TypeOK, NEW from \in Server, NEW s \in Server, NEW ext \in Extensions,
           ReceiveDomPropose(from, s, ext)
    PROVE  TypeOK'
<1>1. Msg(from, s).e \in Key /\ net[from][s] # <<>> /\ ext \in Nat
    BY ArrivesType, MessageFields, BoundAssumption DEF ReceiveDomPropose, TypeOK
<1>2. NetOK'
    BY <1>1, SilentOut, ReceiveNet DEF ReceiveDomPropose, TypeOK
<1>3. DomOK'
    <2>1. HandleDomPropose(dom[s], {Msg(from, s).e}, state[s].role, ext)
              \in [early : SUBSET Key, last : Nat \X Nat]
        BY <1>1, HandleDomProposeType DEF TypeOK, DomOK
    <2> QED BY <2>1 DEF ReceiveDomPropose, TypeOK, DomOK
<1>4. StoreOK' /\ StateOK' /\ FastOK' /\ LeadOK' /\ BoundsOK' /\ BallotsOrdered'
    BY DEF ReceiveDomPropose, TypeOK, StoreOK, StateOK, FastOK, LeadOK, BoundsOK, BallotsOrdered
<1> QED BY <1>2, <1>3, <1>4 DEF TypeOK

\* Releasing the earliest proposal keeps the buffers in shape.
LEMMA PopEarlyDomOK ==
    ASSUME TypeOK, NEW s \in Server, NEW e \in dom[s].early,
           dom' = [dom EXCEPT ![s] = PopEarly(@, e)]
    PROVE  DomOK'
<1>1. PopEarly(dom[s], e) \in [early : SUBSET Key, last : Nat \X Nat]
    <2>1. e \in Nat \X Nat /\ dom[s].early \in SUBSET Key
        BY KeyType DEF TypeOK, DomOK
    <2> QED BY <2>1 DEF PopEarly
<1> QED BY <1>1 DEF TypeOK, DomOK

\* The four parts of the invariant a leader's step on its log changes.
LEMMA LeaderStepTypeOK ==
    ASSUME TypeOK, NEW s \in Server, state[s].role = "Leader",
           NEW st \in Stored, store' = [store EXCEPT ![s] = st], st.promise = store[s].promise,
           st.accRound = store[s].accRound \/ st.accRound = lead[s].n,
           NEW ls, IsLeaderState(ls), ls.n = lead[s].n, lead' = [lead EXCEPT ![s] = ls],
           \A t \in Server : state'[t].role = state[t].role
    PROVE  StoreOK' /\ LeadOK' /\ BallotsOrdered'
<1>1. store[s].promise \in Nat /\ lead[s].n = store[s].promise
    BY DEF TypeOK, StoreOK, Stored, Ballot, BallotsOrdered
<1>2. StoreOK' /\ LeadOK'
    BY DEF TypeOK, StoreOK, LeadOK
<1>3. /\ store'[s] = st /\ lead'[s] = ls
      /\ \A t \in Server \ {s} : store'[t] = store[t] /\ lead'[t] = lead[t]
    BY DEF TypeOK, StoreOK, LeadOK
<1>4. BallotsOrdered'
    BY <1>1, <1>3 DEF TypeOK, BallotsOrdered
<1> QED BY <1>2, <1>4

\* ReleaseAtLeader keeps the shape of every variable.
LEMMA ReleaseAtLeaderTypeOK ==
    ASSUME TypeOK, NEW s \in Server, NEW e \in dom[s].early, ReleaseAtLeader(s, e)
    PROVE  TypeOK'
<1> DEFINE before == lead[s]
           prefix == fast[s].prefixHash
           hash == Xor(prefix, {e})
           st == [store[s] EXCEPT !.log = Append(@, e[2])]
           map == SetAcceptedMap(before.map, before.accIdx[s] + 1, e, prefix, s, FALSE)
           ls0 == [before EXCEPT !.map = map, !.accIdx[s] = Len(st.log)]
           T == PromisedFollowers(before)
           ls == NextSeq(ls0, T)
           accDec(t) == [type |-> "AcceptDecide", n |-> ls.n, seq |-> ls.seqs[t],
                         decided |-> st.decided, e |-> e, hash |-> hash]
           sent == [t \in Server |-> IF t \in PromisedFollowers(ls) THEN <<accDec(t)>> ELSE <<>>]
           done == TryFastDecide(s, ls, st, Len(st.log))
<1>1. e \in Key /\ e[2] \in EntryId
    BY DEF TypeOK, DomOK, Key
<1>2. st \in Stored /\ st.promise = store[s].promise /\ st.accRound = store[s].accRound
      /\ Len(st.log) \in Nat
    <2>1. store[s] \in Stored /\ store[s].log \in Seq(EntryId)
        BY DEF TypeOK, StoreOK, Stored
    <2>2. Append(store[s].log, e[2]) \in Seq(EntryId)
        BY <1>1, <2>1, AppendProperties
    <2> QED BY <2>1, <2>2, LenProperties DEF Stored
<1>3. hash \in Hash /\ prefix \in Hash
    <2>1. {e} \in Hash /\ prefix \in Hash
        BY <1>1 DEF Hash, TypeOK, FastOK
    <2> QED BY <2>1, XorType
<1>4. IsLeaderState(before)
    BY DEF TypeOK, LeadOK
<1>5. IsAcceptedMap(map)
    <2>1. before.accIdx[s] + 1 \in Nat /\ IsAcceptedMap(before.map)
        BY <1>4 DEF IsLeaderState, IsAcceptedMap
    <2> QED BY <1>1, <1>3, <2>1, SetAcceptedMapType
<1> HIDE DEF st, hash, map, prefix
<1>6. IsLeaderState(ls0) /\ ls0.n = before.n
    BY <1>2, <1>4, <1>5 DEF IsLeaderState, IsAcceptedMap
<1> HIDE DEF ls0
<1>7. IsLeaderState(ls) /\ ls.n = before.n
    BY <1>6, NextSeqType
<1> HIDE DEF ls
<1>8. /\ done.store = st \/ done.store = [st EXCEPT !.decided = Len(st.log)]
      /\ IsLeaderState(done.lead) /\ done.lead.n = ls.n
      /\ IsOut(done.out) /\ \A t \in Server : \A m \in Range(done.out[t]) : IsMessage(m)
    <2>1. IsDecision(done, ls, st, Len(st.log))
        BY <1>2, <1>7, TryFastDecideType
    <2> HIDE DEF done
    <2> QED BY <2>1 DEF IsDecision
<1> HIDE DEF done
<1>9. done.store \in Stored /\ done.store.promise = st.promise /\ done.store.accRound = st.accRound
    BY <1>2, <1>8 DEF Stored
<1>10. IsOut(sent) /\ \A t \in Server : \A m \in Range(sent[t]) : IsMessage(m)
    <2>1. \A t \in Server : IsMessage(accDec(t))
        BY <1>1, <1>2, <1>3, <1>7 DEF IsLeaderState, IsMessage, Stored
    <2>2. DOMAIN sent = Server
          /\ \A t \in Server : sent[t] = IF t \in PromisedFollowers(ls) THEN <<accDec(t)>> ELSE <<>>
        BY SMTT(30)
    <2> HIDE DEF sent, accDec
    <2> QED BY <2>1, <2>2, SingletonQueue, EmptyQueue DEF IsOut
<1> HIDE DEF sent
<1>11. /\ store' = [store EXCEPT ![s] = done.store]
       /\ lead' = [lead EXCEPT ![s] = done.lead]
       /\ fast' = [fast EXCEPT ![s].prefixHash = hash]
       /\ Send(s, Then(sent, done.out))
       /\ dom' = [dom EXCEPT ![s] = PopEarly(@, e)]
       /\ UNCHANGED <<state, submitted, faults>>
       /\ state[s].role = "Leader"
    BY DEF ReleaseAtLeader, st, hash, map, prefix, ls0, ls, done, sent
<1>12. NetOK'
    <2>1. IsOut(Then(sent, done.out))
          /\ \A t \in Server : \A m \in Range(Then(sent, done.out)[t]) : IsMessage(m)
        BY <1>8, <1>10, ThenOut
    <2> QED BY <1>11, <2>1, SendNet DEF TypeOK
<1>13. StoreOK' /\ LeadOK' /\ BallotsOrdered'
    BY <1>2, <1>7, <1>8, <1>9, <1>11, LeaderStepTypeOK
<1>14. FastOK'
    BY <1>3, <1>11 DEF TypeOK, FastOK
<1>15. DomOK'
    BY <1>11, PopEarlyDomOK
<1>16. StateOK' /\ BoundsOK'
    BY <1>11 DEF TypeOK, StateOK, BoundsOK
<1> QED BY <1>12, <1>13, <1>14, <1>15, <1>16 DEF TypeOK

\* One more entry in an unsynced log.
LEMMA InsertUnsynced ==
    ASSUME NEW own, IsUnsynced(own), NEW idx \in Nat, NEW u \in UnsyncedEntry
    PROVE  IsUnsynced(Insert(own, idx, u))
BY FS_AddElement DEF IsUnsynced, Insert

\* ReleaseAtFollower keeps the shape of every variable.
LEMMA ReleaseAtFollowerTypeOK ==
    ASSUME TypeOK, NEW s \in Server, NEW e \in dom[s].early, ReleaseAtFollower(s, e)
    PROVE  TypeOK'
<1> DEFINE own == fast[s].unsynced
           idx == Len(store[s].log) + Cardinality(DOMAIN own) + 1
           prefix == Xor(fast[s].unsyncedHash, fast[s].prefixHash)
           u == [e |-> e, prefix |-> prefix]
           vote == [type |-> "FastAccepted", n |-> store[s].promise, idx |-> idx,
                    e |-> e, prefix |-> prefix]
<1>1. e \in Key /\ {e} \in Hash
    BY DEF TypeOK, DomOK, Hash
<1>2. prefix \in Hash /\ Xor(fast[s].unsyncedHash, {e}) \in Hash
    BY <1>1, XorType DEF TypeOK, FastOK
<1>3. idx \in Nat
    BY FS_CardinalityType, LenProperties DEF TypeOK, StoreOK, Stored, FastOK, IsUnsynced
<1> HIDE DEF idx, prefix
<1>4. IsUnsynced(Insert(own, idx, u))
    BY <1>1, <1>2, <1>3, InsertUnsynced DEF UnsyncedEntry, TypeOK, FastOK
<1>5. IsMessage(vote)
    BY <1>1, <1>2, <1>3 DEF IsMessage, TypeOK, StoreOK, Stored
<1>6. /\ fast' = [fast EXCEPT ![s].unsynced = Insert(@, idx, u), ![s].unsyncedHash = Xor(@, {e})]
      /\ Send(s, To(PidOf(store[s].promise), vote))
      /\ dom' = [dom EXCEPT ![s] = PopEarly(@, e)]
      /\ UNCHANGED <<store, state, lead, submitted, faults>>
    BY DEF ReleaseAtFollower, idx, prefix
<1> HIDE DEF vote, u
<1>7. NetOK'
    <2> DEFINE out == To(PidOf(store[s].promise), vote)
    <2>1. IsOut(out) /\ \A t \in Server : \A m \in Range(out[t]) : IsMessage(m)
        BY <1>5, ToOut
    <2> HIDE DEF out
    <2> QED BY <1>6, <2>1, SendNet DEF TypeOK, out
<1>8. FastOK'
    BY <1>2, <1>4, <1>6 DEF TypeOK, FastOK
<1>9. DomOK'
    BY <1>6, PopEarlyDomOK
<1>10. StoreOK' /\ StateOK' /\ LeadOK' /\ BoundsOK' /\ BallotsOrdered'
    BY <1>6 DEF TypeOK, StoreOK, StateOK, LeadOK, BoundsOK, BallotsOrdered
<1> QED BY <1>7, <1>8, <1>9, <1>10 DEF TypeOK

\* ReleaseNothing keeps the shape of every variable.
LEMMA ReleaseNothingTypeOK ==
    ASSUME TypeOK, NEW s \in Server, NEW e \in dom[s].early, ReleaseNothing(s, e)
    PROVE  TypeOK'
<1>1. DomOK'
    BY PopEarlyDomOK DEF ReleaseNothing
<1>2. StoreOK' /\ StateOK' /\ FastOK' /\ LeadOK' /\ NetOK' /\ BoundsOK' /\ BallotsOrdered'
    BY DEF ReleaseNothing, TypeOK, StoreOK, StateOK, FastOK, LeadOK, NetOK, BoundsOK, BallotsOrdered
<1> QED BY <1>1, <1>2 DEF TypeOK

\* BecomeLeader keeps the shape of every variable.
LEMMA BecomeLeaderTypeOK ==
    ASSUME TypeOK, NEW s \in Server, NEW b \in 1..MaxBallot, BecomeLeader(s, b)
    PROVE  TypeOK'
<1> DEFINE st == [store[s] EXCEPT !.promise = b]
           own == [n |-> b, nAccepted |-> st.accRound, decided |-> st.decided,
                   accIdx |-> Len(st.log), sync |-> None,
                   unsync |-> fast[s].unsynced, hash |-> fast[s].prefixHash]
           ls == SetPromise(LeaderStateWith(b), own, s, TRUE)
           out == ToAll(Peers(s), PrepareMsg(b, st))
<1>1. b \in Ballot /\ b \in Nat /\ Owner[b] = s /\ PidOf(b) = s /\ b > store[s].promise
    BY BallotAssumption DEF BecomeLeader, Ballot, PidOf
<1>2. store[s] \in Stored /\ st \in Stored /\ st.promise = b /\ st.accRound = store[s].accRound
    BY <1>1 DEF TypeOK, StoreOK, Stored
<1> HIDE DEF st
<1>3. IsPromiseData(own)
    BY <1>2, LenProperties DEF IsPromiseData, Stored, TypeOK, FastOK
<1>4. IsLeaderState(ls) /\ ls.n = b
    <2>1. IsLeaderState(LeaderStateWith(b)) /\ LeaderStateWith(b).n = b
        BY <1>1, LeaderStateWithType DEF LeaderStateWith
    <2> HIDE DEF own
    <2> QED BY <1>3, <2>1, SetPromiseType
<1>5. IsOut(out) /\ \A t \in Server : \A m \in Range(out[t]) : IsMessage(m)
    <2>1. IsMessage(PrepareMsg(b, st))
        BY <1>1, <1>2, PrepareMsgType
    <2>2. IsOut(out) /\ \A t \in Server :
              Range(out[t]) = IF t \in Peers(s) THEN {PrepareMsg(b, st)} ELSE {}
        BY ToAllOut
    <2> HIDE DEF out
    <2> QED BY <2>1, <2>2
<1> HIDE DEF ls, out, own
<1>6. /\ store' = [store EXCEPT ![s] = st] /\ lead' = [lead EXCEPT ![s] = ls]
      /\ Send(s, out)
      /\ state' = [state EXCEPT ![s].role = "Leader", ![s].phase = "Prepare"]
      /\ UNCHANGED <<fast, dom, submitted, faults>>
    BY DEF BecomeLeader, st, own, ls, out
<1>7. NetOK'
    BY <1>5, <1>6, SendNet DEF TypeOK
<1>8. StoreOK' /\ StateOK' /\ LeadOK'
    BY <1>2, <1>4, <1>6 DEF TypeOK, StoreOK, StateOK, LeadOK
<1>9. BallotsOrdered'
    <2>1. /\ store'[s] = st /\ lead'[s] = ls
          /\ \A t \in Server \ {s} : store'[t] = store[t] /\ lead'[t] = lead[t] /\ state'[t] = state[t]
        BY <1>6 DEF TypeOK, StoreOK, LeadOK, StateOK
    <2>2. st.accRound <= st.promise
        BY <1>1, <1>2 DEF TypeOK, BallotsOrdered, Stored, Ballot
    <2> QED BY <1>1, <1>2, <1>4, <2>1, <2>2 DEF TypeOK, BallotsOrdered
<1>10. FastOK' /\ DomOK' /\ BoundsOK'
    BY <1>6 DEF TypeOK, FastOK, DomOK, BoundsOK
<1> QED BY <1>7, <1>8, <1>9, <1>10 DEF TypeOK

\* BecomeFollower keeps the shape of every variable.
LEMMA BecomeFollowerTypeOK ==
    ASSUME TypeOK, NEW s \in Server, NEW b, BecomeFollower(s, b)
    PROVE  TypeOK'
<1>1. StateOK' /\ BallotsOrdered'
    BY DEF BecomeFollower, TypeOK, StateOK, BallotsOrdered
<1>2. StoreOK' /\ FastOK' /\ LeadOK' /\ DomOK' /\ NetOK' /\ BoundsOK'
    BY DEF BecomeFollower, TypeOK, StoreOK, FastOK, LeadOK, DomOK, NetOK, BoundsOK
<1> QED BY <1>1, <1>2 DEF TypeOK

\* ReceivePrepare keeps the shape of every variable.
LEMMA ReceivePrepareTypeOK ==
    ASSUME TypeOK, NEW from \in Server, NEW s \in Server, ReceivePrepare(from, s)
    PROVE  TypeOK'
<1> DEFINE m == Msg(from, s)
           st == store[s]
           sync == IF st.accRound > m.nAccepted THEN CreateLogSync(st.log, m.decided)
                   ELSE IF st.accRound = m.nAccepted /\ Len(st.log) > m.accIdx
                        THEN CreateLogSync(st.log, m.accIdx)
                   ELSE None
           promise == [type |-> "Promise", n |-> m.n, nAccepted |-> st.accRound,
                       decided |-> st.decided, accIdx |-> Len(st.log), sync |-> sync,
                       unsync |-> fast[s].unsynced, hash |-> fast[s].prefixHash]
           out == To(from, promise)
<1>1. /\ m.n \in Ballot /\ m.decided \in Nat /\ m.nAccepted \in Ballot /\ m.accIdx \in Nat
      /\ net[from][s] # <<>>
    BY ArrivesType, MessageFields DEF ReceivePrepare, TypeOK
<1>2. st \in Stored
    BY DEF TypeOK, StoreOK
<1>3. sync \in LogSync \cup {None}
    BY <1>1, <1>2, CreateLogSyncType DEF Stored
<1> HIDE DEF sync
<1>4. IsPromise(promise)
    BY <1>1, <1>2, <1>3, LenProperties DEF IsPromise, Stored, TypeOK, FastOK
<1>5. IsOut(out) /\ \A t \in Server : \A x \in Range(out[t]) : IsMessage(x)
    <2> HIDE DEF promise
    <2> QED BY <1>4, ToOut DEF IsMessage
<1> HIDE DEF promise, out
<1>6. /\ PromisesTo(s, m)
      /\ store' = [store EXCEPT ![s].promise = m.n]
      /\ state' = [state EXCEPT ![s] = [role |-> "Follower", phase |-> "Prepare",
                                        seq |-> Zero, cached |-> promise]]
      /\ Receive(from, s, out)
      /\ UNCHANGED <<fast, lead, dom, submitted, faults>>
    BY DEF ReceivePrepare, promise, sync, out
<1> HIDE DEF m
<1>7. NetOK'
    BY <1>1, <1>5, <1>6, ReceiveNet DEF TypeOK
<1>8. StoreOK'
    BY <1>1, <1>6 DEF TypeOK, StoreOK, Stored
<1>9. StateOK'
    BY <1>4, <1>6 DEF TypeOK, StateOK, SeqNum, Zero
<1>10. BallotsOrdered'
    <2>1. store[s].promise <= m.n
        BY <1>1, <1>2, <1>6 DEF PromisesTo, Stored, Ballot
    <2>2. /\ store'[s].promise = m.n /\ store'[s].accRound = store[s].accRound
          /\ state'[s].role = "Follower"
          /\ \A t \in Server \ {s} : store'[t] = store[t] /\ state'[t] = state[t]
        BY <1>6 DEF TypeOK, StoreOK, StateOK, Stored
    <2>3. store[s].accRound <= m.n
        BY <1>1, <1>2, <2>1 DEF TypeOK, BallotsOrdered, Stored, Ballot
    <2> QED BY <1>6, <2>2, <2>3 DEF TypeOK, BallotsOrdered
<1>11. FastOK' /\ LeadOK' /\ DomOK' /\ BoundsOK'
    BY <1>6 DEF TypeOK, FastOK, LeadOK, DomOK, BoundsOK
<1> QED BY <1>7, <1>8, <1>9, <1>10, <1>11 DEF TypeOK

\* A promise received is promise data.
LEMMA PromiseReceived ==
    ASSUME TypeOK, NEW from \in Server, NEW s \in Server, Arrives(from, s, "Promise"), NEW check \in BOOLEAN
    PROVE  LET ls == SetPromise(lead[s], Msg(from, s), from, check) IN
           /\ net[from][s] # <<>>
           /\ IsLeaderState(ls) /\ ls.n = lead[s].n
           /\ ls.promises = [lead[s].promises EXCEPT ![from] = Promised(Msg(from, s))]
<1>1. net[from][s] # <<>> /\ IsPromise(Msg(from, s))
    BY ArrivesType, MessageFields DEF TypeOK
<1>2. IsPromiseData(Msg(from, s))
    BY <1>1 DEF IsPromise, IsPromiseData
<1>3. IsLeaderState(lead[s])
    BY DEF TypeOK, LeadOK
<1> QED BY <1>1, <1>2, <1>3, SetPromiseType

\* The promise of from gives the leader s a read quorum.
CompletesQuorum(from, s) ==
    IsPrepareQuorum(Quorum, Cardinality(HasPromised(SetPromise(lead[s], Msg(from, s), from, TRUE))))

\* ReceivePromise short of a read quorum keeps the shape of every variable.
LEMMA RecordPromiseTypeOK ==
    ASSUME TypeOK, NEW from \in Server, NEW s \in Server, NEW ext \in Extensions,
           ReceivePromise(from, s, ext), ~CompletesQuorum(from, s)
    PROVE  TypeOK'
<1> DEFINE ls == SetPromise(lead[s], Msg(from, s), from, TRUE)
<1>1. IsLeaderState(ls) /\ ls.n = lead[s].n /\ net[from][s] # <<>>
    BY PromiseReceived DEF ReceivePromise
<1>2. lead' = [lead EXCEPT ![s] = ls] /\ Receive(from, s, Silent)
      /\ UNCHANGED <<store, state, fast, dom, submitted, faults>>
    BY DEF ReceivePromise, CompletesQuorum
<1> HIDE DEF ls
<1>3. NetOK'
    BY <1>1, <1>2, SilentOut, ReceiveNet DEF TypeOK
<1>4. LeadOK' /\ BallotsOrdered'
    BY <1>1, <1>2 DEF TypeOK, LeadOK, BallotsOrdered
<1>5. StoreOK' /\ StateOK' /\ FastOK' /\ DomOK' /\ BoundsOK'
    BY <1>2 DEF TypeOK, StoreOK, StateOK, FastOK, DomOK, BoundsOK
<1> QED BY <1>3, <1>4, <1>5 DEF TypeOK

\* sync_log keeps the shape of the store and sets the round of its log.
LEMMA SyncLogType ==
    ASSUME NEW st \in Stored, NEW n \in Ballot, NEW decided \in Nat, NEW sync \in LogSync \cup {None}
    PROVE  /\ SyncLog(st, n, decided, sync) \in Stored
           /\ SyncLog(st, n, decided, sync).promise = st.promise
           /\ SyncLog(st, n, decided, sync).accRound = n
<1> DEFINE kept == Min({sync.idx, Len(st.log)})
           log == IF sync = None THEN st.log ELSE SubSeq(st.log, 1, kept) \o sync.suffix
<1>1. log \in Seq(EntryId)
    <2>1. CASE sync = None
        BY <2>1 DEF Stored
    <2>2. CASE sync # None
        <3>1. sync.idx \in Nat /\ sync.suffix \in Seq(EntryId) /\ st.log \in Seq(EntryId)
            BY <2>2 DEF LogSync, Stored
        <3>2. kept \in Nat /\ kept <= Len(st.log)
            <4>1. Len(st.log) \in Nat /\ kept \in {sync.idx, Len(st.log)}
                BY <3>1, MinType, LenProperties
            <4>2. \E x \in {sync.idx, Len(st.log)} : \A y \in {sync.idx, Len(st.log)} : x =< y
                BY <3>1, <4>1
            <4>3. kept <= Len(st.log)
                BY <4>2 DEF Min
            <4> QED BY <3>1, <4>1, <4>3
        <3> HIDE DEF kept
        <3>3. SubSeq(st.log, 1, kept) \in Seq(EntryId)
            BY <3>1, <3>2, SubSeqProperties, LenProperties, ElementOfSeq
        <3> QED BY <2>2, <3>1, <3>3, ConcatProperties
    <2> QED BY <2>1, <2>2
<1>2. SyncLog(st, n, decided, sync) = [st EXCEPT !.accRound = n, !.decided = decided, !.log = log]
    BY DEF SyncLog
<1> HIDE DEF log
<1> QED BY <1>1, <1>2 DEF Stored

\* The highest decided index among the promises exists once there is a promise.
LEMMA MaxDecidedType ==
    ASSUME NEW ls, IsLeaderState(ls), HasPromised(ls) # {}
    PROVE  MaxDecided(ls) \in Nat
<1> DEFINE f == [t \in HasPromised(ls) |-> ls.promises[t].decided]
           S == {ls.promises[t].decided : t \in HasPromised(ls)}
<1>1. S \subseteq Nat
    BY DEF HasPromised, IsLeaderState, PromiseState, None, PromisedHigher
<1>2. IsFiniteSet(HasPromised(ls))
    BY ServerAssumption, FS_Subset DEF HasPromised
<1>3. DOMAIN f = HasPromised(ls) /\ S = {f[t] : t \in HasPromised(ls)}
    OBVIOUS
<1>4. S # {}
    OBVIOUS
<1> HIDE DEF f
<1>5. IsFiniteSet(S)
    BY <1>2, <1>3, ImageFinite
<1>6. Max(S) \in S
    BY <1>1, <1>4, <1>5, MaxType
<1> QED BY <1>1, <1>6 DEF MaxDecided

\* A leader state with one promise reset or marked as higher.
LEMMA ResetPromiseType ==
    ASSUME NEW ls, IsLeaderState(ls), NEW from \in Server, NEW p \in PromiseState
    PROVE  /\ IsLeaderState([ls EXCEPT !.promises[from] = p])
           /\ [ls EXCEPT !.promises[from] = p].n = ls.n
BY DEF IsLeaderState

\* A step that replaces the leader state of s but not its ballot.
LEMMA LeadStep ==
    ASSUME TypeOK, NEW s \in Server, NEW ls, IsLeaderState(ls), ls.n = lead[s].n,
           lead' = [lead EXCEPT ![s] = ls]
    PROVE  LeadOK' /\ \A t \in Server : lead'[t].n = lead[t].n
BY DEF TypeOK, LeadOK

\* ReceivePrepareReq keeps the shape of every variable.
LEMMA ReceivePrepareReqTypeOK ==
    ASSUME TypeOK, NEW from \in Server, NEW s \in Server, ReceivePrepareReq(from, s)
    PROVE  TypeOK'
<1> DEFINE msg == PrepareMsg(lead[s].n, store[s])
           ls == [lead[s] EXCEPT !.promises[from] = None]
           out == To(from, msg)
<1>1. IsLeaderState(lead[s]) /\ lead[s].n \in Ballot /\ store[s] \in Stored
    BY DEF TypeOK, LeadOK, StoreOK, IsLeaderState
<1>2. IsLeaderState(ls) /\ ls.n = lead[s].n
    BY <1>1, ResetPromiseType DEF PromiseState
<1>3. IsOut(out) /\ \A t \in Server : \A x \in Range(out[t]) : IsMessage(x)
    <2>1. IsMessage(msg)
        BY <1>1, PrepareMsgType
    <2> HIDE DEF msg
    <2> QED BY <2>1, ToOut
<1>4. /\ lead' = [lead EXCEPT ![s] = ls] /\ Receive(from, s, out)
      /\ UNCHANGED <<store, state, fast, dom, submitted, faults>>
      /\ net[from][s] # <<>>
    BY DEF ReceivePrepareReq, Arrives
<1> HIDE DEF ls, out
<1>5. LeadOK' /\ BallotsOrdered'
    BY <1>2, <1>4, LeadStep, BallotsUnchanged DEF TypeOK
<1>6. NetOK'
    BY <1>3, <1>4, ReceiveNet DEF TypeOK
<1>7. StoreOK' /\ StateOK' /\ FastOK' /\ DomOK' /\ BoundsOK'
    BY <1>4 DEF TypeOK, StoreOK, StateOK, FastOK, DomOK, BoundsOK
<1> QED BY <1>5, <1>6, <1>7 DEF TypeOK

\* ReceiveNotAccepted keeps the shape of every variable.
LEMMA ReceiveNotAcceptedTypeOK ==
    ASSUME TypeOK, NEW from \in Server, NEW s \in Server, ReceiveNotAccepted(from, s)
    PROVE  TypeOK'
<1> DEFINE ls == [lead[s] EXCEPT !.promises[from] = PromisedHigher]
<1>1. IsLeaderState(ls) /\ ls.n = lead[s].n
    BY ResetPromiseType DEF PromiseState, TypeOK, LeadOK
<1>2. /\ lead' = [lead EXCEPT ![s] = ls] /\ Receive(from, s, Silent)
      /\ UNCHANGED <<store, state, fast, dom, submitted, faults>>
      /\ net[from][s] # <<>>
    BY DEF ReceiveNotAccepted, Arrives
<1> HIDE DEF ls
<1>3. LeadOK' /\ BallotsOrdered'
    BY <1>1, <1>2, LeadStep, BallotsUnchanged DEF TypeOK
<1>4. NetOK'
    BY <1>2, SilentOut, ReceiveNet DEF TypeOK
<1>5. StoreOK' /\ StateOK' /\ FastOK' /\ DomOK' /\ BoundsOK'
    BY <1>2 DEF TypeOK, StoreOK, StateOK, FastOK, DomOK, BoundsOK
<1> QED BY <1>3, <1>4, <1>5 DEF TypeOK

\* ReceiveLatePromise keeps the shape of every variable.
LEMMA ReceiveLatePromiseTypeOK ==
    ASSUME TypeOK, NEW from \in Server, NEW s \in Server, ReceiveLatePromise(from, s)
    PROVE  TypeOK'
<1> DEFINE ls == SetPromise(lead[s], Msg(from, s), from, FALSE)
           sync == SendAcceptSync(ls, store[s], fast[s].prefixHash, {from})
<1>1. IsLeaderState(ls) /\ ls.n = lead[s].n /\ net[from][s] # <<>>
      /\ ls.promises = [lead[s].promises EXCEPT ![from] = Promised(Msg(from, s))]
    BY PromiseReceived DEF ReceiveLatePromise
<1>2. /\ lead' = [lead EXCEPT ![s] = sync.lead] /\ Receive(from, s, sync.out)
      /\ UNCHANGED <<store, state, fast, dom, submitted, faults>>
    BY DEF ReceiveLatePromise
<1>3. {from} \in SUBSET HasPromised(ls)
    <2>1. lead[s].promises \in [Server -> PromiseState]
        BY DEF TypeOK, LeadOK, IsLeaderState
    <2> HIDE DEF ls
    <2>2. ls.promises[from].type = "Promised"
        BY <1>1, <2>1 DEF Promised
    <2> QED BY <2>2 DEF HasPromised
<1> HIDE DEF ls
<1>4. IsSync(sync, ls, {from})
    BY <1>1, <1>3, SendAcceptSyncType DEF TypeOK, StoreOK, FastOK
<1> HIDE DEF sync
<1>5. LeadOK' /\ BallotsOrdered'
    BY <1>1, <1>2, <1>4, LeadStep, BallotsUnchanged DEF TypeOK, IsSync
<1>6. NetOK'
    BY <1>1, <1>2, <1>4, ReceiveNet DEF TypeOK, IsSync
<1>7. StoreOK' /\ StateOK' /\ FastOK' /\ DomOK' /\ BoundsOK'
    BY <1>2 DEF TypeOK, StoreOK, StateOK, FastOK, DomOK, BoundsOK
<1> QED BY <1>5, <1>6, <1>7 DEF TypeOK

\* A follower's step that replaces its stored log, in the ballot it has promised.
LEMMA FollowerStepTypeOK ==
    ASSUME TypeOK, NEW s \in Server,
           NEW st \in Stored, store' = [store EXCEPT ![s] = st], st.promise = store[s].promise,
           st.accRound = store[s].accRound \/ st.accRound = store[s].promise,
           UNCHANGED lead, \A t \in Server : state'[t].role = "Leader" => state[t].role = "Leader"
    PROVE  StoreOK' /\ LeadOK' /\ BallotsOrdered'
<1>1. StoreOK' /\ LeadOK'
    BY DEF TypeOK, StoreOK, LeadOK
<1>2. store[s].promise \in Nat /\ store'[s] = st /\ \A t \in Server \ {s} : store'[t] = store[t]
    BY DEF TypeOK, StoreOK, Stored, Ballot
<1>3. BallotsOrdered'
    BY <1>2 DEF TypeOK, BallotsOrdered
<1> QED BY <1>1, <1>3

\* ReceiveAcceptSync keeps the shape of every variable.
LEMMA ReceiveAcceptSyncTypeOK ==
    ASSUME TypeOK, NEW from \in Server, NEW s \in Server, ReceiveAcceptSync(from, s)
    PROVE  TypeOK'
<1> DEFINE m == Msg(from, s)
           st == SyncLog(store[s], m.n, m.decided, m.sync)
           accepted == [type |-> "Accepted", n |-> m.n, accIdx |-> Len(st.log)]
           out == To(from, accepted)
           own == [FreshFast EXCEPT !.prefixHash = m.hash]
<1>1. /\ net[from][s] # <<>> /\ m.n \in Ballot /\ m.seq \in SeqNum /\ m.decided \in Nat
      /\ m.sync \in LogSync /\ m.hash \in Hash
      /\ m.n = store[s].promise /\ state[s].role = "Follower"
    BY ArrivesType, MessageFields DEF ReceiveAcceptSync, TypeOK, IsFollower
<1>2. /\ store' = [store EXCEPT ![s] = st]
      /\ state' = [state EXCEPT ![s] = [role |-> "Follower", phase |-> "Accept",
                                        seq |-> m.seq, cached |-> None]]
      /\ fast' = [fast EXCEPT ![s] = own]
      /\ Receive(from, s, out)
      /\ UNCHANGED <<lead, dom, submitted, faults>>
    BY DEF ReceiveAcceptSync
<1> HIDE DEF m
<1>3. st \in Stored /\ st.promise = store[s].promise /\ st.accRound = store[s].promise
    BY <1>1, SyncLogType DEF TypeOK, StoreOK
<1> HIDE DEF st
<1>4. IsOut(out) /\ \A t \in Server : \A x \in Range(out[t]) : IsMessage(x)
    <2>1. IsMessage(accepted)
        BY <1>1, <1>3, LenProperties DEF IsMessage, Stored
    <2> HIDE DEF accepted
    <2> QED BY <2>1, ToOut
<1>5. DOMAIN own = {"unsynced", "prefixHash", "unsyncedHash"} /\ IsUnsynced(own.unsynced)
      /\ own.prefixHash \in Hash /\ own.unsyncedHash \in Hash
    BY <1>1, EmptyUnsynced DEF FreshFast, Hash
<1> HIDE DEF own, out
<1>6. NetOK'
    BY <1>1, <1>2, <1>4, ReceiveNet DEF TypeOK
<1>7. StateOK'
    BY <1>1, <1>2 DEF TypeOK, StateOK
<1>8. StoreOK' /\ LeadOK' /\ BallotsOrdered'
    <2>1. \A t \in Server : state'[t].role = "Leader" => state[t].role = "Leader"
        BY <1>1, <1>2 DEF TypeOK, StateOK
    <2> QED BY <1>2, <1>3, <2>1, FollowerStepTypeOK
<1>9. FastOK'
    BY <1>2, <1>5 DEF TypeOK, FastOK
<1>10. DomOK' /\ BoundsOK'
    BY <1>2 DEF TypeOK, DomOK, BoundsOK
<1> QED BY <1>6, <1>7, <1>8, <1>9, <1>10 DEF TypeOK

\* ReceiveAcceptDecide keeps the shape of every variable.
LEMMA ReceiveAcceptDecideTypeOK ==
    ASSUME TypeOK, NEW from \in Server, NEW s \in Server, ReceiveAcceptDecide(from, s)
    PROVE  TypeOK'
<1> DEFINE m == Msg(from, s)
           log == Append(store[s].log, m.e[2])
           decided == IF m.decided > store[s].decided THEN Min({m.decided, Len(log)})
                      ELSE store[s].decided
           st == [store[s] EXCEPT !.log = log, !.decided = decided]
           tail == PreservedTail(fast[s].unsynced, m.e)
           own == RebuildUnsynced(Len(log), m.hash, tail)
           accepted == [type |-> "Accepted", n |-> m.n, accIdx |-> Len(log)]
           out == To(PidOf(m.n), accepted)
<1>1. /\ net[from][s] # <<>> /\ m.n \in Ballot /\ m.seq \in SeqNum /\ m.decided \in Nat
      /\ m.e \in Key /\ m.hash \in Hash
    BY ArrivesType, MessageFields DEF ReceiveAcceptDecide, TypeOK
<1>2. /\ store' = [store EXCEPT ![s].log = log,
                                ![s].decided = IF m.decided > @ THEN Min({m.decided, Len(log)}) ELSE @]
      /\ state' = [state EXCEPT ![s].seq = m.seq]
      /\ fast' = [fast EXCEPT ![s] = own]
      /\ dom' = [dom EXCEPT ![s] = RemoveFromBuffers(@, {m.e[2]})]
      /\ Receive(from, s, out)
      /\ UNCHANGED <<lead, submitted, faults>>
    BY DEF ReceiveAcceptDecide
<1>3. store[s] \in Stored /\ log \in Seq(EntryId) /\ Len(log) \in Nat
    BY <1>1, AppendProperties DEF TypeOK, StoreOK, Stored, Key
<1> HIDE DEF m, log
<1>4. decided \in Nat
    BY <1>1, <1>3, MinType DEF Stored
<1>5. st \in Stored /\ st.promise = store[s].promise /\ st.accRound = store[s].accRound
    <2> HIDE DEF decided
    <2> QED BY <1>3, <1>4 DEF Stored
<1>6. store' = [store EXCEPT ![s] = st]
    BY <1>2 DEF TypeOK, StoreOK
<1> HIDE DEF st
<1>7. DOMAIN own = {"unsynced", "prefixHash", "unsyncedHash"} /\ IsUnsynced(own.unsynced)
      /\ own.prefixHash \in Hash /\ own.unsyncedHash \in Hash
    <2>1. tail \in SUBSET Key /\ IsFiniteSet(tail)
        BY PreservedTailType DEF TypeOK, FastOK
    <2> HIDE DEF tail
    <2> QED BY <1>1, <1>3, <2>1, RebuildUnsyncedType DEF Hash
<1>8. IsOut(out) /\ \A t \in Server : \A x \in Range(out[t]) : IsMessage(x)
    <2>1. IsMessage(accepted)
        BY <1>1, <1>3 DEF IsMessage
    <2> HIDE DEF accepted
    <2> QED BY <2>1, ToOut
<1> HIDE DEF own, out
<1>9. NetOK'
    BY <1>1, <1>2, <1>8, ReceiveNet DEF TypeOK
<1>10. StateOK'
    BY <1>1, <1>2 DEF TypeOK, StateOK
<1>11. StoreOK' /\ LeadOK' /\ BallotsOrdered'
    <2>1. \A t \in Server : state'[t].role = "Leader" => state[t].role = "Leader"
        BY <1>2 DEF TypeOK, StateOK
    <2> QED BY <1>2, <1>5, <1>6, <2>1, FollowerStepTypeOK
<1>12. FastOK'
    BY <1>2, <1>7 DEF TypeOK, FastOK
<1>13. DomOK'
    BY <1>2, RemoveFromBuffersType DEF TypeOK, DomOK
<1>14. BoundsOK'
    BY <1>2 DEF TypeOK, BoundsOK
<1> QED BY <1>9, <1>10, <1>11, <1>12, <1>13, <1>14 DEF TypeOK

\* ReceiveDecide keeps the shape of every variable.
LEMMA ReceiveDecideTypeOK ==
    ASSUME TypeOK, NEW from \in Server, NEW s \in Server, ReceiveDecide(from, s)
    PROVE  TypeOK'
<1> DEFINE m == Msg(from, s)
           len == Len(store[s].log)
           decided == IF m.decided > store[s].decided THEN Min({m.decided, len}) ELSE store[s].decided
           st == [store[s] EXCEPT !.decided = decided]
           accepted == [type |-> "Accepted", n |-> m.n, accIdx |-> len]
           out == IF m.decided > store[s].decided /\ m.decided > len
                  THEN To(PidOf(m.n), accepted) ELSE Silent
<1>1. net[from][s] # <<>> /\ m.n \in Ballot /\ m.seq \in SeqNum /\ m.decided \in Nat
    BY ArrivesType, MessageFields DEF ReceiveDecide, TypeOK
<1>2. /\ store' = [store EXCEPT ![s].decided = IF m.decided > @ THEN Min({m.decided, len}) ELSE @]
      /\ state' = [state EXCEPT ![s].seq = m.seq]
      /\ Receive(from, s, out)
      /\ UNCHANGED <<fast, lead, dom, submitted, faults>>
    BY DEF ReceiveDecide
<1> HIDE DEF m
<1>3. store[s] \in Stored /\ len \in Nat
    BY LenProperties DEF TypeOK, StoreOK, Stored
<1> HIDE DEF len
<1>4. decided \in Nat
    BY <1>1, <1>3, MinType DEF Stored
<1>5. st \in Stored /\ st.promise = store[s].promise /\ st.accRound = store[s].accRound
    <2> HIDE DEF decided
    <2> QED BY <1>3, <1>4 DEF Stored
<1>6. store' = [store EXCEPT ![s] = st]
    BY <1>2 DEF TypeOK, StoreOK
<1> HIDE DEF st
<1>7. IsOut(out) /\ \A t \in Server : \A x \in Range(out[t]) : IsMessage(x)
    <2>1. IsMessage(accepted)
        BY <1>1, <1>3 DEF IsMessage
    <2> HIDE DEF accepted
    <2> QED BY <2>1, ToOut, SilentOut
<1> HIDE DEF out
<1>8. NetOK'
    BY <1>1, <1>2, <1>7, ReceiveNet DEF TypeOK
<1>9. StateOK'
    BY <1>1, <1>2 DEF TypeOK, StateOK
<1>10. StoreOK' /\ LeadOK' /\ BallotsOrdered'
    <2>1. \A t \in Server : state'[t].role = "Leader" => state[t].role = "Leader"
        BY <1>2 DEF TypeOK, StateOK
    <2> QED BY <1>2, <1>5, <1>6, <2>1, FollowerStepTypeOK
<1>11. FastOK' /\ DomOK' /\ BoundsOK'
    BY <1>2 DEF TypeOK, FastOK, DomOK, BoundsOK
<1> QED BY <1>8, <1>9, <1>10, <1>11 DEF TypeOK

\* What a leader decides on a vote, and what it then sends.
LEMMA DecisionTypeOK ==
    ASSUME TypeOK, NEW from \in Server, NEW s \in Server, net[from][s] # <<>>,
           state[s].role = "Leader", NEW ls, IsLeaderState(ls), ls.n = lead[s].n,
           NEW idx \in Nat, NEW done, IsDecision(done, ls, store[s], idx),
           store' = [store EXCEPT ![s] = done.store], lead' = [lead EXCEPT ![s] = done.lead],
           Receive(from, s, done.out), UNCHANGED <<state, fast, dom, submitted, faults>>
    PROVE  TypeOK'
<1>1. store[s] \in Stored
    BY DEF TypeOK, StoreOK
<1>2. /\ done.store \in Stored /\ done.store.promise = store[s].promise
      /\ done.store.accRound = store[s].accRound
    BY <1>1 DEF IsDecision, Stored
<1>3. IsLeaderState(done.lead) /\ done.lead.n = lead[s].n
    BY DEF IsDecision
<1>4. StoreOK' /\ LeadOK' /\ BallotsOrdered'
    BY <1>2, <1>3, LeaderStepTypeOK
<1>5. NetOK'
    BY ReceiveNet DEF IsDecision, TypeOK
<1>6. StateOK' /\ FastOK' /\ DomOK' /\ BoundsOK'
    BY DEF TypeOK, StateOK, FastOK, DomOK, BoundsOK
<1> QED BY <1>4, <1>5, <1>6 DEF TypeOK

\* What handle_accepted and handle_fast_accepted decide.
LEMMA AcceptedDecision ==
    ASSUME TypeOK, NEW from \in Server, NEW s \in Server, ReceiveAccepted(from, s)
    PROVE  LET idx == Msg(from, s).accIdx
               ls == [lead[s] EXCEPT !.accIdx[from] = idx]
               chosen == idx > store[s].decided /\ IsChosen(ls, idx)
               done == IF chosen THEN DecideUpTo(ls, store[s], idx)
                       ELSE [store |-> store[s], lead |-> ls, out |-> Silent]
           IN  /\ net[from][s] # <<>> /\ state[s].role = "Leader" /\ idx \in Nat
               /\ IsLeaderState(ls) /\ ls.n = lead[s].n /\ ls.promises = lead[s].promises
               /\ IsDecision(done, ls, store[s], idx)
<1> DEFINE idx == Msg(from, s).accIdx
           ls == [lead[s] EXCEPT !.accIdx[from] = idx]
           chosen == idx > store[s].decided /\ IsChosen(ls, idx)
           done == IF chosen THEN DecideUpTo(ls, store[s], idx)
                   ELSE [store |-> store[s], lead |-> ls, out |-> Silent]
<1>1. net[from][s] # <<>> /\ state[s].role = "Leader" /\ idx \in Nat
    BY ArrivesType, MessageFields DEF ReceiveAccepted, TypeOK, IsLeader
<1> HIDE DEF idx
<1>2. IsLeaderState(ls) /\ ls.n = lead[s].n /\ ls.promises = lead[s].promises
    BY <1>1 DEF TypeOK, LeadOK, IsLeaderState
<1> HIDE DEF ls
<1>3. IsDecision(done, ls, store[s], idx)
    <2>1. CASE chosen
        BY <1>1, <1>2, <2>1, DecideUpToType DEF TypeOK, StoreOK
    <2>2. CASE ~chosen
        <3>1. done.store = store[s] /\ done.lead = ls /\ done.out = Silent
            BY <2>2
        <3> HIDE DEF done
        <3> QED BY <1>2, <3>1, SilentOut DEF IsDecision
    <2> QED BY <2>1, <2>2
<1> HIDE DEF done
<1> QED BY <1>1, <1>2, <1>3 DEF idx, ls, done

\* The same for handle_fast_accepted.
LEMMA FastAcceptedDecision ==
    ASSUME TypeOK, NEW from \in Server, NEW s \in Server, ReceiveFastAccepted(from, s)
    PROVE  LET m == Msg(from, s)
               ls == [lead[s] EXCEPT !.map = SetAcceptedMap(@, m.idx, m.e, m.prefix, from, TRUE)]
               done == TryFastDecide(s, ls, store[s], m.idx)
           IN  /\ net[from][s] # <<>> /\ state[s].role = "Leader" /\ m.idx \in Nat
               /\ IsLeaderState(ls) /\ ls.n = lead[s].n /\ ls.promises = lead[s].promises
               /\ IsDecision(done, ls, store[s], m.idx)
<1> DEFINE m == Msg(from, s)
           map == SetAcceptedMap(lead[s].map, m.idx, m.e, m.prefix, from, TRUE)
           ls == [lead[s] EXCEPT !.map = SetAcceptedMap(@, m.idx, m.e, m.prefix, from, TRUE)]
<1>1. net[from][s] # <<>> /\ state[s].role = "Leader"
      /\ m.idx \in Nat /\ m.e \in Key /\ m.prefix \in Hash
    BY ArrivesType, MessageFields DEF ReceiveFastAccepted, TypeOK, IsLeader
<1>2. IsAcceptedMap(map)
    BY <1>1, SetAcceptedMapType DEF TypeOK, LeadOK, IsLeaderState, IsAcceptedMap
<1>3. ls = [lead[s] EXCEPT !.map = map]
    OBVIOUS
<1> HIDE DEF map
<1>4. IsLeaderState(ls) /\ ls.n = lead[s].n /\ ls.promises = lead[s].promises
    BY ZenonT(60), <1>2, <1>3 DEF TypeOK, LeadOK, IsLeaderState, IsAcceptedMap
<1> HIDE DEF ls
<1>5. IsDecision(TryFastDecide(s, ls, store[s], m.idx), ls, store[s], m.idx)
    BY SMTT(30), <1>1, <1>4, TryFastDecideType DEF TypeOK, StoreOK
<1> QED BY <1>1, <1>4, <1>5 DEF ls

\* ReceiveAccepted keeps the shape of every variable.
LEMMA ReceiveAcceptedTypeOK ==
    ASSUME TypeOK, NEW from \in Server, NEW s \in Server, ReceiveAccepted(from, s)
    PROVE  TypeOK'
BY ZenonT(60), AcceptedDecision, DecisionTypeOK DEF ReceiveAccepted

\* ReceiveFastAccepted keeps the shape of every variable.
LEMMA ReceiveFastAcceptedTypeOK ==
    ASSUME TypeOK, NEW from \in Server, NEW s \in Server, ReceiveFastAccepted(from, s)
    PROVE  TypeOK'
BY FastAcceptedDecision, DecisionTypeOK DEF ReceiveFastAccepted

\* A step that only takes and sends messages, and may reset the phase of s to Recover.
LEMMA QuietStep ==
    ASSUME TypeOK, NEW s \in Server, NetOK', BoundsOK', UNCHANGED <<store, fast, lead, dom>>,
           \/ UNCHANGED state
           \/ state' = [state EXCEPT ![s].role = "Follower", ![s].phase = "Recover"]
           \/ state' = [state EXCEPT ![s].phase = "Recover"]
    PROVE  TypeOK'
<1>1. StateOK' /\ \A t \in Server : state'[t].role = "Leader" => state[t].role = "Leader"
    BY DEF TypeOK, StateOK
<1>2. BallotsOrdered'
    BY <1>1 DEF TypeOK, BallotsOrdered
<1>3. StoreOK' /\ FastOK' /\ LeadOK' /\ DomOK'
    BY DEF TypeOK, StoreOK, FastOK, LeadOK, DomOK
<1> QED BY <1>1, <1>2, <1>3 DEF TypeOK

\* A request for a Prepare message, to some peers or to one.
LEMMA PrepareReqOut ==
    ASSUME TypeOK, NEW s \in Server, NEW T
    PROVE  /\ IsOut(ToAll(T, PrepareReqMsg(s)))
           /\ \A t \in Server : \A m \in Range(ToAll(T, PrepareReqMsg(s))[t]) :
                  IsMessage(m) /\ m.type = "PrepareReq"
<1>1. IsMessage(PrepareReqMsg(s)) /\ PrepareReqMsg(s).type = "PrepareReq"
    BY PrepareReqMsgType DEF TypeOK
<1>2. IsOut(ToAll(T, PrepareReqMsg(s))) /\ \A t \in Server :
          Range(ToAll(T, PrepareReqMsg(s))[t]) = IF t \in T THEN {PrepareReqMsg(s)} ELSE {}
    BY ToAllOut
<1> QED BY <1>1, <1>2

\* Reconnected keeps the shape of every variable.
LEMMA ReconnectedTypeOK ==
    ASSUME TypeOK, NEW s \in Server, NEW pid, Reconnected(s, pid)
    PROVE  TypeOK'
<1>1. NetOK'
    BY PrepareReqOut, SendNet DEF Reconnected, To, TypeOK
<1>2. BoundsOK'
    BY DEF Reconnected, TypeOK, BoundsOK
<1>3. UNCHANGED <<store, fast, lead, dom>>
      /\ (\/ UNCHANGED state
          \/ state' = [state EXCEPT ![s].role = "Follower", ![s].phase = "Recover"])
    BY DEF Reconnected, Reconnect
<1> QED BY <1>1, <1>2, <1>3, QuietStep

\* DetectDropped keeps the shape of every variable.
LEMMA DetectDroppedTypeOK ==
    ASSUME TypeOK, NEW from \in Server, NEW s \in Server, DetectDropped(from, s)
    PROVE  TypeOK'
<1>1. net[from][s] # <<>>
    BY DEF DetectDropped, Arrives
<1>2. NetOK'
    BY <1>1, PrepareReqOut, ReceiveNet DEF DetectDropped, To, TypeOK
<1>3. BoundsOK'
    BY DEF DetectDropped, TypeOK, BoundsOK
<1>4. UNCHANGED <<store, fast, lead, dom>>
      /\ (\/ UNCHANGED state
          \/ state' = [state EXCEPT ![s].role = "Follower", ![s].phase = "Recover"])
    BY DEF DetectDropped, Reconnect
<1> QED BY <1>2, <1>3, <1>4, QuietStep

\* RejectOldBallot keeps the shape of every variable.
LEMMA RejectOldBallotTypeOK ==
    ASSUME TypeOK, NEW from \in Server, NEW s \in Server, RejectOldBallot(from, s)
    PROVE  TypeOK'
<1> DEFINE msg == [type |-> "NotAccepted", n |-> store[s].promise]
           out == To(PidOf(Msg(from, s).n), msg)
<1>1. net[from][s] # <<>> /\ Receive(from, s, out) /\ UNCHANGED <<store, state, fast, lead, dom, submitted, faults>>
    BY DEF RejectOldBallot, Arrives
<1>2. IsOut(out) /\ \A t \in Server : \A m \in Range(out[t]) : IsMessage(m)
    <2>1. IsMessage(msg)
        BY DEF TypeOK, StoreOK, Stored, IsMessage
    <2> HIDE DEF msg
    <2> QED BY <2>1, ToOut
<1> HIDE DEF out
<1>3. NetOK'
    BY <1>1, <1>2, ReceiveNet DEF TypeOK
<1> QED BY <1>1, <1>3, QuietStep DEF TypeOK, BoundsOK

\* Ignore keeps the shape of every variable.
LEMMA IgnoreTypeOK ==
    ASSUME TypeOK, NEW from \in Server, NEW s \in Server, Ignore(from, s)
    PROVE  TypeOK'
<1>1. NetOK'
    BY SilentOut, ReceiveNet DEF Ignore, TypeOK
<1> QED BY <1>1, QuietStep DEF Ignore, TypeOK, BoundsOK

\* ResendAtLeader keeps the shape of every variable.
LEMMA ResendAtLeaderTypeOK ==
    ASSUME TypeOK, NEW s \in Server, ResendAtLeader(s)
    PROVE  TypeOK'
<1> DEFINE msg == PrepareMsg(lead[s].n, store[s])
           out == ToAll(PreparablePeers(lead[s], s), msg)
<1>1. Send(s, out) /\ UNCHANGED <<store, state, fast, lead, dom>>
    BY DEF ResendAtLeader
<1>2. IsOut(out) /\ \A t \in Server : \A m \in Range(out[t]) : IsMessage(m)
    <2>1. IsMessage(msg)
        BY PrepareMsgType DEF TypeOK, StoreOK, LeadOK, IsLeaderState
    <2>2. IsOut(out) /\ \A t \in Server :
              Range(out[t]) = IF t \in PreparablePeers(lead[s], s) THEN {msg} ELSE {}
        BY ToAllOut
    <2> HIDE DEF msg, out
    <2> QED BY <2>1, <2>2
<1> HIDE DEF out
<1>3. NetOK'
    BY <1>1, <1>2, SendNet DEF TypeOK
<1>4. BoundsOK'
    BY DEF ResendAtLeader, Resend, TypeOK, BoundsOK
<1> QED BY <1>1, <1>3, <1>4, QuietStep

\* ResendPromise keeps the shape of every variable.
LEMMA ResendPromiseTypeOK ==
    ASSUME TypeOK, NEW s \in Server, ResendPromise(s)
    PROVE  TypeOK'
<1> DEFINE out == To(PidOf(state[s].cached.n), state[s].cached)
<1>1. IsMessage(state[s].cached)
    BY DEF ResendPromise, TypeOK, StateOK, IsMessage
<1>2. IsOut(out) /\ \A t \in Server : \A m \in Range(out[t]) : IsMessage(m)
    BY <1>1, ToOut
<1>3. Send(s, out) /\ UNCHANGED <<store, state, fast, lead, dom>>
    BY DEF ResendPromise
<1> HIDE DEF out
<1>4. NetOK'
    BY <1>2, <1>3, SendNet DEF TypeOK
<1>5. BoundsOK'
    BY DEF ResendPromise, Resend, TypeOK, BoundsOK
<1> QED BY <1>3, <1>4, <1>5, QuietStep

\* ResendPrepareReq keeps the shape of every variable.
LEMMA ResendPrepareReqTypeOK ==
    ASSUME TypeOK, NEW s \in Server, ResendPrepareReq(s)
    PROVE  TypeOK'
<1>1. NetOK'
    BY PrepareReqOut, SendNet DEF ResendPrepareReq, TypeOK
<1>2. BoundsOK'
    BY DEF ResendPrepareReq, Resend, TypeOK, BoundsOK
<1> QED BY <1>1, <1>2, QuietStep DEF ResendPrepareReq

\* Lose keeps the shape of every variable.
LEMMA LoseTypeOK ==
    ASSUME TypeOK, NEW from \in Server, NEW s \in Server, Lose(from, s)
    PROVE  TypeOK'
<1> DEFINE taken == [net EXCEPT ![from][s] = Tail(@)]
<1>1. IsChannels(net) /\ net[from][s] # <<>> /\ net' = taken
    BY DEF Lose, TypeOK, NetOK, IsChannels, IsOut, IsQueue
<1>2. IsChannels(taken) /\ \A a, b \in Server : Range(taken[a][b]) \subseteq Range(net[a][b])
    BY <1>1, TakeQueues
<1> HIDE DEF taken
<1>3. NetOK'
    BY <1>1, <1>2 DEF TypeOK, NetOK, IsChannels, IsOut, IsQueue
<1>4. BoundsOK'
    BY DEF Lose, TypeOK, BoundsOK
<1> QED BY <1>3, <1>4, QuietStep DEF Lose

\* What the channels hold after a crash: nothing that was under way to the server.
LEMMA CrashNet ==
    ASSUME TypeOK, NEW s \in Server, NEW st, Restart(s, st)
    PROVE  /\ NetOK'
           /\ \A a, b \in Server : \A m \in Range(net'[a][b]) :
                  m \in Range(net[a][b]) \/ (a = s /\ m.type = "PrepareReq")
<1> DEFINE lost == [t \in Server |-> [net[t] EXCEPT ![s] = <<>>]]
           out == ToAll(Peers(s), PrepareReqMsg(s))
<1>1. IsOut(out) /\ \A t \in Server : \A m \in Range(out[t]) : IsMessage(m) /\ m.type = "PrepareReq"
    BY PrepareReqOut
<1>2. DOMAIN lost = Server /\ \A a \in Server : DOMAIN lost[a] = Server
      /\ \A b \in Server : lost[a][b] = IF b = s THEN <<>> ELSE net[a][b]
    BY DEF TypeOK, NetOK
<1>3. net' = Deliver(lost, s, out)
    BY DEF Restart
<1> HIDE DEF lost, out
<1>4. \A a, b \in Server : IsQueue(lost[a][b]) /\ Range(lost[a][b]) \subseteq Range(net[a][b])
    BY <1>2, EmptyQueue DEF TypeOK, NetOK, IsQueue
<1>5. IsChannels(lost)
    BY <1>2, <1>4 DEF IsChannels, IsOut
<1>6. IsChannels(net') /\ \A a, b \in Server : Range(net'[a][b]) \subseteq
                                   Range(lost[a][b]) \cup (IF a = s THEN Range(out[b]) ELSE {})
    BY <1>1, <1>3, <1>5, DeliverQueues
<1>7. \A a, b \in Server : \A m \in Range(net'[a][b]) :
          m \in Range(net[a][b]) \/ (a = s /\ IsMessage(m) /\ m.type = "PrepareReq")
    BY <1>1, <1>4, <1>6
<1>8. NetOK'
    BY <1>6, <1>7 DEF TypeOK, NetOK, IsChannels, IsOut, IsQueue
<1> QED BY <1>7, <1>8

\* A restart keeps the shape of every variable, if its storage has shape and promise.
LEMMA RestartTypeOK ==
    ASSUME TypeOK, NEW s \in Server, NEW st \in Stored, st.promise = store[s].promise,
           st.accRound <= st.promise, Restart(s, st)
    PROVE  TypeOK'
<1> DEFINE ls == LeaderStateWith(st.promise)
<1>1. IsLeaderState(ls)
    BY LeaderStateWithType DEF Stored
<1>2. /\ state' = [state EXCEPT ![s] = [role |-> "Follower", phase |-> "Recover",
                                        seq |-> Zero, cached |-> None]]
      /\ fast' = [fast EXCEPT ![s] = FreshFast] /\ lead' = [lead EXCEPT ![s] = ls]
      /\ dom' = [dom EXCEPT ![s] = FreshDom] /\ store' = [store EXCEPT ![s] = st]
      /\ faults' = [faults EXCEPT !.crashes = @ + 1] /\ UNCHANGED submitted
    BY DEF Restart
<1> HIDE DEF ls
<1>3. StateOK'
    BY <1>2 DEF TypeOK, StateOK, SeqNum, Zero
<1>4. FastOK'
    BY <1>2, EmptyUnsynced DEF TypeOK, FastOK, FreshFast, Hash
<1>5. LeadOK' /\ StoreOK' /\ BoundsOK'
    BY <1>1, <1>2 DEF TypeOK, LeadOK, StoreOK, BoundsOK
<1>6. DomOK'
    BY <1>2 DEF TypeOK, DomOK, FreshDom, NoKey
<1>7. BallotsOrdered'
    BY <1>2 DEF TypeOK, StateOK, LeadOK, BallotsOrdered
<1>8. NetOK'
    BY CrashNet
<1> QED BY <1>3, <1>4, <1>5, <1>6, <1>7, <1>8 DEF TypeOK

\* CrashRestart keeps the shape of every variable.
LEMMA CrashRestartTypeOK ==
    ASSUME TypeOK, NEW s \in Server, CrashRestart(s)
    PROVE  TypeOK'
<1>1. store[s] \in Stored /\ store[s].accRound <= store[s].promise
    BY DEF TypeOK, StoreOK, BallotsOrdered
<1> QED BY <1>1, RestartTypeOK DEF CrashRestart

\* A leader that crashes while it recovers has synchronised its log to its ballot.
LEMMA CrashInRecoveryStore ==
    ASSUME TypeOK, NEW from \in Server, NEW s \in Server, CrashInRecovery(from, s)
    PROVE  \E st \in Stored : st.promise = store[s].promise /\ st.accRound = st.promise /\ Restart(s, st)
<1> DEFINE ls == SetPromise(lead[s], Msg(from, s), from, TRUE)
           synced == SyncLog(store[s], ls.n, MaxDecided(ls), ls.maxSync)
           new == Recovered(ls, Len(synced.log))
           head(k) == [i \in 1..k |-> new[i][2]]
           left(k) == [synced EXCEPT !.log = @ \o head(k)]
<1>1. IsLeaderState(ls) /\ ls.n = lead[s].n
      /\ ls.promises = [lead[s].promises EXCEPT ![from] = Promised(Msg(from, s))]
    BY ZenonT(60), PromiseReceived DEF CrashInRecovery
<1>2. PICK k \in 0..Len(new) : Restart(s, left(k))
    BY ZenonT(60) DEF CrashInRecovery
<1>3. lead[s].n = store[s].promise
    BY DEF CrashInRecovery, IsLeader, TypeOK, BallotsOrdered
<1>4. HasPromised(ls) # {}
    <2>1. lead[s].promises \in [Server -> PromiseState]
        BY DEF TypeOK, LeadOK, IsLeaderState
    <2> HIDE DEF ls
    <2>2. ls.promises[from].type = "Promised"
        BY <1>1, <2>1 DEF Promised
    <2> QED BY <2>2 DEF HasPromised
<1> HIDE DEF ls
<1>5. synced \in Stored /\ synced.promise = store[s].promise /\ synced.accRound = lead[s].n
    <2>1. ls.n \in Ballot /\ MaxDecided(ls) \in Nat /\ ls.maxSync \in LogSync \cup {None}
        BY <1>1, <1>4, MaxDecidedType DEF IsLeaderState
    <2> QED BY <1>1, <2>1, SyncLogType DEF TypeOK, StoreOK
<1> HIDE DEF synced
<1>6. new \in Seq(Key)
    <2>1. Len(synced.log) \in Nat
        BY <1>5, LenProperties DEF Stored
    <2> QED BY <1>1, <2>1, RecoveredType DEF IsLeaderState
<1> HIDE DEF new
<1>7. synced.log \o head(k) \in Seq(EntryId)
    <2>1. k \in Nat /\ k <= Len(new)
        BY <1>2, <1>6, LenProperties
    <2>2. \A i \in 1..k : new[i][2] \in EntryId
        BY <1>6, <2>1, ElementOfSeq DEF Key
    <2>3. head(k) \in Seq(EntryId)
        BY <2>1, <2>2
    <2> HIDE DEF head
    <2> QED BY <1>5, <2>3, ConcatProperties DEF Stored
<1> HIDE DEF head
<1>8. left(k) \in Stored /\ left(k).promise = store[s].promise /\ left(k).accRound = lead[s].n
    BY <1>5, <1>7 DEF Stored
<1> QED BY <1>2, <1>3, <1>8

\* CrashInRecovery keeps the shape of every variable.
LEMMA CrashInRecoveryTypeOK ==
    ASSUME TypeOK, NEW from \in Server, NEW s \in Server, CrashInRecovery(from, s)
    PROVE  TypeOK'
<1>1. PICK st \in Stored : st.promise = store[s].promise /\ st.accRound = st.promise /\ Restart(s, st)
    BY CrashInRecoveryStore
<1>2. st.accRound <= st.promise
    BY <1>1 DEF Stored, Ballot
<1> QED BY <1>1, <1>2, RestartTypeOK

\* What an unsynced log is once the entries at other indices are gone.
LEMMA RestrictUnsynced ==
    ASSUME NEW own, IsUnsynced(own), NEW S \in SUBSET DOMAIN own
    PROVE  IsUnsynced(Restrict(own, S)) /\ IsFiniteSet(S)
BY FS_Subset DEF IsUnsynced, Restrict

\* What handle_majority_promises does, as far as shapes and ballots go.
IsMajorityStep(from, s, st, ls, own, out) ==
    /\ net[from][s] # <<>> /\ state[s].role = "Leader" /\ state[s].phase = "Prepare"
    /\ st \in Stored /\ st.promise = store[s].promise /\ st.accRound = lead[s].n
    /\ store' = [store EXCEPT ![s] = st]
    /\ IsLeaderState(ls) /\ ls.n = lead[s].n
    /\ ls.promises = [lead[s].promises EXCEPT ![from] = Promised(Msg(from, s))]
    /\ lead' = [lead EXCEPT ![s] = ls]
    /\ DOMAIN own = {"unsynced", "prefixHash", "unsyncedHash"} /\ IsUnsynced(own.unsynced)
    /\ own.prefixHash \in Hash /\ own.unsyncedHash \in Hash
    /\ fast' = [fast EXCEPT ![s] = own]
    /\ state' = [state EXCEPT ![s].phase = "Accept"]
    /\ DomOK'
    /\ Receive(from, s, out) /\ IsOut(out)
    /\ \A t \in Server : \A m \in Range(out[t]) :
           /\ IsMessage(m)
           /\ \/ m.type = "DomPropose"
              \/ m.type = "AcceptSync" /\ m.n = lead[s].n /\ t \in HasPromised(ls)

\* handle_majority_promises is such a step.
LEMMA MajorityStep ==
    ASSUME TypeOK, NEW from \in Server, NEW s \in Server, NEW ext \in Extensions,
           ReceivePromise(from, s, ext), CompletesQuorum(from, s)
    PROVE  \E st, ls, own, out : IsMajorityStep(from, s, st, ls, own, out)
<1> DEFINE ls == SetPromise(lead[s], Msg(from, s), from, TRUE)
           synced == SyncLog(store[s], ls.n, MaxDecided(ls), ls.maxSync)
           new == Recovered(ls, Len(synced.log))
           newIds == Ids(ToSet(new))
           tail == [i \in DOMAIN new |-> new[i][2]]
           st == [synced EXCEPT !.log = @ \o tail]
           hash == Xor(ls.maxHash, ToSet(new))
           own == fast[s].unsynced
           left == {i \in DOMAIN own : i > Len(st.log) /\ own[i].e[2] \notin newIds}
           recovered == ls.recovered \cup (newIds \ Ids({own[i].e : i \in DOMAIN own}))
           ls2 == [ls EXCEPT !.maxSync = None, !.accIdx[s] = Len(st.log), !.recovered = recovered]
           sync == SendAcceptSync(ls2, st, hash, PromisedFollowers(ls))
           own2 == [fast[s] EXCEPT !.unsynced = Restrict(own, left), !.prefixHash = hash]
<1>1. IsLeaderState(ls) /\ ls.n = lead[s].n /\ net[from][s] # <<>>
      /\ ls.promises = [lead[s].promises EXCEPT ![from] = Promised(Msg(from, s))]
    BY PromiseReceived DEF ReceivePromise
<1>2. /\ state[s].role = "Leader" /\ state[s].phase = "Prepare"
      /\ store' = [store EXCEPT ![s] = st]
      /\ lead' = [lead EXCEPT ![s] = sync.lead]
      /\ fast' = [fast EXCEPT ![s].unsynced = Restrict(own, left), ![s].prefixHash = hash]
      /\ state' = [state EXCEPT ![s].phase = "Accept"]
      /\ \E order \in SetToSeqs(left), deadline \in [left -> 1..MaxDeadline] :
           LET again == [k \in DOMAIN order |-> <<deadline[order[k]], own[order[k]].e[2]>>] IN
           /\ dom' = Buffered([dom EXCEPT ![s] = RemoveFromBuffers(@, newIds)], s, ToSet(again), ext)
           /\ Receive(from, s, Then(Proposals(s, again), sync.out))
    BY ZenonT(60) DEF ReceivePromise, HandleMajorityPromises, CompletesQuorum, IsLeader
<1>3. HasPromised(ls) # {}
    <2>1. lead[s].promises \in [Server -> PromiseState]
        BY DEF TypeOK, LeadOK, IsLeaderState
    <2> HIDE DEF ls
    <2>2. ls.promises[from].type = "Promised"
        BY <1>1, <2>1 DEF Promised
    <2> QED BY <2>2 DEF HasPromised
<1>4. own = fast[s].unsynced /\ IsUnsynced(own) /\ fast[s].unsyncedHash \in Hash
      /\ DOMAIN fast[s] = {"unsynced", "prefixHash", "unsyncedHash"}
    BY DEF TypeOK, FastOK
<1> HIDE DEF ls, own
<1>5. synced \in Stored /\ synced.promise = store[s].promise /\ synced.accRound = lead[s].n
    <2>1. ls.n \in Ballot /\ MaxDecided(ls) \in Nat /\ ls.maxSync \in LogSync \cup {None}
        BY <1>1, <1>3, MaxDecidedType DEF IsLeaderState
    <2> QED BY <1>1, <2>1, SyncLogType DEF TypeOK, StoreOK
<1> HIDE DEF synced
<1>6. new \in Seq(Key)
    <2>1. Len(synced.log) \in Nat
        BY <1>5, LenProperties DEF Stored
    <2> QED BY <1>1, <2>1, RecoveredType DEF IsLeaderState
<1> HIDE DEF new
<1>7. ToSet(new) \subseteq Key /\ newIds \subseteq EntryId /\ hash \in Hash
    <2>1. ToSet(new) \subseteq Key
        BY <1>6 DEF ToSet
    <2>2. newIds \subseteq EntryId
        BY <2>1 DEF Ids, Key
    <2>3. hash \in Hash
        <3>1. ToSet(new) \in Hash /\ ls.maxHash \in Hash
            BY <1>1, <2>1 DEF Hash, IsLeaderState
        <3> QED BY <3>1, XorType
    <2> QED BY <2>1, <2>2, <2>3
<1> HIDE DEF newIds, hash
<1>8. st \in Stored /\ st.promise = store[s].promise /\ st.accRound = lead[s].n
      /\ Len(st.log) \in Nat
    <2>1. tail \in Seq(EntryId)
        BY SMTT(30), <1>6 DEF Key
    <2> HIDE DEF tail
    <2>2. synced.log \o tail \in Seq(EntryId)
        BY <1>5, <2>1, ConcatProperties DEF Stored
    <2> QED BY <1>5, <2>2, LenProperties DEF Stored
<1> HIDE DEF st
<1>9. left \in SUBSET DOMAIN own /\ IsFiniteSet(left) /\ IsUnsynced(Restrict(own, left))
    BY <1>4, RestrictUnsynced
<1>10. IsLeaderState(ls2) /\ ls2.n = lead[s].n /\ ls2.promises = ls.promises
    <2>1. recovered \subseteq EntryId
        BY <1>1, <1>7 DEF IsLeaderState
    <2> HIDE DEF recovered
    <2> QED BY <1>1, <1>8, <2>1 DEF IsLeaderState
<1> HIDE DEF ls2
<1>11. IsSync(sync, ls2, PromisedFollowers(ls))
    <2>1. PromisedFollowers(ls) \in SUBSET HasPromised(ls2)
        BY <1>10 DEF PromisedFollowers, HasPromised
    <2> QED BY <1>7, <1>8, <1>10, <2>1, SendAcceptSyncType
<1> HIDE DEF sync
<1>12. PICK order \in SetToSeqs(left), deadline \in [left -> 1..MaxDeadline] :
           LET again == [k \in DOMAIN order |-> <<deadline[order[k]], own[order[k]].e[2]>>] IN
           /\ dom' = Buffered([dom EXCEPT ![s] = RemoveFromBuffers(@, newIds)], s, ToSet(again), ext)
           /\ Receive(from, s, Then(Proposals(s, again), sync.out))
    BY <1>2
<1> DEFINE again == [k \in DOMAIN order |-> <<deadline[order[k]], own[order[k]].e[2]>>]
           out == Then(Proposals(s, again), sync.out)
<1>13. again \in Seq(Key)
    <2>1. PICK n \in Nat : order \in [1..n -> left]
        BY <1>9, FS_CardinalityType DEF SetToSeqs
    <2>2. \A i \in left : own[i].e[2] \in EntryId /\ deadline[i] \in Nat
        <3>1. \A i \in left : own[i] \in UnsyncedEntry
            BY <1>4, <1>9 DEF IsUnsynced
        <3> HIDE DEF left
        <3> QED BY <3>1, BoundAssumption DEF UnsyncedEntry, Key
    <2> HIDE DEF left
    <2>3. \A k \in 1..n : <<deadline[order[k]], own[order[k]].e[2]>> \in Key
        BY <2>1, <2>2 DEF Key
    <2> QED BY <2>1, <2>3
<1> HIDE DEF left, again
<1>14. IsOut(out) /\ \A t \in Server : \A m \in Range(out[t]) :
           /\ IsMessage(m)
           /\ \/ m.type = "DomPropose"
              \/ m.type = "AcceptSync" /\ m.n = lead[s].n /\ t \in HasPromised(ls)
    <2>1. IsOut(Proposals(s, again)) /\ \A t \in Server : \A m \in Range(Proposals(s, again)[t]) :
              IsMessage(m) /\ m.type = "DomPropose"
        BY <1>13, ProposalsOut
    <2>2. IsOut(sync.out) /\ \A t \in Server : \A m \in Range(sync.out[t]) :
              IsMessage(m) /\ m.type = "AcceptSync" /\ m.n = lead[s].n /\ t \in HasPromised(ls)
        BY <1>10, <1>11 DEF IsSync, PromisedFollowers
    <2> QED BY <2>1, <2>2, ThenOut
<1>15. DomOK'
    <2>1. [dom EXCEPT ![s] = RemoveFromBuffers(@, newIds)]
              \in [Server -> [early : SUBSET Key, last : Nat \X Nat]]
        BY RemoveFromBuffersType DEF TypeOK, DomOK
    <2>2. ToSet(again) \in SUBSET Key /\ ext \in Nat
        BY <1>13, BoundAssumption DEF ToSet
    <2>3. dom' = Buffered([dom EXCEPT ![s] = RemoveFromBuffers(@, newIds)], s, ToSet(again), ext)
        BY <1>12 DEF again
    <2> QED BY <2>1, <2>2, <2>3, BufferedType DEF DomOK
<1>16. DOMAIN own2 = {"unsynced", "prefixHash", "unsyncedHash"} /\ IsUnsynced(own2.unsynced)
       /\ own2.prefixHash \in Hash /\ own2.unsyncedHash \in Hash
    BY <1>4, <1>7, <1>9
<1>17. fast' = [fast EXCEPT ![s] = own2]
    BY <1>2, <1>4 DEF TypeOK, FastOK
<1>18. Receive(from, s, out)
    BY <1>12 DEF again
<1>19. HasPromised(ls) = HasPromised(sync.lead) /\ sync.lead.promises = ls.promises
       /\ IsLeaderState(sync.lead) /\ sync.lead.n = lead[s].n
    BY <1>10, <1>11 DEF IsSync, HasPromised
<1> HIDE DEF own2, out
<1>20. IsMajorityStep(from, s, st, sync.lead, own2, out)
    BY ZenonT(60), <1>1, <1>2, <1>8, <1>14, <1>15, <1>16, <1>17, <1>18, <1>19 DEF IsMajorityStep
<1> QED BY <1>20

\* ReceivePromise with a read quorum keeps the shape of every variable.
LEMMA MajorityPromisesTypeOK ==
    ASSUME TypeOK, NEW from \in Server, NEW s \in Server, NEW ext \in Extensions,
           ReceivePromise(from, s, ext), CompletesQuorum(from, s)
    PROVE  TypeOK'
<1>1. PICK st, ls, own, out : IsMajorityStep(from, s, st, ls, own, out)
    BY MajorityStep
<1>2. StoreOK' /\ LeadOK' /\ BallotsOrdered'
    <2>1. \A t \in Server : state'[t].role = state[t].role
        BY <1>1 DEF IsMajorityStep, TypeOK, StateOK
    <2> QED BY <1>1, <2>1, LeaderStepTypeOK DEF IsMajorityStep
<1>3. NetOK'
    BY <1>1, ReceiveNet DEF IsMajorityStep, TypeOK
<1>4. StateOK'
    BY <1>1 DEF IsMajorityStep, TypeOK, StateOK
<1>5. FastOK'
    BY <1>1 DEF IsMajorityStep, TypeOK, FastOK
<1>6. DomOK'
    BY <1>1 DEF IsMajorityStep
<1>7. BoundsOK'
    BY ZenonT(60) DEF ReceivePromise, HandleMajorityPromises, CompletesQuorum, TypeOK, BoundsOK
<1> QED BY <1>2, <1>3, <1>4, <1>5, <1>6, <1>7 DEF TypeOK

--------------------------------------------------------------------------------
\* Type correctness

\* Every message handler keeps the shape.
LEMMA HandleTypeOK ==
    ASSUME TypeOK, NEW from \in Server, NEW s \in Server, Handle(from, s)
    PROVE  TypeOK'
<1>1. CASE \E ext \in Extensions : \/ ReceiveDomPropose(from, s, ext)
                                   \/ ReceivePromise(from, s, ext)
    BY <1>1, ReceiveDomProposeTypeOK, RecordPromiseTypeOK, MajorityPromisesTypeOK
<1>2. CASE \/ ReceivePrepare(from, s) \/ ReceiveLatePromise(from, s)
           \/ ReceivePrepareReq(from, s) \/ ReceiveNotAccepted(from, s)
    BY <1>2, ReceivePrepareTypeOK, ReceiveLatePromiseTypeOK,
       ReceivePrepareReqTypeOK, ReceiveNotAcceptedTypeOK
<1>3. CASE \/ ReceiveAcceptSync(from, s) \/ ReceiveAcceptDecide(from, s) \/ ReceiveDecide(from, s)
           \/ ReceiveAccepted(from, s) \/ ReceiveFastAccepted(from, s)
    BY <1>3, ReceiveAcceptSyncTypeOK, ReceiveAcceptDecideTypeOK, ReceiveDecideTypeOK,
       ReceiveAcceptedTypeOK, ReceiveFastAcceptedTypeOK
<1>4. CASE RejectOldBallot(from, s) \/ DetectDropped(from, s) \/ Ignore(from, s)
    BY <1>4, RejectOldBallotTypeOK, DetectDroppedTypeOK, IgnoreTypeOK
<1> QED BY <1>1, <1>2, <1>3, <1>4 DEF Handle

\* Every step keeps the shape.
LEMMA NextTypeOK == TypeOK /\ [Next]_vars => TypeOK'
<1> SUFFICES ASSUME TypeOK, [Next]_vars
             PROVE  TypeOK'
    OBVIOUS
<1>1. CASE \E s \in Proposers, id \in EntryId, deadline \in 1..MaxDeadline, ext \in Extensions :
               AppendWithId(s, id, deadline, ext)
    BY <1>1, AppendWithIdTypeOK, EntryAssumption
<1>2. CASE \E s \in Server : Elect(s)
    BY <1>2, BecomeLeaderTypeOK, BecomeFollowerTypeOK DEF Elect
<1>3. CASE \E s \in Server : Release(s)
    BY <1>3, ReleaseAtLeaderTypeOK, ReleaseAtFollowerTypeOK, ReleaseNothingTypeOK DEF Release
<1>4. CASE \E s \in Server : \/ ResendAtLeader(s) \/ ResendPromise(s) \/ ResendPrepareReq(s)
                             \/ CrashRestart(s)
    BY <1>4, ResendAtLeaderTypeOK, ResendPromiseTypeOK, ResendPrepareReqTypeOK, CrashRestartTypeOK
<1>5. CASE \E s \in Server : \E t \in Peers(s) : \/ Handle(t, s) \/ CrashInRecovery(t, s)
                                                   \/ Lose(t, s) \/ Reconnected(s, t)
    BY <1>5, HandleTypeOK, CrashInRecoveryTypeOK, LoseTypeOK, ReconnectedTypeOK DEF Peers
<1>6. CASE UNCHANGED vars
    BY <1>6 DEF vars, TypeOK, StoreOK, StateOK, FastOK, LeadOK, DomOK, NetOK, BoundsOK, BallotsOrdered
<1> QED BY <1>1, <1>2, <1>3, <1>4, <1>5, <1>6 DEF Next

\* Every variable keeps its shape in every handler, a server's log never belongs to a
\* ballot above its promise, and a leader leads its own ballot, the one it has promised:
\* for any number of servers, any ballots and any faults.
THEOREM TypeCorrect == Spec => []TypeOK
<1>1. Init => TypeOK
    BY InitTypeOK
<1>2. TypeOK /\ [Next]_vars => TypeOK'
    BY NextTypeOK
<1> QED BY <1>1, <1>2, PTL DEF Spec

--------------------------------------------------------------------------------
\* Promises bind: the inductive invariant

\* What rests on a promise: what a leader believes, what a follower may send again,
\* and every Promise and every leader's message under way.
PromisesHold ==
    /\ \A s, t \in Server : lead[s].promises[t].type = "Promised" => lead[s].n <= store[t].promise
    /\ \A s \in Server : state[s].cached # None => state[s].cached.n <= store[s].promise
    /\ \A s, t \in Server : \A m \in Range(net[s][t]) :
           /\ m.type = "Promise" => m.n <= store[s].promise
           /\ m.type \in FromLeader => m.n <= store[t].promise

\* Whoever is in the accept phase has a log of the ballot it has promised.
AcceptsInPromise ==
    \A s \in Server : state[s].phase = "Accept" => store[s].accRound = store[s].promise

BallotInv == TypeOK /\ PromisesHold /\ AcceptsInPromise

\* What every step does to the store, the leader states, the cached promises and the
\* channels.
StoreStep ==
    \A t \in Server :
        /\ store'[t].promise >= store[t].promise
        /\ store'[t].log # store[t].log => store'[t].accRound = store'[t].promise
        /\ state'[t].phase = "Accept" => store'[t].accRound = store'[t].promise
PromiseStep ==
    /\ \A s, t \in Server : lead'[s].promises[t].type = "Promised" => lead'[s].n <= store'[t].promise
    /\ \A s \in Server : state'[s].cached # None => state'[s].cached.n <= store'[s].promise
NetStep ==
    \A s, t \in Server : \A m \in Range(net'[s][t]) :
        \/ m \in Range(net[s][t])
        \/ /\ m.type = "Promise" => m.n <= store'[s].promise
           /\ m.type \in FromLeader => m.n <= store'[t].promise
BallotStep == StoreStep /\ PromiseStep /\ NetStep

\* Such a step keeps the invariant.
LEMMA BallotStepInv ==
    ASSUME BallotInv, TypeOK', BallotStep
    PROVE  BallotInv'
<1>1. \A t \in Server : store[t].promise \in Nat /\ store'[t].promise \in Nat
    BY DEF BallotInv, TypeOK, StoreOK, Stored, Ballot
<1>2. \A s, t \in Server : \A m \in Range(net[s][t]) :
          m.type \in {"Promise"} \cup FromLeader => m.n \in Nat
    <2> SUFFICES ASSUME NEW s \in Server, NEW t \in Server, NEW m \in Range(net[s][t]),
                        m.type \in {"Promise"} \cup FromLeader
                 PROVE  m.n \in Nat
        OBVIOUS
    <2>1. IsMessage(m)
        BY DEF BallotInv, TypeOK, NetOK
    <2>2. m.n \in Ballot
        BY <2>1, MessageFields DEF IsPromise, FromLeader
    <2> QED BY <2>2 DEF Ballot
<1>3. \A s, t \in Server : \A m \in Range(net'[s][t]) :
          /\ m.type = "Promise" => m.n <= store'[s].promise
          /\ m.type \in FromLeader => m.n <= store'[t].promise
    <2> SUFFICES ASSUME NEW s \in Server, NEW t \in Server, NEW m \in Range(net'[s][t])
                 PROVE  /\ m.type = "Promise" => m.n <= store'[s].promise
                        /\ m.type \in FromLeader => m.n <= store'[t].promise
        OBVIOUS
    <2>1. CASE m \in Range(net[s][t])
        <3>1. store'[s].promise >= store[s].promise /\ store'[t].promise >= store[t].promise
            BY DEF BallotStep, StoreStep
        <3>2. /\ m.type = "Promise" => m.n <= store[s].promise
              /\ m.type \in FromLeader => m.n <= store[t].promise
            BY <2>1 DEF BallotInv, PromisesHold
        <3> QED BY <1>1, <1>2, <2>1, <3>1, <3>2
    <2>2. CASE m \notin Range(net[s][t])
        BY <2>2 DEF BallotStep, NetStep
    <2> QED BY <2>1, <2>2
<1>4. PromisesHold'
    BY <1>3 DEF BallotStep, PromiseStep, PromisesHold
<1>5. AcceptsInPromise'
    BY DEF BallotStep, StoreStep, AcceptsInPromise
<1> QED BY <1>4, <1>5 DEF BallotInv

\* Messages that rest on nobody's promise.
IsFree(m) == m.type \notin {"Promise"} \cup FromLeader

\* A step that leaves store and leader states alone and sends only such messages.
LEMMA QuietBallotStep ==
    ASSUME BallotInv, UNCHANGED <<store, lead>>,
           \A t \in Server : /\ state'[t].cached = state[t].cached
                             /\ state'[t].phase = "Accept" => state[t].phase = "Accept",
           \A s, t \in Server : \A m \in Range(net'[s][t]) : m \in Range(net[s][t]) \/ IsFree(m)
    PROVE  BallotStep
<1>1. StoreStep
    BY DEF BallotInv, AcceptsInPromise, StoreStep, TypeOK, StoreOK, Stored, Ballot
<1>2. PromiseStep
    BY DEF BallotInv, PromisesHold, PromiseStep
<1>3. NetStep
    BY DEF NetStep, IsFree
<1> QED BY <1>1, <1>2, <1>3 DEF BallotStep

\* What carries no promise to anybody.
IsFreeOut(out) == IsOut(out) /\ \A t \in Server : \A m \in Range(out[t]) : IsFree(m)

\* Such messages to some servers, to one, or to none.
LEMMA FreeOuts ==
    ASSUME NEW m, IsFree(m), NEW T, NEW p
    PROVE  IsFreeOut(ToAll(T, m)) /\ IsFreeOut(To(p, m)) /\ IsFreeOut(Silent)
<1>1. IsFreeOut(ToAll(T, m))
    <2>1. IsOut(ToAll(T, m))
          /\ \A t \in Server : Range(ToAll(T, m)[t]) = IF t \in T THEN {m} ELSE {}
        BY ToAllOut
    <2> QED BY <2>1 DEF IsFreeOut
<1>2. IsFreeOut(To(p, m))
    BY ToOut DEF IsFreeOut
<1> QED BY <1>1, <1>2, SilentOut DEF IsFreeOut

\* A step that sends only such messages, or receives one and sends such an answer.
FreeStep(s, out) ==
    \/ Send(s, out)
    \/ \E from \in Server : net[from][s] # <<>> /\ Receive(from, s, out)

\* The channels gain only such messages.
LEMMA FreeAdds ==
    ASSUME TypeOK, NEW s \in Server, NEW out, IsFreeOut(out), FreeStep(s, out)
    PROVE  \A a, b \in Server : \A m \in Range(net'[a][b]) : m \in Range(net[a][b]) \/ IsFree(m)
BY ZenonT(60), SendAdds, ReceiveAdds DEF FreeStep, IsFreeOut, Adds, TypeOK

\* The steps that change neither a store nor a leader state.
LEMMA QuietSteps ==
    ASSUME BallotInv, NEW s \in Server, NEW out, IsFreeOut(out), FreeStep(s, out),
           UNCHANGED <<store, lead>>,
           \/ UNCHANGED state
           \/ state' = [state EXCEPT ![s].role = "Follower"]
           \/ state' = [state EXCEPT ![s].role = "Follower", ![s].phase = "Recover"]
           \/ state' = [state EXCEPT ![s].phase = "Recover"]
    PROVE  BallotStep
<1>1. \A t \in Server : /\ state'[t].cached = state[t].cached
                        /\ state'[t].phase = "Accept" => state[t].phase = "Accept"
    BY DEF BallotInv, TypeOK, StateOK
<1> QED BY <1>1, FreeAdds, QuietBallotStep DEF BallotInv

\* The same when nothing is sent or received.
LEMMA SilentQuietStep ==
    ASSUME BallotInv, UNCHANGED <<store, lead, net>>,
           \A t \in Server : /\ state'[t].cached = state[t].cached
                             /\ state'[t].phase = "Accept" => state[t].phase = "Accept"
    PROVE  BallotStep
BY QuietBallotStep

\* Appending an entry touches no promise.
LEMMA AppendBallot ==
    ASSUME BallotInv, NEW s \in Server, NEW id \in EntryId, NEW deadline \in 1..MaxDeadline,
           NEW ext \in Extensions, AppendWithId(s, id, deadline, ext)
    PROVE  BallotStep
<1> DEFINE out == Proposals(s, <<<<deadline, id>>>>)
<1>1. <<<<deadline, id>>>> \in Seq(Key)
    BY BoundAssumption DEF Key
<1>2. IsFreeOut(out)
    BY <1>1, ProposalsOut DEF IsFreeOut, IsFree, FromLeader
<1>3. FreeStep(s, out)
    BY DEF AppendWithId, FreeStep
<1> HIDE DEF out
<1> QED BY <1>2, <1>3, QuietSteps DEF AppendWithId

\* A fast vote touches no promise.
LEMMA ReleaseAtFollowerBallot ==
    ASSUME BallotInv, NEW s \in Server, NEW e, ReleaseAtFollower(s, e)
    PROVE  BallotStep
<1> DEFINE own == fast[s].unsynced
           vote == [type |-> "FastAccepted", n |-> store[s].promise,
                    idx |-> Len(store[s].log) + Cardinality(DOMAIN own) + 1,
                    e |-> e, prefix |-> Xor(fast[s].unsyncedHash, fast[s].prefixHash)]
           out == To(PidOf(store[s].promise), vote)
<1>1. IsFree(vote)
    BY DEF IsFree, FromLeader
<1>2. FreeStep(s, out)
    BY DEF ReleaseAtFollower, FreeStep
<1> HIDE DEF vote
<1>3. IsFreeOut(out)
    BY <1>1, FreeOuts
<1> HIDE DEF out
<1> QED BY <1>2, <1>3, QuietSteps DEF ReleaseAtFollower

\* Neither a deposed leader nor a dropped proposal touches a promise.
LEMMA FollowBallot ==
    ASSUME BallotInv, NEW s \in Server, NEW b, NEW e, BecomeFollower(s, b) \/ ReleaseNothing(s, e)
    PROVE  BallotStep
<1>1. \A t \in Server : /\ state'[t].cached = state[t].cached
                        /\ state'[t].phase = "Accept" => state[t].phase = "Accept"
    BY DEF BecomeFollower, ReleaseNothing, BallotInv, TypeOK, StateOK
<1> QED BY <1>1, SilentQuietStep DEF BecomeFollower, ReleaseNothing

\* Messages that rest on nobody's promise, by type.
LEMMA FreeMessages ==
    /\ \A s \in Server : IsFree(PrepareReqMsg(s))
    /\ \A n, st : IsFree(PrepareMsg(n, st))
    /\ \A n : IsFree([type |-> "NotAccepted", n |-> n])
    /\ \A n, i : IsFree([type |-> "Accepted", n |-> n, accIdx |-> i])
BY DEF IsFree, FromLeader, PrepareReqMsg, PrepareMsg

\* The handlers that only take a message, and at most ask or refuse.
LEMMA QuietHandlersBallot ==
    ASSUME BallotInv, NEW from \in Server, NEW s \in Server,
           \/ \E ext \in Extensions : ReceiveDomPropose(from, s, ext)
           \/ Ignore(from, s) \/ RejectOldBallot(from, s) \/ DetectDropped(from, s)
    PROVE  BallotStep
<1>1. CASE \E ext \in Extensions : ReceiveDomPropose(from, s, ext)
    <2>1. FreeStep(s, Silent) /\ IsFreeOut(Silent)
        BY <1>1, SilentOut DEF ReceiveDomPropose, FreeStep, Arrives, IsFreeOut
    <2> QED BY <1>1, <2>1, QuietSteps DEF ReceiveDomPropose
<1>2. CASE Ignore(from, s)
    <2>1. FreeStep(s, Silent) /\ IsFreeOut(Silent)
        BY <1>2, SilentOut DEF Ignore, FreeStep, IsFreeOut
    <2> QED BY <1>2, <2>1, QuietSteps DEF Ignore
<1>3. CASE RejectOldBallot(from, s)
    <2> DEFINE msg == [type |-> "NotAccepted", n |-> store[s].promise]
               out == To(PidOf(Msg(from, s).n), msg)
    <2>1. FreeStep(s, out)
        BY <1>3 DEF RejectOldBallot, FreeStep, Arrives
    <2>2. IsFree(msg)
        BY FreeMessages
    <2> HIDE DEF msg
    <2>3. IsFreeOut(out)
        BY <2>2, FreeOuts
    <2> HIDE DEF out
    <2> QED BY <1>3, <2>1, <2>3, QuietSteps DEF RejectOldBallot
<1>4. CASE DetectDropped(from, s)
    <2> DEFINE out == To(PidOf(Msg(from, s).n), PrepareReqMsg(s))
    <2>1. FreeStep(s, out)
        BY <1>4 DEF DetectDropped, FreeStep, Arrives
    <2>2. IsFreeOut(out)
        BY FreeMessages, FreeOuts
    <2> HIDE DEF out
    <2>3. UNCHANGED state \/ state' = [state EXCEPT ![s].role = "Follower", ![s].phase = "Recover"]
        BY <1>4 DEF DetectDropped, Reconnect
    <2> QED BY <1>4, <2>1, <2>2, <2>3, QuietSteps DEF DetectDropped
<1> QED BY <1>1, <1>2, <1>3, <1>4

\* The timers and reconnections that only ask.
LEMMA QuietTimersBallot ==
    ASSUME BallotInv, NEW s \in Server,
           ResendAtLeader(s) \/ ResendPrepareReq(s) \/ \E pid \in Server : Reconnected(s, pid)
    PROVE  BallotStep
<1>1. CASE ResendAtLeader(s)
    <2> DEFINE msg == PrepareMsg(lead[s].n, store[s])
               out == ToAll(PreparablePeers(lead[s], s), msg)
    <2>1. FreeStep(s, out)
        BY <1>1 DEF ResendAtLeader, FreeStep
    <2>2. IsFreeOut(out)
        BY FreeMessages, FreeOuts
    <2> HIDE DEF out
    <2> QED BY <1>1, <2>1, <2>2, QuietSteps DEF ResendAtLeader
<1>2. CASE ResendPrepareReq(s)
    <2> DEFINE out == ToAll(Peers(s), PrepareReqMsg(s))
    <2>1. FreeStep(s, out)
        BY <1>2 DEF ResendPrepareReq, FreeStep
    <2>2. IsFreeOut(out)
        BY FreeMessages, FreeOuts
    <2> HIDE DEF out
    <2> QED BY <1>2, <2>1, <2>2, QuietSteps DEF ResendPrepareReq
<1>3. CASE \E pid \in Server : Reconnected(s, pid)
    <2>1. PICK pid \in Server : Reconnected(s, pid)
        BY <1>3
    <2> DEFINE out == To(pid, PrepareReqMsg(s))
    <2>2. FreeStep(s, out)
        BY <2>1 DEF Reconnected, FreeStep
    <2>3. IsFreeOut(out)
        BY FreeMessages, FreeOuts
    <2> HIDE DEF out
    <2>4. UNCHANGED state \/ state' = [state EXCEPT ![s].role = "Follower", ![s].phase = "Recover"]
        BY <2>1 DEF Reconnected, Reconnect
    <2> QED BY <2>1, <2>2, <2>3, <2>4, QuietSteps DEF Reconnected
<1> QED BY <1>1, <1>2, <1>3

\* A lost message breaks no promise.
LEMMA LoseBallot ==
    ASSUME BallotInv, NEW from \in Server, NEW s \in Server, Lose(from, s)
    PROVE  BallotStep
<1> DEFINE taken == [net EXCEPT ![from][s] = Tail(@)]
<1>1. IsChannels(net) /\ net[from][s] # <<>> /\ net' = taken
    BY DEF Lose, BallotInv, TypeOK, NetOK, IsChannels, IsOut, IsQueue
<1>2. \A a, b \in Server : Range(taken[a][b]) \subseteq Range(net[a][b])
    BY <1>1, TakeQueues
<1> HIDE DEF taken
<1> QED BY <1>1, <1>2, QuietBallotStep DEF Lose

\* A leader knows no promise above what the server has promised.
LEMMA PromisedAtLeast ==
    ASSUME BallotInv, NEW s \in Server, NEW t \in HasPromised(lead[s])
    PROVE  t \in Server /\ lead[s].n <= store[t].promise
BY DEF HasPromised, BallotInv, PromisesHold

\* The leader's steps on its own log: it has the promise of whomever it addresses.
LEMMA LeaderBallotStep ==
    ASSUME BallotInv, NEW s \in Server,
           NEW st \in Stored, store' = [store EXCEPT ![s] = st], st.promise = store[s].promise,
           st.log # store[s].log => st.accRound = st.promise,
           \A t \in Server : state'[t].cached = state[t].cached,
           \A t \in Server \ {s} : state'[t].phase = "Accept" => state[t].phase = "Accept",
           state'[s].phase = "Accept" => st.accRound = st.promise,
           NEW ls, lead' = [lead EXCEPT ![s] = ls], ls.n = lead[s].n,
           \A t \in Server : ls.promises[t].type = "Promised" => lead[s].n <= store[t].promise,
           NEW out, Adds(s, out),
           \A t \in Server : \A m \in Range(out[t]) :
               IsFree(m) \/ (m.type \in FromLeader /\ m.n <= store[t].promise)
    PROVE  BallotStep
<1>1. /\ store'[s] = st /\ lead'[s] = ls
      /\ \A t \in Server \ {s} : store'[t] = store[t] /\ lead'[t] = lead[t]
    BY DEF BallotInv, TypeOK, StoreOK, LeadOK
<1>2. \A t \in Server : store'[t].promise = store[t].promise /\ store[t].promise \in Nat
    BY <1>1 DEF BallotInv, TypeOK, StoreOK, Stored, Ballot
<1>3. StoreStep
    BY <1>1, <1>2 DEF StoreStep, BallotInv, AcceptsInPromise
<1>4. PromiseStep
    BY <1>1, <1>2 DEF PromiseStep, BallotInv, PromisesHold
<1>5. NetStep
    BY <1>2 DEF NetStep, Adds, IsFree, FromLeader
<1> QED BY <1>3, <1>4, <1>5 DEF BallotStep

\* The leader sends its entry, and a decision, to servers that have promised.
LEMMA ReleaseAtLeaderBallot ==
    ASSUME BallotInv, NEW s \in Server, NEW e \in dom[s].early, ReleaseAtLeader(s, e)
    PROVE  BallotStep
<1> DEFINE before == lead[s]
           prefix == fast[s].prefixHash
           hash == Xor(prefix, {e})
           st == [store[s] EXCEPT !.log = Append(@, e[2])]
           map == SetAcceptedMap(before.map, before.accIdx[s] + 1, e, prefix, s, FALSE)
           ls0 == [before EXCEPT !.map = map, !.accIdx[s] = Len(st.log)]
           ls == NextSeq(ls0, PromisedFollowers(before))
           accDec(t) == [type |-> "AcceptDecide", n |-> ls.n, seq |-> ls.seqs[t],
                         decided |-> st.decided, e |-> e, hash |-> hash]
           sent == [t \in Server |-> IF t \in PromisedFollowers(ls) THEN <<accDec(t)>> ELSE <<>>]
           done == TryFastDecide(s, ls, st, Len(st.log))
<1>1. e \in Key /\ e[2] \in EntryId
    BY DEF BallotInv, TypeOK, DomOK, Key
<1>2. st \in Stored /\ st.promise = store[s].promise /\ st.accRound = store[s].accRound
      /\ Len(st.log) \in Nat
    <2>1. store[s] \in Stored /\ store[s].log \in Seq(EntryId)
        BY DEF BallotInv, TypeOK, StoreOK, Stored
    <2>2. Append(store[s].log, e[2]) \in Seq(EntryId)
        BY <1>1, <2>1, AppendProperties
    <2> QED BY <2>1, <2>2, LenProperties DEF Stored
<1>3. hash \in Hash /\ prefix \in Hash
    <2>1. {e} \in Hash /\ prefix \in Hash
        BY <1>1 DEF Hash, BallotInv, TypeOK, FastOK
    <2> QED BY <2>1, XorType
<1>4. IsLeaderState(before)
    BY DEF BallotInv, TypeOK, LeadOK
<1>5. IsAcceptedMap(map)
    <2>1. before.accIdx[s] + 1 \in Nat /\ IsAcceptedMap(before.map)
        BY <1>4 DEF IsLeaderState, IsAcceptedMap
    <2> QED BY <1>1, <1>3, <2>1, SetAcceptedMapType
<1> HIDE DEF st, hash, map, prefix
<1>6. IsLeaderState(ls0) /\ ls0.n = before.n /\ ls0.promises = before.promises
    BY <1>2, <1>4, <1>5 DEF IsLeaderState, IsAcceptedMap
<1> HIDE DEF ls0
<1>7. IsLeaderState(ls) /\ ls.n = before.n /\ ls.promises = before.promises
    BY <1>6, NextSeqType
<1> HIDE DEF ls
<1>8. IsDecision(done, ls, st, Len(st.log))
    BY <1>2, <1>7, TryFastDecideType
<1> HIDE DEF done
<1>9. HasPromised(ls) = HasPromised(lead[s])
    BY <1>7 DEF HasPromised
<1>10. IsOut(sent) /\ \A t \in Server : \A m \in Range(sent[t]) :
           m.type = "AcceptDecide" /\ m.n = lead[s].n /\ t \in HasPromised(lead[s])
    <2>1. \A t \in Server : accDec(t).type = "AcceptDecide" /\ accDec(t).n = lead[s].n
        BY <1>7
    <2>2. DOMAIN sent = Server
          /\ \A t \in Server : sent[t] = IF t \in PromisedFollowers(ls) THEN <<accDec(t)>> ELSE <<>>
        OBVIOUS
    <2>3. PromisedFollowers(ls) \subseteq HasPromised(lead[s])
        BY SMTT(30), <1>9 DEF PromisedFollowers
    <2> HIDE DEF sent, accDec
    <2> QED BY <2>1, <2>2, <2>3, SingletonQueue, EmptyQueue DEF IsOut
<1>11. /\ store' = [store EXCEPT ![s] = done.store]
       /\ lead' = [lead EXCEPT ![s] = done.lead]
       /\ Send(s, Then(sent, done.out))
       /\ UNCHANGED state /\ state[s].phase = "Accept"
    BY DEF ReleaseAtLeader, CanRelease, st, hash, map, prefix, ls0, ls, done, sent, accDec
<1> HIDE DEF sent
<1>12. IsOut(done.out) /\ \A t \in Server : \A m \in Range(done.out[t]) :
           m.type = "Decide" /\ m.n = lead[s].n /\ t \in HasPromised(lead[s])
    BY <1>7, <1>8, <1>9 DEF IsDecision
<1> DEFINE out == Then(sent, done.out)
<1>13. IsOut(out) /\ \A t \in Server : \A m \in Range(out[t]) :
           m.type \in {"AcceptDecide", "Decide"} /\ m.n = lead[s].n /\ t \in HasPromised(lead[s])
    BY <1>10, <1>12, ThenOut
<1> HIDE DEF out
<1>14. Adds(s, out)
    BY <1>11, <1>13, SendAdds DEF BallotInv, TypeOK, out
<1>15. \A t \in Server : \A m \in Range(out[t]) : m.type \in FromLeader /\ m.n <= store[t].promise
    BY <1>13, PromisedAtLeast DEF FromLeader
<1>16. done.store \in Stored /\ done.store.promise = store[s].promise
       /\ done.store.accRound = store[s].accRound
    BY <1>2, <1>8 DEF IsDecision, Stored
<1>17. store[s].accRound = store[s].promise
    BY <1>11 DEF BallotInv, AcceptsInPromise
<1>18. done.lead.n = lead[s].n /\ \A t \in Server :
           done.lead.promises[t].type = "Promised" => lead[s].n <= store[t].promise
    BY <1>7, <1>8 DEF IsDecision, BallotInv, PromisesHold
<1> QED BY <1>11, <1>14, <1>15, <1>16, <1>17, <1>18, LeaderBallotStep

\* A promise that s receives for its own ballot binds the sender.
LEMMA PromiseBinds ==
    ASSUME BallotInv, NEW from \in Server, NEW s \in Server, Arrives(from, s, "Promise"),
           Msg(from, s).n = lead[s].n, NEW ls,
           ls.promises = [lead[s].promises EXCEPT ![from] = Promised(Msg(from, s))]
    PROVE  \A t \in Server : ls.promises[t].type = "Promised" => lead[s].n <= store[t].promise
<1>1. Msg(from, s) \in Range(net[from][s]) /\ Msg(from, s).type = "Promise"
    BY ArrivesType DEF BallotInv, TypeOK
<1>2. lead[s].n <= store[from].promise
    BY <1>1 DEF BallotInv, PromisesHold
<1>3. lead[s].promises \in [Server -> PromiseState]
    BY DEF BallotInv, TypeOK, LeadOK, IsLeaderState
<1>4. \A t \in Server : t # from => ls.promises[t] = lead[s].promises[t]
    BY <1>3
<1>5. \A t \in Server : lead[s].promises[t].type = "Promised" => lead[s].n <= store[t].promise
    BY DEF BallotInv, PromisesHold
<1> QED BY <1>2, <1>4, <1>5

\* A promise is recorded as its sender made it.
LEMMA RecordPromiseBallot ==
    ASSUME BallotInv, NEW from \in Server, NEW s \in Server, NEW ext \in Extensions,
           ReceivePromise(from, s, ext), ~CompletesQuorum(from, s)
    PROVE  BallotStep
<1> DEFINE ls == SetPromise(lead[s], Msg(from, s), from, TRUE)
<1>1. ls.n = lead[s].n /\ net[from][s] # <<>>
      /\ ls.promises = [lead[s].promises EXCEPT ![from] = Promised(Msg(from, s))]
    BY PromiseReceived DEF ReceivePromise, BallotInv
<1>2. lead' = [lead EXCEPT ![s] = ls] /\ Receive(from, s, Silent) /\ UNCHANGED <<store, state>>
    BY DEF ReceivePromise, CompletesQuorum
<1> HIDE DEF ls
<1>3. \A t \in Server : ls.promises[t].type = "Promised" => lead[s].n <= store[t].promise
    BY <1>1, PromiseBinds DEF ReceivePromise
<1>4. Adds(s, Silent) /\ \A t \in Server : Range(Silent[t]) = {}
    BY <1>1, <1>2, SilentOut, ReceiveAdds DEF BallotInv, TypeOK
<1>5. store[s] \in Stored /\ store' = [store EXCEPT ![s] = store[s]] /\ UNCHANGED state
    BY <1>2 DEF BallotInv, TypeOK, StoreOK
<1> HIDE DEF Silent
<1> QED BY <1>1, <1>2, <1>3, <1>4, <1>5, LeaderBallotStep DEF BallotInv, AcceptsInPromise

\* A late promiser is synchronised in the ballot it has promised.
LEMMA ReceiveLatePromiseBallot ==
    ASSUME BallotInv, NEW from \in Server, NEW s \in Server, ReceiveLatePromise(from, s)
    PROVE  BallotStep
<1> DEFINE ls == SetPromise(lead[s], Msg(from, s), from, FALSE)
           sync == SendAcceptSync(ls, store[s], fast[s].prefixHash, {from})
<1>1. IsLeaderState(ls) /\ ls.n = lead[s].n /\ net[from][s] # <<>>
      /\ ls.promises = [lead[s].promises EXCEPT ![from] = Promised(Msg(from, s))]
    BY PromiseReceived DEF ReceiveLatePromise, BallotInv
<1>2. lead' = [lead EXCEPT ![s] = sync.lead] /\ Receive(from, s, sync.out)
    BY DEF ReceiveLatePromise
<1>3. {from} \in SUBSET HasPromised(ls)
    <2>1. lead[s].promises \in [Server -> PromiseState]
        BY DEF BallotInv, TypeOK, LeadOK, IsLeaderState
    <2> HIDE DEF ls
    <2>2. ls.promises[from].type = "Promised"
        BY <1>1, <2>1 DEF Promised
    <2> QED BY <2>2 DEF HasPromised
<1> HIDE DEF ls
<1>4. IsSync(sync, ls, {from})
    BY <1>1, <1>3, SendAcceptSyncType DEF BallotInv, TypeOK, StoreOK, FastOK
<1> HIDE DEF sync
<1>5. \A t \in Server : ls.promises[t].type = "Promised" => lead[s].n <= store[t].promise
    BY <1>1, PromiseBinds DEF ReceiveLatePromise
<1>6. sync.lead.n = lead[s].n /\ \A t \in Server :
          sync.lead.promises[t].type = "Promised" => lead[s].n <= store[t].promise
    BY <1>1, <1>4, <1>5 DEF IsSync
<1>7. Adds(s, sync.out)
    BY <1>1, <1>2, <1>4, ReceiveAdds DEF IsSync, BallotInv, TypeOK
<1>8. \A t \in Server : \A m \in Range(sync.out[t]) : m.type \in FromLeader /\ m.n <= store[t].promise
    BY <1>1, <1>3, <1>4, <1>5 DEF IsSync, FromLeader, HasPromised
<1>9. store[s] \in Stored /\ store' = [store EXCEPT ![s] = store[s]] /\ UNCHANGED state
    BY DEF ReceiveLatePromise, BallotInv, TypeOK, StoreOK
<1> QED BY <1>2, <1>6, <1>7, <1>8, <1>9, LeaderBallotStep DEF BallotInv, AcceptsInPromise

\* With a majority the leader synchronises those that have promised.
LEMMA MajorityPromisesBallot ==
    ASSUME BallotInv, NEW from \in Server, NEW s \in Server, NEW ext \in Extensions,
           ReceivePromise(from, s, ext), CompletesQuorum(from, s)
    PROVE  BallotStep
<1>1. PICK st, ls, own, out : IsMajorityStep(from, s, st, ls, own, out)
    BY MajorityStep DEF BallotInv
<1>2. \A t \in Server : ls.promises[t].type = "Promised" => lead[s].n <= store[t].promise
    <2>1. Arrives(from, s, "Promise") /\ Msg(from, s).n = lead[s].n
        BY DEF ReceivePromise
    <2>2. ls.promises = [lead[s].promises EXCEPT ![from] = Promised(Msg(from, s))]
        BY <1>1 DEF IsMajorityStep
    <2> QED BY <2>1, <2>2, PromiseBinds
<1>3. Adds(s, out)
    BY <1>1, ReceiveAdds DEF IsMajorityStep, BallotInv, TypeOK
<1>4. \A t \in Server : \A m \in Range(out[t]) :
          IsFree(m) \/ (m.type \in FromLeader /\ m.n <= store[t].promise)
    <2> SUFFICES ASSUME NEW t \in Server, NEW m \in Range(out[t])
                 PROVE  IsFree(m) \/ (m.type \in FromLeader /\ m.n <= store[t].promise)
        OBVIOUS
    <2>1. m.type = "DomPropose" \/ (m.type = "AcceptSync" /\ m.n = lead[s].n /\ t \in HasPromised(ls))
        BY <1>1 DEF IsMajorityStep
    <2> QED BY <1>2, <2>1 DEF IsFree, FromLeader, HasPromised
<1>5. st.accRound = st.promise /\ st.promise = store[s].promise
    BY <1>1 DEF IsMajorityStep, BallotInv, TypeOK, BallotsOrdered
<1>6. /\ \A t \in Server : state'[t].cached = state[t].cached
      /\ \A t \in Server \ {s} : state'[t].phase = state[t].phase
    BY <1>1 DEF IsMajorityStep, BallotInv, TypeOK, StateOK
<1>7. st \in Stored /\ store' = [store EXCEPT ![s] = st] /\ lead' = [lead EXCEPT ![s] = ls]
      /\ ls.n = lead[s].n
    BY <1>1 DEF IsMajorityStep
<1> QED BY <1>2, <1>3, <1>4, <1>5, <1>6, <1>7, LeaderBallotStep

\* What the leader decides on a vote.
LEMMA DecisionBallot ==
    ASSUME BallotInv, NEW from \in Server, NEW s \in Server, net[from][s] # <<>>,
           NEW ls, ls.n = lead[s].n, ls.promises = lead[s].promises,
           NEW idx \in Nat, NEW done, IsDecision(done, ls, store[s], idx),
           store' = [store EXCEPT ![s] = done.store], lead' = [lead EXCEPT ![s] = done.lead],
           Receive(from, s, done.out), UNCHANGED state
    PROVE  BallotStep
<1>2. HasPromised(ls) = HasPromised(lead[s])
    BY DEF HasPromised
<1>3. Adds(s, done.out)
    BY ReceiveAdds DEF IsDecision, BallotInv, TypeOK
<1>4. \A t \in Server : \A m \in Range(done.out[t]) :
          m.type \in FromLeader /\ m.n <= store[t].promise
    BY <1>2, PromisedAtLeast DEF IsDecision, FromLeader
<1>5. done.store \in Stored /\ done.store.promise = store[s].promise
      /\ done.store.accRound = store[s].accRound /\ done.store.log = store[s].log
    <2>1. store[s] \in Stored
        BY DEF BallotInv, TypeOK, StoreOK
    <2> QED BY <2>1 DEF IsDecision, Stored
<1>6. done.lead.n = lead[s].n /\ \A t \in Server :
          done.lead.promises[t].type = "Promised" => lead[s].n <= store[t].promise
    BY DEF IsDecision, BallotInv, PromisesHold
<1> QED BY <1>3, <1>4, <1>5, <1>6, LeaderBallotStep DEF BallotInv, AcceptsInPromise

\* Accepted and FastAccepted decide only at servers that have promised.
LEMMA ReceiveAnswerBallot ==
    ASSUME BallotInv, NEW from \in Server, NEW s \in Server,
           ReceiveAccepted(from, s) \/ ReceiveFastAccepted(from, s)
    PROVE  BallotStep
<1>1. CASE ReceiveAccepted(from, s)
    BY <1>1, AcceptedDecision, DecisionBallot DEF ReceiveAccepted, BallotInv
<1>2. CASE ReceiveFastAccepted(from, s)
    BY ZenonT(60), <1>2, FastAcceptedDecision, DecisionBallot DEF ReceiveFastAccepted, BallotInv
<1> QED BY SMTT(30), <1>1, <1>2

\* A reset or refused promise is no longer counted.
LEMMA PrepareReqBallot ==
    ASSUME BallotInv, NEW from \in Server, NEW s \in Server,
           ReceivePrepareReq(from, s) \/ ReceiveNotAccepted(from, s)
    PROVE  BallotStep
<1>1. \E out, p : /\ Receive(from, s, out) /\ IsFreeOut(out) /\ net[from][s] # <<>>
                  /\ p.type # "Promised" /\ lead' = [lead EXCEPT ![s].promises[from] = p]
    <2>1. CASE ReceivePrepareReq(from, s)
        <3> DEFINE out == To(from, PrepareMsg(lead[s].n, store[s]))
        <3>1. IsFreeOut(out)
            BY FreeMessages, FreeOuts
        <3> QED BY <2>1, <3>1 DEF ReceivePrepareReq, Arrives, None
    <2>2. CASE ReceiveNotAccepted(from, s)
        <3>1. IsFreeOut(Silent)
            BY SilentOut DEF IsFreeOut
        <3> QED BY <2>2, <3>1 DEF ReceiveNotAccepted, Arrives, PromisedHigher
    <2> QED BY <2>1, <2>2
<1>2. UNCHANGED <<store, state>>
    BY DEF ReceivePrepareReq, ReceiveNotAccepted
<1>3. PICK out, p : /\ Receive(from, s, out) /\ IsFreeOut(out) /\ net[from][s] # <<>>
                    /\ p.type # "Promised" /\ lead' = [lead EXCEPT ![s].promises[from] = p]
    BY <1>1
<1> DEFINE ls == [lead[s] EXCEPT !.promises[from] = p]
<1>4. ls.n = lead[s].n /\ \A t \in Server :
          ls.promises[t].type = "Promised" => lead[s].n <= store[t].promise
    BY <1>3 DEF BallotInv, PromisesHold, TypeOK, LeadOK, IsLeaderState
<1>5. lead' = [lead EXCEPT ![s] = ls]
    BY <1>3
<1> HIDE DEF ls
<1>6. Adds(s, out)
    BY <1>3, ReceiveAdds DEF IsFreeOut, BallotInv, TypeOK
<1>7. store[s] \in Stored /\ store' = [store EXCEPT ![s] = store[s]]
    BY <1>2 DEF BallotInv, TypeOK, StoreOK
<1> QED BY <1>2, <1>3, <1>4, <1>5, <1>6, <1>7, LeaderBallotStep DEF IsFreeOut, BallotInv, AcceptsInPromise

\* A follower's step in the ballot it has promised.
LEMMA FollowerBallotStep ==
    ASSUME BallotInv, TypeOK', NEW s \in Server, NEW out, IsFreeOut(out), FreeStep(s, out),
           UNCHANGED lead, \A t \in Server \ {s} : store'[t] = store[t] /\ state'[t] = state[t],
           store'[s].promise = store[s].promise, store'[s].accRound = store[s].promise,
           state'[s].cached = None \/ state'[s].cached = state[s].cached
    PROVE  BallotStep
<1>1. StoreStep
    <2>1. \A t \in Server : store[t].promise \in Nat
        BY DEF BallotInv, TypeOK, StoreOK, Stored, Ballot
    <2>2. \A t \in Server : store'[t].promise = store[t].promise
        OBVIOUS
    <2>3. \A t \in Server : state'[t].phase = "Accept" => store'[t].accRound = store'[t].promise
        BY DEF BallotInv, AcceptsInPromise
    <2> QED BY <2>1, <2>2, <2>3 DEF StoreStep
<1>2. PromiseStep
    BY DEF PromiseStep, BallotInv, PromisesHold
<1>3. NetStep
    BY FreeAdds DEF NetStep, IsFree, BallotInv
<1> QED BY <1>1, <1>2, <1>3 DEF BallotStep

\* AcceptSync is applied in the promised ballot.
LEMMA ReceiveAcceptSyncBallot ==
    ASSUME BallotInv, TypeOK', NEW from \in Server, NEW s \in Server, ReceiveAcceptSync(from, s)
    PROVE  BallotStep
<1> DEFINE m == Msg(from, s)
           st == SyncLog(store[s], m.n, m.decided, m.sync)
           out == To(from, [type |-> "Accepted", n |-> m.n, accIdx |-> Len(st.log)])
<1>1. /\ net[from][s] # <<>> /\ m.n \in Ballot /\ m.decided \in Nat /\ m.sync \in LogSync
      /\ m.n = store[s].promise
    BY ArrivesType, MessageFields DEF ReceiveAcceptSync, BallotInv, TypeOK
<1>2. st.promise = store[s].promise /\ st.accRound = store[s].promise
    BY <1>1, SyncLogType DEF BallotInv, TypeOK, StoreOK
<1>3. /\ store' = [store EXCEPT ![s] = st]
      /\ state' = [state EXCEPT ![s] = [role |-> "Follower", phase |-> "Accept",
                                        seq |-> m.seq, cached |-> None]]
      /\ Receive(from, s, out) /\ UNCHANGED lead
    BY DEF ReceiveAcceptSync
<1>4. IsFreeOut(out)
    BY FreeMessages, FreeOuts
<1> HIDE DEF m, st, out
<1>5. FreeStep(s, out)
    BY <1>1, <1>3 DEF FreeStep
<1>6. /\ \A t \in Server \ {s} : store'[t] = store[t] /\ state'[t] = state[t]
      /\ store'[s] = st /\ state'[s].cached = None
    BY <1>3 DEF BallotInv, TypeOK, StoreOK, StateOK
<1> QED BY <1>2, <1>3, <1>4, <1>5, <1>6, FollowerBallotStep

\* AcceptDecide and Decide are applied in the promised ballot.
LEMMA ReceiveDecisionBallot ==
    ASSUME BallotInv, TypeOK', NEW from \in Server, NEW s \in Server,
           ReceiveAcceptDecide(from, s) \/ ReceiveDecide(from, s)
    PROVE  BallotStep
<1>1. \E out : IsFreeOut(out) /\ FreeStep(s, out)
    <2>1. CASE ReceiveAcceptDecide(from, s)
        <3> DEFINE m == Msg(from, s)
                   log == Append(store[s].log, m.e[2])
                   out == To(PidOf(m.n), [type |-> "Accepted", n |-> m.n, accIdx |-> Len(log)])
        <3>1. FreeStep(s, out)
            BY <2>1 DEF ReceiveAcceptDecide, FreeStep, Arrives
        <3>2. IsFreeOut(out)
            BY FreeMessages, FreeOuts
        <3> QED BY <3>1, <3>2
    <2>2. CASE ReceiveDecide(from, s)
        <3> DEFINE m == Msg(from, s)
                   len == Len(store[s].log)
                   answers == m.decided > store[s].decided /\ m.decided > len
                   accepted == [type |-> "Accepted", n |-> m.n, accIdx |-> len]
                   out == IF answers THEN To(PidOf(m.n), accepted) ELSE Silent
        <3>1. FreeStep(s, out)
            BY <2>2 DEF ReceiveDecide, FreeStep, Arrives
        <3>2. IsFreeOut(To(PidOf(m.n), accepted)) /\ IsFreeOut(Silent)
            BY FreeMessages, FreeOuts
        <3>3. IsFreeOut(out)
            BY <3>2
        <3> QED BY <3>1, <3>3
    <2> QED BY <2>1, <2>2
<1>2. /\ \A t \in Server \ {s} : store'[t] = store[t] /\ state'[t] = state[t]
      /\ store'[s].promise = store[s].promise /\ store'[s].accRound = store[s].accRound
      /\ state'[s].cached = state[s].cached /\ UNCHANGED lead /\ state[s].phase = "Accept"
    BY SMTT(30) DEF ReceiveAcceptDecide, ReceiveDecide, IsFollower, BallotInv, TypeOK, StoreOK, StateOK, Stored
<1>3. store[s].accRound = store[s].promise
    BY <1>2 DEF BallotInv, AcceptsInPromise
<1> QED BY <1>1, <1>2, <1>3, FollowerBallotStep

\* A new leader promises its own ballot, above everything it promised before.
LEMMA BecomeLeaderBallot ==
    ASSUME BallotInv, NEW s \in Server, NEW b \in 1..MaxBallot, BecomeLeader(s, b)
    PROVE  BallotStep
<1> DEFINE st == [store[s] EXCEPT !.promise = b]
           own == [n |-> b, nAccepted |-> st.accRound, decided |-> st.decided,
                   accIdx |-> Len(st.log), sync |-> None,
                   unsync |-> fast[s].unsynced, hash |-> fast[s].prefixHash]
           ls == SetPromise(LeaderStateWith(b), own, s, TRUE)
           out == ToAll(Peers(s), PrepareMsg(b, st))
<1>1. b \in Ballot /\ b > store[s].promise /\ store[s].promise \in Nat
    BY BallotAssumption DEF BecomeLeader, Ballot, BallotInv, TypeOK, StoreOK, Stored
<1>2. st \in Stored /\ st.promise = b /\ st.log = store[s].log
    BY <1>1 DEF BallotInv, TypeOK, StoreOK, Stored
<1> HIDE DEF st
<1>3. IsPromiseData(own)
    BY <1>2, LenProperties DEF IsPromiseData, Stored, BallotInv, TypeOK, FastOK
<1> HIDE DEF own
<1>4. ls.n = b /\ ls.promises = [[t \in Server |-> None] EXCEPT ![s] = Promised(own)]
    <2>1. IsLeaderState(LeaderStateWith(b)) /\ LeaderStateWith(b).n = b
          /\ LeaderStateWith(b).promises = [t \in Server |-> None]
        BY <1>1, LeaderStateWithType DEF LeaderStateWith
    <2> DEFINE ls0 == LeaderStateWith(b)
    <2>2. IsLeaderState(ls0)
        BY <2>1
    <2> HIDE DEF ls0
    <2>3. \A check \in BOOLEAN :
              /\ SetPromise(ls0, own, s, check).n = ls0.n
              /\ SetPromise(ls0, own, s, check).promises = [ls0.promises EXCEPT ![s] = Promised(own)]
        BY SMTT(30), <1>3, <2>2, SetPromiseType
    <2>4. ls = SetPromise(ls0, own, s, TRUE)
        BY DEF ls0
    <2> HIDE DEF ls
    <2>5. ls.n = ls0.n /\ ls.promises = [ls0.promises EXCEPT ![s] = Promised(own)]
        BY <2>3, <2>4
    <2> QED BY <2>1, <2>5 DEF ls0
<1>5. /\ store' = [store EXCEPT ![s] = st] /\ lead' = [lead EXCEPT ![s] = ls]
      /\ FreeStep(s, out)
      /\ state' = [state EXCEPT ![s].role = "Leader", ![s].phase = "Prepare"]
    BY DEF BecomeLeader, FreeStep, st, own
<1>6. IsFreeOut(out)
    BY FreeMessages, FreeOuts
<1> HIDE DEF ls, out
<1>7. /\ store'[s] = st /\ lead'[s] = ls /\ state'[s].cached = state[s].cached
      /\ state'[s].phase = "Prepare"
      /\ \A t \in Server \ {s} : /\ store'[t] = store[t] /\ lead'[t] = lead[t]
                                 /\ state'[t] = state[t]
    BY <1>5 DEF BallotInv, TypeOK, StoreOK, LeadOK, StateOK
<1>8. \A t \in Server : store'[t].promise >= store[t].promise
    <2>1. \A t \in Server : store[t].promise \in Nat
        BY DEF BallotInv, TypeOK, StoreOK, Stored, Ballot
    <2> QED BY <1>1, <1>2, <1>7, <2>1 DEF Ballot
<1>9. StoreStep
    BY <1>2, <1>7, <1>8 DEF StoreStep, BallotInv, AcceptsInPromise
<1>10. PromiseStep
    <2>1. \A t \in Server : lead'[s].promises[t].type = "Promised" => lead'[s].n <= store'[t].promise
        <3>1. \A t \in Server : t # s => ls.promises[t] = None
            BY <1>4
        <3>2. lead'[s].n <= store'[s].promise
            BY <1>1, <1>2, <1>4, <1>7 DEF Ballot
        <3> QED BY <1>7, <3>1, <3>2 DEF None
    <2>2. \A u \in Server \ {s}, t \in Server :
              lead'[u].promises[t].type = "Promised" => lead'[u].n <= store'[t].promise
        <3>1. \A u \in Server \ {s}, t \in Server :
                  lead'[u].promises[t].type = "Promised" => lead'[u].n <= store[t].promise
            BY <1>7 DEF BallotInv, PromisesHold
        <3>2. \A u \in Server : lead[u].n \in Nat /\ store[u].promise \in Nat
            BY DEF BallotInv, TypeOK, StoreOK, LeadOK, IsLeaderState, Stored, Ballot
        <3>3. \A t \in Server : store'[t].promise \in Nat
            BY <1>1, <1>2, <1>7, <3>2 DEF Ballot
        <3> QED BY <1>7, <1>8, <3>1, <3>2, <3>3
    <2>3. \A u \in Server : state'[u].cached # None => state'[u].cached.n <= store'[u].promise
        <3>1. \A u \in Server : state[u].cached # None =>
                  state[u].cached.n \in Nat /\ state[u].cached.n <= store[u].promise
            BY DEF BallotInv, PromisesHold, TypeOK, StateOK, IsPromise, Ballot
        <3>2. state[s].cached # None => state[s].cached.n <= b
            BY <1>1, <3>1 DEF Ballot
        <3> QED BY <1>2, <1>7, <3>1, <3>2
    <2> QED BY <2>1, <2>2, <2>3 DEF PromiseStep
<1>11. NetStep
    BY <1>5, <1>6, FreeAdds DEF NetStep, IsFree, BallotInv
<1> QED BY <1>9, <1>10, <1>11 DEF BallotStep

\* A follower promises upwards, and says so.
LEMMA ReceivePrepareBallot ==
    ASSUME BallotInv, NEW from \in Server, NEW s \in Server, ReceivePrepare(from, s)
    PROVE  BallotStep
<1>1. \E promise : /\ promise.type = "Promise" /\ promise.n = Msg(from, s).n
                   /\ state' = [state EXCEPT ![s] = [role |-> "Follower", phase |-> "Prepare",
                                                     seq |-> Zero, cached |-> promise]]
                   /\ Receive(from, s, To(from, promise))
    BY DEF ReceivePrepare
<1>2. PICK promise : /\ promise.type = "Promise" /\ promise.n = Msg(from, s).n
                     /\ state' = [state EXCEPT ![s] = [role |-> "Follower", phase |-> "Prepare",
                                                       seq |-> Zero, cached |-> promise]]
                     /\ Receive(from, s, To(from, promise))
    BY <1>1
<1> DEFINE n == Msg(from, s).n
           out == To(from, promise)
<1>3. n \in Ballot /\ net[from][s] # <<>> /\ store[s].promise \in Nat
    BY ArrivesType, MessageFields DEF ReceivePrepare, BallotInv, TypeOK, StoreOK, Stored, Ballot
<1>4. /\ store' = [store EXCEPT ![s].promise = n] /\ UNCHANGED lead /\ store[s].promise <= n
    BY <1>3 DEF ReceivePrepare, PromisesTo, Ballot
<1>5. promise.n = n /\ promise.type = "Promise"
    BY <1>2
<1> HIDE DEF n
<1>6. /\ store'[s].promise = n /\ store'[s].log = store[s].log
      /\ state'[s].cached = promise /\ state'[s].phase = "Prepare"
      /\ \A t \in Server \ {s} : store'[t] = store[t] /\ state'[t] = state[t]
    BY <1>2, <1>4 DEF BallotInv, TypeOK, StoreOK, StateOK, Stored
<1>7. \A t \in Server : store'[t].promise >= store[t].promise
                        /\ store[t].promise \in Nat /\ store'[t].promise \in Nat
    <2>1. \A t \in Server : store[t].promise \in Nat
        BY DEF BallotInv, TypeOK, StoreOK, Stored, Ballot
    <2> QED BY <1>3, <1>4, <1>6, <2>1 DEF Ballot
<1>8. StoreStep
    BY <1>6, <1>7 DEF StoreStep, BallotInv, AcceptsInPromise
<1>9. PromiseStep
    <2>1. \A u, t \in Server :
              lead'[u].promises[t].type = "Promised" => lead'[u].n <= store'[t].promise
        <3>1. \A u, t \in Server : lead[u].promises[t].type = "Promised" => lead[u].n <= store[t].promise
            BY DEF BallotInv, PromisesHold
        <3>2. \A u \in Server : lead[u].n \in Nat
            BY DEF BallotInv, TypeOK, LeadOK, IsLeaderState, Ballot
        <3> QED BY <1>4, <1>7, <3>1, <3>2
    <2>2. \A u \in Server : state'[u].cached # None => state'[u].cached.n <= store'[u].promise
        <3>1. state'[s].cached.n <= store'[s].promise
            BY <1>3, <1>5, <1>6 DEF Ballot
        <3> QED BY <1>6, <3>1 DEF BallotInv, PromisesHold
    <2> QED BY <2>1, <2>2 DEF PromiseStep
<1>10. NetStep
    <2>1. IsOut(out) /\ \A t \in Server : \A m \in Range(out[t]) : m = promise
        BY ToOut
    <2>2. Adds(s, out)
        BY <1>2, <1>3, <2>1, ReceiveAdds DEF BallotInv, TypeOK
    <2> HIDE DEF out
    <2>3. n <= store'[s].promise
        BY <1>3, <1>6 DEF Ballot
    <2> QED BY <1>5, <2>1, <2>2, <2>3 DEF NetStep, Adds, FromLeader
<1> QED BY <1>8, <1>9, <1>10 DEF BallotStep

\* A promise sent again still holds.
LEMMA ResendPromiseBallot ==
    ASSUME BallotInv, NEW s \in Server, ResendPromise(s)
    PROVE  BallotStep
<1> DEFINE promise == state[s].cached
           out == To(PidOf(promise.n), promise)
<1>1. promise.type = "Promise" /\ promise.n <= store[s].promise
    BY DEF ResendPromise, BallotInv, PromisesHold, TypeOK, StateOK, IsPromise
<1>2. Send(s, out) /\ UNCHANGED <<store, state, lead>>
    BY DEF ResendPromise
<1>3. IsOut(out) /\ \A t \in Server : \A m \in Range(out[t]) : m = promise
    BY ToOut
<1>4. Adds(s, out)
    BY <1>2, <1>3, SendAdds DEF BallotInv, TypeOK
<1> HIDE DEF out
<1>5. NetStep
    BY <1>1, <1>2, <1>3, <1>4 DEF NetStep, Adds, FromLeader
<1>6. StoreStep
    <2>1. \A t \in Server : store[t].promise \in Nat
        BY DEF BallotInv, TypeOK, StoreOK, Stored, Ballot
    <2>2. \A t \in Server : store'[t] = store[t] /\ state'[t] = state[t]
        BY <1>2
    <2>3. \A t \in Server : store[t].promise >= store[t].promise
        BY <2>1
    <2> QED BY <2>2, <2>3 DEF StoreStep, BallotInv, AcceptsInPromise
<1>7. PromiseStep
    BY <1>2 DEF PromiseStep, BallotInv, PromisesHold
<1> QED BY <1>5, <1>6, <1>7 DEF BallotStep

\* A restarted server has forgotten no promise.
LEMMA RestartBallot ==
    ASSUME BallotInv, NEW s \in Server, NEW st \in Stored, st.promise = store[s].promise,
           st.log = store[s].log \/ st.accRound = st.promise, Restart(s, st)
    PROVE  BallotStep
<1>1. /\ store' = [store EXCEPT ![s] = st]
      /\ state'[s].phase = "Recover" /\ state'[s].cached = None
      /\ lead'[s].promises = [t \in Server |-> None]
      /\ \A t \in Server \ {s} : state'[t] = state[t] /\ lead'[t] = lead[t]
    BY DEF Restart, BallotInv, TypeOK, StateOK, LeadOK, LeaderStateWith
<1>2. StoreStep
    <2>1. \A t \in Server : store[t].promise \in Nat
        BY DEF BallotInv, TypeOK, StoreOK, Stored, Ballot
    <2>2. \A t \in Server : store'[t].promise = store[t].promise /\ store[t].promise >= store[t].promise
        BY <1>1, <2>1 DEF BallotInv, TypeOK, StoreOK
    <2>3. /\ store'[s] = st /\ state'[s].phase # "Accept"
          /\ \A t \in Server \ {s} : store'[t] = store[t]
        BY <1>1 DEF BallotInv, TypeOK, StoreOK
    <2>4. \A t \in Server : state'[t].phase = "Accept" => store'[t].accRound = store'[t].promise
        BY <1>1, <2>3 DEF BallotInv, AcceptsInPromise
    <2> QED BY <2>2, <2>3, <2>4 DEF StoreStep
<1>3. PromiseStep
    <2>1. \A t \in Server : store'[t].promise = store[t].promise
        BY <1>1 DEF BallotInv, TypeOK, StoreOK
    <2> QED BY <1>1, <2>1 DEF PromiseStep, BallotInv, PromisesHold, None
<1>4. NetStep
    BY CrashNet DEF NetStep, FromLeader, BallotInv
<1> QED BY <1>2, <1>3, <1>4 DEF BallotStep

\* So is one that restarts between two handlers or in handle_majority_promises.
LEMMA CrashBallot ==
    ASSUME BallotInv, NEW s \in Server,
           CrashRestart(s) \/ \E from \in Server : CrashInRecovery(from, s)
    PROVE  BallotStep
<1>1. CASE CrashRestart(s)
    <2>1. store[s] \in Stored
        BY DEF BallotInv, TypeOK, StoreOK
    <2> QED BY <1>1, <2>1, RestartBallot DEF CrashRestart
<1>2. CASE \E from \in Server : CrashInRecovery(from, s)
    BY <1>2, CrashInRecoveryStore, RestartBallot DEF BallotInv
<1> QED BY <1>1, <1>2

\* Every step respects the promises.
LEMMA NextBallotStep == BallotInv /\ [Next]_vars => BallotStep
<1> SUFFICES ASSUME BallotInv, [Next]_vars
             PROVE  BallotStep
    OBVIOUS
<1>1. TypeOK'
    BY NextTypeOK DEF BallotInv
<1>2. CASE \E s \in Proposers, id \in EntryId, deadline \in 1..MaxDeadline, ext \in Extensions :
               AppendWithId(s, id, deadline, ext)
    BY <1>2, AppendBallot, EntryAssumption
<1>3. CASE \E s \in Server : Elect(s)
    BY <1>3, BecomeLeaderBallot, FollowBallot DEF Elect
<1>4. CASE \E s \in Server : Release(s)
    BY <1>4, ReleaseAtLeaderBallot, ReleaseAtFollowerBallot, FollowBallot DEF Release
<1>5. CASE \E s \in Server : \/ ResendAtLeader(s) \/ ResendPromise(s) \/ ResendPrepareReq(s)
                             \/ CrashRestart(s)
    BY <1>5, QuietTimersBallot, ResendPromiseBallot, CrashBallot
<1>6. CASE \E s \in Server : \E t \in Peers(s) : CrashInRecovery(t, s) \/ Lose(t, s) \/ Reconnected(s, t)
    BY <1>6, CrashBallot, LoseBallot, QuietTimersBallot DEF Peers
<1>7. ASSUME NEW s \in Server, NEW from \in Peers(s), Handle(from, s)
      PROVE  BallotStep
    <2>1. from \in Server
        BY DEF Peers
    <2>2. CASE \/ \E ext \in Extensions : ReceiveDomPropose(from, s, ext)
               \/ Ignore(from, s) \/ RejectOldBallot(from, s) \/ DetectDropped(from, s)
        BY <2>1, <2>2, QuietHandlersBallot
    <2>3. CASE \/ \E ext \in Extensions : ReceivePromise(from, s, ext)
               \/ ReceivePrepare(from, s) \/ ReceiveLatePromise(from, s)
               \/ ReceivePrepareReq(from, s) \/ ReceiveNotAccepted(from, s)
        BY <2>1, <2>3, RecordPromiseBallot, MajorityPromisesBallot, ReceivePrepareBallot,
           ReceiveLatePromiseBallot, PrepareReqBallot
    <2>4. CASE \/ ReceiveAcceptSync(from, s) \/ ReceiveAcceptDecide(from, s) \/ ReceiveDecide(from, s)
               \/ ReceiveAccepted(from, s) \/ ReceiveFastAccepted(from, s)
        BY <1>1, <2>1, <2>4, ReceiveAcceptSyncBallot, ReceiveDecisionBallot, ReceiveAnswerBallot
    <2> QED BY <1>7, <2>2, <2>3, <2>4 DEF Handle
<1>8. CASE UNCHANGED vars
    <2>1. UNCHANGED <<store, state, lead, net>>
        BY <1>8 DEF vars
    <2> QED BY <2>1, SilentQuietStep
<1> QED BY <1>2, <1>3, <1>4, <1>5, <1>6, <1>7, <1>8 DEF Next

--------------------------------------------------------------------------------
\* Promises bind: the theorems

\* Initially nobody has promised anything.
LEMMA InitBallotInv == Init => BallotInv
<1> SUFFICES ASSUME Init PROVE BallotInv
    OBVIOUS
<1>1. TypeOK
    BY InitTypeOK
<1>2. AcceptsInPromise
    BY DEF Init, AcceptsInPromise
<1>3. PromisesHold
    BY EmptyQueue DEF Init, PromisesHold, LeaderStateWith, None
<1> QED BY <1>1, <1>2, <1>3 DEF BallotInv

\* The invariant that carries the promises through every step: what a leader takes for
\* promised, what a follower may send again and every message that rests on a promise is
\* bounded by that promise, and the accept phase runs in the promised ballot.
THEOREM BallotInvariance == Spec => []BallotInv
<1>1. Init => BallotInv
    BY InitBallotInv
<1>2. BallotInv /\ [Next]_vars => BallotInv'
    BY NextTypeOK, NextBallotStep, BallotStepInv DEF BallotInv
<1> QED BY <1>1, <1>2, PTL DEF Spec

\* No follower is ever sent AcceptSync, AcceptDecide or Decide in a ballot it has not
\* promised: check_valid_ballot's "Should never happen" branch is dead code.
THEOREM LeaderMessagesArePromised == Spec => []LeaderMessagesPromised
<1>1. BallotInv => LeaderMessagesPromised
    BY DEF BallotInv, PromisesHold, LeaderMessagesPromised, Range
<1> QED BY <1>1, BallotInvariance, PTL

\* Whatever is lost, resent or reordered by crashes, no server goes back on a promise or
\* writes its log outside the ballot it has promised.
THEOREM PromisesAreKept == Spec => PromiseKept
<1>1. BallotInv /\ [Next]_vars =>
          [\A s \in Server :
              /\ store'[s].promise >= store[s].promise
              /\ store'[s].log # store[s].log => store'[s].accRound = store'[s].promise]_vars
    BY NextBallotStep DEF BallotStep, StoreStep
<1> QED BY <1>1, BallotInvariance, PTL DEF Spec, PromiseKept
===============================================================================
