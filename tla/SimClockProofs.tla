--------------------------- MODULE SimClockProofs ---------------------------
(***************************************************************************)
(* The simulated clock is a physical clock whatever its drift, its period   *)
(* and its uncertainty, and however rarely it is read.  Only the clamping   *)
(* matters: the reading kept as a lower bound was in the range of an earlier *)
(* instant, so it never exceeds the upper bound of the present one.          *)
(***************************************************************************)
EXTENDS SimClock, TLAPS

\* Rust's division stays among the integers.
LEMMA QuotientType == ASSUME NEW x \in Int PROVE Quotient(x, 1000000) \in Int
  BY DEF Quotient

\* What compute_sim_time returns is a time.
LEMMA SimTimeType ==
  ASSUME NEW true \in Int, NEW off \in Int, NEW sync \in Int, drift \in Int
  PROVE  ComputeSimTime(true, off, sync) \in Int
<1>1. (true - sync) * drift \in Int
  OBVIOUS
<1>2. Quotient((true - sync) * drift, 1000000) \in Int
  BY <1>1, QuotientType
<1> QED
  BY <1>2 DEF ComputeSimTime

\* What catching up with the synchronisations leaves behind is made of integers.
LEMMA SyncedType ==
  ASSUME TypeOK
  PROVE  Synced.offset \in Int /\ Synced.sync \in Int /\ Synced.next \in Int
<1>1. SyncPeriod \in Int /\ SyncPeriod > 0
  BY ConfigAssumption
<1>2. (now - nextResync) \div SyncPeriod \in Int
  BY <1>1 DEF TypeOK
<1>3. ((now - nextResync) \div SyncPeriod) * SyncPeriod \in Int
  BY <1>1, <1>2
<1> QED
  BY <1>1, <1>3 DEF Synced, TypeOK

\* clamp_sim_time: a reading is not below the last one, and no further from true time
\* than the configured uncertainty, given that the last one was not either.
LEMMA Clamped ==
  ASSUME TypeOK, ReadingInRange, NEW sim \in Int
  PROVE  /\ ClampSimTime(sim) \in Int
         /\ lastSim <= ClampSimTime(sim)
         /\ now - SyncUncertainty <= ClampSimTime(sim)
         /\ ClampSimTime(sim) <= now + SyncUncertainty
  BY ConfigAssumption
  DEF TypeOK, ReadingInRange, ClampSimTime, Distance, Larger, Smaller

\* Two times in the same range are no further apart than its bound.
LEMMA DistanceWithin ==
  ASSUME NEW x \in Int, NEW y \in Int, NEW b \in Int, y - b <= x, x <= y + b
  PROVE  Distance(x, y) <= b
  BY DEF Distance, Larger

\* The uncertainties reported cover the error they are drawn for.
LEMMA UncertaintyCovers ==
  ASSUME NEW sim \in Int, NEW true \in Int, NEW u \in Uncertainties(sim, true)
  PROVE  u \in Nat /\ true - u <= sim /\ sim <= true + u
  BY ConfigAssumption DEF Uncertainties, Distance, Larger

\* A reading, with or without uncertainty.
LEMMA ReadStep ==
  ASSUME TypeOK, ReadingInRange, Read
  PROVE  /\ now' = now /\ drift' = drift
         /\ offset' \in Int /\ lastSync' \in Int /\ nextResync' \in Int
         /\ lastTrue' = now /\ lastSim' \in Int /\ lastSim <= lastSim'
         /\ now - SyncUncertainty <= lastSim' /\ lastSim' <= now + SyncUncertainty
<1> DEFINE sim == ComputeSimTime(now, Synced.offset, Synced.sync)
<1>1. Synced.offset \in Int /\ Synced.sync \in Int /\ Synced.next \in Int
  BY SyncedType
<1>2. drift \in Int
  BY ConfigAssumption DEF TypeOK
<1>3. sim \in Int
  BY <1>1, <1>2, SimTimeType DEF TypeOK
<1>4. /\ offset' = AdjustedOffset(Synced.offset, sim, ClampSimTime(sim))
      /\ lastSync' = Synced.sync /\ nextResync' = Synced.next
      /\ lastSim' = ClampSimTime(sim) /\ lastTrue' = now
      /\ now' = now /\ drift' = drift
  BY DEF Read
<1> HIDE DEF sim
<1>5. /\ ClampSimTime(sim) \in Int /\ lastSim <= ClampSimTime(sim)
      /\ now - SyncUncertainty <= ClampSimTime(sim)
      /\ ClampSimTime(sim) <= now + SyncUncertainty
  BY <1>3, Clamped
<1> QED
  BY <1>1, <1>3, <1>4, <1>5 DEF AdjustedOffset

-----------------------------------------------------------------------------
ClockInv == TypeOK /\ ReadingInRange

\* A new clock shows true time.
LEMMA ClockInvInit == Init => ClockInv
  BY ConfigAssumption, TimeAssumption
  DEF Init, ClockInv, TypeOK, ReadingInRange, Distance, Larger

\* Every call, and the passing of time, keeps the reading in range.
LEMMA ClockInvStep == ClockInv /\ [Next]_vars => ClockInv'
<1> SUFFICES ASSUME ClockInv, [Next]_vars PROVE ClockInv'
  OBVIOUS
<1> USE DEF ClockInv
<1>1. ASSUME NEW d \in Steps, Pass(d) PROVE ClockInv'
  <2>1. d \in Nat /\ now \in Int /\ lastTrue \in Int
    BY TimeAssumption DEF TypeOK
  <2> QED
    BY <1>1, <2>1 DEF Pass, TypeOK, ReadingInRange, Distance, Larger
<1>2. ASSUME Read, uncertainty' \in Nat PROVE ClockInv'
  <2>1. /\ now' = now /\ drift' = drift
        /\ offset' \in Int /\ lastSync' \in Int /\ nextResync' \in Int
        /\ lastTrue' = now /\ lastSim' \in Int
        /\ now - SyncUncertainty <= lastSim' /\ lastSim' <= now + SyncUncertainty
    BY <1>2, ReadStep
  <2>2. TypeOK'
    BY <1>2, <2>1 DEF TypeOK
  <2>3. ReadingInRange'
    <3>1. now \in Int /\ SyncUncertainty \in Int
      BY ConfigAssumption DEF TypeOK
    <3>2. Distance(lastSim', lastTrue') <= SyncUncertainty
      BY <2>1, <3>1, DistanceWithin
    <3>3. lastTrue' <= now'
      BY <2>1, <3>1
    <3> QED
      BY <3>2, <3>3 DEF ReadingInRange
  <2> QED
    BY <2>2, <2>3
<1>3. CASE GetTime
  BY <1>2, <1>3 DEF GetTime, TypeOK
<1>4. CASE GetTimeWithUncertainty
  <2>1. lastSim' \in Int /\ lastTrue' \in Int
    BY <1>4, ReadStep DEF GetTimeWithUncertainty, TypeOK
  <2>2. uncertainty' \in Uncertainties(lastSim', lastTrue')
    BY <1>4 DEF GetTimeWithUncertainty
  <2>3. uncertainty' \in Nat
    BY <2>1, <2>2, UncertaintyCovers
  <2> QED
    BY <1>2, <1>4, <2>3 DEF GetTimeWithUncertainty
<1>5. CASE GetUncertainty
  <2>1. uncertainty' \in Nat
    BY <1>5, UncertaintyCovers DEF GetUncertainty, TypeOK
  <2> QED
    BY <1>5, <2>1 DEF GetUncertainty, TypeOK, ReadingInRange
<1>6. CASE UNCHANGED vars
  BY <1>6 DEF vars, TypeOK, ReadingInRange
<1> QED
  BY <1>1, <1>3, <1>4, <1>5, <1>6 DEF Next

\* The clock's fields keep their shape (clock.rs, ClockState), and the last reading was
\* within the configured uncertainty of true time (clamp_sim_time).
THEOREM ClockInvariant == Spec => [](TypeOK /\ ReadingInRange)
<1>1. ClockInv => TypeOK /\ ReadingInRange
  BY DEF ClockInv
<1> QED
  BY ClockInvInit, ClockInvStep, <1>1, PTL DEF Spec

-----------------------------------------------------------------------------
\* Dividing by the period leaves less than a period.
LEMMA DivisionBounds ==
  ASSUME NEW x \in Int, NEW d \in Nat \ {0}
  PROVE  /\ x \div d \in Int /\ (x \div d) * d \in Int
         /\ (x \div d) * d <= x /\ x < (x \div d) * d + d
  OBVIOUS

\* A time that is a whole number of periods away from one on schedule is on schedule too.
LEMMA WholePeriods ==
  ASSUME NEW x \in Int, NEW d \in Nat \ {0}, NEW k \in Int, x % d = 0
  PROVE  (x + k * d) % d = 0
<1>1. x = (x \div d) * d
  OBVIOUS
<1>2. PICK q \in Int : x = q * d
  BY <1>1
<1>3. x + k * d = (q + k) * d
  BY <1>2
<1>4. ASSUME NEW n \in Int PROVE (n * d) % d = 0
  <2>1. PICK q2 \in Int, r \in Int : /\ q2 = (n * d) \div d /\ r = (n * d) % d
                                     /\ n * d = q2 * d + r /\ 0 <= r /\ r < d
    OBVIOUS
  <2>2. PICK e \in Int : e = n - q2
    OBVIOUS
  <2>3. e * d = r
    <3>1. PICK a \in Int, b \in Int : a = n * d /\ b = q2 * d
      OBVIOUS
    <3>2. e * d = a - b
      BY <2>2, <3>1
    <3>3. a = b + r
      BY <2>1, <3>1
    <3> HIDE <2>1
    <3> QED
      BY <3>2, <3>3
  <2>4. ~(e >= 1)
    <3>1. e >= 1 => e * d >= d
      OBVIOUS
    <3> QED
      BY <2>1, <2>3, <3>1
  <2>5. ~(e <= -1)
    <3>1. e <= -1 => e * d <= -d
      OBVIOUS
    <3> QED
      BY <2>1, <2>3, <3>1
  <2>6. e = 0
    BY <2>4, <2>5
  <2> QED
    BY <2>1, <2>3, <2>6
<1> QED
  BY <1>3, <1>4

\* Catching up ends at the last synchronisation that was due, with the next one ahead.
LEMMA CaughtUp ==
  ASSUME TypeOK, ReadingInRange, SyncOnSchedule
  PROVE  /\ (Synced.sync - BaseEpoch) % SyncPeriod = 0
         /\ Synced.next = Synced.sync + SyncPeriod
         /\ Synced.sync <= now /\ now < Synced.next
<1> DEFINE missed == (now - nextResync) \div SyncPeriod
<1>1. /\ now \in Int /\ lastSync \in Int /\ nextResync \in Int /\ lastTrue \in Int
      /\ BaseEpoch \in Int /\ SyncPeriod \in Nat \ {0} /\ SyncPeriod \in Int
  BY ConfigAssumption, TimeAssumption DEF TypeOK
<1>2. CASE now < nextResync
  BY <1>1, <1>2 DEF Synced, SyncOnSchedule, ReadingInRange
<1>3. CASE ~(now < nextResync)
  <2>1. /\ missed \in Int /\ missed * SyncPeriod \in Int
        /\ missed * SyncPeriod <= now - nextResync
        /\ now - nextResync < missed * SyncPeriod + SyncPeriod
    BY <1>1, DivisionBounds
  <2>2. Synced.sync = nextResync + missed * SyncPeriod /\ Synced.next = Synced.sync + SyncPeriod
    BY <1>3 DEF Synced
  <2> HIDE DEF missed
  <2>3. ((lastSync - BaseEpoch) + (missed + 1) * SyncPeriod) % SyncPeriod = 0
    <3>1. PICK x \in Int, k \in Int : x = lastSync - BaseEpoch /\ k = missed + 1
      BY <1>1, <2>1
    <3>2. x % SyncPeriod = 0
      BY <3>1 DEF SyncOnSchedule
    <3>3. (x + k * SyncPeriod) % SyncPeriod = 0
      BY <1>1, <3>2, WholePeriods
    <3> QED
      BY <3>1, <3>3
  <2>4. (missed + 1) * SyncPeriod = missed * SyncPeriod + SyncPeriod
    BY <1>1, <2>1
  <2>5. Synced.sync - BaseEpoch = (lastSync - BaseEpoch) + (missed + 1) * SyncPeriod
    BY <1>1, <2>1, <2>2, <2>4 DEF SyncOnSchedule
  <2> QED
    BY <1>1, <2>1, <2>2, <2>3, <2>5
<1> QED
  BY <1>2, <1>3

\* The properties of the schedule and of the offset together with what they rest on.
ScheduleInv == ClockInv /\ SyncOnSchedule /\ ReadingIsStable

\* A new clock is synchronised, and its offset is zero.
LEMMA ScheduleInit == Init => ScheduleInv
<1> SUFFICES ASSUME Init PROVE ScheduleInv
  OBVIOUS
<1>1. /\ BaseEpoch \in Int /\ SyncPeriod \in Nat \ {0} /\ drift \in Int
      /\ lastSync = BaseEpoch /\ lastTrue = BaseEpoch /\ lastSim = BaseEpoch /\ offset = 0
      /\ nextResync = BaseEpoch + SyncPeriod
  BY ConfigAssumption, TimeAssumption DEF Init
<1>2. SyncOnSchedule
  BY <1>1 DEF SyncOnSchedule
<1>3. ReadingIsStable
  <2>1. (BaseEpoch - BaseEpoch) * drift = 0
    BY <1>1
  <2>2. Quotient(0, 1000000) = 0
    BY DEF Quotient
  <2> QED
    BY <1>1, <2>1, <2>2 DEF ReadingIsStable, ComputeSimTime
<1> QED
  BY <1>2, <1>3, ClockInvInit DEF ScheduleInv

\* A reading catches up with the schedule and books its clamping in the offset; nothing
\* else touches the two.
LEMMA ScheduleStep == ScheduleInv /\ [Next]_vars => ScheduleInv'
<1> SUFFICES ASSUME ScheduleInv, [Next]_vars PROVE ScheduleInv'
  OBVIOUS
<1>1. TypeOK /\ ReadingInRange /\ SyncOnSchedule /\ ReadingIsStable /\ ClockInv
  BY DEF ScheduleInv, ClockInv
<1>2. ClockInv'
  BY <1>1, ClockInvStep
<1>3. CASE Read
  <2>1. /\ lastSync' = Synced.sync /\ nextResync' = Synced.next /\ lastTrue' = now
        /\ offset' = AdjustedOffset(Synced.offset, ComputeSimTime(now, Synced.offset, Synced.sync), lastSim')
        /\ drift' = drift /\ drift \in Int /\ now \in Int /\ lastSim' \in Int
        /\ Synced.offset \in Int /\ Synced.sync \in Int
    BY <1>1, <1>3, ReadStep, SyncedType, ConfigAssumption DEF Read, TypeOK
  <2>2. SyncOnSchedule'
    BY <1>1, <2>1, CaughtUp DEF SyncOnSchedule
  <2>3. ReadingIsStable'
    <3> DEFINE drifted == Quotient((now - Synced.sync) * drift, 1000000)
    <3>1. drifted \in Int
      <4>1. (now - Synced.sync) * drift \in Int
        BY <2>1
      <4> QED
        BY <4>1, QuotientType
    <3>2. /\ ComputeSimTime(now, Synced.offset, Synced.sync) = now + Synced.offset + drifted
          /\ ComputeSimTime(lastTrue, offset, lastSync)' = now + offset' + drifted
      BY <2>1 DEF ComputeSimTime
    <3> HIDE DEF drifted
    <3> QED
      BY <2>1, <3>1, <3>2 DEF ReadingIsStable, AdjustedOffset
  <2> QED
    BY <1>2, <2>2, <2>3 DEF ScheduleInv
<1>4. CASE UNCHANGED <<drift, offset, lastSim, lastTrue, lastSync, nextResync>>
  BY <1>1, <1>2, <1>4 DEF ScheduleInv, SyncOnSchedule, ReadingIsStable, ComputeSimTime
<1> QED
  BY <1>3, <1>4 DEF Next, Pass, GetTime, GetTimeWithUncertainty, GetUncertainty, vars

\* Every field of the clock keeps its shape, and no uncertainty is negative (ClockState).
THEOREM ClockHasShape == Spec => []TypeOK
<1> QED
  BY ClockInvariant, PTL

\* Synchronisations are due every period from the start and none is missed, however long
\* nobody reads the clock (resync_at).
THEOREM SynchronisedOnSchedule == Spec => []SyncOnSchedule
<1>1. ScheduleInv => SyncOnSchedule
  BY DEF ScheduleInv
<1> QED
  BY ScheduleInit, ScheduleStep, <1>1, PTL DEF Spec

\* Offset and drift give the last reading back, clampings and synchronisations included.
THEOREM ReadingsAreStable == Spec => []ReadingIsStable
<1>1. ScheduleInv => ReadingIsStable
  BY DEF ScheduleInv
<1> QED
  BY ScheduleInit, ScheduleStep, <1>1, PTL DEF Spec

-----------------------------------------------------------------------------
\* A new clock is a new physical clock.
LEMMA PhysicalInit == Init => Physical!ClockInit
  BY TimeAssumption DEF Init, Physical!ClockInit

\* Every step is a step of a physical clock, or changes nothing that one shows.
LEMMA PhysicalStep == ClockInv /\ [Next]_vars => [Physical!ClockNext]_(Physical!clockVars)
<1> SUFFICES ASSUME ClockInv, [Next]_vars
             PROVE  Physical!ClockNext \/ UNCHANGED <<lastTrue, lastSim, uncertainty>>
  BY DEF Physical!clockVars
<1> USE DEF ClockInv
<1>1. ASSUME NEW d \in Steps, Pass(d) PROVE UNCHANGED <<lastTrue, lastSim, uncertainty>>
  BY <1>1 DEF Pass
<1>2. CASE GetTime
  <2>1. lastTrue' >= lastTrue /\ lastSim' >= lastSim
    BY <1>2, ReadStep DEF GetTime, TypeOK, ReadingInRange
  <2> QED
    BY <1>2, <2>1 DEF GetTime, Physical!ClockNext, Physical!ReadTime
<1>3. CASE GetTimeWithUncertainty
  <2>1. lastTrue' >= lastTrue /\ lastSim' >= lastSim /\ lastTrue' \in Int /\ lastSim' \in Int
    BY <1>3, ReadStep DEF GetTimeWithUncertainty, TypeOK, ReadingInRange
  <2>2. uncertainty' \in Uncertainties(lastSim', lastTrue')
    BY <1>3 DEF GetTimeWithUncertainty
  <2>3. Physical!Within(lastSim', lastTrue', uncertainty')
    BY <2>1, <2>2, UncertaintyCovers DEF Physical!Within
  <2> QED
    BY <2>1, <2>3 DEF Physical!ClockNext, Physical!ReadTimeWithUncertainty
<1>4. CASE GetUncertainty
  <2>1. Physical!Within(lastSim, lastTrue, uncertainty')
    BY <1>4, UncertaintyCovers DEF GetUncertainty, TypeOK, Physical!Within
  <2> QED
    BY <1>4, <2>1 DEF GetUncertainty, Physical!ClockNext, Physical!ReadUncertainty
<1>5. CASE UNCHANGED vars
  BY <1>5 DEF vars
<1> QED
  BY <1>1, <1>2, <1>3, <1>4, <1>5 DEF Next

\* The simulated clock implements the contract the replicas rely on (PhysicalClock,
\* util.rs): monotone readings, and an uncertainty that covers the error.
THEOREM ImplementsPhysicalClock == Spec => IsPhysicalClock
<1> QED
  BY PhysicalInit, PhysicalStep, ClockInvInit, ClockInvStep, PTL
  DEF Spec, IsPhysicalClock, Physical!ClockSpec
===============================================================================
