------------------------------- MODULE SimClock -------------------------------
(***************************************************************************)
(* The benchmark's simulated clock (clock.rs): true time plus an offset and a *)
(* drift, resynchronised every period, clamped so that it never goes back    *)
(* and stays within the configured uncertainty.  One thread reads it.  The   *)
(* numbers are unbounded: i64 saturates 290,000 years from now.               *)
(***************************************************************************)
EXTENDS Integers

CONSTANTS
    Drifts,             \* drift_rate_us_per_sec, one is chosen
    SyncUncertainty,    \* sync_uncertainty_us
    SyncPeriod,         \* sync_period_us
    BaseEpoch,          \* base_epoch_us
    Steps,              \* bound: how much time passes between two readings
    MaxTime             \* bound: true time ends here

ASSUME ConfigAssumption == Drifts \subseteq Int /\ SyncUncertainty \in Nat /\ SyncPeriod \in Nat \ {0}
ASSUME TimeAssumption == BaseEpoch \in Nat /\ MaxTime \in Nat /\ Steps \subseteq Nat

VARIABLES
    now,            \* compute_true_time
    drift,
    offset,         \* base_sim_offset_us
    lastSim,        \* last_sim_us, always equal to last_sim_time
    lastTrue,       \* last_true_time
    lastSync,       \* last_sync_true_time
    nextResync,     \* next_resync_sim_us
    uncertainty     \* the uncertainty last reported

vars == <<now, drift, offset, lastSim, lastTrue, lastSync, nextResync, uncertainty>>

Larger(x, y) == IF x >= y THEN x ELSE y
Smaller(x, y) == IF x <= y THEN x ELSE y
Distance(x, y) == Larger(x - y, y - x)

\* Rust's division, which truncates towards zero
Quotient(x, d) == IF x >= 0 THEN x \div d ELSE -((-x) \div d)

Init ==
    /\ now = BaseEpoch /\ drift \in Drifts
    /\ offset = 0 /\ lastSim = BaseEpoch /\ lastTrue = BaseEpoch /\ lastSync = BaseEpoch
    /\ nextResync = BaseEpoch + SyncPeriod
    /\ uncertainty = 0

Pass(d) ==
    /\ now + d <= MaxTime
    /\ now' = now + d
    /\ UNCHANGED <<drift, offset, lastSim, lastTrue, lastSync, nextResync, uncertainty>>

\* Mutant of Synced: the next period starts at the reading that noticed the last.
SyncedFromNow ==
    IF now < nextResync
    THEN [offset |-> offset, sync |-> lastSync, next |-> nextResync]
    ELSE [offset |-> 0, sync |-> now, next |-> now + SyncPeriod]

\* The loop over resync_at: every missed synchronisation sets the clock to true
\* time, so the last one counts.
Synced ==
    IF now < nextResync
    THEN [offset |-> offset, sync |-> lastSync, next |-> nextResync]
    ELSE LET last == nextResync + ((now - nextResync) \div SyncPeriod) * SyncPeriod IN
         [offset |-> 0, sync |-> last, next |-> last + SyncPeriod]

ComputeSimTime(true, off, sync) == true + off + Quotient((true - sync) * drift, 1000000)

\* Mutant of ClampSimTime: the last reading is not a lower bound.
ClampToRange(sim) == Larger(now - SyncUncertainty, Smaller(sim, now + SyncUncertainty))

\* Mutant of ClampSimTime: no upper bound.
ClampFromBelow(sim) == Larger(Larger(lastSim, now - SyncUncertainty), sim)

\* clamp_sim_time with allowed_range
ClampSimTime(sim) ==
    LET lower == Larger(lastSim, now - SyncUncertainty) IN
    IF sim < lower THEN lower ELSE Smaller(sim, now + SyncUncertainty)

\* Mutant of AdjustedOffset: the offset forgets that the reading was clamped.
UnadjustedOffset(off, sim, clamped) == off

\* "Adjust offset to keep future reads consistent"
AdjustedOffset(off, sim, clamped) == off + (clamped - sim)

\* get_time: resynchronise, compute, clamp, and keep what the clamping added
Read ==
    LET synced == Synced
        sim == ComputeSimTime(now, synced.offset, synced.sync)
        clamped == ClampSimTime(sim)
    IN  /\ offset' = AdjustedOffset(synced.offset, sim, clamped)
        /\ lastSync' = synced.sync /\ nextResync' = synced.next
        /\ lastSim' = clamped /\ lastTrue' = now
        /\ UNCHANGED <<now, drift>>

GetTime == Read /\ UNCHANGED uncertainty

\* Mutant of Uncertainties: the error is not taken into account.
ConfiguredUncertainties(sim, true) == {SyncUncertainty \div 2}

\* Mutant of Uncertainties: the error keeps its sign.
SignedUncertainties(sim, true) == (sim - true)..Larger(SyncUncertainty, sim - true)

\* The random uncertainty between the error and the larger of error and bound
Uncertainties(sim, true) == Distance(sim, true)..Larger(SyncUncertainty, Distance(sim, true))

GetTimeWithUncertainty == Read /\ uncertainty' \in Uncertainties(lastSim', lastTrue')

GetUncertainty ==
    /\ uncertainty' \in Uncertainties(lastSim, lastTrue)
    /\ UNCHANGED <<now, drift, offset, lastSim, lastTrue, lastSync, nextResync>>

Next ==
    \/ \E d \in Steps : Pass(d)
    \/ GetTime \/ GetTimeWithUncertainty \/ GetUncertainty

Spec == Init /\ [][Next]_vars

--------------------------------------------------------------------------------
\* Properties

\* Every field of the clock's state has its shape; an uncertainty is never negative.
TypeOK ==
    /\ now \in Int /\ drift \in Drifts /\ offset \in Int
    /\ lastSim \in Int /\ lastTrue \in Int /\ lastSync \in Int /\ nextResync \in Int
    /\ uncertainty \in Nat

\* The last reading was within the configured uncertainty of true time when it was
\* taken, however fast the clock drifts and however rarely it is read (clamp_sim_time).
ReadingInRange ==
    /\ lastTrue <= now
    /\ Distance(lastSim, lastTrue) <= SyncUncertainty

\* The offset accounts for every clamping since the last synchronisation: offset and drift
\* alone give the last reading back ("Adjust offset to keep future reads consistent").
ReadingIsStable == lastSim = ComputeSimTime(lastTrue, offset, lastSync)

\* Synchronisations are due every period from the start, whenever the clock is read, and a
\* reading has caught up with the last that was due ("catch up if we missed intervals").
SyncOnSchedule ==
    /\ (lastSync - BaseEpoch) % SyncPeriod = 0
    /\ nextResync = lastSync + SyncPeriod
    /\ lastSync <= lastTrue /\ lastTrue < nextResync

\* What the replicas see of this clock: trueTime is the true time of the last reading.
Physical == INSTANCE PhysicalClock WITH trueTime <- lastTrue, reading <- lastSim

\* The simulated clock is a physical clock: its readings are monotone although it is
\* clamped and resynchronised, and the uncertainty it reports covers its error.
IsPhysicalClock == Physical!ClockSpec
===============================================================================
