---------------------------- MODULE PhysicalClock ----------------------------
(***************************************************************************)
(* What the replicas may expect of a clock they read: its readings never go  *)
(* back, and a reading that comes with an uncertainty is no further than     *)
(* that from true time.                                                      *)
(***************************************************************************)
EXTENDS Integers

VARIABLES
    trueTime,     \* true time at the last reading
    reading,      \* the last reading
    uncertainty   \* the last uncertainty reported

clockVars == <<trueTime, reading, uncertainty>>

Within(r, t, u) == t - u <= r /\ r <= t + u

ClockInit == trueTime \in Int /\ reading \in Int /\ uncertainty \in Nat

\* get_time
ReadTime == /\ trueTime' >= trueTime /\ reading' >= reading
            /\ UNCHANGED uncertainty

\* get_time_with_uncertainty
ReadTimeWithUncertainty ==
    /\ trueTime' >= trueTime /\ reading' >= reading
    /\ Within(reading', trueTime', uncertainty')

\* get_uncertainty, of the last reading
ReadUncertainty ==
    /\ Within(reading, trueTime, uncertainty')
    /\ UNCHANGED <<trueTime, reading>>

ClockNext == ReadTime \/ ReadTimeWithUncertainty \/ ReadUncertainty
ClockSpec == ClockInit /\ [][ClockNext]_clockVars
===============================================================================
