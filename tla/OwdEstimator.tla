---------------------------- MODULE OwdEstimator ----------------------------
(***************************************************************************)
(* One-way-delay estimates (dom/owd_estimator.rs): a sliding window of       *)
(* samples for each sender, reduced to a number that is never above max_owd. *)
(***************************************************************************)
EXTENDS Integers, Sequences, FiniteSets
LOCAL INSTANCE Functions

CONSTANTS
    WindowSize,     \* window_size
    MaxOwd,         \* max_owd, also the estimate while there is no sample
    Beta,           \* uncertainty_beta
    Strategy,       \* "percentile", "moving_average" or "fixed"
    Percentile      \* in per cent

ASSUME EstimatorAssumption ==
    /\ WindowSize \in Nat \ {0} /\ MaxOwd \in Nat /\ Beta \in Nat
    /\ Strategy \in {"percentile", "moving_average", "fixed"} /\ Percentile \in 0..100

AtLeastZero(x) == IF x >= 0 THEN x ELSE 0

\* OwdSample::new: timestamps are [time, unc]
OwdSample(sent, received) ==
    [owd |-> AtLeastZero(received.time - sent.time),
     unc |-> AtLeastZero(sent.unc) + AtLeastZero(received.unc)]

\* The window after one more sample: the oldest makes room
Slide(window, sample) ==
    Append(IF Len(window) = WindowSize THEN Tail(window) ELSE window, sample)

\* The sample at the percentile's index of the sorted window; index rounds to nearest
PercentileDelay(window) ==
    LET index == ((Len(window) - 1) * Percentile + 50) \div 100
        below(d) == Cardinality({i \in DOMAIN window : window[i].owd < d})
        upTo(d) == Cardinality({i \in DOMAIN window : window[i].owd <= d})
    IN  CHOOSE d \in {window[i].owd : i \in DOMAIN window} : below(d) <= index /\ index < upTo(d)

MovingAverageDelay(window) ==
    SumFunction([i \in DOMAIN window |-> window[i].owd]) \div Len(window)

\* The base estimate and the margin of the most recent sample
WithMargin(window) ==
    (IF Strategy = "percentile" THEN PercentileDelay(window) ELSE MovingAverageDelay(window))
        + Beta * window[Len(window)].unc

\* Mutant of EstimateFromWindow: no upper bound.
UnboundedEstimate(window) == IF Strategy = "fixed" THEN MaxOwd ELSE WithMargin(window)

EstimateFromWindow(window) ==
    IF Strategy = "fixed" \/ WithMargin(window) \notin 1..MaxOwd THEN MaxOwd
    ELSE WithMargin(window)
===============================================================================
