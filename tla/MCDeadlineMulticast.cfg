CONSTANTS
    Servers = {s1, s2}
    EntryIds = {1, 2}
    Proposers = {s1}
    Uncertainties = {1}
    OneMicroSecond = 1
    Times <- MCTimes
    WindowSize = 2
    MaxOwd = 3
    Beta = 1
    Strategy = "percentile"
    Percentile = 80
SPECIFICATION Spec
INVARIANTS NotBeforeDeadline NothingSkipped ExtendedIsNeverLate DeadlineWithinMaxOwd
PROPERTY ReleasedInOrder
CHECK_DEADLOCK FALSE
