CONSTANTS
    Drifts <- MCDrifts
    SyncUncertainty = 2
    SyncPeriod = 4
    BaseEpoch = 0
    Steps = {1, 3, 9}
    MaxTime = 24
SPECIFICATION Spec
INVARIANTS TypeOK ReadingInRange ReadingIsStable SyncOnSchedule
PROPERTY IsPhysicalClock
CHECK_DEADLOCK FALSE
