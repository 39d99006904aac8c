CONSTANTS
    BatchSize = 2
    Commands <- MCCommands
    SnapshotModes = {TRUE, FALSE}
    MaxLog = 3
    MaxOld = 1
    MaxSessions = 2
    StopSignCases = {"again"}
SPECIFICATION Spec
INVARIANT CacheIsStore
CHECK_DEADLOCK FALSE
