CONSTANTS
    BatchSize = 2
    Commands <- MCCommands
    SnapshotModes = {TRUE}
    MaxLog = 3
    MaxOld = 1
    MaxSessions = 2
    StopSignCases = {}
SPECIFICATION Spec
INVARIANT DeltaCompletesSnapshot
CHECK_DEADLOCK FALSE
