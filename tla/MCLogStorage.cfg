CONSTANTS
    BatchSize = 2
    Commands <- MCCommands
    SnapshotModes = {TRUE, FALSE}
    MaxLog = 3
    MaxOld = 1
    MaxSessions = 2
    StopSignCases = {}
SPECIFICATION Spec
INVARIANTS CacheIsStore StoreHoldsLog FollowerHoldsPrefix SnapshotIsReplay ReadsAreComplete BackEndsAgree
CONSTRAINT ShortChannel
CHECK_DEADLOCK FALSE
