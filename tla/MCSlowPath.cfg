CONSTANTS
    s1 = s1
    s2 = s2
    Server = {s1, s2, s3}
    Quorum <- MCQuorum
    MaxBallot = 2
    Owner <- MCOwner12
    EntryId = {1, 2}
    Proposers = {s1}
    MaxDeadline = 1
    Extensions = {1}
    EnableFastPath = FALSE
    Timely = TRUE
    UniqueDeadlines = FALSE
    MaxResends = 0
    MaxLost = 0
    MaxCrashes = 0
    Crashers = {}
    MaxReconnects = 0
    Command <- MCCommand
    Coordinator <- MCCoordinator
SPECIFICATION KVSpec
INVARIANTS DecidedAgree LeaderHoldsDecided FollowerLogIsPrefix DecidedIsAccepted LogSyncFits
PROPERTY IsReplicatedDatabase
CONSTRAINT AtMost4
VIEW KVView
CHECK_DEADLOCK FALSE
