CONSTANTS
    s1 = s1
    s2 = s2
    Server = {s1, s2, s3}
    Quorum <- MCFlexibleQuorum
    MaxBallot = 1
    Owner <- MCOwner1
    EntryId = {1, 2}
    Proposers = {s1}
    MaxDeadline = 2
    Extensions = {1}
    EnableFastPath = TRUE
    Timely = TRUE
    UniqueDeadlines = TRUE
    MaxResends = 0
    MaxLost = 0
    MaxCrashes = 0
    Crashers = {}
    MaxReconnects = 0
    Command <- MCCommand
    Coordinator <- MCCoordinator
SPECIFICATION KVFairSpec
INVARIANT UnsyncedExtendsLog
PROPERTIES EntriesAnswered IsReplicatedDatabase
CHECK_DEADLOCK FALSE
