CONSTANTS
    s1 = s1
    s2 = s2
    Server = {s1, s2, s3}
    Quorum <- MCQuorum
    MaxBallot = 1
    Owner <- MCOwner1
    EntryId = {1}
    Proposers = {s1}
    MaxDeadline = 1
    Extensions = {1}
    EnableFastPath = TRUE
    Timely = FALSE
    UniqueDeadlines = FALSE
    MaxResends = 0
    MaxLost = 0
    MaxCrashes = 0
    Crashers = {}
    MaxReconnects = 1
SPECIFICATION Spec
INVARIANTS EveryQuorumRecovers
VIEW LiveView
CHECK_DEADLOCK FALSE
