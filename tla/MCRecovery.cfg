CONSTANTS
    s1 = s1
    s2 = s2
    Server = {s1, s2}
    Quorum <- MCQuorum
    MaxBallot = 2
    Owner <- MCOwner12
    EntryId = {1}
    Proposers = {s1}
    MaxDeadline = 1
    Extensions = {1}
    EnableFastPath = TRUE
    Timely = FALSE
    UniqueDeadlines = FALSE
    MaxResends = 1
    MaxLost = 1
    MaxCrashes = 1
    Crashers = {s1, s2}
    MaxReconnects = 1
SPECIFICATION Spec
INVARIANTS TypeOK AcceptedIsHeld SessionCarriesLog LeaderMessagesPromised LogSyncFits
PROPERTY PromiseKept DecidedStable
VIEW LiveView
CONSTRAINT AtMost3
CHECK_DEADLOCK FALSE
