CONSTANTS
    L = L
    f1 = f1
    Leader = L
    Follower = {f1}
    Quorum <- MCQuorum
    MaxEntries = 2
    Reconfigurers = {L, f1}
    Losable = {"PrepareReq", "Prepare", "Promise", "AcceptSync", "AcceptDecide", "AcceptStopSign", "Decide"}
    MaxLost = 1
    MaxEager = 1
    TakenBeforePromise = TRUE
SPECIFICATION FairSpec
INVARIANTS SessionKeepsOrder DecidedIsHeld
PROPERTY StopSignDecided
CHECK_DEADLOCK FALSE
