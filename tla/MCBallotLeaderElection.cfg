\* The election of a leader by three servers in synchronous rounds, with one change of the
\* connections, restart, claim to the leadership or change of a priority.
CONSTANTS
    Servers = {1, 2, 3}
    Priorities = {1}
    Synchronous = TRUE
    MaxBallot = 3
    Affected <- MCAffected
    MaxEvents = 1
SPECIFICATION FairSpec
INVARIANT NoRetainedLeadership
PROPERTIES LeaderEmerges LeaderOnlyRises
