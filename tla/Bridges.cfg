SPECIFICATION FairSpec
CONSTANTS
    MaxSessions = 3
    MaxMissed = 2
    MaxUpsets = 2
INVARIANTS WatchedServed ViewsTrue
PROPERTY Recovers
CHECK_DEADLOCK FALSE
