SPECIFICATION Spec
CONSTANTS
    c1 = c1
    c2 = c2
    c3 = c3
    c4 = c4
    Clients <- MCClients
    Limit = 3
    PruneEvery = 2
    Durations <- MCDurations
    MaxReloads = 1
INVARIANTS
    PermitsConserved
    LiveTracked
    DrainWithinDuration
PROPERTIES
    ReopensListener
    ShutdownEnds
CHECK_DEADLOCK FALSE
