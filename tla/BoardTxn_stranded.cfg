CONSTANTS
    t1 = t1
    t2 = t2
    a1 = a1
    a2 = a2
    sweeper = sweeper
    closer = closer
    none = none
    Tasks = {t1}
    Actors = {a1}
    MaxToken = 1
    Numbers = {1}
    DependsOn <- NoDependsOn
    Topology <- AllParallel
    Sweeper = sweeper
    Closer = closer
    None = none
    Ops = {"post", "claim"}
    CloseEnabled = TRUE
    AuthEnabled = TRUE
    MaxFaults = 1
SPECIFICATION FairSpec
PROPERTIES
    ClosingEventuallyCloses
CHECK_DEADLOCK FALSE
