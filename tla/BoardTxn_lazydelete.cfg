CONSTANTS
    t1 = t1
    t2 = t2
    a1 = a1
    a2 = a2
    sweeper = sweeper
    closer = closer
    none = none
    Tasks = {t1}
    Actors = {a1, a2}
    MaxToken = 2
    Numbers = {1, 2}
    DependsOn <- NoDependsOn
    Topology <- AllParallel
    Sweeper = sweeper
    Closer = closer
    None = none
    Ops = {"post", "claim", "write"}
    CloseEnabled = FALSE
    AuthEnabled = FALSE
    MaxFaults = 0
SPECIFICATION TxnSpec
PROPERTIES
    ExpiredWorkIsReverted
CHECK_DEADLOCK FALSE
