CONSTANTS
    t1 = t1
    t2 = t2
    a1 = a1
    a2 = a2
    sweeper = sweeper
    closer = closer
    none = none
    Tasks = {t1}
    Actors = {a1, a2}
    MaxToken = 1
    Numbers = {1}
    DependsOn <- NoDependsOn
    Topology <- AllParallel
    Sweeper = sweeper
    Closer = closer
    None = none
    Ops = {"post", "claim", "release"}
    CloseEnabled = TRUE
    AuthEnabled = FALSE
    MaxFaults = 0
SPECIFICATION TxnSpec
INVARIANTS
    NoWaitCycle
CHECK_DEADLOCK FALSE
