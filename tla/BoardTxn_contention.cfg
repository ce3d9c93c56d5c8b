CONSTANTS
    t1 = t1
    t2 = t2
    a1 = a1
    a2 = a2
    sweeper = sweeper
    closer = closer
    none = none
    Tasks = {t1, t2}
    Actors = {a1, a2}
    MaxToken = 2
    Numbers = {1, 2}
    DependsOn <- ChainDependsOn
    Topology <- ChainSequential
    Sweeper = sweeper
    Closer = closer
    None = none
    Ops = {"post", "claim", "release", "complete", "write"}
    CloseEnabled = FALSE
    AuthEnabled = FALSE
    MaxFaults = 0
SPECIFICATION TxnSpec
SYMMETRY Symmetry
INVARIANTS
    TxnTypeOK
    InsertNeverCollides
    NoWaitCycle
    StaleHolderNeverWrites
    HolderNeverFencedOut
    LogTellsTheBoard
    SequentialOrder
PROPERTIES
    ImplementsBoard
CHECK_DEADLOCK FALSE
