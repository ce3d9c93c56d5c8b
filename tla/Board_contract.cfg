CONSTANTS
    t1 = t1
    t2 = t2
    a1 = a1
    a2 = a2
    Tasks = {t1, t2}
    Actors = {a1, a2}
    MaxToken = 3
    Numbers = {1, 2, 3}
    DependsOn <- MCDependsOn
    Topology <- MCTopology
SPECIFICATION Spec
SYMMETRY Symmetry
INVARIANTS
    TypeOK
    BoardInv
    SubmittedWorkIsUnclaimed
CHECK_DEADLOCK FALSE
