CONSTANTS
    d1 = d1
    d2 = d2
    i1 = i1
    c1 = c1
    c2 = c2
    None = None
    Disputes = {d1, d2}
    Items = {i1}
    Callers = {c1, c2}
    PoolSize = 3
    TopOffice = 2
    Outcomes = {"approved"}
    MaxFaults = 1
    Rungs <- MCRungs
SPECIFICATION FairSpec
INVARIANTS
    ResolvedOnce
    NothingHalfOpened
    TriageMatchesDispute
PROPERTIES
    EveryCallReturns
CHECK_DEADLOCK FALSE
