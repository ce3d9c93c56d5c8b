CONSTANTS
    j1 = j1
    j2 = j2
    d1 = d1
    poll = poll
    told = told
    other = other
    w1 = w1
    w2 = w2
    None = None
    Jobs = {j1, j2}
    Docs = {d1}
    Pollers = {poll}
    Consumers = {told, other}
    MaxFaults = 1
    Doc <- MCDoc
    MaxAttempts <- MCMaxAttempts
    Process <- MCProcess
SPECIFICATION FairSpec
INVARIANTS
    OneRunnerPerJob
    NothingIsStranded
PROPERTIES
    FinishedIsFinal
    EveryJobFinishes
CHECK_DEADLOCK FALSE
