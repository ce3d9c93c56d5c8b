CONSTANTS
    ann = ann
    bob = bob
    cyd = cyd
    dan = dan
    board = board
    council = council
    deed = deed
    memo = memo
    bond = bond
    plan = plan
    doc = doc
    Free = Free
    System = System
    Nobody = Nobody
    Actors = {ann, bob, cyd, dan}
    Bodies = {board, council}
    Requests = {deed, memo, bond, plan}
    Artifacts = {doc}
    Collective = {deed, memo, bond}
    BadChain = {plan}
    MaxMatters = 2
    MaxMotions = 4
    MaxFreeMotions = 1
    StepRef <- MCStepRef
    Subject <- MCSubject
    Submitter <- MCSubmitter
    Level <- MCLevel
    Shape <- MCShape
    RequiredLevel <- MCRequired
    BodyByLevel <- MCBodyByLevel
SPECIFICATION FairSpec
INVARIANTS
    RequestMatchesSteps
    StepHasItsMotion
    FourEyes
    DistinctBodies
    OneTaskPerApproval
PROPERTIES
    ArtifactFollowsRequests
    DecidedIsFinal
    KeepsThePromise
    OpenRequestIsDecided
CHECK_DEADLOCK FALSE
