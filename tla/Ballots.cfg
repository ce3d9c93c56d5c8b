CONSTANTS
    ann = ann
    bob = bob
    cyd = cyd
    board = board
    Free = Free
    System = System
    Nobody = Nobody
    Actors = {ann, bob, cyd}
    Bodies = {board}
    StepRef = {}
    MaxWeight = 2
    MaxMotions = 1
    MaxFreeMotions = 1
    Quorum <- MCQuorum
    Threshold <- MCThreshold
    VetoHolders <- MCVeto
    InitialWeight <- MCWeight
SPECIFICATION FairSpec
INVARIANTS
    OutcomeFitsTheBallots
PROPERTIES
    SettledForGood
    EveryMotionIsSettled
CHECK_DEADLOCK FALSE
