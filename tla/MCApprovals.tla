---------------------------- MODULE MCApprovals -----------------------------
EXTENDS Approvals, TLC

CONSTANTS ann, bob, cyd, dan, board, council, deed, memo, bond, plan, doc

\* ann works at execution level, bob coordinates, cyd and dan have authority.
MCLevel == (ann :> 0) @@ (bob :> 1) @@ (cyd :> 2) @@ (dan :> 2)
MCStepRef == Requests \X (1..3)

\* deed goes before the board and then before the council; memo before the
\* board alone, and above it there is no body; plan before bob and then before
\* cyd or dan.  bond would go before the board twice, and is refused.
MCSubject == [r \in Requests |-> doc]
MCSubmitter == [r \in Requests |-> ann]
MCShape == [r \in Requests |-> "counter_sign"]
MCRequired == [r \in Requests |-> IF r = memo THEN 1 ELSE 2]
MCBodyByLevel ==
    [r \in Requests |->
        CASE r = deed -> [l \in Offices |-> IF l = 1 THEN board
                                            ELSE IF l = 2 THEN council ELSE Nobody]
          [] r = memo -> [l \in Offices |-> IF l = 1 THEN board ELSE Nobody]
          [] r = bond -> [l \in Offices |-> IF l = 0 THEN Nobody ELSE board]
          [] OTHER -> [l \in Offices |-> Nobody]]
=============================================================================
