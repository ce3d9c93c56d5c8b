----------------------------- MODULE MCBallots ------------------------------
EXTENDS Ballots, TLC

CONSTANTS ann, bob, cyd, board

\* ann and bob vote, cyd may veto; one of two votes of weight 1 meets neither
\* the quorum nor the threshold of two thirds.
MCQuorum == board :> 2
MCThreshold == board :> [num |-> 2, den |-> 3]
MCVeto == board :> {cyd}
MCWeight == board :> ((ann :> 1) @@ (bob :> 1) @@ (cyd :> 0))
=============================================================================
