----------------------------- MODULE MCBoardTxn -----------------------------
EXTENDS BoardTxn, TLC

CONSTANTS t1, t2, a1, a2, sweeper, closer, none

NoDependsOn == [t \in Tasks |-> {}]
AllParallel == [t \in Tasks |-> "parallel"]

\* t2 comes after t1.
ChainDependsOn == (t1 :> {}) @@ (t2 :> {t1})
ChainSequential == (t1 :> "parallel") @@ (t2 :> "sequential")
ChainRolling == (t1 :> "parallel") @@ (t2 :> "rolling")

Symmetry == Permutations(Actors)
=============================================================================
