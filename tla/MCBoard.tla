------------------------------ MODULE MCBoard -------------------------------
EXTENDS Board, TLC

CONSTANTS t1, t2, a1, a2

\* t2 waits for t1.
MCDependsOn == (t1 :> {}) @@ (t2 :> {t1})
MCTopology == (t1 :> "parallel") @@ (t2 :> "sequential")
Symmetry == Permutations(Actors)
=============================================================================
