------------------------------ MODULE MCLeases ------------------------------
EXTENDS Leases, TLC

CONSTANTS ann, bob, c1, c2, c3, x, y, z

\* ann claims twice at a time, bob once.
MCAgent == (c1 :> ann) @@ (c2 :> ann) @@ (c3 :> bob)
MCSymmetry == Permutations(Artifacts)
=============================================================================
