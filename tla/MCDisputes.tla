----------------------------- MODULE MCDisputes -----------------------------
EXTENDS Disputes

CONSTANTS d1, d2, i1, c1, c2

\* A route in two steps, and the default one: straight to authority.
MCRungs == [d \in Disputes |-> IF d = d1 THEN <<1, 2>> ELSE <<2>>]
=============================================================================
