------------------------------ MODULE MCTeardown ------------------------------
(* Teardown with two releasing callers, two abandoning callers, one callback  *)
(* and three flights: a refused release, a second release and an abandon.     *)
EXTENDS Teardown, TLC

CONSTANTS r1, r2, a1, a2, h1

MCReleasers == {r1, r2}
MCAbandoners == {a1, a2}
MCHooks == {h1}
MCSymmetry == Permutations(MCReleasers) \cup Permutations(MCAbandoners)
===============================================================================
