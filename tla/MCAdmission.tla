----------------------------- MODULE MCAdmission -----------------------------
(* Three sessions of two tenants on a Host that takes one tenant at a time.  *)
EXTENDS Admission, TLC

CONSTANTS s1, s2, s3, small, large, misplaced

MCKeys == {s1, s2, s3}
MCTenantOf == (s1 :> "t1") @@ (s2 :> "t1") @@ (s3 :> "t2")
MCAgents == {small, large, misplaced}
MCWeight == (small :> 1) @@ (large :> 2) @@ (misplaced :> 1)
MCPlacement == {small, large}
MCGenerations == 1 .. 3

\* The two sessions of the one tenant are interchangeable.
MCSymmetry == Permutations({s1, s2})
=============================================================================
