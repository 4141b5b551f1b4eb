------------------------------- MODULE MCLinks -------------------------------
EXTENDS Links, TLC

MCTenantOf == [s \in Sessions |-> CHOOSE t \in Tenants : TRUE]
MCSymmetry == Permutations(Muxes) \cup Permutations(Conns)
==============================================================================
