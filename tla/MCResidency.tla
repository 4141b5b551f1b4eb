----------------------------- MODULE MCResidency -----------------------------
EXTENDS Residency, TLC

MCKeys == {session}
MCTenantOf == session :> "t1"
MCWeight == "agent" :> 1
=============================================================================
