SPECIFICATION FairSpec
CONSTANTS
  session = s
  Keys <- MCKeys
  TenantOf <- MCTenantOf
  Agents = {"agent"}
  AdmissionWeight <- MCWeight
  PlacementSupported = {"agent"}
  Generations = {1}
  Capacity = 1
  MaxInt64 = 1
  CrossTenantIsolated = FALSE
  Rival = 9
  MaxRivals = 1
  Abandonable = TRUE
  Paths = {"drain", "warm", "failure"}
  Mortal = {1}
CHECK_DEADLOCK FALSE
INVARIANTS
  
  RuntimeEndsFirst
PROPERTIES
  TombstoneIsFinal
  
