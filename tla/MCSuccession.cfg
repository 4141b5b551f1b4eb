SPECIFICATION Spec
CONSTANTS
  session = s
  Keys <- MCKeys
  TenantOf <- MCTenantOf
  Agents = {"agent"}
  AdmissionWeight <- MCWeight
  PlacementSupported = {"agent"}
  Generations = {1, 2}
  Capacity = 1
  MaxInt64 = 1
  CrossTenantIsolated = FALSE
  Rival = 9
  MaxRivals = 1
  Abandonable = TRUE
  Paths = {"warm", "unusable", "expiry"}
  Mortal = {1}
CHECK_DEADLOCK FALSE
INVARIANTS
  ResidentIsIntact
  FinishedIsRemoved
PROPERTIES
  EndForgets
