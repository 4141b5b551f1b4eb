SPECIFICATION Spec
CONSTANTS
  s1 = s1
  s2 = s2
  s3 = s3
  small = small
  large = large
  misplaced = misplaced
  Keys <- MCKeys
  TenantOf <- MCTenantOf
  Agents <- MCAgents
  AdmissionWeight <- MCWeight
  PlacementSupported <- MCPlacement
  Generations <- MCGenerations
  Capacity = 3
  MaxInt64 = 1
  CrossTenantIsolated = FALSE
SYMMETRY MCSymmetry
CHECK_DEADLOCK FALSE
INVARIANTS
  NeverOverAdmitted
  ChargesAreHeld
  OffersAreAdmissible
