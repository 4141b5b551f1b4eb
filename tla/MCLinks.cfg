SPECIFICATION Spec
CONSTANTS
  Tenants = {t1, t2}
  Sessions = {s1, s2}
  Steady = {s2}
  TenantOf <- MCTenantOf
  Conns = {c1, c2}
  Muxes = {m1, m2, m3}
  MaxTenants = 1
  PerLink = 2
  Total = 3
  None = None
INVARIANTS TableIsExact 
CHECK_DEADLOCK FALSE
SYMMETRY MCSymmetry
