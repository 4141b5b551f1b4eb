SPECIFICATION FairSpec
CONSTANTS
  g1 = g1
  g2 = g2
  Gate = {g1, g2}
  LastGrant = 2
  Capacity = 1
  MaxMishaps = 1
INVARIANTS IdleMatchesJournal
PROPERTIES FencedIsExclusive ProjectionConverges
CHECK_DEADLOCK FALSE
