SPECIFICATION FairSpec
CONSTANTS
  Sessions = {s1, s2}
  Processes = {p1}
  Tenants = {t1}
  Owner = t1
  Deaf = {s2}
  NoKey = NoKey
  MaxMishaps = 1
INVARIANTS AnswersAreHonest DrainedMeansReleased 
PROPERTIES DrainSettles WithdrawnForGood
CHECK_DEADLOCK FALSE
