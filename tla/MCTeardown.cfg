CONSTANTS
    r1 = r1
    r2 = r2
    a1 = a1
    a2 = a2
    h1 = h1
    Releasers <- MCReleasers
    Abandoners <- MCAbandoners
    Hooks <- MCHooks
    MaxFlights = 3
SPECIFICATION FairSpec
CHECK_DEADLOCK FALSE
INVARIANTS
    AnswersAreOutcomes
PROPERTIES
    KeepsPromise
    AbandonSettles
    HooksRunOnRelease
