SPECIFICATION Commands
CONSTANTS
  LastGrant = 2
  LastOrder = 2
  Batch = 2
  Backlog = 2
  Leaving = {}
  MaxMishaps = 1
  GateResponses = {2}
INVARIANTS CursorCoversSettled
PROPERTIES KeepsPromise ClosesOnlyEarlier
CHECK_DEADLOCK FALSE
