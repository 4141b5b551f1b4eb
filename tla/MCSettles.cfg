SPECIFICATION LiveSpec
CONSTANTS
  LastGrant = 2
  LastOrder = 1
  Batch = 2
  Backlog = 0
  Leaving = {1}
  MaxMishaps = 1
  GateResponses = {1}

PROPERTIES Settles 
CHECK_DEADLOCK FALSE
