SPECIFICATION FairSpec
CONSTANTS
  Keys <- MCKeys
  LoopOf <- MCLoopOf
  Events <- MCEvents
  EnduringSlots = 1
  EphemeralSlots = 1
  ProjectionSlots = 1
  FrameChunks = 2
  MaxEvents = 4
INVARIANTS WireKeepsOrder NoHoleInText NoHoleInJournal
PROPERTIES EnduringGoesOut
CHECK_DEADLOCK FALSE
