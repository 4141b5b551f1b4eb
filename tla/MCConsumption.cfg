SPECIFICATION FairSpec
CONSTANTS
    MaxCommands = 1
    MaxOwn = 1
    TTL = 1
    MaxMishaps = 1
INVARIANTS HaltHolds
PROPERTIES HaltEnds IdleIsReleased CheckpointAfterAttempt
CHECK_DEADLOCK FALSE
