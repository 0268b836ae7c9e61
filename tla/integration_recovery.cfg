SPECIFICATION FairSpec
CONSTANTS
    Obstacle = {"target-dirty"}
    NoObstacle = NoObstacle
    MaxFaults = 6
INVARIANTS RecordNeverAhead CrashAloneNeverBlocks
PROPERTIES ImplementsRecoverableOperation CompletionIsTrue TargetMovedUnderIntent EventuallyDecided
CHECK_DEADLOCK FALSE
