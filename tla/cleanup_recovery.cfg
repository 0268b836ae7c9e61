CONSTANTS
    Files = 2
    MaxFaults = 4
SPECIFICATION FairSpec
INVARIANTS CrashAloneNeverBlocks
PROPERTIES ImplementsRecoverableOperation DeletionAuthorised DiagnosticsFirst CompletionIsTrue EventuallySettled
CHECK_DEADLOCK FALSE
