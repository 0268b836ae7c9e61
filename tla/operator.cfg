SPECIFICATION Spec
CONSTANTS
    Invocations = 3
    Deletions = 2
    Commits = 2
    Generation = 2
    Authority = 2
    MaxFaults = 2
INVARIANTS OneOwner
PROPERTIES CommissionedOnce RetentionAuthorised AdoptionAuthorised PublishedAsFileSets EverySettles
CHECK_DEADLOCK FALSE
