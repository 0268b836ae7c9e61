SPECIFICATION Spec
CONSTANTS
    Invocations = 1
    Deletions = 1
    Commits = 2
    Generation = 1
    Authority = 1
    MaxFaults = 1
PROPERTIES SupportIsExact
CHECK_DEADLOCK FALSE
