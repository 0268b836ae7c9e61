CONSTANTS
    Files = 2
    MaxFaults = 1
SPECIFICATION Spec
PROPERTIES ForcedPreservation
CHECK_DEADLOCK FALSE
