CONSTANTS
    o1 = o1
    o2 = o2
    m1 = m1
    far = far
    b1 = b1
    a1 = a1
    None = None
    Command = {o1, a1}
    Kind <- FleetKind
    Machine <- FleetMachine
    HostName <- FleetHostName
    HostInstance <- FleetMachine
    Pid <- FleetPid
    StartTime <- FleetStartTime
    Tolerance = 1
    MaxSkew = 1
    MaxAttempts = 2
SPECIFICATION Spec
PROPERTIES NoSaveDuringAmendment
