CONSTANTS
    o1 = o1
    o2 = o2
    m1 = m1
    a1 = a1
    None = None
    Client = {o1, o2, m1, a1}
    Body = {"x", "y"}
    OpId = {"p", "q"}
    NoOp = NoOp
    NoState = NoState
    LegacyBody = "x"
    MaxRev = 2
    Kind <- FleetKind
    Machine <- FleetMachine
    HostName <- FleetMachine
    HostInstance <- FleetMachine
    Pid <- FleetPid
    StartTime <- FleetStartTime
    Tolerance = 1
    MaxSkew = 1
    MaxAttempts = 2
SPECIFICATION MCSpec
CONSTRAINT Instance
INVARIANTS PublishedLoadable LeaseProtects MirrorFollows
PROPERTIES ImplementsOptimisticHistory
