CONSTANTS
    m1 = m1
    m2 = m2
    m3 = m3
    None = None
    Milestones = {m1, m2}
    Consumer <- ExceptionConsumer
    Canary = m2
    Attempts = 2
    InfraLimit = 2
    PlannerAttempts = 1
    PerInvocation = 2
    MaxCrashes = 1
    MaxDrifts = 0
SPECIFICATION FairSpec
PROPERTIES IntegrationDecided
