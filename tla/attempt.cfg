SPECIFICATION Spec
CONSTANTS MaxFaults = 2
          Timeout = 1
          Grace = 1
INVARIANTS OneLaunch SupervisionIsSound ExecutionIsSound
PROPERTIES CreationIsSafe CandidateAuthorised NoNeedlessBlock VerdictIsTrue AttemptDecided
CHECK_DEADLOCK FALSE
