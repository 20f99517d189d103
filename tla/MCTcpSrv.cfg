SPECIFICATION SrvFairSpec
CONSTANTS
    Kp = 2
    Ki = 1
    Kd = 1
    Least = 1
    Most = 99
    Full = 100
    Jump = 20
    Addr = {1, 2}
    Reports <- OneReport
    Backlog = 2
INVARIANTS
    AtMostOnePilot
    PilotDataIsPilots
    PilotUnlessReplaced
PROPERTIES
    GoneIsRemoved
CHECK_DEADLOCK FALSE
