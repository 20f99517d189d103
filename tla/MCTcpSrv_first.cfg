SPECIFICATION SrvSpec
CONSTANTS
    Kp = 2
    Ki = 1
    Kd = 1
    Least = 1
    Most = 99
    Full = 100
    Jump = 20
    Addr = {1, 2, 3}
    Reports <- OneReport
    Backlog = 1
INVARIANTS
    FirstConnectedIsPilot
CHECK_DEADLOCK FALSE
