SPECIFICATION OldSrvFairSpec
CONSTANTS
    c1 = c1
    c2 = c2
    c3 = c3
    Conn = {c1, c2, c3}
    Frames <- FewFrames
    Apart = 1
    MaxTries = 2
INVARIANTS
    OldFirstConnectedIsPilot
    PilotFrameIsPilots
    NobodyStays
PROPERTIES
    EachIsRemoved
CHECK_DEADLOCK FALSE
