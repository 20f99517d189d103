SPECIFICATION ClientSpec
CONSTANTS
    Chunks = 2
    OptimLens <- Lens
    Q_ALMOST_EMPTY = 1
    Headers <- PlainHeaders
    PilotLen = 1
    MinOptim = 0
    Servers = 1
    MaxFrames = 4
    MaxCuts = 0
PROPERTIES
    PlaysInOrder
CHECK_DEADLOCK FALSE
