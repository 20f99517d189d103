SPECIFICATION ClientFairSpec
CONSTANTS
    Chunks = 2
    OptimLens <- Lens
    Q_ALMOST_EMPTY = 1
    Headers <- PlainHeaders
    PilotLen = 1
    MinOptim = 0
    Servers = 2
    MaxFrames = 1
    MaxCuts = 1
PROPERTIES
    ExitsOnCtrlC
CHECK_DEADLOCK FALSE
