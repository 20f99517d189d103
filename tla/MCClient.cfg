SPECIFICATION ClientFairSpec
CONSTANTS
    Chunks = 2
    OptimLens <- Lens
    Q_ALMOST_EMPTY = 1
    Headers <- AllHeaders
    PilotLen = 2
    MinOptim = 0
    Servers = 1
    MaxFrames = 3
    MaxCuts = 1
INVARIANTS
    ClientTypeOK
PROPERTIES
    KeepsPromise
    CalmIsInOrder
    CalmReportsAdvance
    CircleSpec
    ExitsIfConnected
CHECK_DEADLOCK FALSE
