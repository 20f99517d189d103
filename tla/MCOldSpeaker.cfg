SPECIFICATION OldFairSpec
CONSTANTS
    Chunks = 3
    Half = 1
    Q_ALMOST_EMPTY = 1
    MinLevel = 0
    MaxDiff = 1
    MaxStrays = 1
INVARIANTS
    OldTypeOK
    ChunksConserved
PROPERTIES
    OldKeepsPlaying
    Reconnects
    OldExits
CHECK_DEADLOCK FALSE
