\* The smallest ring for which the 95% clamp of force_optim cuts a chunk off.
SPECIFICATION PlayerFairSpec
CONSTANTS
    Chunks = 20
    OptimLens <- PilotAndFollowerLens
    Q_ALMOST_EMPTY = 5
INVARIANTS
    RingConsistent
    LocksAreHeld
    NoSharedChunk
    PlayerTypeOK
PROPERTIES
    KeepsPlaying
    PlayEnds
