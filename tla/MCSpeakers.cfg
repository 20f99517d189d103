SPECIFICATION SpeakersFairSpec
CONSTANTS
    Addr = {1, 2}
    Reports <- OneReport
    Backlog = 1
    Window = 1
INVARIANTS
    NeverPiloted
PROPERTIES
    SyncKeepsComing
CHECK_DEADLOCK FALSE
