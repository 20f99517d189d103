SPECIFICATION PhoneFairSpec
CONSTANTS
    MaxFd = 2
    CloseTries = 2
    FrameLen = 2
INVARIANTS
    SockTypeOK
    NothingLost
    ClosesOnlyItsOwn
    BlocksInUse
    ConnectedIsReal
    NoTornFrame
    AddressesStay
PROPERTIES
    CallsEnd
    PlaysAgain
CHECK_DEADLOCK FALSE
