SPECIFICATION DiscFairSpec
CONSTANTS
    Address = {a1}
    NIfaces = 2
    Rounds = 2
    Polls = 2
    Every = 2
INVARIANTS
    HeardIsKept
    NoSocketLeft
PROPERTIES
    Found
    SearchEnds
CHECK_DEADLOCK FALSE
