SPECIFICATION Spec
CONSTANTS
    QueueLen = 3
    Delays = {0, 2}
    TickMod = 6
    MaxPackets = 4
    Reselect = FALSE
    LatePush = FALSE
INVARIANTS
    NoFault
    RingHoldsPending
    JoinPlaysAll
    FifoDrained
PROPERTIES
    HandshakeEnds
    PacketsPlayed
