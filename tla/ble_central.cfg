SPECIFICATION Spec
CONSTANTS
    Services <- TwoServices
    Chars <- OneEach
    Descs <- OneDescriptor
    Timeouts = {0, 100}
    StopStates = {"IDLE"}
    MaxConnects = 2
INVARIANTS
    NoFault
    WaitsForSomething
    DiscoveryComplete
PROPERTIES
    DiscoveryEnds

