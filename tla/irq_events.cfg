SPECIFICATION Spec
CONSTANTS
    i1 = i1
    i2 = i2
    None = None
    Instances = {i1, i2}
    Request <- DistinctPins
    MaxHandlers = 2
    QueueSize = 4
    MaxCount = 1
    ClockMod = 4
    WordMod = 8
    ClockWraps = FALSE
INVARIANTS
    StaleEventsFirst
    TablesAgree
    HardwareArmed
PROPERTIES
    Debounced
    RingIsFifo
VIEW LiveState
