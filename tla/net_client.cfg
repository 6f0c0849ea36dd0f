SPECIFICATION Spec
CONSTANTS
    Packets = {1, 2}
    MaxPackets = 3
    MaxWait = 4
    PollAfter = 2
INVARIANTS
    FaultsExplained
    AnswerComplete
    RequestSent
PROPERTIES
    CallEnds
CHECK_DEADLOCK FALSE
