SPECIFICATION Spec
CONSTANTS
    t1 = t1
    t2 = t2
    t3 = t3
    Tasks = {t1, t2, t3}
    NoTask = NoTask
    Priorities = {1, 2}
    TimesliceTicks = 1
    TickUnit = 4
    SleepMs = {5}
    TickMod = 12
    ScanHorizon = 2
    MaxOverdue = 2
    Ops = {"sleep", "join", "suspend", "resume"}
    SchedulerExit = TRUE
INVARIANTS
    TypeOK
    WakeupArmed
    SortedQueues
    NoFault
    JoinersReleased
PROPERTIES
    NoOvertaking
VIEW TickFree
SYMMETRY Symmetry
CHECK_DEADLOCK FALSE
