SPECIFICATION Spec
CONSTANTS
    t1 = t1
    t2 = t2
    t3 = t3
    Tasks = {t1, t2}
    NoTask = NoTask
    Priorities = {1, 2}
    TimesliceTicks = 1
    TickUnit = 4
    SleepMs = {3}
    TickMod = 8
    ScanHorizon = 1
    MaxOverdue = 0
    Ops = {"sleep"}
    SchedulerExit = FALSE
PROPERTIES
    SleepPutsCallerToSleep
VIEW TickFree
