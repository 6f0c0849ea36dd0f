SPECIFICATION Spec
CONSTANTS
    t1 = t1
    t2 = t2
    t3 = t3
    Tasks = {t1, t2}
    NoTask = NoTask
    Priorities = {1, 2}
    TimesliceTicks = 1
    TickUnit = 4
    SleepMs = {3, 5}
    TickMod = 12
    ScanHorizon = 2
    MaxOverdue = 2
    Ops = {"sleep", "sleep_forever", "suspend", "resume", "terminate", "terminate_self", "join", "pass", "create", "stop", "reset"}
    SchedulerExit = TRUE
INVARIANTS
    QueueIntegrity
    RunningIsCurrent
    ExitIsLast
VIEW TickFree
CHECK_DEADLOCK FALSE
