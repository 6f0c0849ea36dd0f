--------------------------- MODULE TaskScheduler ---------------------------
(***************************************************************************)
(* The task scheduler of the mruby VM, mrbgems/picoruby-mruby/src/task.c.  *)
(*                                                                         *)
(* Two threads of control share the queues: the main program (the loop     *)
(* mrb_tasks_run and, inside mrb_vm_exec, the Task and Kernel methods that *)
(* scripts call) and the tick interrupt mrb_tick.  The interrupt runs to   *)
(* completion on the same core, and not between mrb_task_disable_irq and   *)
(* mrb_task_enable_irq; it may run between any two other steps of the main *)
(* program.  A main step of this module is therefore a critical section,   *)
(* or a read or write that the interrupt's own reads and writes can tell   *)
(* apart from its neighbours.                                              *)
(*                                                                         *)
(* The two loops that walk the waiting queue (in mrb_tick, and in          *)
(* mrb_tasks_run when a task ends) take one step per TCB: the variable irq *)
(* is "tick" or "join" meanwhile and excludes every other step.            *)
(***************************************************************************)
EXTENDS Integers, Sequences

CONSTANTS
    Tasks,            \* the TCBs mrb_tcb_new may hand out
    NoTask,           \* the NULL pointer
    Priorities,       \* the priorities scripts ask for (any integer)
    TimesliceTicks,   \* MRB_TIMESLICE_TICK_COUNT
    TickUnit,         \* MRB_TICK_UNIT, in milliseconds
    SleepMs,          \* the durations scripts sleep for
    TickMod,          \* range of the uint32_t ticks, 2^32 in the code
    ScanHorizon,      \* 1 << 16 in the code
    MaxOverdue,       \* how long a sleeper may be held past its wakeup tick
                      \* by a suspension, in ticks (2^31 in the code)
    Ops,              \* the calls that scripts make
    SchedulerExit     \* MRB_SCHEDULER_EXIT

AllOps == {"sleep", "sleep_forever", "suspend", "resume", "terminate",
           "terminate_self", "join", "pass", "create", "stop", "reset"}

ASSUME TasksAssumption == NoTask \notin Tasks
ASSUME PrioritiesAssumption == Priorities \subseteq Int
ASSUME SliceAssumption == TimesliceTicks \in 1..255
ASSUME TickUnitAssumption == TickUnit \in Nat \ {0}
ASSUME SleepAssumption == SleepMs \subseteq Nat
ASSUME TickModAssumption == TickMod \in Nat \ {0} /\ TickMod % 2 = 0
ASSUME HorizonAssumption == ScanHorizon \in Nat \ {0} /\ MaxOverdue \in Nat
ASSUME WindowAssumption ==
    /\ MaxOverdue + ScanHorizon + 1 < TickMod \div 2
    /\ \A ms \in SleepMs : MaxOverdue + (ms \div TickUnit) + 2 < TickMod \div 2
ASSUME OpsAssumption == Ops \subseteq AllOps
ASSUME ExitAssumption == SchedulerExit \in BOOLEAN

VARIABLES
    queues,      \* mrb->task.queues, each a sequence of TCBs
    status,      \* tcb->status; "UNBORN" before mrb_tcb_new
    reason,      \* tcb->reason
    prio,        \* tcb->priority_preemption
    timeslice,   \* tcb->timeslice
    wakeup,      \* tcb->wakeup_tick
    joinOn,      \* tcb->tcb_join
    cstat,       \* tcb->c.status
    tick,        \* mrb->task.tick
    wakeupTick,  \* mrb->task.wakeup_tick
    switching,   \* mrb->task.switching
    tcb,         \* the local of mrb_tasks_run, which is MRB2TCB(mrb) in exec
    pc,          \* where the main program is
    arg,         \* the task a method call is about
    irq,         \* "on", or the loop over the waiting queue being run
    scan,        \* that loop's pointer to the next TCB
    woke         \* task_switch of mrb_tick

taskVars  == <<prio, joinOn, cstat>>
tickVars  == <<tick, wakeupTick>>
loopVars  == <<irq, scan, woke>>
vars == <<queues, status, reason, prio, timeslice, wakeup, joinOn, cstat,
          tick, wakeupTick, switching, tcb, pc, arg, irq, scan, woke>>

Statuses   == {"UNBORN", "DORMANT", "READY", "RUNNING", "WAITING", "SUSPENDED"}
QueueNames == {"dormant", "ready", "waiting", "suspended"}
OpPcs == {"sleep", "sleep_forever", "sleep_commit", "suspend", "resume",
          "resume_compare", "resume_store", "terminate", "join", "pass",
          "create", "stop", "reset"}
Pcs == {"boot", "exit_ready", "exit_waiting", "exit_suspended", "exit", "fault",
        "pick", "mark", "load", "exec", "ret", "retire", "wake_joiners",
        "check", "requeue"} \cup OpPcs

Ready     == queues["ready"]
Waiting   == queues["waiting"]
Suspended == queues["suspended"]
Created   == {t \in Tasks : status[t] # "UNBORN"}

----------------------------------------------------------------------------
(* Queues.                                                                 *)

Elems(q) == {q[i] : i \in 1..Len(q)}
HeadOrNull(q) == IF q = <<>> THEN NoTask ELSE q[1]
IndexIn(q, t) == CHOOSE i \in 1..Len(q) : q[i] = t

(* conv_tbl: the queue that holds the tasks of a status.                   *)
conv_tbl(s) ==
    CASE s \in {"READY", "RUNNING"} -> "ready"
      [] s = "WAITING" -> "waiting"
      [] s = "SUSPENDED" -> "suspended"
      [] OTHER -> "dormant"

(* Mutant: an insertion that ignores the priority.                         *)
InsertPointAtEnd(q, p) == Len(q) + 1

(* Mutant: <= for <, so that a task overtakes those of its own priority.   *)
InsertPointBeforeEquals(q, p) ==
    CHOOSE i \in 1..(Len(q) + 1) :
        /\ \A j \in 1..(i - 1) : ~(p <= prio[q[j]])
        /\ i <= Len(q) => p <= prio[q[i]]

(* The place before the first TCB of strictly lower urgency.               *)
InsertPoint(q, p) ==
    CHOOSE i \in 1..(Len(q) + 1) :
        /\ \A j \in 1..(i - 1) : ~(p < prio[q[j]])
        /\ i <= Len(q) => p < prio[q[i]]

InsertedAt(q, i, t) ==
    [j \in 1..(Len(q) + 1) |->
        IF j < i THEN q[j] ELSE IF j = i THEN t ELSE q[j - 1]]

(* tcb->next of a task in queue q.                                         *)
NextIn(q, t) ==
    LET i == IndexIn(q, t) IN IF i < Len(q) THEN q[i + 1] ELSE NoTask

DeletedAt(q, i) == [j \in 1..(Len(q) - 1) |-> IF j < i THEN q[j] ELSE q[j + 1]]

(* A queue without t; not finding t is the code's mrb_assert.              *)
Without(q, t) == IF t \in Elems(q) THEN DeletedAt(q, IndexIn(q, t)) ELSE q

q_insert_task(qs, t, s) ==
    [qs EXCEPT ![conv_tbl(s)] = InsertedAt(@, InsertPoint(@, prio[t]), t)]

q_delete_task(qs, t, s) == [qs EXCEPT ![conv_tbl(s)] = Without(@, t)]

(* Mutant: the new status stored before q_delete_task reads the old one.   *)
MoveTaskStatusFirst(t, s) ==
    /\ queues' = q_insert_task(q_delete_task(queues, t, s), t, s)
    /\ status' = [status EXCEPT ![t] = s]

(* q_delete_task, the new status, q_insert_task: how every operation moves *)
(* a task.                                                                 *)
MoveTask(t, s) ==
    /\ queues' = q_insert_task(q_delete_task(queues, t, status[t]), t, s)
    /\ status' = [status EXCEPT ![t] = s]

(* preempt_running_task sets switching when the ready queue holds a        *)
(* RUNNING task.                                                           *)
preempt_running_task == \E t \in Elems(Ready) : status[t] = "RUNNING"

----------------------------------------------------------------------------
(* Ticks: (int32_t)(a - b) < 0, and the ticks a sleep takes.               *)

Before(a, b) == (a - b) % TickMod >= TickMod \div 2

TicksOf(ms) == (ms \div TickUnit) + (IF ms % TickUnit # 0 THEN 1 ELSE 0)

(* How far tick has gone past w.                                           *)
Overdue(w) == IF Before(w, tick) THEN (tick - w) % TickMod ELSE 0

(* mrb_resume_task has not yet compared t's wakeup tick with wakeup_tick_. *)
BeingResumed(t) == pc \in {"resume_compare", "resume_store"} /\ arg = t

(* Environment assumption: a wakeup tick that nobody is waiting for, but   *)
(* that mrb_resume_task will use, is used before half the range of the     *)
(* tick counter has gone by.                                               *)
SuspensionIsShort ==
    \A t \in Tasks :
        (\/ reason[t] = "SLEEP" /\ (status[t] # "WAITING" \/ BeingResumed(t))
         \/ pc = "resume_store" /\ arg = t)
            => Overdue(wakeup[t]) < MaxOverdue

(* The new wakeup_tick_ after a sleeper that is not due.                   *)
LaterScan(t) ==
    IF Before(wakeup[t], wakeupTick) THEN wakeup[t] ELSE wakeupTick

(* Mutant: an unsigned comparison that does not survive the wrap-around.   *)
ScanDueUnsigned == wakeupTick < (tick + 1) % TickMod
(* The tick that mrb_tick counts has passed wakeup_tick_.                  *)
ScanDue == Before(wakeupTick, (tick + 1) % TickMod)

(* Mutant: no test for a time slice that is already used up.               *)
ChargedAlways(h) == h # NoTask
(* The task at the head of the ready queue has time left to lose.          *)
Charged(h) == h # NoTask /\ timeslice[h] > 0

(* Mutant: the time slice tested before it is decreased.                   *)
SliceOverTestedFirst(h) == Charged(h) /\ timeslice[h] = 0
(* This tick takes the last of it.                                         *)
SliceOver(h) == Charged(h) /\ timeslice[h] = 1

(* mrb_tick up to the loop over the waiting queue.                         *)
mrb_tick ==
    /\ irq = "on"
    /\ SuspensionIsShort
    /\ tick' = (tick + 1) % TickMod
    /\ LET h == HeadOrNull(Ready)
       IN  /\ timeslice' = IF Charged(h)
                           THEN [timeslice EXCEPT ![h] = @ - 1]
                           ELSE timeslice
           /\ switching' = (switching \/ SliceOver(h))
    /\ IF ScanDue
       THEN /\ wakeupTick' = (tick + 1 + ScanHorizon) % TickMod
            /\ irq' = "tick"
            /\ scan' = HeadOrNull(Waiting)
            /\ woke' = FALSE
       ELSE UNCHANGED <<wakeupTick, irq, scan, woke>>
    /\ UNCHANGED <<queues, status, reason, wakeup, tcb, pc, arg>>
    /\ UNCHANGED taskVars

(* The body of that loop for the TCB scan points to.                       *)
TickScan ==
    /\ irq = "tick" /\ scan # NoTask
    /\ scan' = NextIn(Waiting, scan)
    /\ \/ /\ reason[scan] # "SLEEP"
          /\ UNCHANGED <<queues, status, reason, wakeupTick, woke>>
       \/ /\ reason[scan] = "SLEEP" /\ Before(wakeup[scan], tick)
          /\ MoveTask(scan, "READY")
          /\ reason' = [reason EXCEPT ![scan] = "NONE"]
          /\ woke' = TRUE
          /\ UNCHANGED wakeupTick
       \/ /\ reason[scan] = "SLEEP" /\ ~Before(wakeup[scan], tick)
          /\ wakeupTick' = LaterScan(scan)
          /\ UNCHANGED <<queues, status, reason, woke>>
    /\ UNCHANGED <<timeslice, wakeup, tick, switching, tcb, pc, arg, irq>>
    /\ UNCHANGED taskVars

(* The end of mrb_tick.                                                    *)
TickEnd ==
    /\ irq = "tick" /\ scan = NoTask
    /\ irq' = "on"
    /\ woke' = FALSE
    /\ switching' = (switching \/ (woke /\ preempt_running_task))
    /\ UNCHANGED <<queues, status, reason, timeslice, wakeup, tcb, pc, arg, scan>>
    /\ UNCHANGED taskVars /\ UNCHANGED tickVars

----------------------------------------------------------------------------
(* Starting up, creating tasks and leaving the run loop.                   *)

At(p) == pc = p /\ irq = "on"
Goto(p) == pc' = p

(* mrb_create_task: a TCB from mrb_tcb_new (calloc'ed, so no reason, no    *)
(* time slice), its context CREATED, put into the ready queue.             *)
mrb_create_task(t, p) ==
    /\ status[t] = "UNBORN"
    /\ prio' = [prio EXCEPT ![t] = p % 256]
    /\ status' = [status EXCEPT ![t] = "READY"]
    /\ queues' = [queues EXCEPT !["ready"] =
                    InsertedAt(@, InsertPoint(@, p % 256), t)]
    /\ switching' = (switching \/ preempt_running_task)
    /\ UNCHANGED <<reason, timeslice, wakeup, joinOn, cstat>>

(* The program creates its tasks before it calls mrb_tasks_run.            *)
BootCreate ==
    /\ At("boot")
    /\ \E t \in Tasks, p \in Priorities : mrb_create_task(t, p)
    /\ UNCHANGED <<tcb, pc, arg>> /\ UNCHANGED tickVars /\ UNCHANGED loopVars

LoopStart == IF SchedulerExit THEN "exit_ready" ELSE "pick"

BootRun ==
    /\ At("boot") /\ Goto(LoopStart)
    /\ UNCHANGED <<queues, status, reason, timeslice, wakeup, switching, tcb, arg>>
    /\ UNCHANGED taskVars /\ UNCHANGED tickVars /\ UNCHANGED loopVars

(* Mutant: suspended tasks do not count.                                   *)
SuspendedLeftIgnored == FALSE
SuspendedLeft == Suspended # <<>>

(* The exit test reads the three queues one after the other, with          *)
(* interrupts enabled.                                                     *)
ExitTest ==
    /\ \/ At("exit_ready") /\ Goto(IF Ready # <<>> THEN "pick" ELSE "exit_waiting")
       \/ At("exit_waiting")
          /\ Goto(IF Waiting # <<>> THEN "pick" ELSE "exit_suspended")
       \/ At("exit_suspended")
          /\ Goto(IF SuspendedLeft THEN "pick" ELSE "exit")
    /\ UNCHANGED <<queues, status, reason, timeslice, wakeup, switching, tcb, arg>>
    /\ UNCHANGED taskVars /\ UNCHANGED tickVars /\ UNCHANGED loopVars

----------------------------------------------------------------------------
(* mrb_tasks_run: pick the head of the ready queue and run it.             *)

(* With an empty queue the step is hal_idle_cpu and changes nothing.       *)
Pick ==
    /\ At("pick")
    /\ Ready # <<>>
    /\ tcb' = HeadOrNull(Ready)
    /\ Goto("mark")
    /\ UNCHANGED <<queues, status, reason, timeslice, wakeup, switching, arg>>
    /\ UNCHANGED taskVars /\ UNCHANGED tickVars /\ UNCHANGED loopVars

Mark ==
    /\ At("mark") /\ Goto("load")
    /\ status' = [status EXCEPT ![tcb] = "RUNNING"]
    /\ UNCHANGED <<queues, reason, timeslice, wakeup, switching, tcb, arg>>
    /\ UNCHANGED taskVars /\ UNCHANGED tickVars /\ UNCHANGED loopVars

LoadTimeslice ==
    /\ At("load") /\ Goto("exec")
    /\ timeslice' = [timeslice EXCEPT ![tcb] = TimesliceTicks]
    /\ UNCHANGED <<queues, status, reason, wakeup, switching, tcb, arg>>
    /\ UNCHANGED taskVars /\ UNCHANGED tickVars /\ UNCHANGED loopVars

(* mrb_vm_exec (external): it leaves between two instructions once         *)
(* switching is set, and executes nothing in a context that is stopped.    *)
VMYield ==
    /\ At("exec") /\ Goto("ret")
    /\ switching \/ cstat[tcb] = "STOPPED"
    /\ UNCHANGED <<queues, status, reason, timeslice, wakeup, switching, tcb, arg>>
    /\ UNCHANGED taskVars /\ UNCHANGED tickVars /\ UNCHANGED loopVars

(* The script ends, normally or with an exception it does not rescue: the  *)
(* VM (external) is taken to set mrb->exc for this task's run only.        *)
VMFinish ==
    /\ At("exec") /\ Goto("ret")
    /\ ~switching /\ cstat[tcb] # "STOPPED"
    /\ cstat' = [cstat EXCEPT ![tcb] = "STOPPED"]
    /\ UNCHANGED <<queues, status, reason, timeslice, wakeup, switching, tcb, arg>>
    /\ UNCHANGED <<prio, joinOn>> /\ UNCHANGED tickVars /\ UNCHANGED loopVars

ClearSwitching ==
    /\ At("ret")
    /\ switching' = FALSE
    /\ Goto(IF cstat[tcb] = "STOPPED" THEN "retire" ELSE "check")
    /\ UNCHANGED <<queues, status, reason, timeslice, wakeup, tcb, arg>>
    /\ UNCHANGED taskVars /\ UNCHANGED tickVars /\ UNCHANGED loopVars

(* First critical section of a task that is done.                          *)
Retire ==
    /\ At("retire") /\ Goto("wake_joiners")
    /\ MoveTask(tcb, "DORMANT")
    /\ UNCHANGED <<reason, timeslice, wakeup, switching, tcb, arg>>
    /\ UNCHANGED taskVars /\ UNCHANGED tickVars /\ UNCHANGED loopVars

(* Second critical section: it walks the waiting queue, ...                *)
WakeJoinersBegin ==
    /\ At("wake_joiners")
    /\ irq' = "join"
    /\ scan' = HeadOrNull(Waiting)
    /\ UNCHANGED <<queues, status, reason, timeslice, wakeup, switching, tcb, arg,
                   pc, woke>>
    /\ UNCHANGED taskVars /\ UNCHANGED tickVars

(* Mutant: only the first joiner is released.                              *)
JoinsDoneFirstOnly(t) ==
    reason[t] = "JOIN" /\ joinOn[t] = tcb /\ HeadOrNull(Waiting) = t
JoinsDone(t) == reason[t] = "JOIN" /\ joinOn[t] = tcb

WakeJoinersScan ==
    /\ irq = "join" /\ scan # NoTask
    /\ scan' = NextIn(Waiting, scan)
    /\ \/ /\ JoinsDone(scan)
          /\ MoveTask(scan, "READY")
          /\ reason' = [reason EXCEPT ![scan] = "NONE"]
       \/ /\ ~JoinsDone(scan)
          /\ UNCHANGED <<queues, status, reason>>
    /\ UNCHANGED <<timeslice, wakeup, switching, tcb, pc, arg, irq, woke>>
    /\ UNCHANGED taskVars /\ UNCHANGED tickVars

(* ... then the suspended queue, whose joiners will be ready when resumed. *)
WakeJoinersEnd ==
    /\ irq = "join" /\ scan = NoTask
    /\ irq' = "on" /\ Goto(LoopStart)
    /\ reason' = [t \in Tasks |->
                    IF t \in Elems(Suspended) /\ JoinsDone(t)
                    THEN "NONE" ELSE reason[t]]
    /\ UNCHANGED <<queues, status, timeslice, wakeup, switching, tcb, arg, scan, woke>>
    /\ UNCHANGED taskVars /\ UNCHANGED tickVars

(* Mutant: a task that is still RUNNING is left so.                        *)
CheckStatusLeavesRunning ==
    /\ At("check") /\ Goto("pick")
    /\ UNCHANGED <<queues, status, reason, timeslice, wakeup, switching, tcb, arg>>
    /\ UNCHANGED taskVars /\ UNCHANGED tickVars /\ UNCHANGED loopVars

(* A task that is still RUNNING goes to the end of its priority.           *)
CheckStatus ==
    /\ At("check")
    /\ IF status[tcb] = "RUNNING"
       THEN status' = [status EXCEPT ![tcb] = "READY"] /\ Goto("requeue")
       ELSE UNCHANGED status /\ Goto("pick")
    /\ UNCHANGED <<queues, reason, timeslice, wakeup, switching, tcb, arg>>
    /\ UNCHANGED taskVars /\ UNCHANGED tickVars /\ UNCHANGED loopVars

Requeue ==
    /\ At("requeue") /\ Goto("pick")
    /\ MoveTask(tcb, "READY")
    /\ UNCHANGED <<reason, timeslice, wakeup, switching, tcb, arg>>
    /\ UNCHANGED taskVars /\ UNCHANGED tickVars /\ UNCHANGED loopVars

----------------------------------------------------------------------------
(* The methods scripts call.  The VM tests switching before the call; the  *)
(* interrupt may come between the test and the method.                     *)

Targets(op) ==
    CASE op = "create" -> Tasks \ Created
      [] op \in {"sleep", "sleep_forever", "pass", "terminate_self"} -> {tcb}
      [] op = "terminate" -> Created \ {tcb}
      [] OTHER -> Created

Call ==
    /\ At("exec")
    /\ ~switching /\ cstat[tcb] # "STOPPED"
    /\ \E op \in Ops : \E t \in Targets(op) :
          /\ arg' = t
          /\ Goto(IF op = "terminate_self" THEN "terminate" ELSE op)
    /\ UNCHANGED <<queues, status, reason, timeslice, wakeup, switching, tcb>>
    /\ UNCHANGED taskVars /\ UNCHANGED tickVars /\ UNCHANGED loopVars

Return == Goto("exec") /\ arg' = NoTask

(* Mutant: a method that does not stop its caller.                         *)
SwitchRequestLost == UNCHANGED switching
(* switching_ = TRUE, at the end of sleep, suspend and join.               *)
SwitchRequest == switching' = TRUE

(* mrb_sleep and sleep_ms_impl take the head of the ready queue for the    *)
(* task that sleeps, and dereference it.                                   *)
SleepReadsHead ==
    /\ At("sleep") \/ At("sleep_forever")
    /\ IF Ready = <<>>
       THEN Goto("fault") /\ UNCHANGED arg
       ELSE /\ arg' = HeadOrNull(Ready)
            /\ Goto(IF pc = "sleep" THEN "sleep_commit" ELSE "suspend")
    /\ UNCHANGED <<queues, status, reason, timeslice, wakeup, switching, tcb>>
    /\ UNCHANGED taskVars /\ UNCHANGED tickVars /\ UNCHANGED loopVars

(* wakeup_tick_ after a task has asked to wake at w.                       *)
ArmedFor(w) == IF Before(w, wakeupTick) THEN w ELSE wakeupTick

sleep_ms_impl ==
    /\ At("sleep_commit") /\ Return
    /\ \E ms \in SleepMs :
          LET w == (tick + TicksOf(ms)) % TickMod
          IN  /\ wakeup' = [wakeup EXCEPT ![arg] = w]
              /\ wakeupTick' = ArmedFor(w)
    /\ MoveTask(arg, "WAITING")
    /\ reason' = [reason EXCEPT ![arg] = "SLEEP"]
    /\ SwitchRequest
    /\ UNCHANGED <<timeslice, tick, tcb>>
    /\ UNCHANGED taskVars /\ UNCHANGED loopVars

mrb_suspend_task ==
    /\ At("suspend") /\ Return
    /\ IF status[arg] = "SUSPENDED"
       THEN UNCHANGED <<queues, status, switching>>
       ELSE MoveTask(arg, "SUSPENDED") /\ SwitchRequest
    /\ UNCHANGED <<reason, timeslice, wakeup, tcb>>
    /\ UNCHANGED taskVars /\ UNCHANGED tickVars /\ UNCHANGED loopVars

(* The critical section of mrb_resume_task; the new wakeup tick is taken   *)
(* over after it, with interrupts enabled.                                 *)
mrb_resume_task ==
    /\ At("resume")
    /\ IF status[arg] # "SUSPENDED"
       THEN Return /\ UNCHANGED <<queues, status, switching>>
       ELSE /\ Goto("resume_compare") /\ UNCHANGED arg
            /\ MoveTask(arg, IF reason[arg] = "NONE" THEN "READY" ELSE "WAITING")
            /\ switching' =
                  (switching \/ (reason[arg] = "NONE" /\ preempt_running_task))
    /\ UNCHANGED <<reason, timeslice, wakeup, tcb>>
    /\ UNCHANGED taskVars /\ UNCHANGED tickVars /\ UNCHANGED loopVars

(* Mutant: a resumed sleeper does not bring the next scan forward.         *)
ResumeNeedsRearmNever == FALSE
ResumeNeedsRearm == reason[arg] = "SLEEP" /\ Before(wakeup[arg], wakeupTick)

ResumeCompare ==
    /\ At("resume_compare")
    /\ IF ResumeNeedsRearm THEN Goto("resume_store") /\ UNCHANGED arg ELSE Return
    /\ UNCHANGED <<queues, status, reason, timeslice, wakeup, switching, tcb>>
    /\ UNCHANGED taskVars /\ UNCHANGED tickVars /\ UNCHANGED loopVars

ResumeStore ==
    /\ At("resume_store") /\ Return
    /\ wakeupTick' = wakeup[arg]
    /\ UNCHANGED <<queues, status, reason, timeslice, wakeup, switching, tcb, tick>>
    /\ UNCHANGED taskVars /\ UNCHANGED loopVars

mrb_terminate_task ==
    /\ At("terminate") /\ Return
    /\ IF status[arg] = "DORMANT"
       THEN UNCHANGED <<queues, status>>
       ELSE MoveTask(arg, "DORMANT")
    /\ UNCHANGED <<reason, timeslice, wakeup, switching, tcb>>
    /\ UNCHANGED taskVars /\ UNCHANGED tickVars /\ UNCHANGED loopVars

(* Joining oneself raises; a DORMANT task has nothing to wait for.         *)
mrb_task_join ==
    /\ At("join") /\ Return
    /\ IF arg = tcb \/ status[arg] = "DORMANT"
       THEN UNCHANGED <<queues, status, reason, joinOn, switching>>
       ELSE /\ MoveTask(tcb, "WAITING")
            /\ reason' = [reason EXCEPT ![tcb] = "JOIN"]
            /\ joinOn' = [joinOn EXCEPT ![tcb] = arg]
            /\ SwitchRequest
    /\ UNCHANGED <<timeslice, wakeup, tcb, prio, cstat>>
    /\ UNCHANGED tickVars /\ UNCHANGED loopVars

mrb_task_s_pass ==
    /\ At("pass") /\ Return
    /\ timeslice' = [timeslice EXCEPT ![tcb] = 0]
    /\ prio' = [prio EXCEPT ![tcb] = 1]
    /\ UNCHANGED <<queues, status, reason, wakeup, switching, tcb, joinOn, cstat>>
    /\ UNCHANGED tickVars /\ UNCHANGED loopVars

mrb_task_s_new ==
    /\ At("create") /\ Return
    /\ \E p \in Priorities : mrb_create_task(arg, p)
    /\ UNCHANGED tcb /\ UNCHANGED tickVars /\ UNCHANGED loopVars

mrb_stop_task ==
    /\ At("stop") /\ Return
    /\ cstat' = [cstat EXCEPT ![arg] = "STOPPED"]
    /\ UNCHANGED <<queues, status, reason, timeslice, wakeup, switching, tcb>>
    /\ UNCHANGED <<prio, joinOn>> /\ UNCHANGED tickVars /\ UNCHANGED loopVars

mrb_task_reset_context ==
    /\ At("reset") /\ Return
    /\ cstat' = [cstat EXCEPT ![arg] = "CREATED"]
    /\ UNCHANGED <<queues, status, reason, timeslice, wakeup, switching, tcb>>
    /\ UNCHANGED <<prio, joinOn>> /\ UNCHANGED tickVars /\ UNCHANGED loopVars

----------------------------------------------------------------------------
(* mrb_picoruby_mruby_gem_init.                                            *)
Init ==
    /\ queues = [q \in QueueNames |-> <<>>]
    /\ status = [t \in Tasks |-> "UNBORN"]
    /\ reason = [t \in Tasks |-> "NONE"]
    /\ prio = [t \in Tasks |-> 0]
    /\ timeslice = [t \in Tasks |-> 0]
    /\ wakeup = [t \in Tasks |-> 0]
    /\ joinOn = [t \in Tasks |-> NoTask]
    /\ cstat = [t \in Tasks |-> "CREATED"]
    /\ tick = 0
    /\ wakeupTick = ScanHorizon
    /\ switching = FALSE
    /\ tcb = NoTask
    /\ pc = "boot"
    /\ arg = NoTask
    /\ irq = "on"
    /\ scan = NoTask
    /\ woke = FALSE

Interrupt == mrb_tick \/ TickScan \/ TickEnd

(* Steps the main program takes whenever it can take them.                 *)
Progress ==
    \/ BootRun \/ ExitTest \/ Pick \/ Mark \/ LoadTimeslice
    \/ VMYield \/ ClearSwitching \/ CheckStatus \/ Requeue
    \/ Retire \/ WakeJoinersBegin \/ WakeJoinersScan \/ WakeJoinersEnd
    \/ SleepReadsHead \/ sleep_ms_impl
    \/ mrb_suspend_task \/ mrb_resume_task \/ ResumeCompare \/ ResumeStore
    \/ mrb_terminate_task \/ mrb_task_join \/ mrb_task_s_pass
    \/ mrb_task_s_new \/ mrb_stop_task \/ mrb_task_reset_context

(* Steps that scripts may or may not take.                                 *)
Script == BootCreate \/ Call \/ VMFinish

Next == Interrupt \/ Progress \/ Script

Spec == Init /\ [][Next]_vars

(* The main program proceeds between interrupts, a pending tick is taken   *)
(* as soon as interrupts are enabled, and the interrupt handler runs to    *)
(* its end.  Nothing is assumed of scripts: they may compute forever.      *)
Fairness ==
    /\ SF_vars(Progress)
    /\ SF_vars(mrb_tick)
    /\ WF_vars(TickScan \/ TickEnd)

FairSpec == Spec /\ Fairness

----------------------------------------------------------------------------
(* Properties.                                                             *)

(* Every variable holds a value of the field it stands for.                *)
TypeOK ==
    /\ queues \in [QueueNames -> Seq(Tasks)]
    /\ status \in [Tasks -> Statuses]
    /\ reason \in [Tasks -> {"NONE", "SLEEP", "JOIN"}]
    /\ prio \in [Tasks -> 0..255]
    /\ timeslice \in [Tasks -> 0..TimesliceTicks]
    /\ wakeup \in [Tasks -> 0..(TickMod - 1)]
    /\ joinOn \in [Tasks -> Tasks \cup {NoTask}]
    /\ cstat \in [Tasks -> {"CREATED", "STOPPED"}]
    /\ tick \in 0..(TickMod - 1)
    /\ wakeupTick \in 0..(TickMod - 1)
    /\ switching \in BOOLEAN
    /\ tcb \in Tasks \cup {NoTask}
    /\ pc \in Pcs
    /\ arg \in Tasks \cup {NoTask}
    /\ irq \in {"on", "tick", "join"}
    /\ scan \in Tasks \cup {NoTask}
    /\ woke \in BOOLEAN

(* No TCB is linked twice.                                                 *)
NoDuplicates ==
    \A k \in QueueNames : \A i, j \in 1..Len(queues[k]) :
        queues[k][i] = queues[k][j] => i = j

(* A TCB is in the queue its status selects and in no other.               *)
QueueOfStatus ==
    \A t \in Tasks, k \in QueueNames :
        t \in Elems(queues[k])
            <=> (status[t] # "UNBORN" /\ k = conv_tbl(status[t]))

(* Whatever scripts call and wherever the tick falls, every task is linked *)
(* once, in the queue q_delete_task will look for it in: "TCB must be      *)
(* free" holds at each q_insert_task and the assertion "Not found target   *)
(* task in queue" of q_delete_task is never reached.                       *)
QueueIntegrity == NoDuplicates /\ QueueOfStatus

(* At most one task is RUNNING: the one mrb_tasks_run holds in tcb,        *)
(* between the store of RUNNING and the store of READY, although status is *)
(* written by both threads of control.                                     *)
RunningIsCurrent ==
    \A t \in Tasks : status[t] = "RUNNING" =>
        /\ t = tcb
        /\ pc \in {"load", "exec", "ret", "retire", "check", "fault"} \cup OpPcs

(* What the two invariants above rest on: the TCB a loop over the waiting  *)
(* queue points to is still waiting although the previous one has been     *)
(* moved away, only the end of a task runs the loop over its joiners, ...  *)
ScanIsWaiting ==
    /\ irq # "on" /\ scan # NoTask => status[scan] = "WAITING"
    /\ irq = "join" => pc = "wake_joiners"

(* ... the task mrb_tasks_run holds in tcb has been created, and is READY  *)
(* when it is about to be marked RUNNING or to be queued again although    *)
(* interrupts were enabled since its status was last looked at, ...        *)
CurrentIsCreated ==
    /\ pc \notin {"boot", "exit_ready", "exit_waiting", "exit_suspended",
                  "exit", "pick"} => tcb \in Created
    /\ pc \in {"mark", "requeue"} => status[tcb] = "READY"

(* ... and so has the task a method is about to move.                      *)
ArgIsCreated ==
    /\ pc \in OpPcs \ {"create"} => arg \in Created
    /\ pc = "create" => arg \in Tasks

(* The inductive invariant behind QueueIntegrity and RunningIsCurrent.     *)
SchedulerInv ==
    /\ TypeOK
    /\ QueueIntegrity
    /\ RunningIsCurrent
    /\ ScanIsWaiting
    /\ CurrentIsCreated
    /\ ArgIsCreated

(* The next scan of the waiting queue comes no later than any sleeper's    *)
(* wakeup tick, for every interleaving of sleep, suspend, resume and the   *)
(* tick, across the wrap-around of the counter.  The task being resumed is *)
(* excepted until mrb_resume_task has looked at it.                        *)
WakeupArmed ==
    \A t \in Tasks :
        status[t] = "WAITING" /\ reason[t] = "SLEEP" /\ irq # "tick"
        /\ ~BeingResumed(t)
            => ~Before(wakeup[t], wakeupTick)

(* "The queue is sorted in priority_preemption order."                     *)
SortedQueues ==
    \A k \in QueueNames : \A i, j \in 1..Len(queues[k]) :
        i < j => prio[queues[k][i]] <= prio[queues[k][j]]

(* sleep always finds a task at the head of the ready queue.               *)
NoFault == pc # "fault"

(* Nobody waits, or will wait once resumed, for a task that has ended.     *)
JoinersReleased ==
    irq = "on" /\ pc # "wake_joiners" =>
        \A t \in Tasks :
            status[t] \in {"WAITING", "SUSPENDED"} /\ reason[t] = "JOIN"
                => status[joinOn[t]] # "DORMANT"

(* mrb_tasks_run returns when every task has ended.  The one exception is  *)
(* a sleeper that the tick wakes between two reads of the exit test: it is *)
(* left behind READY.  Nobody is left waiting or suspended.                *)
ExitIsLast ==
    pc = "exit" => \A t \in Created :
        status[t] = "DORMANT" \/ (status[t] = "READY" /\ "sleep" \in Ops)

Ahead(q, t, u) == \E i, j \in 1..Len(q) : i < j /\ q[i] = t /\ q[j] = u

(* A step leaves a task of the ready queue ahead of every task that is not *)
(* more urgent and was not ahead of it, unless it puts the task itself     *)
(* behind the others.                                                      *)
KeepsTurns ==
    \A t, u \in Elems(Ready') :
        (/\ t # u /\ t \in Elems(Ready) /\ ~Ahead(Ready, u, t)
         /\ prio[t] <= prio'[u]
         /\ ~(pc = "requeue" /\ t = tcb)) => Ahead(Ready', t, u)

(* Tasks of one priority take turns: a task in the ready queue is not      *)
(* overtaken by one that is not more urgent, until it has had the CPU and  *)
(* is put behind the others.                                               *)
NoOvertaking == [][KeepsTurns]_vars

(* A method call puts its caller to sleep, and nobody else.                *)
SleepPutsCallerToSleep ==
    [][sleep_ms_impl => arg = tcb]_vars

(* A task that computes forever loses the CPU when its time slice is over. *)
SliceEnds == pc = "exec" ~> pc = "ret"

(* A task that is ready gets the CPU.                                      *)
ReadyRuns == \A t \in Tasks : status[t] = "READY" ~> status[t] # "READY"

(* A sleeper leaves the waiting queue.                                     *)
SleeperWakes ==
    \A t \in Tasks :
        status[t] = "WAITING" /\ reason[t] = "SLEEP" ~> status[t] # "WAITING"
=============================================================================
