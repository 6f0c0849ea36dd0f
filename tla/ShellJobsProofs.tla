--------------------------- MODULE ShellJobsProofs ---------------------------
(***************************************************************************)
(* ShellJobs, proved for every set of jobs and every choice of those that  *)
(* manage signals themselves: type correctness, that the                   *)
(* prompt is quiet, that the shell listens to the console while it waits,  *)
(* and that irb answers the line it was given, each with the exceptions    *)
(* that its property names.                                                *)
(***************************************************************************)
EXTENDS ShellJobs, TLAPS

\* A job that may be there while the shell shows its prompt
Calm(k) == Quiet(k) \/ k.spared

\* While the shell waits the TSTP trap is the block of the job it waits for, and
\* only that job, and one spared a ^C, may run unasked.
OnlyAwaited ==
  /\ sh.pc \in WaitPcs => trap.tstp = sh.job
  /\ \A j \in jobs : Calm(task[j]) \/ (sh.pc \in WaitPcs /\ j = sh.job)

TaskRecord == [st : {"READY", "WAITING", "SUSPENDED", "DORMANT"},
               prog : {"boot", "booted", "script", "ended"},
               stop : BOOLEAN, sleep : BOOLEAN, mine : BOOLEAN, nested : BOOLEAN,
               spared : BOOLEAN]
Wellformed(k) == /\ k \in TaskRecord
                 /\ k.st = "WAITING" => k.sleep
                 /\ k.st = "READY" => ~k.sleep

\* The operations on a task keep its record well formed (sandbox.c:128-191,
\* task.c:538-576); a suspended or ended one is quiet, and Resumed only wakes
\* what was suspended.
LEMMA OperationsWellformed ==
  ASSUME NEW k, Wellformed(k)
  PROVE  /\ Wellformed(Suspended(k)) /\ Quiet(Suspended(k))
         /\ Wellformed(Resumed(k))
         /\ Wellformed(Ended(k)) /\ Quiet(Ended(k))
  BY DEF Wellformed, TaskRecord, Suspended, Resumed, Ended, Quiet, AtRest

\* Sandbox#execute keeps the record well formed (sandbox.c:138-150).
LEMMA ExecutedWellformed ==
  ASSUME NEW k, Wellformed(k), k.st = "READY" => ~k.sleep
  PROVE  Wellformed(Executed(k))
<1> DEFINE m == [Loaded(k) EXCEPT !.stop = FALSE, !.prog = "script", !.nested = FALSE]
<1>1. Wellformed(m)
  BY DEF Wellformed, TaskRecord, Loaded
<1> QED
  BY <1>1, OperationsWellformed DEF Executed

\* A new task is well formed and quiet.
LEMMA NewWellformed == Wellformed(NewTask) /\ Wellformed(NoTask) /\ Quiet(NewTask)
  BY DEF Wellformed, TaskRecord, NewTask, NoTask, Quiet

\* The types of task and of the rest, apart
TasksOK == /\ task \in [Tasks -> TaskRecord]
           /\ \A t \in Tasks : Wellformed(task[t])
RestOK ==
  /\ jobs \subseteq Jobs
  /\ sh \in [pc : {"prompt", "exec"} \cup WaitPcs, job : Jobs, self : BOOLEAN,
             leak : BOOLEAN]
  /\ irb \in [pc : {"start", "prompt", "cut", "done"} \cup WaitPcs, self : BOOLEAN,
              answered : BOOLEAN, over : BOOLEAN]
  /\ env \in [set : BOOLEAN, leak : BOOLEAN]
  /\ trap \in [tstp : Jobs \cup {0}, cont : BOOLEAN]

ShellInv == TasksOK /\ RestOK /\ OnlyAwaited

\* The two parts make the type invariant.
LEMMA TypeParts == TasksOK /\ RestOK => TypeOK
  BY DEF TypeOK, TasksOK, RestOK, Wellformed, TaskRecord

\* Storing well formed records keeps the table of tasks well formed.
LEMMA Stored ==
  ASSUME TasksOK, NEW t \in Tasks, NEW r, Wellformed(r), task' = [task EXCEPT ![t] = r]
  PROVE  TasksOK' /\ task'[t] = r /\ \A u \in Tasks \ {t} : task'[u] = task[u]
  BY DEF TasksOK, Wellformed

\* irb's sandbox is a task and not on @jobs.
LEMMA InnerIsNoJob == Inner \in Tasks /\ Inner \notin Jobs /\ Irb \in Jobs /\ Jobs \subseteq Tasks
  BY JobsAssumption DEF Inner, Tasks

\* A step that leaves the shell alone and stores calm records for calm jobs
LEMMA OthersStep ==
  ASSUME ShellInv, UNCHANGED <<jobs, sh>>, TasksOK', RestOK',
         trap'.tstp = trap.tstp,
         \A j \in jobs : Calm(task[j]) => Calm(task'[j])
  PROVE  ShellInv'
  BY DEF ShellInv, OnlyAwaited

\* The steps of the shell and of its user (shell.rb:370-395, 573-593,
\* job.rb:21-64, sandbox.rb:8-12, 54-86)
LEMMA ShellStep ==
  ASSUME ShellInv, Shell \/ User
  PROVE  ShellInv'
<1> USE InnerIsNoJob DEF ShellInv, WaitPcs, AtPrompt
<1>0. TasksOK /\ RestOK /\ sh.job \in Tasks /\ Wellformed(task[sh.job])
  BY DEF TasksOK, RestOK
<1>1. ASSUME NEW j \in Jobs, Enter(j) PROVE ShellInv'
  <2>1. task' = [task EXCEPT ![j] = NewTask] /\ j \in Tasks
    BY <1>1 DEF Enter
  <2>2. /\ TasksOK' /\ task'[j] = NewTask
        /\ \A u \in Tasks \ {j} : task'[u] = task[u]
    BY <1>0, <2>1, Stored, NewWellformed
  <2>3. RestOK'
    BY <1>0, <1>1 DEF RestOK, Enter, CleanedUp, NewIrb
  <2>4. OnlyAwaited'
    BY <1>0, <1>1, <2>2, NewWellformed
    DEF OnlyAwaited, Enter, CleanedUp, RestOK, Calm
  <2> QED BY <2>2, <2>3, <2>4
<1>2. ASSUME NEW j \in Jobs, Fg(j) PROVE ShellInv'
  <2>0. j \in Tasks /\ Wellformed(task[j])
    BY <1>0 DEF TasksOK
  <2>1. PICK r : r = [Resumed(task[j]) EXCEPT !.spared = FALSE]
    OBVIOUS
  <2>2. task' = [task EXCEPT ![j] = r] /\ Wellformed(r)
    <3>1. Wellformed(Resumed(task[j]))
      BY <2>0, OperationsWellformed
    <3>2. Wellformed(r)
      BY <2>1, <3>1 DEF Wellformed, TaskRecord
    <3> QED BY <1>2, <2>1, <3>2 DEF Fg
  <2>5. /\ TasksOK' /\ \A u \in Tasks \ {j} : task'[u] = task[u]
    BY <1>0, <2>0, <2>2, Stored
  <2>3. RestOK'
    BY <1>0, <1>2 DEF RestOK, Fg, CleanedUp, Trapped, Flagged
  <2>4. OnlyAwaited'
    BY <1>0, <1>2, <2>5 DEF OnlyAwaited, Fg, CleanedUp, Trapped, RestOK
  <2> QED BY <2>3, <2>4, <2>5
<1>3. CASE Exec
  <2>1. RestOK'
    <3>1. /\ UNCHANGED <<jobs, irb, env>> /\ trap' = [trap EXCEPT !.tstp = sh.job]
          /\ sh' = AtPrompt \/ sh' = [sh EXCEPT !.pc = "sleep"]
      BY <1>3 DEF Exec, Trapped
    <3>2. CASE sh' = AtPrompt
      BY <1>0, <3>1, <3>2 DEF RestOK
    <3>3. CASE sh' = [sh EXCEPT !.pc = "sleep"]
      BY <1>0, <3>1, <3>3 DEF RestOK
    <3> QED BY <3>1, <3>2, <3>3
  <2>2. CASE /\ task' = [task EXCEPT ![sh.job] = Executed(@)]
             /\ sh' = [sh EXCEPT !.pc = "sleep"]
    <3>1. task' = [task EXCEPT ![sh.job] = Executed(task[sh.job])]
      BY <2>2
    <3>2. TasksOK' /\ \A u \in Tasks \ {sh.job} : task'[u] = task[u]
      BY <1>0, <3>1, Stored, ExecutedWellformed DEF Wellformed
    <3>3. OnlyAwaited'
      BY <1>0, <1>3, <2>2, <3>2 DEF OnlyAwaited, Exec, Trapped, RestOK
    <3> QED BY <2>1, <3>2, <3>3
  <2>3. CASE sh' = AtPrompt /\ UNCHANGED task
    <3>1. TasksOK'
      BY <1>0, <2>3 DEF TasksOK
    <3>2. OnlyAwaited'
      BY <1>0, <1>3, <2>3 DEF OnlyAwaited, Exec, Trapped, RestOK
    <3> QED BY <2>1, <3>1, <3>2
  <2> QED BY <1>3, <2>2, <2>3 DEF Exec
<1>4. CASE Look \/ Loop \/ Read
  <2>1. TasksOK'
    BY <1>0, <1>4 DEF TasksOK, Look, Loop, Read
  <2>2. RestOK'
    <3>1. CASE Look
      BY <1>0, <3>1 DEF RestOK, WaitPcs, Look, EnvDeleted, NoFlag
    <3>2. CASE Loop
      BY <1>0, <3>2 DEF RestOK, WaitPcs, Loop
    <3>3. CASE Read
      BY <1>0, <3>3 DEF RestOK, WaitPcs, Read
    <3> QED BY <1>4, <3>1, <3>2, <3>3
  <2>3. OnlyAwaited'
    <3>1. CASE Look
      BY <1>0, <3>1 DEF OnlyAwaited, RestOK, Look
    <3>2. CASE Loop
      BY <1>0, <3>2 DEF OnlyAwaited, RestOK, Loop, Over, Calm, Quiet, AtRest
    <3>3. CASE Read
      BY <1>0, <3>3 DEF OnlyAwaited, RestOK, Read
    <3> QED BY <1>4, <3>1, <3>2, <3>3
  <2> QED BY <2>1, <2>2, <2>3
<1>5. CASE Int
  <2>1. PICK r : /\ r \in {[task[sh.job] EXCEPT !.stop = TRUE],
                           [task[sh.job] EXCEPT !.spared = TRUE]}
                 /\ task' = [task EXCEPT ![sh.job] = r]
    BY <1>5 DEF Int
  <2>2. Wellformed(r) /\ Calm(r)
    BY <1>0, <2>1 DEF Wellformed, TaskRecord, Calm, Quiet
  <2>3. /\ TasksOK' /\ task'[sh.job] = r
        /\ \A u \in Tasks \ {sh.job} : task'[u] = task[u]
    BY <1>0, <2>1, <2>2, Stored
  <2>4. RestOK'
    BY <1>0, <1>5 DEF RestOK, Int
  <2>5. OnlyAwaited'
    BY <1>0, <1>5, <2>2, <2>3 DEF OnlyAwaited, Int, RestOK
  <2> QED BY <2>3, <2>4, <2>5
<1>6. CASE Tstp
  <2>1. trap.tstp = sh.job /\ task' = [task EXCEPT ![sh.job] = Suspended(task[sh.job])]
    BY <1>6 DEF Tstp, OnlyAwaited
  <2>2. /\ TasksOK' /\ task'[sh.job] = Suspended(task[sh.job])
        /\ \A u \in Tasks \ {sh.job} : task'[u] = task[u]
    BY <1>0, <2>1, Stored, OperationsWellformed
  <2>3. RestOK'
    BY <1>0, <1>6 DEF RestOK, Tstp
  <2>4. OnlyAwaited'
    BY <1>0, <1>6, <2>2, OperationsWellformed DEF OnlyAwaited, Tstp, RestOK, Calm
  <2> QED BY <2>2, <2>3, <2>4
<1> QED BY <1>1, <1>2, <1>3, <1>4, <1>5, <1>6 DEF Shell, User

\* The steps of the tasks (task.c:395-470, 538-589)
LEMMA TaskStep ==
  ASSUME ShellInv, NEW t \in Tasks, Slice(t) \/ Wake(t)
  PROVE  ShellInv'
<1> USE DEF ShellInv
<1>0. TasksOK /\ RestOK /\ Wellformed(task[t]) /\ jobs \subseteq Tasks
  BY InnerIsNoJob DEF TasksOK, RestOK
<1>1. SUFFICES ASSUME NEW r, Wellformed(r), task' = [task EXCEPT ![t] = r],
                      Calm(task[t]) => Calm(r), UNCHANGED <<jobs, sh, trap>>, RestOK'
               PROVE  ShellInv'
  <2>1. CASE Stop(t) \/ BootEnds(t)
    <3>1. /\ task' = [task EXCEPT ![t] = Ended(task[t])]
          /\ UNCHANGED <<jobs, sh, env, trap>> /\ irb' \in {irb, NewIrb}
      BY <2>1 DEF Stop, BootEnds
    <3>2. RestOK'
      <4>1. CASE irb' = irb
        BY <1>0, <3>1, <4>1 DEF RestOK
      <4>2. CASE irb' = NewIrb
        BY <1>0, <3>1, <4>2 DEF RestOK, NewIrb
      <4> QED BY <3>1, <4>1, <4>2
    <3> QED BY <1>0, <1>1, <3>1, <3>2, OperationsWellformed DEF Calm
  <2>2. CASE Boot(t)
    <3>1. /\ task' = [task EXCEPT ![t] = [Suspended(task[t]) EXCEPT !.prog = "booted"]]
          /\ UNCHANGED <<jobs, sh, irb, env, trap>>
      BY <2>2 DEF Boot
    <3>2. LET r == [Suspended(task[t]) EXCEPT !.prog = "booted"]
          IN  Wellformed(r) /\ Quiet(r)
      BY <1>0 DEF Wellformed, TaskRecord, Suspended, Quiet, AtRest
    <3>3. RestOK'
      BY <1>0, <3>1 DEF RestOK
    <3> QED BY <1>1, <3>1, <3>2, <3>3 DEF Calm
  <2>3. CASE Wake(t)
    <3>1. /\ task' = [task EXCEPT ![t] = [task[t] EXCEPT !.st = "READY", !.sleep = FALSE]]
          /\ UNCHANGED <<jobs, sh, irb, env, trap>>
      BY <2>3 DEF Wake
    <3>2. LET r == [task[t] EXCEPT !.st = "READY", !.sleep = FALSE]
          IN  Wellformed(r) /\ (Calm(task[t]) => Calm(r))
      BY <1>0, <2>3 DEF Wellformed, TaskRecord, Wake, Calm, Quiet, AtRest
    <3>3. RestOK'
      BY <1>0, <3>1 DEF RestOK
    <3> QED BY <1>1, <3>1, <3>2, <3>3
  <2>4. CASE Script(t)
    <3>0. (Calm(task[t]) => task[t].spared) /\ UNCHANGED <<jobs, sh, env, trap>>
      BY <2>4 DEF Script, Runs, Ready, Calm, Quiet, AtRest
    <3>1. RestOK'
      BY <1>0, <2>4, <3>0 DEF RestOK, Script, TasksOK, Wellformed, TaskRecord
    <3>2. CASE task' = [task EXCEPT ![t].nested = ~@]
      <4>1. task' = [task EXCEPT ![t] = [task[t] EXCEPT !.nested = ~task[t].nested]]
        BY <3>2
      <4>2. LET k == [task[t] EXCEPT !.nested = ~task[t].nested]
            IN  Wellformed(k) /\ (Calm(task[t]) => Calm(k))
        BY <1>0, <3>0 DEF Wellformed, TaskRecord, Calm
      <4> QED BY <1>1, <3>0, <3>1, <4>1, <4>2
    <3>3. CASE task' = [task EXCEPT ![t].st = "WAITING", ![t].sleep = TRUE]
      <4>1. task' = [task EXCEPT ![t] = [task[t] EXCEPT !.st = "WAITING", !.sleep = TRUE]]
        BY <3>3 DEF TasksOK
      <4>2. LET k == [task[t] EXCEPT !.st = "WAITING", !.sleep = TRUE]
            IN  Wellformed(k) /\ (Calm(task[t]) => Calm(k))
        BY <1>0, <3>0 DEF Wellformed, TaskRecord, Calm
      <4> QED BY <1>1, <3>0, <3>1, <4>1, <4>2
    <3>4. CASE task' = [task EXCEPT ![t] = Ended(@)] \/ task' = [task EXCEPT ![t] = Suspended(@)]
      BY <1>0, <1>1, <3>0, <3>1, <3>4, OperationsWellformed DEF Calm
    <3> QED BY <2>4, <3>2, <3>3, <3>4 DEF Script
  <2> QED BY <2>1, <2>2, <2>3, <2>4 DEF Slice
<1>2. TasksOK' /\ task'[t] = r /\ \A u \in Tasks \ {t} : task'[u] = task[u]
  BY <1>0, <1>1, Stored
<1> QED BY <1>0, <1>1, <1>2, OthersStep

\* The steps of the program irb (shell.rb:397-438)
LEMMA IrbStep ==
  ASSUME ShellInv, IrbProgram
  PROVE  ShellInv'
<1> USE InnerIsNoJob DEF ShellInv
<1>0. /\ TasksOK /\ RestOK /\ jobs \subseteq Jobs /\ Irb \in Tasks
      /\ Wellformed(task[Inner]) /\ Wellformed(task[Irb])
      /\ UNCHANGED <<jobs, sh>>
  BY DEF TasksOK, RestOK, IrbProgram, IrbStart, IrbSuspend, IrbLine, IrbLook, IrbLoop,
         IrbRead, IrbInt, IrbTstp, IrbDone, IrbQuit
<1>1. RestOK' /\ trap'.tstp = trap.tstp
  <2> USE <1>0 DEF RestOK, WaitPcs
  <2>1. CASE IrbStart
    BY <2>1 DEF IrbStart, Go, Flagged
  <2>2. CASE IrbSuspend
    BY <2>2 DEF IrbSuspend
  <2>3. CASE IrbLine
    BY <2>3 DEF IrbLine, TasksOK, TaskRecord
  <2>4. CASE IrbLook
    BY <2>4 DEF IrbLook, EnvDeleted, NoFlag
  <2>5. CASE IrbLoop \/ IrbRead \/ IrbTstp \/ IrbDone
    BY <2>5 DEF IrbLoop, IrbRead, IrbTstp, IrbDone, Go, NewIrb
  <2>6. CASE IrbInt \/ IrbQuit
    <3>1. /\ irb' = NewIrb \/ irb' = [irb EXCEPT !.pc = "cut"]
          /\ UNCHANGED <<jobs, sh, env, trap>>
      BY <2>6 DEF IrbInt, IrbQuit, Go
    <3>2. CASE irb' = NewIrb
      BY <3>1, <3>2 DEF NewIrb
    <3>3. CASE irb' = [irb EXCEPT !.pc = "cut"]
      BY <3>1, <3>3
    <3> QED BY <3>1, <3>2, <3>3
  <2> QED BY <2>1, <2>2, <2>3, <2>4, <2>5, <2>6 DEF IrbProgram
<1>2. ASSUME NEW r, Wellformed(r), task' = [task EXCEPT ![Inner] = r] PROVE ShellInv'
  <2>1. TasksOK' /\ \A u \in Tasks \ {Inner} : task'[u] = task[u]
    BY <1>0, <1>2, Stored
  <2> QED BY <1>0, <1>1, <2>1, OthersStep
<1>3. CASE IrbStart
  <2>1. task' = [task EXCEPT ![Inner] = NewTask]
    BY <1>3 DEF IrbStart
  <2> QED BY <1>2, <2>1, NewWellformed
<1>4. CASE IrbSuspend \/ IrbTstp
  <2>1. /\ trap.tstp \in Tasks
        /\ task' = [task EXCEPT ![trap.tstp] = Suspended(task[trap.tstp])]
    BY <1>0, <1>4 DEF IrbSuspend, IrbTstp, RestOK, Tasks, Inner
  <2>2. Wellformed(task[trap.tstp])
    BY <1>0, <2>1 DEF TasksOK
  <2>3. /\ TasksOK' /\ task'[trap.tstp] = Suspended(task[trap.tstp])
        /\ \A u \in Tasks \ {trap.tstp} : task'[u] = task[u]
    BY <1>0, <2>1, <2>2, Stored, OperationsWellformed
  <2>4. \A j \in jobs : Calm(task[j]) => Calm(task'[j])
    BY <1>0, <2>2, <2>3, OperationsWellformed DEF Calm
  <2> QED BY <1>0, <1>1, <2>3, <2>4, OthersStep
<1>5. CASE IrbLine
  <2>1. task' = [task EXCEPT ![Inner] = Executed(task[Inner])]
    BY <1>5 DEF IrbLine
  <2>2. Wellformed(Executed(task[Inner]))
    BY <1>0, ExecutedWellformed DEF Wellformed
  <2> QED BY <1>2, <2>1, <2>2
<1>6. CASE IrbLook \/ IrbLoop \/ IrbRead
  <2>1. task' = task
    BY <1>6 DEF IrbLook, IrbLoop, IrbRead
  <2>2. TasksOK'
    BY <1>0, <2>1 DEF TasksOK
  <2> QED BY <1>0, <1>1, <2>1, <2>2, OthersStep
<1>7. CASE IrbDone
  <2>1. task' = [task EXCEPT ![Inner] = Suspended(task[Inner])]
    BY <1>7 DEF IrbDone
  <2> QED BY <1>0, <1>2, <2>1, OperationsWellformed
<1>8. ASSUME task' = [task EXCEPT ![Inner] = NoTask, ![Irb] = Ended(@)]
      PROVE  ShellInv'
  <2>0. Irb # Inner
    OBVIOUS
  <2>1. task' = [task EXCEPT ![Inner] = NoTask, ![Irb] = Ended(task[Irb])]
    BY <1>0, <1>8, <2>0 DEF TasksOK
  <2>2. Wellformed(NoTask)
    BY NewWellformed
  <2>3. Wellformed(Ended(task[Irb])) /\ Quiet(Ended(task[Irb]))
    BY <1>0, OperationsWellformed
  <2>4. /\ TasksOK' /\ task'[Irb] = Ended(task[Irb])
        /\ \A u \in Tasks \ {Inner, Irb} : task'[u] = task[u]
    BY <1>0, <2>0, <2>1, <2>2, <2>3 DEF TasksOK, Wellformed
  <2>5. \A j \in jobs : Calm(task[j]) => Calm(task'[j])
    BY <1>0, <2>3, <2>4 DEF Calm
  <2> QED BY <1>0, <1>1, <2>4, <2>5, OthersStep
<1>9. CASE IrbQuit
  BY <1>8, <1>9 DEF IrbQuit
<1>10. CASE IrbInt
  <2>1. CASE task' = [task EXCEPT ![Inner] = NoTask, ![Irb] = Ended(@)]
    BY <1>8, <2>1
  <2>2. CASE task' = [task EXCEPT ![Inner].stop = TRUE]
    <3>1. task' = [task EXCEPT ![Inner] = [task[Inner] EXCEPT !.stop = TRUE]]
      BY <2>2
    <3>2. Wellformed([task[Inner] EXCEPT !.stop = TRUE])
      BY <1>0 DEF Wellformed, TaskRecord
    <3> QED BY <1>2, <3>1, <3>2
  <2> QED BY <1>10, <2>1, <2>2 DEF IrbInt
<1> QED BY <1>3, <1>4, <1>5, <1>6, <1>7, <1>9, <1>10 DEF IrbProgram

\* The steps of the other programs that manage signals (rapicco.rb:12, 43-52)
LEMMA ManagerStep ==
  ASSUME ShellInv, NEW t \in Managers, Manage(t) \/ ManagerSuspend(t)
  PROVE  ShellInv'
<1> USE InnerIsNoJob DEF ShellInv
<1>0. TasksOK /\ RestOK /\ UNCHANGED <<jobs, sh, irb>> /\ jobs \subseteq Tasks
  BY DEF Manage, ManagerSuspend, RestOK
<1>1. RestOK' /\ trap'.tstp = trap.tstp
  <2>1. CASE Manage(t)
    <3>1. Awaited(t) \in BOOLEAN
      BY DEF Awaited
    <3> QED BY <1>0, <2>1, <3>1 DEF RestOK, Manage, Flagged
  <2>2. CASE ManagerSuspend(t)
    BY <1>0, <2>2 DEF RestOK, ManagerSuspend
  <2> QED BY <2>1, <2>2
<1>2. CASE Manage(t)
  <2>1. task' = task
    BY <1>2 DEF Manage
  <2>2. TasksOK'
    BY <1>0, <2>1 DEF TasksOK
  <2> QED BY <1>0, <1>1, <2>1, <2>2, OthersStep
<1>3. CASE ManagerSuspend(t)
  <2>1. /\ trap.tstp \in Tasks
        /\ task' = [task EXCEPT ![trap.tstp] = Suspended(task[trap.tstp])]
    BY <1>0, <1>3 DEF ManagerSuspend, RestOK, Tasks, Inner
  <2>2. Wellformed(task[trap.tstp])
    BY <1>0, <2>1 DEF TasksOK
  <2>3. /\ TasksOK' /\ task'[trap.tstp] = Suspended(task[trap.tstp])
        /\ \A u \in Tasks \ {trap.tstp} : task'[u] = task[u]
    BY <1>0, <2>1, <2>2, Stored, OperationsWellformed
  <2>4. \A j \in jobs : Calm(task[j]) => Calm(task'[j])
    BY <1>0, <2>2, <2>3, OperationsWellformed DEF Calm
  <2> QED BY <1>0, <1>1, <2>3, <2>4, OthersStep
<1> QED BY <1>2, <1>3

\* No job has been entered at the start.
LEMMA InitInv == Init => ShellInv
<1> SUFFICES ASSUME Init PROVE ShellInv
  OBVIOUS
<1>1. TasksOK
  BY NewWellformed DEF Init, TasksOK, Wellformed
<1>2. RestOK
  BY InnerIsNoJob DEF Init, RestOK, NewIrb, AtPrompt, NoFlag
<1>3. OnlyAwaited
  BY DEF Init, OnlyAwaited, WaitPcs, AtPrompt
<1> QED BY <1>1, <1>2, <1>3 DEF ShellInv

\* The invariant holds in every reachable state.
LEMMA ShellInvInductive == Spec => []ShellInv
<1>1. ShellInv /\ [Next]_vars => ShellInv'
  <2> SUFFICES ASSUME ShellInv, [Next]_vars PROVE ShellInv'
    OBVIOUS
  <2>1. CASE UNCHANGED vars
    BY <2>1 DEF vars, ShellInv, TasksOK, RestOK, OnlyAwaited, Calm, Quiet, AtRest
  <2>2. CASE Next
    BY <2>2, ShellStep, TaskStep, IrbStep, ManagerStep DEF Next
  <2> QED BY <2>1, <2>2
<1> QED BY <1>1, InitInv, PTL DEF Spec

\* The types of ShellJobs' variables, and the match of status and reason of every
\* sandbox's task, for every set of jobs.
THEOREM Typed == Spec => []TypeOK
<1>1. ShellInv => TypeOK
  BY TypeParts DEF ShellInv
<1> QED BY <1>1, ShellInvInductive, PTL

\* At the prompt no job runs behind the user's back, but for one spared a ^C by an
\* INT block that raised (job.rb:21-64, sandbox.rb:54-86), for every set of jobs
\* and every interleaving.
THEOREM Prompt == Spec => []PromptQuiet
<1>1. ShellInv => PromptQuiet
  BY DEF ShellInv, OnlyAwaited, PromptQuiet, WaitPcs, Calm
<1> QED BY <1>1, ShellInvInductive, PTL

-----------------------------------------------------------------------------
(* Who reads the console.                                                  *)

\* ENV['SIGNAL_SELF_MANAGE'] is set for the wait that is about to look and whose
\* job reads the console, or is a leak; and what a wait has read is the same.
SelfExplained ==
  /\ env.set => env.leak \/ (sh.pc = "sleep" /\ sh.job \in Managers)
  /\ sh.self => sh.leak \/ sh.job \in Managers

\* The shell, its user (job.rb:21-64, sandbox.rb:8-12, 54-86), the tasks, irb and
\* the other managers.
LEMMA ConsoleStep ==
  ASSUME ShellInv, SelfExplained, Next
  PROVE  SelfExplained'
<1>0. RestOK /\ Irb \in Managers
  BY JobsAssumption DEF ShellInv
<1> USE DEF AtPrompt, NoFlag
<1>1. ASSUME NEW j \in Jobs, Enter(j) PROVE SelfExplained'
  BY <1>0, <1>1 DEF SelfExplained, Enter, RestOK
<1>2. ASSUME NEW j \in Jobs, Fg(j) PROVE SelfExplained'
  BY <1>0, <1>2 DEF SelfExplained, Fg, Flagged, RestOK
<1>3. CASE Exec
  BY <1>0, <1>3 DEF SelfExplained, Exec, RestOK
<1>4. CASE Look
  BY <1>0, <1>4 DEF SelfExplained, Look, EnvDeleted, RestOK
<1>5. CASE Loop \/ Read \/ Int \/ Tstp
  <2>1. UNCHANGED env /\ sh.pc # "sleep"
        /\ (sh' = AtPrompt \/ \E p : sh' = [sh EXCEPT !.pc = p])
    BY <1>5 DEF Loop, Read, Int, Tstp
  <2>2. ~sh'.self \/ (sh'.self = sh.self /\ sh'.job = sh.job /\ sh'.leak = sh.leak)
    BY <1>0, <2>1 DEF RestOK
  <2> QED BY <2>1, <2>2 DEF SelfExplained
<1>6. ASSUME NEW t \in Tasks, Slice(t) \/ Wake(t) PROVE SelfExplained'
  BY <1>6 DEF SelfExplained, Slice, Wake, Stop, Boot, BootEnds, Script
<1>7. CASE IrbStart
  BY <1>0, <1>7 DEF SelfExplained, IrbStart, Flagged, Awaited, RestOK
<1>8. CASE IrbLook
  BY <1>0, <1>8 DEF SelfExplained, IrbLook, EnvDeleted, RestOK
<1>9. CASE \/ IrbSuspend \/ IrbLine \/ IrbLoop \/ IrbRead \/ IrbInt \/ IrbTstp
           \/ IrbDone \/ IrbQuit
  BY <1>9 DEF SelfExplained, IrbSuspend, IrbLine, IrbLoop, IrbRead, IrbInt, IrbTstp,
              IrbDone, IrbQuit
<1>10. ASSUME NEW t \in Managers, Manage(t) \/ ManagerSuspend(t) PROVE SelfExplained'
  <2>1. CASE Manage(t)
    BY <1>0, <2>1 DEF SelfExplained, Manage, Flagged, Awaited, RestOK
  <2>2. CASE ManagerSuspend(t)
    BY <2>2 DEF SelfExplained, ManagerSuspend
  <2> QED BY <1>10, <2>1, <2>2
<1> QED BY <1>1, <1>2, <1>3, <1>4, <1>5, <1>6, <1>7, <1>8, <1>9, <1>10
        DEF Next, Shell, User, IrbProgram

-----------------------------------------------------------------------------
(* What irb answers.                                                       *)

\* The line under way: its sandbox runs it, has run it to the end, or the line has
\* suspended itself; a line that was entered over one left in a call is the other
\* exception AnswerIsLine names.
LineRuns ==
  /\ task[Inner].st \in {"READY", "WAITING"} /\ task[Inner].prog = "script"
  /\ ~task[Inner].stop
  /\ task[Inner].mine \/ irb.over
LineOver == task[Inner].st = "DORMANT" /\ (irb.answered \/ irb.over)
LinePaused == task[Inner].st = "SUSPENDED"

\* At irb's prompt its sandbox is suspended, or about to suspend itself.
InnerRests ==
  \/ task[Inner].st = "SUSPENDED"
  \/ task[Inner].st = "READY" /\ task[Inner].prog = "boot" /\ ~task[Inner].stop

LineInv ==
  /\ irb.pc = "prompt" => InnerRests
  /\ irb.pc \in WaitPcs => LineRuns \/ LineOver \/ LinePaused
  /\ irb.pc = "done" => LineOver \/ LinePaused

\* A step that touches neither irb's sandbox nor irb, or starts irb anew.
LEMMA LineKept ==
  ASSUME LineInv, task'[Inner] = task[Inner],
         \/ irb' = irb
         \/ irb'.pc = "start"
  PROVE  LineInv'
BY DEF LineInv, InnerRests, LineRuns, LineOver, LinePaused, WaitPcs

\* Suspending irb's sandbox keeps it too.
LEMMA LineSuspended ==
  ASSUME LineInv, task[Inner] \in TaskRecord, task'[Inner] = Suspended(task[Inner]),
         irb' = irb
  PROVE  LineInv'
<1>1. LinePaused'
  BY DEF LinePaused, Suspended, TaskRecord
<1> QED BY <1>1 DEF LineInv, InnerRests, LinePaused

\* The shell works on jobs, and irb's sandbox is none (sandbox.rb:54-86).
LEMMA LineShellStep ==
  ASSUME ShellInv, LineInv, Shell \/ User
  PROVE  LineInv'
<1>0. TasksOK /\ RestOK /\ Inner \in Tasks /\ Inner \notin Jobs
  BY InnerIsNoJob DEF ShellInv
<1>1. sh.job \in Jobs /\ (Tstp => trap.tstp = sh.job)
  BY <1>0 DEF ShellInv, OnlyAwaited, WaitPcs, RestOK, Tstp
<1>2. irb' = irb \/ irb'.pc = "start"
  BY DEF Shell, User, Exec, Look, Loop, Read, Int, Tstp, Enter, Fg, NewIrb
<1>3. \/ task' = task
      \/ \E j \in Jobs : \E r : task' = [task EXCEPT ![j] = r]
  BY <1>1 DEF Shell, User, Exec, Look, Loop, Read, Int, Tstp, Enter, Fg
<1>4. task'[Inner] = task[Inner]
  BY <1>0, <1>3 DEF TasksOK
<1> QED BY <1>2, <1>4, LineKept

\* The tasks; irb's sandbox runs its line to the end (task.c:395-470).
LEMMA LineTaskStep ==
  ASSUME ShellInv, LineInv, NEW t \in Tasks, Slice(t) \/ Wake(t)
  PROVE  LineInv'
<1>0. TasksOK /\ RestOK /\ Inner \in Tasks /\ task[Inner] \in TaskRecord
  BY InnerIsNoJob DEF ShellInv, TasksOK
<1>1. CASE t # Inner
  <2>1. (irb' = irb \/ irb'.pc = "start") /\ \E r : task' = [task EXCEPT ![t] = r]
    <3>1. CASE Stop(t) \/ Boot(t) \/ BootEnds(t)
      BY <3>1 DEF Stop, Boot, BootEnds, NewIrb
    <3>2. CASE Wake(t)
      BY <1>0, <3>2 DEF Wake, TasksOK
    <3>3. CASE Script(t)
      BY <1>0, <1>1, <3>3 DEF Script, TasksOK
    <3> QED BY <3>1, <3>2, <3>3 DEF Slice
  <2>2. task'[Inner] = task[Inner]
    BY <1>0, <1>1, <2>1 DEF TasksOK
  <2> QED BY <2>1, <2>2, LineKept
<1>2. CASE t = Inner
  <2>1. CASE Stop(Inner)
    <3>1. task[Inner].st = "READY" /\ task[Inner].stop
      BY <2>1 DEF Stop, Ready
    <3>2. irb' = irb /\ irb.pc \notin {"prompt", "done"} \cup WaitPcs
      BY <2>1, <3>1, InnerIsNoJob DEF Stop, LineInv, InnerRests, LineRuns, LineOver, LinePaused
    <3> QED BY <3>2 DEF LineInv
  <2>2. CASE Boot(Inner)
    <3>1. task[Inner].st = "READY" /\ task[Inner].prog = "boot" /\ irb' = irb
          /\ task'[Inner].st = "SUSPENDED"
      BY <1>0, <2>2 DEF Boot, Ready, TasksOK, TaskRecord, Suspended
    <3>2. irb.pc \notin {"done"} \cup WaitPcs
      BY <3>1 DEF LineInv, LineRuns, LineOver, LinePaused
    <3> QED BY <3>1, <3>2 DEF LineInv, InnerRests
  <2>3. CASE BootEnds(Inner)
    <3>1. task[Inner].st = "READY" /\ task[Inner].prog = "booted" /\ irb' = irb
      BY <2>3 DEF BootEnds, Ready
    <3>2. irb.pc \notin {"prompt", "done"} \cup WaitPcs
      BY <3>1 DEF LineInv, InnerRests, LineRuns, LineOver, LinePaused
    <3> QED BY <3>1, <3>2 DEF LineInv
  <2>4. CASE Wake(Inner)
    <3>1. task[Inner].st = "WAITING" /\ irb' = irb
          /\ task'[Inner] = [task[Inner] EXCEPT !.st = "READY", !.sleep = FALSE]
      BY <1>0, <2>4 DEF Wake, TasksOK
    <3>2. irb.pc \notin {"prompt", "done"} /\ (irb.pc \in WaitPcs => LineRuns)
      BY <3>1 DEF LineInv, InnerRests, LineOver, LinePaused
    <3>3. irb.pc \in WaitPcs => LineRuns'
      BY <1>0, <3>1, <3>2 DEF LineRuns, TaskRecord
    <3> QED BY <3>1, <3>2, <3>3 DEF LineInv
  <2>5. CASE Script(Inner)
    <3>1. task[Inner].st = "READY" /\ task[Inner].prog = "script"
      BY <2>5 DEF Script, Runs, Ready
    <3>2. irb.pc \notin {"prompt", "done"} /\ (irb.pc \in WaitPcs => LineRuns)
      BY <3>1 DEF LineInv, InnerRests, LineOver, LinePaused
    <3>3. irb'.pc = irb.pc /\ irb'.over = irb.over
      BY <1>0, <2>5 DEF Script, RestOK
    <3>4. CASE task' = [task EXCEPT ![Inner].nested = ~@]
      <4>1. task'[Inner] = [task[Inner] EXCEPT !.nested = ~task[Inner].nested]
        BY <1>0, <3>4 DEF TasksOK
      <4>2. irb.pc \in WaitPcs => LineRuns'
        BY <1>0, <3>2, <3>3, <4>1 DEF LineRuns, TaskRecord
      <4> QED BY <3>2, <3>3, <4>2 DEF LineInv
    <3>5. CASE task' = [task EXCEPT ![Inner].st = "WAITING", ![Inner].sleep = TRUE]
      <4>1. task'[Inner] = [task[Inner] EXCEPT !.st = "WAITING", !.sleep = TRUE]
        BY <1>0, <3>5 DEF TasksOK
      <4>2. irb.pc \in WaitPcs => LineRuns'
        BY <1>0, <3>2, <3>3, <4>1 DEF LineRuns, TaskRecord
      <4> QED BY <3>2, <3>3, <4>2 DEF LineInv
    <3>6. CASE /\ task' = [task EXCEPT ![Inner] = Ended(@)]
               /\ irb' = [irb EXCEPT !.answered = task[Inner].mine]
      <4>1. task'[Inner].st = "DORMANT" /\ irb'.answered = task[Inner].mine
        BY <1>0, <3>6 DEF TasksOK, Ended, TaskRecord, RestOK
      <4>2. irb.pc \in WaitPcs => LineOver'
        BY <3>2, <3>3, <4>1 DEF LineRuns, LineOver
      <4> QED BY <3>2, <3>3, <4>2 DEF LineInv
    <3>7. CASE task' = [task EXCEPT ![Inner] = Suspended(@)] /\ UNCHANGED irb
      <4>1. task'[Inner] = Suspended(task[Inner])
        BY <1>0, <3>7 DEF TasksOK
      <4> QED BY <1>0, <3>7, <4>1, LineSuspended
    <3> QED BY <2>5, <3>4, <3>5, <3>6, <3>7 DEF Script
  <2> QED BY <1>2, <2>1, <2>2, <2>3, <2>4, <2>5 DEF Slice
<1> QED BY <1>1, <1>2

\* irb: a line is loaded into its sandbox, waited for and answered
\* (shell.rb:397-438, sandbox.c:138-150).
LEMMA LineIrbStep ==
  ASSUME ShellInv, LineInv, IrbProgram
  PROVE  LineInv'
<1>0. TasksOK /\ RestOK /\ Inner \in Tasks /\ task[Inner] \in TaskRecord
  BY InnerIsNoJob DEF ShellInv, TasksOK
<1>1. CASE IrbStart
  <2>1. task'[Inner] = NewTask /\ irb'.pc = "prompt"
    BY <1>0, <1>1 DEF IrbStart, Go, TasksOK, RestOK
  <2> QED BY <2>1 DEF LineInv, InnerRests, NewTask, WaitPcs
<1>2. CASE IrbSuspend
  <2>1. irb' = irb /\ (task'[Inner] = task[Inner] \/ task'[Inner] = Suspended(task[Inner]))
    BY <1>0, <1>2 DEF IrbSuspend, TasksOK
  <2> QED BY <1>0, <2>1, LineKept, LineSuspended
<1>3. CASE IrbLine
  <2>1. InnerRests /\ irb'.pc = "sleep" /\ irb'.over = task[Inner].nested
    BY <1>0, <1>3 DEF IrbLine, Running, LineInv, RestOK
  <2>2. task'[Inner] = Executed(task[Inner])
    BY <1>0, <1>3 DEF IrbLine, TasksOK
  <2>3. PICK k \in TaskRecord : k = task[Inner]
    BY <1>0
  <2>4. k.st \in {"SUSPENDED", "READY"}
    BY <2>1, <2>3 DEF InnerRests
  <2> DEFINE m == [Loaded(k) EXCEPT !.stop = FALSE, !.prog = "script", !.nested = FALSE]
  <2>5. /\ m \in TaskRecord /\ m.st = k.st /\ m.prog = "script" /\ m.stop = FALSE
        /\ m.mine = ~k.nested
    BY DEF Loaded, TaskRecord
  <2> HIDE DEF m
  <2>6. /\ Resumed(m).st \in {"READY", "WAITING"} /\ Resumed(m).prog = "script"
        /\ Resumed(m).stop = FALSE /\ Resumed(m).mine = m.mine
    BY <2>4, <2>5 DEF Resumed, TaskRecord
  <2>7. task'[Inner] = Resumed(m)
    BY <2>2, <2>3 DEF Executed, m
  <2>8. k.nested \in BOOLEAN /\ irb'.over = k.nested
    BY <2>1, <2>3 DEF TaskRecord
  <2>9. LineRuns'
    BY <2>5, <2>6, <2>7, <2>8 DEF LineRuns
  <2> QED BY <2>1, <2>9 DEF LineInv, WaitPcs
<1>4. CASE IrbLook \/ IrbRead
  <2>1. task' = task /\ irb.pc \in WaitPcs /\ irb'.pc \in WaitPcs
        /\ irb'.over = irb.over /\ irb'.answered = irb.answered
    BY <1>0, <1>4 DEF IrbLook, IrbRead, Running, Go, WaitPcs, RestOK
  <2>2. (LineRuns \/ LineOver \/ LinePaused)'
    BY <2>1 DEF LineInv, LineRuns, LineOver, LinePaused
  <2> QED BY <2>1, <2>2 DEF LineInv, WaitPcs
<1>5. CASE IrbLoop
  <2>1. task' = task /\ irb.pc \in WaitPcs /\ irb'.over = irb.over
        /\ irb'.answered = irb.answered
        /\ irb'.pc = (IF Over(task[Inner]) THEN "done" ELSE "read")
    BY <1>0, <1>5 DEF IrbLoop, Running, Go, WaitPcs, RestOK
  <2>2. LineRuns => ~Over(task[Inner])
    BY DEF LineRuns, Over
  <2>3. Over(task[Inner]) => (LineOver \/ LinePaused)'
    BY <2>1, <2>2 DEF LineInv, LineOver, LinePaused
  <2>4. (LineRuns \/ LineOver \/ LinePaused)'
    BY <2>1 DEF LineInv, LineRuns, LineOver, LinePaused
  <2> QED BY <2>1, <2>3, <2>4 DEF LineInv, WaitPcs
<1>6. CASE IrbInt \/ IrbTstp \/ IrbQuit
  <2>1. irb'.pc \in {"start", "cut"}
    BY <1>0, <1>6 DEF IrbInt, IrbTstp, IrbQuit, Go, NewIrb, RestOK
  <2> QED BY <2>1 DEF LineInv, WaitPcs
<1>7. CASE IrbDone
  <2>1. irb'.pc = "prompt" /\ task'[Inner] = Suspended(task[Inner])
    BY <1>0, <1>7 DEF IrbDone, NewIrb, TasksOK
  <2>2. InnerRests'
    BY <1>0, <2>1 DEF InnerRests, Suspended, TaskRecord
  <2> QED BY <2>1, <2>2 DEF LineInv, WaitPcs
<1> QED BY <1>1, <1>2, <1>3, <1>4, <1>5, <1>6, <1>7 DEF IrbProgram

\* The other managers suspend at most what the TSTP trap says
\* (rapicco.rb:43-52).
LEMMA LineManagerStep ==
  ASSUME ShellInv, LineInv, NEW t \in Managers, Manage(t) \/ ManagerSuspend(t)
  PROVE  LineInv'
<1>0. TasksOK /\ Inner \in Tasks /\ task[Inner] \in TaskRecord
  BY InnerIsNoJob DEF ShellInv, TasksOK
<1>1. irb' = irb /\ (task'[Inner] = task[Inner] \/ task'[Inner] = Suspended(task[Inner]))
  BY <1>0 DEF Manage, ManagerSuspend, TasksOK
<1> QED BY <1>0, <1>1, LineKept, LineSuspended

\* Both invariants hold in every reachable state.
LEMMA ConsoleAndLines == Spec => [](SelfExplained /\ LineInv)
<1>1. Init => SelfExplained /\ LineInv
  BY DEF Init, SelfExplained, LineInv, NewIrb, WaitPcs, AtPrompt, NoFlag
<1>2. ShellInv /\ SelfExplained /\ LineInv /\ [Next]_vars => (SelfExplained /\ LineInv)'
  <2> SUFFICES ASSUME ShellInv, SelfExplained, LineInv, [Next]_vars
               PROVE  SelfExplained' /\ LineInv'
    OBVIOUS
  <2>1. CASE UNCHANGED vars
    BY <2>1, LineKept DEF vars, SelfExplained
  <2>2. CASE Next
    BY <2>2, ConsoleStep, LineShellStep, LineTaskStep, LineIrbStep, LineManagerStep
    DEF Next
  <2> QED BY <2>1, <2>2
<1> QED BY <1>1, <1>2, ShellInvInductive, PTL DEF Spec

\* For every set of jobs and of managers: while the shell waits for a job that does
\* not read the console itself it listens for ^C and ^Z, unless the flag it found
\* is a leak as ConsoleServed names them, and a leak is found by one wait only
\* (sandbox.rb:8-12, shell.rb:402-404, rapicco.rb:12, 47-51).
THEOREM ConsoleListens == Spec => []ConsoleServed
<1>1. SelfExplained => ConsoleServed
  BY DEF SelfExplained, ConsoleServed
<1> QED BY <1>1, ConsoleAndLines, PTL

\* However ^C, ^Z, fg and the slices of irb and of its sandbox interleave, the
\* answer irb shows is that of the line it has waited for, but for a line that has
\* suspended itself and for a line entered over one that was left inside a call
\* (sandbox.rb:54-57, sandbox.c:138-150, shell.rb:419-427).
THEOREM IrbAnswersTheLine == Spec => []AnswerIsLine
<1>1. LineInv => AnswerIsLine
  BY DEF LineInv, LineOver, LinePaused, AnswerIsLine
<1> QED BY <1>1, ConsoleAndLines, PTL

=============================================================================
