------------------------------ MODULE ShellJobs ------------------------------
(***************************************************************************)
(* The shell, its jobs and irb (mrbgems/picoruby-shell) on top of the      *)
(* sandbox (mrbgems/picoruby-sandbox).  Every job is a sandbox, a task     *)
(* that the shell starts and then waits for in the loop of Sandbox#wait,   *)
(* reading the console for ^C and ^Z unless the job has said, through      *)
(* ENV['SIGNAL_SELF_MANAGE'], that it reads the console itself.  The job   *)
(* Irb does: it is the program irb, which runs each line it reads in a     *)
(* sandbox of its own, Inner, and waits for that in the same loop.  So do  *)
(* rapicco, nmcli, setup_rtc and setup_sdcard, the other Managers.         *)
(*                                                                         *)
(* The shell, the jobs and Inner are tasks: they interleave between any    *)
(* two Ruby statements that touch what they share.  What the scheduler     *)
(* does with a task is TaskScheduler's subject; here a task runs while it  *)
(* is READY, and a task told to stop ends with its next time slice.        *)
(***************************************************************************)
EXTENDS Naturals

CONSTANTS
  Jobs,     \* the commands that may be on @jobs, positive numbers
  Irb,      \* the one that is irb
  Managers  \* those whose programs set ENV['SIGNAL_SELF_MANAGE']; Inner is one
            \* of them if the lines entered in irb do

Inner == 0
Tasks == Jobs \cup {Inner}

ASSUME JobsAssumption ==
  /\ Jobs \subseteq Nat \ {0} /\ Irb \in Jobs
  /\ Managers \subseteq Tasks /\ Irb \in Managers

VARIABLES
  task,     \* per sandbox: st, stop (c.status is STOPPED), sleep (reason),
            \*   prog ("boot", "booted", "script", "ended"); for Inner, nested and
            \*   mine (its base frame holds the line entered last); for jobs the
            \*   history spared (a ^C has not stopped it)
  jobs,     \* @jobs
  sh,       \* the shell: pc, the job it waits for, self (signal_self_manage),
            \*   leak (that flag was a leak)
  irb,      \* the program irb: pc, signal_self_manage, and of the line:
            \*   answered (with its own value), over (run over one left in a call)
  env,      \* ENV['SIGNAL_SELF_MANAGE']: set, and leak (history: it was not set
            \*   by or for the job whose wait is about to look)
  trap      \* tstp: the job whose block the TSTP trap is; cont: a manager's CONT
            \*   block is installed

vars == <<task, jobs, sh, irb, env, trap>>

\* Sandbox#initialize: a task that runs Task.current.suspend
NewTask == [st |-> "READY", stop |-> FALSE, sleep |-> FALSE, prog |-> "boot",
            mine |-> FALSE, nested |-> FALSE, spared |-> FALSE]
NoTask == [NewTask EXCEPT !.st = "DORMANT", !.stop = TRUE, !.prog = "ended"]

AtPrompt == [pc |-> "prompt", job |-> Irb, self |-> FALSE, leak |-> FALSE]
NoFlag == [set |-> FALSE, leak |-> FALSE]
NewIrb == [pc |-> "start", self |-> FALSE, answered |-> FALSE, over |-> FALSE]

Init ==
  /\ task = [t \in Tasks |-> NoTask]
  /\ jobs = {}
  /\ sh = AtPrompt
  /\ irb = NewIrb
  /\ env = NoFlag
  /\ trap = [tstp |-> 0, cont |-> FALSE]

-----------------------------------------------------------------------------
(* Operations on a sandbox's task.                                         *)

\* mrb_suspend_task, whatever the task is doing, also when it has ended
Suspended(k) == [k EXCEPT !.st = "SUSPENDED"]

\* mrb_resume_task
Resumed(k) ==
  IF k.st # "SUSPENDED" THEN k
  ELSE [k EXCEPT !.st = IF k.sleep THEN "WAITING" ELSE "READY"]

\* Sandbox#execute: mrb_task_proc_set stores the new program in the frame the
\* task is in, then mrb_task_reset_context goes back to the base frame.
LoadedOnce(k) == [k EXCEPT !.mine = k.prog \in {"boot", "booted"}]   \* mutant
Loaded(k) == [k EXCEPT !.mine = ~k.nested]
Executed(k) ==
  Resumed([Loaded(k) EXCEPT !.stop = FALSE, !.prog = "script", !.nested = FALSE])

EndedReady(k) == [k EXCEPT !.stop = TRUE, !.prog = "ended"]   \* mutant
Ended(k) == [k EXCEPT !.st = "DORMANT", !.stop = TRUE, !.prog = "ended",
                      !.mine = FALSE, !.spared = FALSE]

\* Sandbox#state, as the loop of Sandbox#wait tests it
OverUnlessSuspended(k) == k.st = "DORMANT"              \* mutant
Over(k) == k.st \in {"DORMANT", "SUSPENDED"}

-----------------------------------------------------------------------------
(* The shell: Shell#run_shell, Shell#_fg, Job#exec, Job#resume and          *)
(* Sandbox#wait.                                                            *)

CleanedUp == {j \in jobs : task[j].st # "DORMANT"}

\* Job.new
Enter(j) ==
  /\ sh.pc = "prompt" /\ j \notin CleanedUp
  /\ jobs' = CleanedUp \cup {j}
  /\ task' = [task EXCEPT ![j] = NewTask]
  /\ sh' = [AtPrompt EXCEPT !.pc = "exec", !.job = j]
  /\ UNCHANGED <<irb, env, trap>>

\* Job#trap
TrapKept(j) == trap                                     \* mutant
Trapped(j) == [trap EXCEPT !.tstp = j]

\* Job#exec; a file that does not compile leaves its job on the list.
Exec ==
  /\ sh.pc = "exec"
  /\ trap' = Trapped(sh.job)
  /\ \/ /\ task' = [task EXCEPT ![sh.job] = Executed(@)]
        /\ sh' = [sh EXCEPT !.pc = "sleep"]
     \/ sh' = AtPrompt /\ UNCHANGED task
  /\ UNCHANGED <<jobs, irb, env>>

\* ENV['SIGNAL_SELF_MANAGE'] = 'yes'
Flagged(meant) == [set |-> TRUE, leak |-> ~meant]

\* Shell#_fg and Job#resume: Signal.raise(:CONT) runs the last manager's block,
\* whatever job is resumed.
Fg(j) ==
  /\ sh.pc = "prompt" /\ j \in CleanedUp
  /\ jobs' = CleanedUp
  /\ env' = IF trap.cont THEN Flagged(j \in Managers) ELSE env
  /\ trap' = Trapped(j)
  /\ task' = [task EXCEPT ![j] = [Resumed(@) EXCEPT !.spared = FALSE]]
  /\ sh' = [AtPrompt EXCEPT !.pc = "sleep", !.job = j]
  /\ UNCHANGED irb

\* ENV.delete('SIGNAL_SELF_MANAGE') after the sleep of 5 ms
EnvKept == env                                          \* mutant
EnvDeleted == NoFlag

Look ==
  /\ sh.pc = "sleep"
  /\ sh' = [sh EXCEPT !.pc = "loop", !.self = env.set, !.leak = env.leak]
  /\ env' = EnvDeleted
  /\ UNCHANGED <<task, jobs, irb, trap>>

Loop ==
  /\ sh.pc = "loop"
  /\ sh' = IF Over(task[sh.job]) THEN AtPrompt ELSE [sh EXCEPT !.pc = "read"]
  /\ UNCHANGED <<task, jobs, irb, env, trap>>

\* STDIN.read_nonblock(1): nothing, Interrupt or SIGTSTP
Read ==
  /\ sh.pc = "read"
  /\ \E key \in {"loop"} \cup IF sh.self THEN {} ELSE {"int", "tstp"} :
       sh' = [sh EXCEPT !.pc = key]
  /\ UNCHANGED <<task, jobs, irb, env, trap>>

\* rescue Interrupt: Signal.raise(:INT) runs the block of the INT trap, if some
\* script has left one (which is not kept), then stop, which raises if the task
\* has ended meanwhile; Job rescues that.  It also rescues what the block raises,
\* and the job is then not stopped.
Int ==
  /\ sh.pc = "int"
  /\ sh' = AtPrompt
  /\ \/ task' = [task EXCEPT ![sh.job].stop = TRUE]
     \/ task' = [task EXCEPT ![sh.job].spared = TRUE]
  /\ UNCHANGED <<jobs, irb, env, trap>>

\* rescue SignalException: Signal.raise(:TSTP) runs the trap.
Tstp ==
  /\ sh.pc = "tstp"
  /\ sh' = AtPrompt
  /\ task' = [task EXCEPT ![trap.tstp] = Suspended(@)]
  /\ UNCHANGED <<jobs, irb, env, trap>>

Shell == \/ Exec \/ Look \/ Loop \/ Read \/ Int \/ Tstp
User == \E j \in Jobs : Enter(j) \/ Fg(j)

-----------------------------------------------------------------------------
(* Tasks.                                                                  *)

Ready(t) == task[t].st = "READY"

\* A task told to stop ends with its next time slice, a waiting one after it has
\* woken up; what it may still do in that slice is left out.  No ensure clause is
\* run.
Stop(t) ==
  /\ Ready(t) /\ task[t].stop
  /\ task' = [task EXCEPT ![t] = Ended(@)]
  /\ irb' = IF t = Irb THEN NewIrb ELSE irb
  /\ UNCHANGED <<jobs, sh, env, trap>>

Boot(t) ==
  /\ Ready(t) /\ task[t].prog = "boot"
  /\ task' = [task EXCEPT ![t] = [Suspended(@) EXCEPT !.prog = "booted"]]
  /\ UNCHANGED <<jobs, sh, irb, env, trap>>

\* Task.current.suspend has returned: only fg of a job whose file did not compile
BootEnds(t) ==
  /\ Ready(t) /\ task[t].prog = "booted"
  /\ task' = [task EXCEPT ![t] = Ended(@)]
  /\ UNCHANGED <<jobs, sh, irb, env, trap>>

Runs(t) == Ready(t) /\ ~task[t].stop /\ task[t].prog = "script"

\* A script: it calls, returns, sleeps, suspends itself (sleep without a time,
\* Task#suspend) or ends.
Script(t) ==
  /\ Runs(t) /\ t # Irb
  /\ \/ /\ t = Inner
        /\ task' = [task EXCEPT ![t].nested = ~@]
        /\ UNCHANGED irb
     \/ /\ task' = [task EXCEPT ![t].st = "WAITING", ![t].sleep = TRUE]
        /\ UNCHANGED irb
     \/ /\ task' = [task EXCEPT ![t] = Suspended(@)]
        /\ UNCHANGED irb
     \/ /\ ~task[t].nested
        /\ task' = [task EXCEPT ![t] = Ended(@)]
        /\ irb' = IF t = Inner THEN [irb EXCEPT !.answered = task[t].mine] ELSE irb
  /\ UNCHANGED <<jobs, sh, env, trap>>

\* The wait for t is the one that will look next.
Awaited(t) == sh.pc = "sleep" /\ sh.job = t

\* A manager sets the flag: first thing, or, as rapicco, after a require that may
\* take longer than the shell waits before it looks.
Manage(t) ==
  /\ Runs(t) /\ t # Irb
  /\ env' = Flagged(Awaited(t))
  /\ UNCHANGED <<task, jobs, sh, irb, trap>>

\* A manager, rapicco, reads ^Z: it leaves a CONT block that sets the flag and
\* runs the TSTP trap.  (The model allows it to every manager.)
ManagerSuspend(t) ==
  /\ Runs(t) /\ t # Irb
  /\ trap' = [trap EXCEPT !.cont = TRUE]
  /\ task' = [task EXCEPT ![trap.tstp] = Suspended(@)]
  /\ UNCHANGED <<jobs, sh, irb, env>>

Wake(t) ==
  /\ task[t].st = "WAITING"
  /\ task' = [task EXCEPT ![t].st = "READY", ![t].sleep = FALSE]
  /\ UNCHANGED <<jobs, sh, irb, env, trap>>

-----------------------------------------------------------------------------
(* The program irb: Shell#run_irb and Sandbox#wait for Inner.              *)

Running(pc) == Runs(Irb) /\ irb.pc = pc
Go(pc) == irb' = [irb EXCEPT !.pc = pc]

IrbStart ==
  /\ Running("start")
  /\ env' = Flagged(Awaited(Irb))
  /\ task' = [task EXCEPT ![Inner] = NewTask]
  /\ Go("prompt")
  /\ UNCHANGED <<jobs, sh, trap>>

\* ^Z at the prompt
IrbSuspend ==
  /\ Running("prompt")
  /\ trap' = [trap EXCEPT !.cont = TRUE]
  /\ task' = [task EXCEPT ![trap.tstp] = Suspended(@)]
  /\ UNCHANGED <<jobs, sh, irb, env>>

\* A line: compile, execute
IrbLine ==
  /\ Running("prompt")
  /\ irb' = [irb EXCEPT !.pc = "sleep", !.answered = FALSE,
                        !.over = task[Inner].nested]
  /\ task' = [task EXCEPT ![Inner] = Executed(@)]
  /\ UNCHANGED <<jobs, sh, env, trap>>

IrbLook ==
  /\ Running("sleep")
  /\ irb' = [irb EXCEPT !.pc = "loop", !.self = env.set]
  /\ env' = EnvDeleted
  /\ UNCHANGED <<task, jobs, sh, trap>>

IrbLoop ==
  /\ Running("loop")
  /\ Go(IF Over(task[Inner]) THEN "done" ELSE "read")
  /\ UNCHANGED <<task, jobs, sh, env, trap>>

IrbRead ==
  /\ Running("read")
  /\ \E key \in {"loop"} \cup IF irb.self THEN {} ELSE {"int", "tstp"} : Go(key)
  /\ UNCHANGED <<task, jobs, sh, env, trap>>

\* ^C: the INT block, then stop Inner.  If the block raises, or Inner has just
\* ended and stop does, irb ends, its ensure clause terminating Inner.
IrbInt ==
  /\ Running("int")
  /\ \/ /\ task' = [task EXCEPT ![Inner] = NoTask, ![Irb] = Ended(@)]
        /\ irb' = NewIrb
     \/ /\ ~task[Inner].stop
        /\ task' = [task EXCEPT ![Inner].stop = TRUE]
        /\ Go("cut")
  /\ UNCHANGED <<jobs, sh, env, trap>>

\* ^Z while a line runs: irb is suspended, Inner goes on.
IrbTstp ==
  /\ Running("tstp")
  /\ task' = [task EXCEPT ![trap.tstp] = Suspended(@)]
  /\ Go("cut")
  /\ UNCHANGED <<jobs, sh, env, trap>>

\* Sandbox#suspend after the wait, and the answer
IrbDone ==
  /\ Running("done") \/ Running("cut")
  /\ task' = [task EXCEPT ![Inner] = Suspended(@)]
  /\ irb' = [NewIrb EXCEPT !.pc = "prompt"]
  /\ UNCHANGED <<jobs, sh, env, trap>>

IrbQuit ==
  /\ Running("prompt")
  /\ task' = [task EXCEPT ![Inner] = NoTask, ![Irb] = Ended(@)]
  /\ irb' = NewIrb
  /\ UNCHANGED <<jobs, sh, env, trap>>

IrbProgram == \/ IrbStart \/ IrbSuspend \/ IrbLine \/ IrbLook \/ IrbLoop \/ IrbRead
              \/ IrbInt \/ IrbTstp \/ IrbDone \/ IrbQuit

Slice(t) == Stop(t) \/ Boot(t) \/ BootEnds(t) \/ Script(t)

Next ==
  \/ Shell \/ User \/ IrbProgram
  \/ \E t \in Tasks : Slice(t) \/ Wake(t)
  \/ \E t \in Managers : Manage(t) \/ ManagerSuspend(t)

\* The scheduler gives every ready task its slice, and sleeps end.  (The two
\* actions of a job are never enabled together.)
Fairness ==
  /\ WF_vars(Shell)
  /\ \A j \in Jobs : WF_vars(Stop(j) \/ Wake(j))
Spec == Init /\ [][Next]_vars /\ Fairness

-----------------------------------------------------------------------------
(* Properties.                                                             *)

WaitPcs == {"sleep", "loop", "read", "int", "tstp"}

\* Every variable has its type; a task is WAITING exactly while it has a reason
\* to, unless it was suspended or terminated meanwhile.
TypeOK ==
  /\ task \in [Tasks -> [st : {"READY", "WAITING", "SUSPENDED", "DORMANT"},
                         prog : {"boot", "booted", "script", "ended"},
                         stop : BOOLEAN, sleep : BOOLEAN, mine : BOOLEAN,
                         nested : BOOLEAN, spared : BOOLEAN]]
  /\ \A t \in Tasks : /\ task[t].st = "WAITING" => task[t].sleep
                      /\ task[t].st = "READY" => ~task[t].sleep
  /\ jobs \subseteq Jobs
  /\ sh \in [pc : {"prompt", "exec"} \cup WaitPcs, job : Jobs, self : BOOLEAN,
             leak : BOOLEAN]
  /\ irb \in [pc : {"start", "prompt", "cut", "done"} \cup WaitPcs, self : BOOLEAN,
              answered : BOOLEAN, over : BOOLEAN]
  /\ env \in [set : BOOLEAN, leak : BOOLEAN]
  /\ trap \in [tstp : Jobs \cup {0}, cont : BOOLEAN]

AtRest(k) == k.st \in {"DORMANT", "SUSPENDED"}
Quiet(k) == AtRest(k) \/ k.stop \/ k.prog \in {"boot", "booted"}

\* While the shell shows its prompt no job runs behind the user's back: each one
\* is over, suspended or told to stop, whatever ^C, ^Z and fg were given and
\* however they met the job's own steps; but for one that was spared a ^C because
\* the INT block of some script raised.  (A job whose file did not compile is
\* still the one-line program Sandbox.new starts.)  job.rb:21-69,
\* sandbox.rb:54-84, signal.rb:31-43.
PromptQuiet == sh.pc = "prompt" => \A j \in jobs : Quiet(task[j]) \/ task[j].spared

\* The shell listens for ^C and ^Z while it waits for a job that does not read
\* the console itself, unless the flag it has found is a leak: set by a manager
\* after its own wait had looked, or by the CONT block of one, which fg of any
\* other job runs too.  A leak is found once (sandbox.rb:8-12, shell.rb:402-404,
\* rapicco.rb:47-51).
ConsoleServed ==
  sh.pc \in {"loop", "read"} /\ sh.self => sh.job \in Managers \/ sh.leak

\* The answer irb shows for a line it has waited for is that line's, unless the
\* line has suspended itself and not ended, or the line before it was left inside
\* a call, cut short or suspended (sandbox.rb:54-57, sandbox.c:138-150,
\* task.c:284-304, shell.rb:419-427).
AnswerIsLine ==
  irb.pc = "done" /\ task[Inner].st # "SUSPENDED" => irb.answered \/ irb.over

\* A job told to stop ends, or is suspended, and does not hang between
\* (task.c:731-739, 441-446).
StopHonoured == \A j \in Jobs : task[j].stop ~> AtRest(task[j])

\* Once the job it waits for has ended or was suspended, by whatever task, the
\* shell's prompt comes back (sandbox.rb:56-57).
PromptComesBack ==
  (sh.pc \in {"sleep", "loop", "read"} /\ AtRest(task[sh.job])) ~> (sh.pc = "prompt")
=============================================================================
