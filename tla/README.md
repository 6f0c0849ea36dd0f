# TLA+ specifications of PicoRuby

PicoRuby runs Ruby programs on microcontrollers. Its own code is a set of gems
(`mrbgems/picoruby-*`): a preemptive task scheduler, interrupt and device
layers in C, and Ruby code on top. This directory models the parts in which
several things happen at once, model-checks them with TLC on small instances
and proves the central safety properties of each part with TLAPS for instances of
every size.

`PROJECT.json` is the machine-readable index: components, runs, the source lines
each definition models, findings, hazards and theorems.

## 1. Inventory

Threads of control. There is one main program, which runs the scheduler and,
inside `mrb_vm_exec`, the scripts; the tick interrupt (SIGALRM on POSIX, a timer
alarm on the RP2040, a task on the ESP32); device interrupts (GPIO, UART); on the
RP2040 a second core for sound; the callbacks of lwIP, which run when it is polled;
and those of BTstack, which run in an interrupt. Scripts are preempted between two VM instructions, never
inside a C function.

| Component | State | Operations | Interacts with | What makes it correct |
|---|---|---|---|---|
| Task scheduler, `picoruby-mruby/src/task.c` | four queues of TCBs sorted by priority; per TCB status, reason, time slice, wakeup tick, joined task; tick counter, next scan, switch request | create, run loop, tick, sleep, suspend, resume, terminate, join, pass, stop, reset | called by every script, by the tick, by the sandbox | each TCB linked once where its status says; one RUNNING task; sorted queues; no sleeper and no joiner forgotten; time slices end |
| GPIO interrupt events, `picoruby-irq` | handler slots, event ring, hash of IRQInstances, interrupt enables of the pins | interrupt, register, unregister, enable, disable, `IRQ.process` | hardware, scripts in several tasks | ring is a FIFO; tables agree; bounces filtered; events of an earlier owner of a slot come before those of the present one |
| UART receive buffer, `picoruby-uart` | ring with head and tail | interrupt, read, readpartial, gets, clear | hardware, scripts | bytes returned once and in order; lines are lines; a full ring refuses |
| Sandbox, shell jobs and irb, `picoruby-sandbox`, `picoruby-shell` | a task per sandbox, the frame its program is in, job list, signal traps, `ENV['SIGNAL_SELF_MANAGE']` | new, execute, wait, suspend, resume, stop, terminate; enter a command, ^C, ^Z, fg; irb's lines | the scheduler, the console | no job runs behind the prompt; ^C and ^Z reach the job in front; an answer is that of its line; the prompt comes back |
| Sound generator, `picoruby-psg` | packet queue, sample ring, registers, core 1 alive or not | push, tick, render, audio callback, start, stop | two cores and two timers | packets played once, in order; no use of a freed queue; the handshakes end; envelopes have the shape drawn |
| TCP and UDP clients, `picoruby-net` | connection state, received data | connect, poll, callbacks, close | lwIP | a finished request was sent and is returned whole; nothing is used after it was freed; the call ends |
| BLE, `picoruby-ble` | one-packet mailbox, discovery state | push, pop, heartbeat, discovery | BTstack | packets are whole; a discovery that loses nothing is complete and ends |
| VFS, `picoruby-vfs` | mounted volumes, current directory | mount, unmount, chdir, path functions | file system drivers | current directory is on a mounted volume |
| Key debounce, `picoruby-prk-debounce` | last value and time per row or key | resolve | keyboard loop | a change is seen, a bounce is not |
| Machine layer, `picoruby-machine` | timer, interrupt mask | tick source, disable and enable of interrupts | the scheduler | critical sections exclude the tick |
| Drivers, formats, editors, file system wrappers | small or none | calls to the SDK, conversions | | sequential |

Hard behaviours: the tick between any two instructions of the scheduler that are
not in a critical section; fields read before and used after one; counters that
wrap; rings at their limit; identifiers that are reused; operations that forget
one of the things a similar operation does. They are listed one by one, at their
lines, under `hazards`.

## 2. The modules

| Module | Models | Used by |
|---|---|---|
| `TaskScheduler` | `task.c` | `MCTaskScheduler` (TLC), `TaskSchedulerProofs` (TLAPS) |
| `IrqEvents` | `irq.c`, `irq.rb` | `MCIrqEvents`, `IrqEventsProofs` (TLAPS) |
| `EventFifo` | abstract: a bounded queue | `IrqEvents`, property `RingIsFifo` |
| `UartRing` | `uart.c` | `MCUartRing`, `UartRingProofs` (TLAPS) |
| `ByteStream` | abstract: bytes are read once, in order | `UartRing`, property `RingIsStream` |
| `ShellJobs` | `sandbox.c`, `sandbox.rb`, `job.rb`, `shell.rb`, `irb.rb`, `rapicco.rb` | `MCShellJobs`, `ShellJobsProofs` (TLAPS) |
| `NetClient` | `tcp.c`, `udp.c`, `net.c` | `MCNetClient`, `NetClientProofs` (TLAPS) |
| `Psg` | `psg.c`, `psg_port.c`: driver, cores, packet ring | `MCPsg`, `PsgProofs` (TLAPS) |
| `PsgEnvelope` | `psg.c`: the envelope generator | `MCPsgEnvelope`, `PsgProofs` (TLAPS) |
| `BleCentral` | `ble.c`, `ble.rb`, `ble_central.rb` | `MCBleCentral`, `BleCentralProofs` (TLAPS) |
| `Rings` | no code: lemmas about a ring with two indices | `IrqEventsProofs`, `UartRingProofs`, `PsgProofs` |

### TaskScheduler

The variables are the fields of `mrb->task` and of the TCBs under their names,
plus the local `tcb` of `mrb_tasks_run`, a program counter and the argument of
the method being called. A queue is a sequence; `q_insert_task` and
`q_delete_task` are operators on it, and `MoveTask` is the delete - new status -
insert that every operation performs.

The granularity is that of the interrupt. A critical section is one step; a read
or write outside one that the tick can tell apart is a step of its own: the
pick of `q_ready_`, the store of RUNNING, the load of the time slice, the clearing
of `switching_`, the store of READY before the requeue, the three reads of the
exit test, the head read by `sleep`, and the comparison and the store of
`wakeup_tick_` in `mrb_resume_task`. The tick itself is `mrb_tick`, then one `TickScan` per
waiting TCB, then `TickEnd`; while it runs (`irq = "tick"`) the main program
stands still. The loop over the joiners of a finished task is written the same way.

The VM is external: `Call` lets the running task make any call in `Ops` on any
task, `VMYield` leaves when `switching_` is set, and `VMFinish` ends the script. Contexts
are CREATED or STOPPED. Whether `mrb->exc` of one task can be seen by the next is
up to the VM, whose source is not in the repository; it is taken to be set for
the run of one task.

Environment assumption `SuspensionIsShort`: a sleeper that is held suspended is
resumed before the tick has gone half its range past its wakeup tick. The code
compares ticks by the sign of a 32-bit difference and cannot work without it.

Not modelled: the garbage collection step, the read-only methods
(`Task.list`, `stat`, `get`, `inspect`), `mrb_delete_task` (nobody calls it),
allocation failures.

### IrqEvents

Three actors: the interrupt, a task that runs `IRQ.process`, a task that manages
IRQInstances. `register_gpio` is split into enabling the pin, the stores up to
`enabled`, the remaining stores, and the entry in the hash; `unregister_gpio` into
disabling the pin and clearing the slot; `IRQ_peek_event` into reading the entry and
advancing the head. The two tasks exclude each other inside C functions
(`ManagerAt`, `ProcessorAt`), the interrupt excludes nobody. `Interrupt` reports a set of
events enabled for the pin (external hardware), `Clock` advances the milliseconds. Owner and
`since` are recorded for the properties and never read by the program.

### UartRing

The interrupt pushes one byte per step; `popBuffer` copies one byte per step;
`searchCharBuffer` looks at one byte per step and asks for the size again each
time, as the loop in the code does; `clearBuffer` is two steps. The methods return
as many bytes as they computed before calling `popBuffer`, and a byte that it did
not copy is `Garbage`. `read` without an argument reads an uninitialized
variable: it may take everything (`ReadAll`) or any length (`mrb_read`).
`MayOverrun` says whether bytes may arrive while the ring holds `Size - 1`.

### ShellJobs

The shell, the jobs and the sandbox `Inner` in which irb runs its lines are tasks
that interleave between any two statements that touch what they share. Of a task
the model keeps its status, whether it was told to stop (`c.status`), whether it
has a reason to wait, what its program is (the line `Task.current.suspend` of
`Sandbox.new`, not yet or already suspended, a script, or ended) and, for `Inner`,
whether it stands in a nested call and whether its base frame holds the line
entered last. The operators `Suspended`, `Resumed`, `Executed` and `Ended` are the effects of the
C functions of `task.c` and `sandbox.c`. The loop of `Sandbox#wait` is taken apart into the
5 ms sleep, the `ENV.delete`, the test of the state, the read of the console and
the two rescue clauses, once for the shell and once for irb. What the scheduler
does with a task is the subject of `TaskScheduler`; a task here takes a step while
it is READY. A task told to stop ends with its next time slice; what it may
still do in that slice is left out. A script may also suspend itself (`sleep` without
an argument, `Task#suspend`), on which `Sandbox#wait` returns as on its end.

`Managers` are the programs that set `ENV['SIGNAL_SELF_MANAGE']` and read the console themselves:
irb, rapicco, nmcli, setup_rtc and setup_sdcard; `Inner` is one of them if a line entered in irb does so. A manager
may set the flag at any moment (`Manage`: rapicco does it after a `require` of any length) and leave a CONT block that
sets it again when it is suspended (`ManagerSuspend`, the code of rapicco); the model allows both to every manager, which is more than
the code does. `env.leak` and `sh.leak` record, for a property only, that the flag was not
set by or for the job whose wait is about to look.

^C first runs the INT block, if some script has left one (`Signal.raise(:INT)`, `sandbox.rb:70`). Which one is not
kept: `Int` and `IrbInt` have the outcome in which it raises and `stop` is skipped; `spared` records that for the
property. Other effects of such a block, and TSTP or CONT traps that a user's own script installs, are left out.

### NetClient

One call of `TCPClient_send` or `UDPClient_send` after another. The callbacks fire
inside `Net_sleep_ms`, any number in one sleep, in any order lwIP allows: nothing before the
connection, nothing after the end of the stream or an error. They share
`cs->state` with the poll. Memory is modelled by which block is live: a callback that
fails frees `cs`, an error of lwIP frees the pcb, `realloc` may move the data. A
use of freed memory stops the model, with its kind in `call.fault`. History fields of `lwip`, read by the properties only, record that
the request was written, that CONNECTED was overwritten in the sleep that stored it (`overtaken`; `fresh` ends with that sleep) and that `altcp_write`
refused the request (`refused`). A failed `realloc` of the
TCP callback leaves everything as it was, so it is a stutter. TLS changes only how
the connection is opened and freed.

### Psg

Core 0 (scripts), the main loop of core 1 and its tick interrupt, the two
directions of the inter-core FIFO, the packet ring. `PSG_rb_push` and the peek are
split at each store the other core can see, as if `PSG_enter_critical` did not
exclude the other core (it does not on the RP2350). `reset_psg` is four steps.
Packets are numbered for the properties. `Reselect` lets scripts select a driver
while one is selected, and `LatePush` lets one push after `deinit`, as a job whose INT block has called it
may before it is stopped: `PSG_rb_push` tests neither.

### PsgEnvelope

Register writes and `update_envelope`, which handles the tracks in order and
returns early, which `Reached` expresses. The reference is the drawing of the
waveforms below R13 in `psg.h` (lines 93-113), as the function `Drawn` of the number of steps since the
last reset; not the legend of the bits E3 to E0 in lines 91-92, which says the inverse (section 5). Since it counts steps and not
samples, the counts a track loses to an early return do not show in it; `OneShotEnds` is about those.

### BleCentral

BTstack's interrupt may come between any two statements of `pop_packet`, which is
three steps: test and lock, copy and free, clear and unlock. The two stores of the last one are one step, in the
order of the source: `packet_mutex` is not volatile, and the compiler is taken to keep it. A packet is an event
of the kind packet_callback distinguishes. The state machine of `packet_callback`
is one action per branch. BTstack and the peer are external: a query is refused
while another is under way or the link is down, otherwise answers with the peer's
items and QUERY_COMPLETE; a lost link ends it with QUERY_COMPLETE. `spoiled` records that an event of
the discovery was replaced or refused, or that the link was lost.

## 3. Runs

| Run | Instance | Shows |
|---|---|---|
| `sched_three` | 3 tasks, 2 priorities; sleep, join, suspend, resume | `TypeOK`, `SortedQueues`, `NoOvertaking`, `WakeupArmed`, `JoinersReleased`, `NoFault` |
| `sched_all_ops` | 2 tasks, 2 priorities, every call | `QueueIntegrity`, `RunningIsCurrent`, `ExitIsLast` |
| `sched_live` | 2 tasks of one priority that compute and sleep | `SliceEnds`, `ReadyRuns`, `SleeperWakes` |
| `irq_events` | 2 IRQInstances on 2 pins, 2 slots, ring of 4 | `StaleEventsFirst`, `TablesAgree`, `HardwareArmed`, `Debounced`, `RingIsFifo` |
| `uart_stream` | ring of 4, lengths up to 3 | `GetsIsLine`, `RingIsStream` |
| `shell_jobs` | irb with its inner sandbox, and one other job; irb and its lines are managers | `PromptQuiet`, `ConsoleServed`, `AnswerIsLine`, `StopHonoured`, `PromptComesBack` |
| `net_client` | calls of both protocols, 4 polls, up to 3 packets of 2 kinds | `FaultsExplained`, `AnswerComplete`, `RequestSent`, `CallEnds` |
| `psg` | ring of 3, delays 0 and 2, tick range 6, 4 packets in a session | `NoFault`, `RingHoldsPending`, `JoinPlaysAll`, `FifoDrained`, `HandshakeEnds`, `PacketsPlayed` |
| `psg_envelope` | 2 tracks, levels 0 to 2, periods 1 and 2, 5 register writes | `FollowsDrawing`, `OneShotEnds` |
| `ble_central` | peer with 2 services, a characteristic each, one descriptor; 2 connections | `NoFault`, `WaitsForSomething`, `DiscoveryComplete`, `DiscoveryEnds` |

The type invariants of the other modules are not in the runs: those of `IrqEvents`, `ShellJobs` and `BleCentral`
are theorems (section 4), and in the rest the types of the variables are conjuncts of the inductive invariants proved there.

The runs `sched_sleep_victim` and `sched_lost_preemption` are expected to find a
violation; see Findings.

Bounds, and why they are enough. Three tasks are the fewest with a running task,
one that waits for it and one that interferes; two priorities give equal and
different ones. A time slice of one tick makes it end as often as possible. The
range of ticks (12, or 6 in the liveness run) is the smallest that
`WindowAssumption` allows with the sleeps, the scan horizon and the overdue time
of the run, so every run goes through many wrap-arounds. Sleeps of 3 and 5 ms
with a 4 ms tick are below and above a tick and neither is a multiple of it; the
rounding of multiples is the same formula with no remainder. A ring of 4 wraps,
fills and empties; `MaxCount` 1 is reached with it. The debounced handler has
a time of 2 on a clock of 4. irb and one job are the fewest with which a trap, a flag
or a stop can reach the wrong one; the other job is not a manager, so that a leak deafens the shell for it, and the lines of irb are, so that
every way to set the flag is taken (1.7 million states; the theorems have any set of jobs and managers). Four polls leave room for the connection, a
packet, the end and a time-out, and lwIP's own time-out (`PollAfter`) falls inside.
A ring of 3 fills with two packets, of which core 1 may hold one. Five register
writes set volume, period and shape and leave two to interfere; two tracks are
the fewest of which one can hold up the other. Two services make the discovery
go round each of its loops, and the second connection meets the queues of the
first.

Views and symmetry. `TickFree` replaces ticks by their distance from the current
one (no step depends on anything else) and leaves out wakeup ticks that cannot be
read before they are stored again. `LiveState` leaves out ring entries that have
been taken, the history of handlers that are not debounced, locals of
`IRQ.process` before they are assigned, and `enabled`, which only
decides whether a callback is invoked. `SoundView` of `psg_envelope` reduces the number of steps of an
envelope to its place in the cycle. The
hidden values change neither the enabledness of a step nor the truth of the
properties of the run: the step out of `"peek"` releases whatever event was held. `Symmetry` permutes the tasks, which
no definition names, and is used for invariants and for `NoOvertaking`, which TLC checks step by step and
which reads nothing that the view hides. `sched_live` uses neither; the
liveness property of `psg_envelope` does not look at what its view hides.

Deadlock. `CHECK_DEADLOCK FALSE` is set where `mrb_tasks_run` may return
(`MRB_SCHEDULER_EXIT`), where the assumption on suspensions stops the tick while
nobody resumes a task, and in `net_client`, which stops when freed memory is used.

Fairness (`FairSpec`, used by `sched_live` and `sched_lost_preemption`). `SF(Progress)`: the
main program goes on between interrupts; it is strong because a step is disabled
whenever the handler runs. `SF(mrb_tick)`: the timer does not stop and a pending
tick is taken when interrupts are enabled again. `WF(TickScan \/ TickEnd)`: the
handler runs to its end. Nothing is assumed of scripts: a task may compute for
ever, which is what `SliceEnds` and `ReadyRuns` are about. `ReadyRuns` is checked
for tasks of equal priority; with different ones the scheduler starves the
less urgent by design.

The other modules: `ShellJobs` assumes that the shell goes on and, in one condition per job, that a task told to
stop is given its slice and that sleeps end, which is what `TaskScheduler` is about,
and nothing of scripts, irb or the user. `NetClient` assumes that the calling
loop goes on; callbacks are not fair. `Psg`: both cores run, the timer fires, and the loop of
core 1 gets its turn although the interrupt comes again and again (`SF(Cleanup)`: the interrupt
takes less than its millisecond). `PsgEnvelope`: samples are rendered. `BleCentral`: the loop
of `start` goes on, and BTstack delivers the answers of a query; links, power and
reports are not fair.

Each property of a passing run has a mutant, an operator in the module that is
one plausible slip away from the code (comments starting "Mutant"); replacing the
original by it makes TLC report the property.

## 4. What is proved

### The scheduler

`TaskSchedulerProofs` (SMT, Zenon and LS4) proves, for any
number of tasks, any priorities, tick range, time slice and set of calls:

- `SchedulerInvariance`: `Spec => []SchedulerInv`
- `TypeCorrect`: `Spec => []TypeOK`, in particular no time slice goes below 0
- `QueuesConsistent`: `Spec => []QueueIntegrity`: every TCB is linked exactly once,
  in the queue its status selects, so the assertion in `q_delete_task` cannot fail
- `OneRunningTask`: `Spec => []RunningIsCurrent`
- `NoSleeperForgotten`: `Spec => []WakeupArmed`
- `QueuesSorted`: `"pass" \notin Ops` implies `Spec => []SortedQueues`
- `TasksTakeTurns`: `"pass" \notin Ops` implies `Spec => NoOvertaking`, an action property: a task of the ready
  queue is not overtaken by one that is not more urgent, until it has had the CPU itself
- `ReturnsWhenDone`: `Spec => []ExitIsLast`: when `mrb_tasks_run` returns nobody is waiting, suspended or
  running, and a task is READY only if scripts sleep
- `SleepFindsATask`: `"terminate_self" \notin Ops` implies `Spec => []NoFault`
- `EveryJoinerReleased`: `"terminate", "terminate_self" \notin Ops` implies
  `Spec => []JoinersReleased`

Assumptions used: the named ASSUMEs of `TaskScheduler` (TLC evaluates them in
every run). They ask for a time slice in 1..255, a positive tick unit, an even
tick range, that NULL is not a task, and (`WindowAssumption`, for `WakeupArmed`) that the longest
sleep, or the far wakeup tick, together with `MaxOverdue` stays below half of the tick range, as the signed comparison of
the code needs. `WakeupArmed` also rests on the guard `SuspensionIsShort` of the tick: a wakeup tick that nobody is
waiting for but that `mrb_resume_task` will use is used before it is `MaxOverdue` ticks past; with the 32 bits of the code that
can be days. The conditions on `Ops` are
needed: each of the calls left out breaks the property (section 5).

The argument. `QueueIntegrity` and `RunningIsCurrent` need each other and are not
inductive: moving a task is only right if the task is still where its status
says when the step is taken, and between the look and the step interrupts were
enabled. `SchedulerInv` adds what the code silently relies on: the TCB a loop over
the waiting queue points to is still waiting although its predecessor has been
moved to another queue (`ScanIsWaiting`); the task `mrb_tasks_run` holds exists and is
READY when it is marked RUNNING or queued again (`CurrentIsCreated`; the tick moves only waiting tasks, and a task that
is not running cannot be moved by a method); the task a method works on exists
(`ArgIsCreated`). The lemmas go from sequences (`DeletedAtFacts`, `InsertedAtFacts`,
`InsertPointFacts`) to `MoveTaskFacts` (a move keeps `QueueIntegrity`), then one lemma
per group of actions with the same effect (quiet loop steps, quiet method steps,
moves, waits, creation, the tick, the joiners), combined in `NextInv`.

The later theorems add one invariant each. `SortedQueues`: a queue stays in order because the place `q_insert_task`
looks for is after everything at least as urgent and before everything less urgent (`PlaceFor`), and because
an effective priority changes only while the task is out of its queue, which `Task.pass` violates.
`NoOvertaking` follows from that order: unlinking and linking a third TCB leaves two others as they are (`WithoutAhead`,
`InsertedAhead`), the place of `q_insert_task` is behind every task that is at least as urgent (`InsertedBehind`), and only
`Requeue` links a task again that is in the ready queue already.
`ExitIsLast`: the three reads of the exit test are not one, but what a read has found stays so until the last
(`ExitInv`): the tick takes tasks out of the waiting queue and puts none into it or into the suspended queue, and no method runs
meanwhile; only the ready queue, which is read first, may get a task again, and only a sleeper (`NoSleepers`).
`NoFault`: a task that makes a call is RUNNING, because suspend, sleep and join request a switch and the VM then
makes no further call (`CallerRuns`); so the search of the ready queue finds it. `JoinersReleased`: a joiner is WAITING or SUSPENDED, and the task it names has not ended or is the one whose joiners are being woken
(`JoinersWait`); a task whose context is stopped, or that is being retired, waits for nobody (`StoppedIsFree`); and in the middle of the
loop that wakes the joiners the ones still to be woken are ahead of the TCB it stands on (`JoinersAhead`).
`WakeupArmed`: all comparisons are turned into signed distances from the current tick, which a tick decreases by one
and a wrap-around leaves alone (`Dist`); then no sleeper is earlier than the scan (`SleepersArmed`), the scan in
progress arms for the sleepers it has passed (`ScanArms`), and the compare and the store of
`mrb_resume_task`, between which interrupts are enabled, can only bring the scan forward (`StoreIsEarlier`).

### The shell

`ShellJobsProofs` proves, for any set of jobs of which one is irb, and any set of managers:

- `Typed`: `Spec => []TypeOK`
- `Prompt`: `Spec => []PromptQuiet`: while the shell shows its prompt, every job is
  over, suspended or told to stop, or was spared a ^C by an INT block that raised
- `ConsoleListens`: `Spec => []ConsoleServed`: the shell is deaf only for a manager, or for the one wait that finds a leak
- `IrbAnswersTheLine`: `Spec => []AnswerIsLine`: of the lines that have ended; one that suspended itself has not

The argument. `PromptQuiet` speaks of one program counter of the shell and is not
inductive: ^Z suspends the job the TSTP trap was set for, which need not be the one
waited for. The invariant `ShellInv` is `TypeOK` with one more conjunct, `OnlyAwaited`: at every place of
the shell at most the job it waits for runs, and from the moment
that job was started the trap is its own. A job leaves that exception only by being at rest, or by the
step that tells it to stop, suspends it or spares it. The lemmas say that each operation on
a task keeps it well formed (`OperationsWellformed`, `ExecutedWellformed`) and that storing a
well-formed task changes no other (`Stored`). `SelfExplained` says at every moment why ENV['SIGNAL_SELF_MANAGE'] is
set: by or for the manager whose wait is about to look, or it is marked as a leak, and the mark goes with the flag into the wait that
finds it. `LineInv` follows the
line given to irb: its sandbox is suspended at the prompt, then runs that line, not told to stop, until it
is DORMANT with the answer stored, or until it has suspended itself (`LinePaused`), after which irb leaves the wait. Nothing else
suspends it, since the TSTP trap is a job's; `ManagerStep` and `LineManagerStep` say so of the steps of managers, of which `Inner`
may be one.

### The BLE mailbox and the discovery

`BleCentralProofs` proves, for every peer that satisfies `PeerAssumption` (the services,
characteristics and descriptors are finite lists, and each service has a characteristic),
every set of time-outs and stop states and any number of connections:

- `MailboxSafe`: `Spec => []NoFault`: neither `BLE_push_event` nor `pop_packet` reads or
  frees a packet that is not there
- `DiscoveryTypeCorrect`: `Spec => []TypeOK`, which says among other things that each of the
  four queues holds only handles of its own kind
- `DiscoveryWaits`: `Spec => []WaitsForSomething`
- `DiscoveryFindsAll`: `Spec => []DiscoveryComplete`

The argument. `NoFault` says nothing about the mailbox before the step that would go wrong. The
invariant `MailInv` adds `MailOK`: the mutex is held exactly while `pop_packet` is
between its lock and its unlock; a freed packet is only there before the unlock;
a packet that is announced, or about to be copied, is a packet; and none is
announced once it was copied. The interrupt, which may come at any of these places, is one lemma
(`Pushed`); the queues need one lemma per kind of query (`AnswersTyped`, `AskTyped`).

The discovery needs to know where each event is: in hand, in the mailbox, or still to be answered (`Outstanding`). `DiscoveryInv`
says that every service is recorded and queued or outstanding (`ServicesComing`), that every service is still queued or its
characteristics are recorded or outstanding (`CharsComing`), and that COMPLETE is the last event of its query, with nothing behind
it (`Ends`, `CompleteIsLast`): when it is handled nothing is outstanding, so everything is recorded and BTstack accepts the next
query. `NotYetAsked` makes the start of a discovery independent of what an earlier one left: no GATT event of it is
behind the connection event. When no event is lost, `BLE_push_event` keeps what is outstanding (`PushFacts`).

### Rings

The UART's receive buffer, the event queue of the GPIO interrupt and the packet queue of the
sound generator are the same structure: a reader's and a writer's index, equal when it
is empty, one entry left free. `Rings` defines its contents, `RingSeq`, once, and proves for
every size what each of the four places of the code relies on: storing and advancing the writer's index
appends (`RingPut`), storing alone changes nothing the reader sees (`RingStore`), advancing the reader's
index takes the head (`RingTake`), and the test `(t + 1) % N # h` leaves room
(`RingRoom`). The lemmas first get rid of `%` (`RingLenIs`, `PlaceIs`, `SuccessorIs`).

### The UART receive buffer

`UartRingProofs` proves, for every size of the ring, every set of lengths and every character set:

- `RingImplementsStream`: `~MayOverrun` implies `Spec => RingIsStream`, the refinement of `ByteStream`
- `GetsReturnsALine`: `~MayOverrun` implies `Spec => []GetsIsLine`

The assumption is needed: the byte that fills the ring empties it (section 5). The
argument. In the middle of `popBuffer` the stream is in two places, the bytes copied so far
and those in the ring; the mapped state is their concatenation (`Pending`), which a copy leaves
as it is (`ConcatMove`) and the interrupt appends to (`ConcatAppend`). The inductive invariant adds
`Progress`: what is copied and what is still to be copied are within what the ring holds; and
`LineFound`: `searchCharBuffer` has seen no line end before its place, and once it has found one
the bytes up to it stay where they are although more arrive.

### GPIO interrupt events

`IrqEventsProofs` proves, for any pins, IRQInstances, number of slots, ring size, clock and limit of
`IRQ.process`:

- `TypeCorrect`: `Spec => []TypeOK`
- `TablesAlwaysAgree`: `Spec => []TablesAgree`
- `HardwareIsArmed`: `Spec => []HardwareArmed`
- `EventsAreDebounced`: `~ClockWraps` implies `Spec => Debounced`, an action property
- `StaleEventsComeFirst`: `Spec => []StaleEventsFirst`: a handler that got a used slot may be called for events of
  earlier owners, but once it is called for one of its own none of theirs is left in the ring
- `RingImplementsFifo`: `Spec => RingIsFifo`, the refinement of `EventFifo`

The argument. `TablesAgree` and `HardwareArmed` speak of the moments in which nothing is being
registered, so they are not inductive. `SlotsUsed` says what is true of each slot at every
moment, `Phase` what the managing task is in the middle of, `Tables` names the one slot that is in
use and not in the hash, `Reported` the IRQInstances for which the hardware is enabled although the slot is not
filled yet, or no longer although it is not cleared yet. `Consumer` says that the entry between
the two steps of `IRQ_peek_event` is still the one that was read, which makes the second a step of the
FIFO. `Timed` relates the code's `last_event_time` to the time that has really passed; it is only
true while the clock does not wrap.

`StaleEventsFirst` is proved of the queue the ring implements, on top of the refinement. `InOrder` says that among the
events of a slot those of its present owner come last, in the ring and counting the one in hand; the
interrupt appends only for the present owner. `Unseen` makes a change of owner harmless: an IRQInstance that has not been
registered yet has no event anywhere, so nothing of its own is in front of its predecessors' events. Both rest on the
slot being free when it is given away (`FreeSlots`). `OwnerInv` is their conjunction.

### The TCP and UDP clients

`NetClientProofs` proves, for any payloads, number of packets, number of polls and time of lwIP's poll
timer:

- `FaultsAreExplained`: `Spec => []FaultsExplained`
- `AnswersAreComplete`: `Spec => []AnswerComplete`
- `RequestIsSent`: `Spec => []RequestSent`

The argument. The three speak of the end of a call; `NetInv` says what holds during it:
whatever is freed or moved was so by a callback that left its mark (`Memory`), the data
collected is what has arrived, and a TCP connection is FINISHED only at the end of the stream
(`Received`), and the request of an established connection is sent, or will be by the next poll
because the state is still CONNECTED, or one of the two marks is set: `overtaken`, in the sleep of the connection only, or `refused`,
by a poll that has consumed CONNECTED (`Request`). There is one lemma per callback.

### The sound generator

`PsgProofs` proves, for every length of the ring, delays, tick range and number of packets, and with `~Reselect`
and `~LatePush` (a driver is selected only after `deinit` and nothing is pushed after it; without either, `NoFault` fails, section 5):

- `CoresShareSafely`: `Spec => []NoFault`
- `PendingIsInTheRing`: `Spec => []RingHoldsPending`
- `JoinWaitsForAll`: `Spec => []JoinPlaysAll`
- `SessionsDoNotMix`: `Spec => []FifoDrained`

and, of `PsgEnvelope` (whose specification is `EnvelopeSpec`), for every number of levels and tracks, every period and any number of
register writes, with the shapes that are drawn as the code plays them (section 5):

- `EnvelopeFollowsDrawing`: `EnvelopeSpec => []FollowsDrawing`. The run counts the steps of a repeating envelope up
  to its cycle only (its VIEW); the theorem has no such limit.

The argument. `Handshake` lists where the two cores can be at the same time and the words then
under way: stopped, starting, playing, stopping. It excludes that core 1 works while core 0 is in
`reset_psg` or has freed the queue, and that a word is left over. `Prepared` carries the
selected driver and the allocated queue to the start of core 1. `Numbered` is what replaces the
lock: the packets in the ring are numbered without a gap from the one after the last taken to the
last pushed, the entry core 0 is writing is outside of it, and the packet core 1 has copied is the
first one until it advances the tail. `Joined` says that a ring that `join` has seen empty stays
empty; the packet in the hands of core 1 is processed because only its loop answers CMD_CLEANUP.

The envelope: `Tracked` ties direction and level of a running track to its number of steps, by
quotient and remainder (`NextPlace`), and says that one that has stopped is at the level to be held.

Only model-checked: the liveness properties `SliceEnds`, `ReadyRuns`, `SleeperWakes`, `CallEnds`, `HandshakeEnds`,
`PacketsPlayed`, `OneShotEnds`, `DiscoveryEnds`, `StopHonoured` and `PromptComesBack`, since fairness is out of the
prover's reach. Every invariant, action property and refinement that a passing run checks is also a theorem.

## 5. Findings

Each is a run that TLC refutes; `PROJECT.json` quotes the text it contradicts.

| Run | What the code does |
|---|---|
| `sched_sleep_victim` | `sleep` puts the head of the ready queue to sleep, which after a badly placed tick is not the caller |
| `sched_lost_preemption` | a tick between the pick and the store of RUNNING puts another task at the head; ticks are then charged to that one, with no time slice left, and the running task keeps the CPU |

Other things met while modelling, which the models contain as they are in the
code and for which no run is kept:

- `Task.pass` (`task.c:694`) clears the time slice without requesting a switch, so
  the slice of that task never ends, and changes the priority of a TCB that is
  linked in a sorted queue: with `"pass"` in `Ops`, `SliceEnds` and `SortedQueues` fail.
- The exit test (`task.c:472`) can miss a sleeper that the tick makes READY after the ready queue was
  read: `mrb_tasks_run` then returns although that task has not ended. `ExitIsLast` says that this is the only case.
- The millisecond clock of the debounce filter wraps at 2^32 / 1000 and the
  subtraction at 2^32 (`irq.c:43`): with `ClockWraps = TRUE`, `Debounced` fails.
- `IRQInstance#enable` stores `@enabled = false` and `disable` stores `true`
  (`irq.rb:75` and `81`).
- A second `unregister` of an IRQInstance removes the next owner of its id
  (`irq.rb:9`).

- Scheduler: `mrb_terminate_task` (`task.c:584`) does not release the tasks that joined
  the terminated one; with `"terminate"` in `Ops`, `JoinersReleased` fails.
- `IRQ.process` takes an event and then tests its limit (`irq.rb:36`): the event taken
  beyond it is dropped.
- Events queued for an unregistered handler reach the next owner of its slot
  (`irq.c:118`), which is called for them; `StaleEventsFirst` says how long.
- `bufferDataSize` is masked and never `Size` (`uart.c:93`): the byte that fills the ring
  empties it; with `MayOverrun = TRUE`, `RingIsStream` fails.
- TCP: an answer that completes on the last poll sets `max_wait` to 0 and is
  treated as a time-out: TRUE is returned with the old, empty data, and the block
  that `realloc` moved is freed again (`tcp.c:274`). This is why `AnswerComplete` asks for `max_wait > 0`, and
  it is the third situation of `FaultsExplained`. A packet or an error that arrives
  in the sleep of the connection overwrites CONNECTED (`tcp.c:96`), the first exception of
  `RequestSent`. A request that `altcp_write` refuses sets ERROR (`tcp.c:236-241`), without `lwip_end` on the way out, and the loop
  goes on; an end of stream in a later sleep stores FINISHED over it, and the call returns TRUE with nothing sent: the second exception. `err_cb` keeps a freed pcb, the other callbacks free `cs` under the loop
  (`tcp.c:73`, `118`, `141`). An error of `dns_gethostbyname` is not looked at, and `Net_get_ip` loops for
  ever (`net.c:28`): `CallEnds` starts when the name is known.
- Sound: a second `select` frees the ring under core 1's tick (`psg.c:39`; with
  `Reselect = TRUE`, `NoFault` fails). `g_tick_ms` counts while the queue is
  empty, so the first delay after a pause is skipped. The code holds the level of the end of the
  ramp for the shapes 01xx, 1011 and 1111, where `psg.h:93-113` draws the opposite one; `psg_envelope` leaves
  these out. The legend above the drawing (`psg.h:91-92`: "E3: 0=continue, 1=stop", "E2: 0=attack, 1=release", "E1: 0=alternate, 1=sawtooth",
  "E0: 0=hold, 1=repeat") is the inverse of the code and of the drawing: with E3 = 1 the code goes on, with E2 = 1 it rises first, with E1 = 1 it
  alternates and with E0 = 1 it holds. A push after `deinit` writes through a NULL ring (`ports/common/psg.c:196-209`; with `LatePush = TRUE`, `NoFault`
  fails). A track that moves makes the later ones lose a count (`psg.c:263`).
- BLE: an event that comes while a packet is popped is dropped and one that comes
  before the last was popped replaces it; the discovery then waits for ever unless `start`
  has a time-out. A peer without any characteristic stalls it (`ble_central.rb:184-187` has no
  else; `PeerAssumption` excludes it). The next value is asked for before QUERY_COMPLETE, BTstack refuses, and
  the handle is lost (`ble_central.rb:201`), so values after the first are not read. A disconnection is
  never forwarded to a central. `connect` polls once and powers off (`start(10)`). The handle queues
  survive a reconnection.
- Shell: a line of irb that is left inside a call, cut or suspended, leaves the new program in the nested
  frame, and the next line runs the old one again (`task.c:303`, then `287`), one exception of
  `AnswerIsLine`; the other is a line that suspends itself (`sleep` without an argument, `task.c:601`): `Sandbox#wait` returns
  (`sandbox.rb:56`) and irb prints `=> ...` for a line that has not ended (`shell.rb:421-426`). The flag
  `SIGNAL_SELF_MANAGE` leaks in two ways, the exceptions of `ConsoleServed`: set more than 5 ms after the start of its job (rapicco sets it
  after a `require`, `shell_executables/rapicco.rb:7-12`), it is found by the next wait; and the CONT block that irb (`shell.rb:402-404`)
  or rapicco (`rapicco.rb:47-51`) leaves when it is suspended stays installed, so that `fg` of any
  other job sets it. Each leak makes the shell deaf to ^C and ^Z for one wait. An INT block that raises makes
  `Sandbox#wait` skip `stop` (`sandbox.rb:70-71`): the prompt is back and the job runs on, the exception of `PromptQuiet`;
  irb itself ends. ^C at the moment a line ends raises
  "Already stopped" in irb and ends it. A stopped task runs no ensure clause, so the inner
  sandbox of a stopped irb is orphaned. A file that does not compile leaves its job
  on the list, suspended for ever unless `fg` ends it.
- UART: `initializeBuffer` takes any power of two; the model starts at 2, since a ring of 1 never holds a byte.

The passing runs therefore leave out the calls that break what they
check: `sched_three` has no `pass` and no `terminate`; `sched_live` has one priority.
`uart_stream` assumes no overrun, and `irq_events` stops the clock before it wraps. `psg` selects
a driver only when none is selected and pushes nothing after `deinit`. The hazards that are thus left out, or that a property permits, name
no property in `PROJECT.json`; their notes say which constant or condition it is.

## 6. Not modelled

The VMs and the compiler (git submodules that are not in the repository), the
mruby/c variant of the gems, vendored libraries (FatFs, lwIP, BTstack, mbedTLS,
SQLite), drivers that pass arguments to the SDK, and pure conversions, which the
unit tests of the repository cover. Of the components modelled in part: the sample
ring and the arithmetic of the sound generator, the heartbeat and the peripheral
role of BLE, the builtins of the shell that only print, the compiler side of the
sandbox, the garbage collection step of the scheduler. The virtual file system, the key debounce, `require`
and the keyboard firmware are sequential code over lists; they come last in the plan.

## 7. Plan

1. Done: all modules of section 2, and proofs of every safety property that the runs check.
2. The sample ring of the sound generator (core 1 renders, the audio timer plays).
3. `Vfs` and `Debounce`: sequential, with reference definitions for the path functions
   and the filter.
