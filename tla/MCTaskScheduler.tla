-------------------------- MODULE MCTaskScheduler --------------------------
(* Small instances of TaskScheduler for TLC.                               *)
EXTENDS TaskScheduler, TLC

CONSTANTS t1, t2, t3

(* No step depends on the absolute value of a tick, only on distances from *)
(* the current one, and a wakeup tick is read only while its task has the  *)
(* reason SLEEP or is being resumed: states that agree on this view have   *)
(* the same future.                                                        *)
FromNow(w) == (w - tick) % TickMod

TickFree ==
    <<queues, status, reason, prio, timeslice, joinOn, cstat, switching,
      tcb, pc, arg, irq, scan, woke, FromNow(wakeupTick),
      [t \in Tasks |-> IF reason[t] = "SLEEP" \/ (pc = "resume_store" /\ arg = t)
                       THEN FromNow(wakeup[t]) ELSE 0]>>

Symmetry == Permutations(Tasks)
=============================================================================
