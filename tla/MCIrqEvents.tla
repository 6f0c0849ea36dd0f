---------------------------- MODULE MCIrqEvents ----------------------------
(* Small instances of IrqEvents for TLC.                                   *)
EXTENDS IrqEvents

CONSTANTS i1, i2

Req(p, m, d) == [pin |-> p, mask |-> m, debounce |-> d]

(* One handler is debounced and for one edge, the other for both edges.    *)
(* Either may be registered in a slot that the other has used before.      *)
DistinctPins ==
    [i \in Instances |->
        IF i = i1 THEN Req("p1", {"fall"}, 2) ELSE Req("p2", {"fall", "rise"}, 0)]

(* The view of the run irq_events.  What has been taken from the ring is   *)
(* not read again, the history of a handler matters only when it is        *)
(* debounced, event and count are locals of IRQ.process, and nothing but   *)
(* the callback depends on @enabled.                                       *)
History(s) ==
    LET h == irq_handlers[s]
    IN  IF h.debounce_ms > 0
        THEN <<since[s], h.last_event_time, h.last_event_type>> ELSE <<>>

LiveState ==
    <<[s \in Slots |-> <<irq_handlers[s].owner, irq_handlers[s].enabled,
                         irq_handlers[s].debounce_ms, History(s)>>],
      queue_head, Contents, gpio, now, HANDLER, id, manager, subject, processor,
      IF processor \in {"idle", "peek"} THEN NoEvent ELSE event,
      IF processor = "idle" THEN 0 ELSE count>>
=============================================================================
