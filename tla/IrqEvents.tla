----------------------------- MODULE IrqEvents -----------------------------
(***************************************************************************)
(* GPIO interrupts for scripts: mrbgems/picoruby-irq.                      *)
(*                                                                         *)
(* Three actors: the interrupt handler gpio_irq_callback, which filters    *)
(* bounces and puts events into a ring; a task that runs IRQ.process in a  *)
(* loop; and a task that creates, enables, disables and unregisters        *)
(* IRQInstance objects.  The interrupt may come between any two steps; the *)
(* scheduler changes from one task to the other between two Ruby           *)
(* operations, never inside a C function.                                  *)
(*                                                                         *)
(* Event masks are sets of bits.  Two things are recorded for the        *)
(* properties and never read by the program: the IRQInstance an event or a *)
(* handler belongs to (owner), and the milliseconds since a handler last   *)
(* let an event through (since).                                           *)
(***************************************************************************)
EXTENDS Integers, Sequences, FiniteSetsExt

CONSTANTS
    Instances,      \* the IRQInstance objects scripts create
    None,           \* nil
    Request,        \* what each of them asks for: pin, mask, debounce
    MaxHandlers,    \* MAX_IRQ_HANDLERS
    QueueSize,      \* IRQ_EVENT_QUEUE_SIZE
    MaxCount,       \* max_count of IRQ.process
    ClockMod,       \* range of time_us_32() / 1000
    WordMod,        \* range of uint32_t
    ClockWraps      \* whether the clock is watched across its wrap-around

Pins == {Request[i].pin : i \in Instances}
Bits == UNION {Request[i].mask : i \in Instances}
Slots == 1..MaxHandlers
Indices == 0..(QueueSize - 1)
LongAgo == WordMod

ASSUME InstancesAssumption == None \notin Instances
ASSUME RequestAssumption ==
    \A i \in Instances : Request[i].mask # {} /\ Request[i].debounce \in 0..LongAgo
ASSUME SizesAssumption ==
    MaxHandlers \in Nat \ {0} /\ QueueSize \in Nat \ {0, 1} /\ MaxCount \in Nat
ASSUME ClockAssumption ==
    ClockMod \in 1..WordMod /\ WordMod \in Nat /\ ClockWraps \in BOOLEAN

NoEvent == [irq_id |-> 0, event_type |-> {}, owner |-> None]
ClearedHandler == [pin |-> None, event_mask |-> {}, enabled |-> FALSE,
                   debounce_ms |-> 0, last_event_time |-> 0,
                   last_event_type |-> {}, owner |-> None]

VARIABLES
    irq_handlers, event_queue, queue_head, queue_tail,
    gpio,        \* events the hardware reports, for each pin
    now,         \* time_us_32() / 1000
    since,       \* time since the last event of a handler, up to LongAgo
    HANDLER,     \* the hash from irq ids to IRQInstance objects
    enabled,     \* @enabled of each IRQInstance
    id,          \* @id of each IRQInstance, 0 before it has one
    manager,     \* where the task that manages IRQInstances is
    subject,     \* the IRQInstance it works on
    processor,   \* where the task that calls IRQ.process is
    event,       \* what its peek_event has read
    count        \* its count

ring    == <<event_queue, queue_head, queue_tail>>
objects == <<HANDLER, enabled, id>>
mvars   == <<manager, subject>>
pvars   == <<processor, event, count>>
vars == <<irq_handlers, event_queue, queue_head, queue_tail, gpio, now, since,
          HANDLER, enabled, id, manager, subject, processor, event, count>>

----------------------------------------------------------------------------
(* The interrupt handler.                                                  *)

(* Mutant: the comparison of the times is left out.                        *)
BouncesNever(s, events) == FALSE
(* The debounce filter.                                                    *)
Bounces(s, events) ==
    LET h == irq_handlers[s]
    IN  /\ h.debounce_ms > 0
        /\ (now - h.last_event_time) % WordMod < h.debounce_ms
        /\ events = h.last_event_type

Matches(s, pin, events) ==
    LET h == irq_handlers[s]
    IN  h.enabled /\ h.pin = pin /\ events \cap h.event_mask # {}

(* Mutant: the entry that tells a full ring from an empty one is used too. *)
FullNever == FALSE
Full == (queue_tail + 1) % QueueSize = queue_head

(* The handlers that let an event through; the first one takes it.         *)
Takers(pin, events) ==
    {s \in Slots : Matches(s, pin, events) /\ ~Bounces(s, events)}

gpio_irq_callback(pin, events) ==
    LET first == Min(Takers(pin, events))
    IN  /\ Takers(pin, events) # {}
        /\ irq_handlers' = [irq_handlers EXCEPT ![first].last_event_time = now,
                                                ![first].last_event_type = events]
        /\ since' = [since EXCEPT ![first] = 0]
        /\ IF Full
           THEN UNCHANGED <<event_queue, queue_tail>>
           ELSE /\ event_queue' = [event_queue EXCEPT ![queue_tail] =
                      [irq_id |-> first, event_type |-> events,
                       owner |-> irq_handlers[first].owner]]
                /\ queue_tail' = (queue_tail + 1) % QueueSize

(* The hardware (external) reports events that are enabled for the pin.    *)
Interrupt ==
    /\ \E pin \in Pins : \E events \in (SUBSET gpio[pin]) \ {{}} :
          gpio_irq_callback(pin, events)
    /\ UNCHANGED <<queue_head, gpio, now>>
    /\ UNCHANGED objects /\ UNCHANGED mvars /\ UNCHANGED pvars

Clock ==
    /\ ClockWraps \/ now + 1 < ClockMod
    /\ now' = (now + 1) % ClockMod
    /\ since' = [s \in Slots |-> IF since[s] < LongAgo THEN since[s] + 1 ELSE LongAgo]
    /\ UNCHANGED <<irq_handlers, gpio>>
    /\ UNCHANGED ring /\ UNCHANGED objects /\ UNCHANGED mvars /\ UNCHANGED pvars

----------------------------------------------------------------------------
(* The task that manages IRQInstance objects.                              *)

(* A task takes a step while the other is not inside a C function.         *)
ManagerAt(p) == manager = p /\ processor # "advance"
ProcessorAt(p) == processor = p /\ manager \notin {"store", "fill", "clear"}

(* Mutant: the search does not look at enabled.                            *)
AnySlot == Slots
FreeSlots == {s \in Slots : ~irq_handlers[s].enabled}

(* IRQInstance.new, up to the call in register_gpio that enables the pin.  *)
(* Without a free slot it raises and nothing changes.                      *)
RegisterBegin(i) ==
    /\ ManagerAt("idle") /\ id[i] = 0 /\ FreeSlots # {}
    /\ enabled' = [enabled EXCEPT ![i] = TRUE]
    /\ id' = [id EXCEPT ![i] = Min(FreeSlots)]
    /\ gpio' = [gpio EXCEPT ![Request[i].pin] = @ \cup Request[i].mask]
    /\ manager' = "store" /\ subject' = i
    /\ UNCHANGED <<irq_handlers, now, since, HANDLER>>
    /\ UNCHANGED ring /\ UNCHANGED pvars

(* The stores up to enabled = true: from here the interrupt uses the slot. *)
RegisterStore ==
    LET s == id[subject]
    IN  /\ ManagerAt("store") /\ manager' = "fill"
        /\ irq_handlers' = [irq_handlers EXCEPT
              ![s].pin = Request[subject].pin,
              ![s].event_mask = Request[subject].mask,
              ![s].enabled = TRUE,
              ![s].owner = subject]
        /\ UNCHANGED <<gpio, now, since, subject>>
        /\ UNCHANGED ring /\ UNCHANGED objects /\ UNCHANGED pvars

(* The remaining stores.  debounce_ms is in force from here.               *)
RegisterFill ==
    LET s == id[subject]
    IN  /\ ManagerAt("fill") /\ manager' = "hash"
        /\ irq_handlers' = [irq_handlers EXCEPT
              ![s].debounce_ms = Request[subject].debounce,
              ![s].last_event_time = 0,
              ![s].last_event_type = {}]
        /\ since' = [since EXCEPT ![s] = LongAgo]
        /\ UNCHANGED <<gpio, now, subject>>
        /\ UNCHANGED ring /\ UNCHANGED objects /\ UNCHANGED pvars

(* HANDLER[id] = irq                                                       *)
RegisterHash ==
    /\ ManagerAt("hash") /\ manager' = "idle" /\ subject' = None
    /\ HANDLER' = [HANDLER EXCEPT ![id[subject]] = subject]
    /\ UNCHANGED <<irq_handlers, gpio, now, since, enabled, id>>
    /\ UNCHANGED ring /\ UNCHANGED pvars

(* IRQ.unregister(@id): HANDLER.delete(id), which raises when there is no  *)
(* such entry; then unregister_gpio disables the pin's events ...          *)
UnregisterBegin(i) ==
    /\ ManagerAt("idle") /\ id[i] # 0
    /\ HANDLER[id[i]] # None
    /\ HANDLER' = [HANDLER EXCEPT ![id[i]] = None]
    /\ manager' = "unregister" /\ subject' = i
    /\ UNCHANGED <<irq_handlers, gpio, now, since, enabled, id>>
    /\ UNCHANGED ring /\ UNCHANGED pvars

UnregisterDisable ==
    LET h == irq_handlers[id[subject]]
    IN  /\ ManagerAt("unregister")
        /\ IF h.enabled
           THEN /\ gpio' = [gpio EXCEPT ![h.pin] = @ \ h.event_mask]
                /\ manager' = "clear" /\ UNCHANGED subject
           ELSE manager' = "idle" /\ subject' = None /\ UNCHANGED gpio
        /\ UNCHANGED <<irq_handlers, now, since>>
        /\ UNCHANGED ring /\ UNCHANGED objects /\ UNCHANGED pvars

(* Mutant: the slot is marked free, its other fields are left as they are. *)
ClearedSlotKeepsMask(h) == [h EXCEPT !.enabled = FALSE]
(* Mutant: the slot is not cleared.                                        *)
ClearedSlotForgotten(h) == h
ClearedSlot(h) == ClearedHandler

(* ... and clears the slot.                                                *)
UnregisterClear ==
    /\ ManagerAt("clear") /\ manager' = "idle" /\ subject' = None
    /\ irq_handlers' = [irq_handlers EXCEPT ![id[subject]] = ClearedSlot(@)]
    /\ UNCHANGED <<gpio, now, since>>
    /\ UNCHANGED ring /\ UNCHANGED objects /\ UNCHANGED pvars

enable(i) ==
    /\ ManagerAt("idle") /\ id[i] # 0
    /\ enabled' = [enabled EXCEPT ![i] = FALSE]
    /\ UNCHANGED <<irq_handlers, gpio, now, since, HANDLER, id>>
    /\ UNCHANGED ring /\ UNCHANGED mvars /\ UNCHANGED pvars

disable(i) ==
    /\ ManagerAt("idle") /\ id[i] # 0
    /\ enabled' = [enabled EXCEPT ![i] = TRUE]
    /\ UNCHANGED <<irq_handlers, gpio, now, since, HANDLER, id>>
    /\ UNCHANGED ring /\ UNCHANGED mvars /\ UNCHANGED pvars

----------------------------------------------------------------------------
(* The task that calls IRQ.process.                                        *)

ProcessStart ==
    /\ ProcessorAt("idle") /\ processor' = "peek"
    /\ count' = 0
    /\ UNCHANGED <<irq_handlers, gpio, now, since, event>>
    /\ UNCHANGED ring /\ UNCHANGED objects /\ UNCHANGED mvars

(* IRQ_peek_event reads the entry at the head ...                          *)
PeekRead ==
    /\ ProcessorAt("peek")
    /\ IF queue_head = queue_tail
       THEN event' = NoEvent /\ processor' = "test"
       ELSE event' = event_queue[queue_head] /\ processor' = "advance"
    /\ UNCHANGED <<irq_handlers, gpio, now, since, count>>
    /\ UNCHANGED ring /\ UNCHANGED objects /\ UNCHANGED mvars

(* ... and removes it.                                                     *)
PeekAdvance ==
    /\ ProcessorAt("advance") /\ processor' = "test"
    /\ queue_head' = (queue_head + 1) % QueueSize
    /\ UNCHANGED <<irq_handlers, event_queue, queue_tail, gpio, now, since,
                   event, count>>
    /\ UNCHANGED objects /\ UNCHANGED mvars

LimitReached == MaxCount <= count

(* break if id.nil? || max_count <= count                                  *)
ProcessTest ==
    /\ ProcessorAt("test")
    /\ processor' = IF event = NoEvent \/ LimitReached
                    THEN "idle" ELSE "dispatch"
    /\ UNCHANGED <<irq_handlers, gpio, now, since, event, count>>
    /\ UNCHANGED ring /\ UNCHANGED objects /\ UNCHANGED mvars

(* if irq = HANDLER[id], irq.call(event_type), which invokes the callback  *)
(* when @enabled, and count the event.                                     *)
Dispatch ==
    /\ ProcessorAt("dispatch") /\ processor' = "peek"
    /\ count' = IF HANDLER[event.irq_id] # None THEN count + 1 ELSE count
    /\ UNCHANGED <<irq_handlers, gpio, now, since, event>>
    /\ UNCHANGED ring /\ UNCHANGED objects /\ UNCHANGED mvars

----------------------------------------------------------------------------
(* IRQ_init.                                                               *)
Init ==
    /\ irq_handlers = [s \in Slots |-> ClearedHandler]
    /\ event_queue = [k \in Indices |-> NoEvent]
    /\ queue_head = 0
    /\ queue_tail = 0
    /\ gpio = [pin \in Pins |-> {}]
    /\ now = 0
    /\ since = [s \in Slots |-> LongAgo]
    /\ HANDLER = [s \in Slots |-> None]
    /\ enabled = [i \in Instances |-> FALSE]
    /\ id = [i \in Instances |-> 0]
    /\ manager = "idle"
    /\ subject = None
    /\ processor = "idle"
    /\ event = NoEvent
    /\ count = 0

Manage ==
    \/ \E i \in Instances :
          RegisterBegin(i) \/ UnregisterBegin(i) \/ enable(i) \/ disable(i)
    \/ RegisterStore \/ RegisterFill \/ RegisterHash
    \/ UnregisterDisable \/ UnregisterClear

process == ProcessStart \/ PeekRead \/ PeekAdvance \/ ProcessTest \/ Dispatch

Next == Interrupt \/ Clock \/ Manage \/ process

Spec == Init /\ [][Next]_vars

----------------------------------------------------------------------------
(* Properties.                                                             *)

Events == [irq_id : Slots, event_type : (SUBSET Bits) \ {{}}, owner : Instances]
Handlers ==
    [pin : Pins \cup {None}, event_mask : SUBSET Bits, enabled : BOOLEAN,
     debounce_ms : 0..LongAgo, last_event_time : 0..(ClockMod - 1),
     last_event_type : SUBSET Bits, owner : Instances \cup {None}]

(* Every variable holds a value of the field it stands for.                *)
TypeOK ==
    /\ irq_handlers \in [Slots -> Handlers]
    /\ event_queue \in [Indices -> Events \cup {NoEvent}]
    /\ queue_head \in Indices /\ queue_tail \in Indices
    /\ gpio \in [Pins -> SUBSET Bits]
    /\ now \in 0..(ClockMod - 1)
    /\ since \in [Slots -> 0..LongAgo]
    /\ HANDLER \in [Slots -> Instances \cup {None}]
    /\ enabled \in [Instances -> BOOLEAN]
    /\ id \in [Instances -> 0..MaxHandlers]
    /\ manager \in {"idle", "store", "fill", "hash", "unregister", "clear"}
    /\ subject \in Instances \cup {None}
    /\ processor \in {"idle", "peek", "advance", "test", "dispatch"}
    /\ event \in Events \cup {NoEvent}
    /\ count \in 0..MaxCount

(* The events in the ring, oldest first.                                   *)
Contents ==
    [k \in 1..((queue_tail - queue_head) % QueueSize) |->
        event_queue[(queue_head + k - 1) % QueueSize]]

(* What IRQ_peek_event has handed over.                                    *)
Handed == IF processor = "advance" THEN NoEvent ELSE event

Fifo == INSTANCE EventFifo
            WITH Nothing <- NoEvent, Capacity <- QueueSize - 1,
                 q <- Contents, handed <- Handed

(* The ring that the interrupt fills and IRQ_peek_event empties, without a *)
(* lock, is a queue of QueueSize - 1 places: no event in it is lost,       *)
(* overwritten or handed over twice, and the order is kept.                *)
RingIsFifo == Fifo!Spec

(* Whenever no registration is under way, the hash of the Ruby side and    *)
(* the table of the C side name the same IRQInstances.                     *)
TablesAgree ==
    manager = "idle" => \A s \in Slots :
        HANDLER[s] = IF irq_handlers[s].enabled THEN irq_handlers[s].owner ELSE None

OnePinEach == \A i, j \in Instances : Request[i].pin = Request[j].pin => i = j

(* When no two IRQInstances are for the same pin, the hardware reports     *)
(* exactly the events that a handler is waiting for: none goes unseen and  *)
(* none interrupts for nobody.                                             *)
HardwareArmed ==
    manager = "idle" /\ OnePinEach =>
        \A pin \in Pins :
            gpio[pin] = UNION {irq_handlers[s].event_mask :
                                 s \in {t \in Slots : irq_handlers[t].pin = pin}}

(* "Built-in debouncing to filter out rapid, repeated events": once a      *)
(* handler is registered, it lets two events of one type through only when *)
(* they are debounce_ms apart.                                             *)
Debounced ==
    [][queue_tail' # queue_tail =>
        LET e == event_queue'[queue_tail]
            h == irq_handlers[e.irq_id]
        IN  e.event_type = h.last_event_type => since[e.irq_id] >= h.debounce_ms]_vars

(* A callback is not always invoked for events of its own registration:    *)
(* those that are in the ring when their handler is unregistered reach the *)
(* next owner of the slot.  But they come first: when IRQ.process hands an *)
(* IRQInstance an event of its own, no other owner's event is left in the  *)
(* ring that could reach it.                                               *)
StaleEventsFirst ==
    processor = "dispatch" /\ HANDLER[event.irq_id] = event.owner =>
        \A k \in 1..Len(Contents) :
            Contents[k].irq_id = event.irq_id => Contents[k].owner = event.owner
=============================================================================
