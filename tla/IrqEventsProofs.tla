-------------------------- MODULE IrqEventsProofs --------------------------
(***************************************************************************)
(* Proofs about IrqEvents: the tables of handlers on the two sides agree,  *)
(* the hardware is armed for exactly the handlers there are, the ring is a *)
(* queue, and the debounce filter keeps events of one type apart.          *)
(***************************************************************************)
EXTENDS IrqEvents, Rings, WellFoundedInduction

----------------------------------------------------------------------------
(* The inductive invariant.                                                *)

(* A slot in use holds what its IRQInstance has asked for, and is known to *)
(* it; a free one asks for nothing.                                        *)
SlotsUsed ==
    \A s \in Slots :
        /\ irq_handlers[s].enabled =>
              /\ irq_handlers[s].owner \in Instances
              /\ irq_handlers[s].pin = Request[irq_handlers[s].owner].pin
              /\ irq_handlers[s].event_mask = Request[irq_handlers[s].owner].mask
              /\ id[irq_handlers[s].owner] = s
        /\ ~irq_handlers[s].enabled => irq_handlers[s].event_mask = {}

(* What the managing task is in the middle of.                             *)
Phase ==
    /\ manager # "idle" => subject \in Instances /\ id[subject] \in Slots
    /\ manager = "store" => ~irq_handlers[id[subject]].enabled
    /\ manager \in {"fill", "hash", "unregister", "clear"} =>
          irq_handlers[id[subject]].enabled
    /\ manager \in {"fill", "hash"} => irq_handlers[id[subject]].owner = subject

(* The one slot that is in use and not in the hash: its IRQInstance is     *)
(* being registered or unregistered.                                       *)
Apart(s) == manager \in {"fill", "hash", "unregister", "clear"} /\ s = id[subject]

Tables ==
    \A s \in Slots :
        HANDLER[s] = IF irq_handlers[s].enabled /\ ~Apart(s)
                     THEN irq_handlers[s].owner ELSE None

(* What the processing task has read.                                      *)
Consumer ==
    /\ processor = "advance" =>
          queue_head # queue_tail /\ event = event_queue[queue_head]
    /\ processor = "dispatch" => event # NoEvent /\ count < MaxCount

IInv == TypeOK /\ SlotsUsed /\ Phase /\ Tables /\ Consumer

(* The IRQInstances the hardware is to report events for.                  *)
Armed(i) ==
    \/ manager = "store" /\ subject = i
    \/ \E s \in Slots : /\ irq_handlers[s].enabled /\ irq_handlers[s].owner = i
                        /\ ~(manager = "clear" /\ s = id[subject])

Reported ==
    OnePinEach =>
        \A i \in Instances :
            gpio[Request[i].pin] = IF Armed(i) THEN Request[i].mask ELSE {}

(* While the clock does not wrap around, since is the time that has passed *)
(* since last_event_time.                                                  *)
Timed ==
    \A s \in Slots :
        irq_handlers[s].last_event_type # {} =>
            /\ irq_handlers[s].last_event_time <= now
            /\ since[s] = now - irq_handlers[s].last_event_time

----------------------------------------------------------------------------
(* Small facts.                                                            *)

(* A set of slots that is not empty has a first one.                       *)
LEMMA MinIs ==
    ASSUME NEW T, T \subseteq Nat, T # {}
    PROVE  Min(T) \in T
  <1> DEFINE R == OpToRel(<, Nat)
  <1>1. IsWellFoundedOn(R, Nat)
    BY NatLessThanWellFounded
  <1>2. PICK x \in T : \A y \in T : ~(<<y, x>> \in R)
    <2> HIDE DEF R
    <2> QED BY <1>1, WFMin
  <1>3. R = {ss \in Nat \X Nat : ss[1] < ss[2]}
    BY DEF OpToRel
  <1> HIDE DEF R
  <1>4. \A y \in T : x <= y
    <2> TAKE y \in T
    <2>1. <<y, x>> \in Nat \X Nat /\ <<y, x>>[1] = y /\ <<y, x>>[2] = x
      OBVIOUS
    <2>2. ~(y < x)
      BY <1>2, <1>3, <2>1
    <2> QED BY <2>2
  <1> QED BY <1>4 DEF Min

LEMMA SlotsAreNumbers == Slots \subseteq Nat /\ 0 \notin Slots /\ Slots \subseteq 0..MaxHandlers
  BY SizesAssumption DEF Slots

(* What an IRQInstance asks for is a pin and bits that exist.              *)
LEMMA RequestTyped ==
    ASSUME NEW i \in Instances
    PROVE  /\ Request[i].pin \in Pins
           /\ Request[i].mask \in SUBSET Bits
           /\ Request[i].debounce \in 0..LongAgo
  BY RequestAssumption DEF Pins, Bits

(* What the properties other than the debouncing know of a slot.           *)
SameUse(g, h) ==
    /\ g.enabled = h.enabled /\ g.owner = h.owner
    /\ g.pin = h.pin /\ g.event_mask = h.event_mask

(* The interrupt only touches the times of the slot it has chosen.         *)
LEMMA CallbackEffect ==
    ASSUME TypeOK, NEW pin \in Pins, NEW events \in (SUBSET gpio[pin]) \ {{}},
           gpio_irq_callback(pin, events)
    PROVE  \E first \in Slots :
              /\ Matches(first, pin, events) /\ ~Bounces(first, events)
              /\ irq_handlers' \in [Slots -> Handlers]
              /\ \A s \in Slots : SameUse(irq_handlers'[s], irq_handlers[s])
              /\ \A s \in Slots \ {first} : irq_handlers'[s] = irq_handlers[s]
              /\ irq_handlers'[first].last_event_time = now
              /\ irq_handlers'[first].last_event_type = events
              /\ since' = [since EXCEPT ![first] = 0]
              /\ \/ UNCHANGED <<event_queue, queue_tail>>
                 \/ /\ ~Full
                    /\ event_queue' = [event_queue EXCEPT ![queue_tail] =
                          [irq_id |-> first, event_type |-> events,
                           owner |-> irq_handlers[first].owner]]
                    /\ queue_tail' = (queue_tail + 1) % QueueSize
  <1> DEFINE T == Takers(pin, events)
             first == Min(T)
             h == irq_handlers[first]
             g == [h EXCEPT !.last_event_time = now, !.last_event_type = events]
  <1>1. first \in Slots /\ Matches(first, pin, events) /\ ~Bounces(first, events)
    <2>1. T \subseteq Slots /\ T # {}
      BY DEF Takers, gpio_irq_callback
    <2>2. first \in T
      <3> HIDE DEF T
      <3> QED BY <2>1, SlotsAreNumbers, MinIs
    <2> QED BY <2>2 DEF Takers
  <1>2. irq_handlers \in [Slots -> Handlers] /\ now \in 0..(ClockMod - 1)
        /\ events \in SUBSET Bits
    BY DEF TypeOK
  <1>3. irq_handlers' = [irq_handlers EXCEPT ![first].last_event_time = now,
                                            ![first].last_event_type = events]
    BY DEF gpio_irq_callback
  <1> HIDE DEF T, first
  <1>4. irq_handlers' = [irq_handlers EXCEPT ![first] = g]
    BY <1>1, <1>2, <1>3
  <1>5. h \in Handlers
    BY <1>1, <1>2
  <1>6. g \in Handlers /\ SameUse(g, h)
        /\ g.last_event_time = now /\ g.last_event_type = events
    <2> HIDE DEF h
    <2> QED BY <1>2, <1>5 DEF Handlers, SameUse
  <1> HIDE DEF g
  <1>7. /\ irq_handlers' \in [Slots -> Handlers]
        /\ irq_handlers'[first] = g
        /\ \A s \in Slots \ {first} : irq_handlers'[s] = irq_handlers[s]
    BY <1>1, <1>2, <1>4, <1>6
  <1>8. \A s \in Slots : SameUse(irq_handlers'[s], irq_handlers[s])
    BY <1>6, <1>7 DEF SameUse
  <1>9. since' = [since EXCEPT ![first] = 0]
    BY DEF gpio_irq_callback, first, T
  <1>10. \/ UNCHANGED <<event_queue, queue_tail>>
         \/ /\ ~Full
            /\ event_queue' = [event_queue EXCEPT ![queue_tail] =
                  [irq_id |-> first, event_type |-> events,
                   owner |-> irq_handlers[first].owner]]
            /\ queue_tail' = (queue_tail + 1) % QueueSize
    BY DEF gpio_irq_callback, first, T
  <1> HIDE DEF h
  <1>11. first \in Slots
    BY <1>1
  <1> WITNESS first \in Slots
  <1> QED BY <1>1, <1>6, <1>7, <1>8, <1>9, <1>10

(* The stores of register_gpio, before and after enabled.                  *)
LEMMA StoreEffect ==
    ASSUME IInv, RegisterStore
    PROVE  /\ subject \in Instances /\ id[subject] \in Slots
           /\ irq_handlers' \in [Slots -> Handlers]
           /\ \A s \in Slots \ {id[subject]} : irq_handlers'[s] = irq_handlers[s]
           /\ irq_handlers'[id[subject]].enabled
           /\ irq_handlers'[id[subject]].owner = subject
           /\ irq_handlers'[id[subject]].pin = Request[subject].pin
           /\ irq_handlers'[id[subject]].event_mask = Request[subject].mask
           /\ irq_handlers'[id[subject]].last_event_type
                = irq_handlers[id[subject]].last_event_type
           /\ irq_handlers'[id[subject]].last_event_time
                = irq_handlers[id[subject]].last_event_time
  <1> DEFINE s0 == id[subject]
             h == irq_handlers[s0]
             p == Request[subject].pin
             m == Request[subject].mask
             g == [[h EXCEPT !.pin = p, !.event_mask = m]
                     EXCEPT !.enabled = TRUE, !.owner = subject]
  <1>1. subject \in Instances /\ s0 \in Slots
    BY DEF IInv, Phase, RegisterStore, ManagerAt
  <1>2. irq_handlers \in [Slots -> Handlers]
    BY DEF IInv, TypeOK
  <1>3. p \in Pins /\ m \in SUBSET Bits
    BY <1>1, RequestTyped
  <1>4. irq_handlers' = [irq_handlers EXCEPT ![s0].pin = p, ![s0].event_mask = m,
                                             ![s0].enabled = TRUE, ![s0].owner = subject]
    BY DEF RegisterStore
  <1> HIDE DEF s0, p, m
  <1>5. irq_handlers' = [irq_handlers EXCEPT ![s0] = g]
    BY <1>1, <1>2, <1>4
  <1>6. h \in Handlers
    BY <1>1, <1>2
  <1>7. /\ g \in Handlers
        /\ g.enabled = TRUE /\ g.owner = subject /\ g.pin = p /\ g.event_mask = m
        /\ g.last_event_type = h.last_event_type
        /\ g.last_event_time = h.last_event_time
    <2> HIDE DEF h
    <2> DEFINE f == [h EXCEPT !.pin = p, !.event_mask = m]
    <2>1. /\ f \in Handlers /\ f.pin = p /\ f.event_mask = m
          /\ f.last_event_type = h.last_event_type
          /\ f.last_event_time = h.last_event_time
      BY <1>3, <1>6 DEF Handlers
    <2> HIDE DEF f
    <2>2. g = [f EXCEPT !.enabled = TRUE, !.owner = subject]
      BY DEF f
    <2> HIDE DEF g
    <2> QED BY <1>1, <2>1, <2>2 DEF Handlers
  <1> HIDE DEF g
  <1>8. /\ irq_handlers' \in [Slots -> Handlers]
        /\ irq_handlers'[s0] = g
        /\ \A s \in Slots \ {s0} : irq_handlers'[s] = irq_handlers[s]
    BY <1>1, <1>2, <1>5, <1>7
  <1> QED BY <1>1, <1>7, <1>8 DEF s0, p, m

LEMMA FillEffect ==
    ASSUME IInv, RegisterFill
    PROVE  /\ subject \in Instances /\ id[subject] \in Slots
           /\ irq_handlers' \in [Slots -> Handlers]
           /\ \A s \in Slots : SameUse(irq_handlers'[s], irq_handlers[s])
           /\ \A s \in Slots \ {id[subject]} : irq_handlers'[s] = irq_handlers[s]
           /\ irq_handlers'[id[subject]].last_event_type = {}
  <1> DEFINE s0 == id[subject]
             h == irq_handlers[s0]
             d == Request[subject].debounce
             g == [h EXCEPT !.debounce_ms = d, !.last_event_time = 0,
                            !.last_event_type = {}]
  <1>1. subject \in Instances /\ s0 \in Slots
    BY DEF IInv, Phase, RegisterFill, ManagerAt
  <1>2. irq_handlers \in [Slots -> Handlers]
    BY DEF IInv, TypeOK
  <1>3. d \in 0..LongAgo /\ 0 \in 0..(ClockMod - 1)
    BY <1>1, RequestTyped, ClockAssumption
  <1>4. irq_handlers' = [irq_handlers EXCEPT ![s0].debounce_ms = d,
                            ![s0].last_event_time = 0, ![s0].last_event_type = {}]
    BY DEF RegisterFill
  <1> HIDE DEF s0, d
  <1>5. irq_handlers' = [irq_handlers EXCEPT ![s0] = g]
    BY <1>1, <1>2, <1>4
  <1>6. h \in Handlers
    BY <1>1, <1>2
  <1>7. g \in Handlers /\ SameUse(g, h) /\ g.last_event_type = {}
    <2> HIDE DEF h
    <2> QED BY <1>3, <1>6 DEF Handlers, SameUse
  <1> HIDE DEF g
  <1>8. /\ irq_handlers' \in [Slots -> Handlers]
        /\ irq_handlers'[s0] = g
        /\ \A s \in Slots \ {s0} : irq_handlers'[s] = irq_handlers[s]
    BY <1>1, <1>2, <1>5, <1>7
  <1>9. \A s \in Slots : SameUse(irq_handlers'[s], irq_handlers[s])
    BY <1>7, <1>8 DEF SameUse
  <1> QED BY <1>1, <1>7, <1>8, <1>9 DEF s0

LEMMA ClearedTyped ==
    /\ ClearedHandler \in Handlers
    /\ ClearedHandler.enabled = FALSE /\ ClearedHandler.event_mask = {}
    /\ ClearedHandler.last_event_type = {}
  <1>1. 0 \in 0..(ClockMod - 1) /\ 0 \in 0..LongAgo
    BY ClockAssumption DEF LongAgo
  <1> QED BY <1>1 DEF ClearedHandler, Handlers

(* The slot that unregister_gpio clears.                                   *)
LEMMA ClearEffect ==
    ASSUME IInv, UnregisterClear
    PROVE  /\ subject \in Instances /\ id[subject] \in Slots
           /\ irq_handlers' \in [Slots -> Handlers]
           /\ \A s \in Slots \ {id[subject]} : irq_handlers'[s] = irq_handlers[s]
           /\ irq_handlers'[id[subject]] = ClearedHandler
  <1>1. subject \in Instances /\ id[subject] \in Slots
    BY DEF IInv, Phase, UnregisterClear, ManagerAt
  <1>2. irq_handlers \in [Slots -> Handlers]
    BY DEF IInv, TypeOK
  <1>3. irq_handlers' = [irq_handlers EXCEPT ![id[subject]] = ClearedHandler]
    BY DEF UnregisterClear, ClearedSlot
  <1> QED BY <1>1, <1>2, <1>3, ClearedTyped

(* A step that changes neither what the slots are used for nor what the    *)
(* managing task does.                                                     *)
Uses == SlotsUsed /\ Phase /\ Tables

LEMMA UsesKept ==
    ASSUME IInv, UNCHANGED <<HANDLER, id, manager, subject>>,
           \A s \in Slots : SameUse(irq_handlers'[s], irq_handlers[s])
    PROVE  Uses'
  <1>1. SlotsUsed'
    BY DEF IInv, SlotsUsed, SameUse
  <1>2. Phase'
    BY DEF IInv, Phase, SameUse
  <1>3. Tables'
    BY DEF IInv, Tables, Apart, SameUse
  <1> QED BY <1>1, <1>2, <1>3 DEF Uses

LEMMA UsesUntouched ==
    ASSUME IInv, UNCHANGED <<irq_handlers, HANDLER, id, manager, subject>>
    PROVE  Uses'
  BY UsesKept DEF SameUse

(* The managing task leaves the processing one alone.                      *)
LEMMA ConsumerKept ==
    ASSUME IInv, UNCHANGED ring, UNCHANGED pvars
    PROVE  Consumer'
  BY DEF IInv, Consumer, ring, pvars

----------------------------------------------------------------------------
(* The interrupt and the clock.                                            *)

(* An event is stored into a free entry.                                   *)
LEMMA FullIs ==
    ASSUME TypeOK
    PROVE  /\ IsRing(event_queue, queue_head, queue_tail, QueueSize)
           /\ ~Full => HasRoom(queue_head, queue_tail, QueueSize)
  <1>1. IsRing(event_queue, queue_head, queue_tail, QueueSize)
    BY SizesAssumption DEF TypeOK, Indices, IsRing
  <1>2. ASSUME ~Full PROVE HasRoom(queue_head, queue_tail, QueueSize)
    BY <1>1, <1>2, RingRoom DEF Full
  <1> QED BY <1>1, <1>2

LEMMA InterruptStep ==
    ASSUME IInv, Interrupt
    PROVE  IInv'
  <1> USE DEF Interrupt, objects, mvars, pvars
  <1>1. PICK pin \in Pins : \E events \in (SUBSET gpio[pin]) \ {{}} :
          gpio_irq_callback(pin, events)
    OBVIOUS
  <1>2. PICK events \in (SUBSET gpio[pin]) \ {{}} : gpio_irq_callback(pin, events)
    BY <1>1
  <1>3. PICK first \in Slots :
              /\ Matches(first, pin, events)
              /\ irq_handlers' \in [Slots -> Handlers]
              /\ \A s \in Slots : SameUse(irq_handlers'[s], irq_handlers[s])
              /\ since' = [since EXCEPT ![first] = 0]
              /\ \/ UNCHANGED <<event_queue, queue_tail>>
                 \/ /\ ~Full
                    /\ event_queue' = [event_queue EXCEPT ![queue_tail] =
                          [irq_id |-> first, event_type |-> events,
                           owner |-> irq_handlers[first].owner]]
                    /\ queue_tail' = (queue_tail + 1) % QueueSize
    BY <1>2, CallbackEffect DEF IInv
  <1> DEFINE e == [irq_id |-> first, event_type |-> events,
                   owner |-> irq_handlers[first].owner]
  <1>4. e \in Events
    <2>1. irq_handlers[first].owner \in Instances
      BY <1>3 DEF IInv, SlotsUsed, Matches
    <2>2. events \in (SUBSET Bits) \ {{}}
      BY DEF IInv, TypeOK
    <2> QED BY <2>1, <2>2 DEF Events
  <1>5. CASE UNCHANGED <<event_queue, queue_tail>>
    <2>1. TypeOK'
      <3>1. since' \in [Slots -> 0..LongAgo]
        BY <1>3, ClockAssumption DEF IInv, TypeOK, LongAgo
      <3> QED BY <1>3, <1>5, <3>1 DEF IInv, TypeOK
    <2>2. Uses'
      BY <1>3, UsesKept
    <2>3. Consumer'
      BY <1>5 DEF IInv, Consumer
    <2> QED BY <2>1, <2>2, <2>3 DEF IInv, Uses
  <1>6. CASE /\ ~Full /\ event_queue' = [event_queue EXCEPT ![queue_tail] = e]
             /\ queue_tail' = (queue_tail + 1) % QueueSize
    <2>1. event_queue' \in [Indices -> Events \cup {NoEvent}] /\ queue_tail' \in Indices
      <3>1. QueueSize \in Nat \ {0} /\ queue_tail \in 0..(QueueSize - 1)
        BY SizesAssumption DEF IInv, TypeOK, Indices
      <3>2. (queue_tail + 1) % QueueSize \in 0..(QueueSize - 1)
        BY <3>1, SuccessorIs
      <3> HIDE DEF e
      <3> QED BY <1>4, <1>6, <3>2 DEF IInv, TypeOK, Indices
    <2>2. TypeOK'
      <3>1. since' \in [Slots -> 0..LongAgo]
        BY <1>3, ClockAssumption DEF IInv, TypeOK, LongAgo
      <3> QED BY <1>3, <2>1, <3>1 DEF IInv, TypeOK
    <2>3. Uses'
      BY <1>3, UsesKept
    <2>4. Consumer'
      <3>1. queue_head # queue_tail'
        BY <1>6 DEF Full
      <3>2. queue_head # queue_tail => event_queue'[queue_head] = event_queue[queue_head]
        BY <1>6 DEF IInv, TypeOK
      <3> QED BY <3>1, <3>2 DEF IInv, Consumer
    <2> QED BY <2>2, <2>3, <2>4 DEF IInv, Uses
  <1> QED BY <1>3, <1>5, <1>6

LEMMA ClockStep ==
    ASSUME IInv, Clock
    PROVE  IInv'
  <1> USE DEF Clock, ring, objects, mvars, pvars
  <1>1. now' \in 0..(ClockMod - 1)
    <2>1. ClockMod \in Nat \ {0} /\ now \in 0..(ClockMod - 1)
      BY ClockAssumption DEF IInv, TypeOK
    <2> QED BY <2>1, SuccessorIs
  <1>2. since' \in [Slots -> 0..LongAgo]
    BY ClockAssumption DEF IInv, TypeOK, LongAgo
  <1>3. TypeOK'
    BY <1>1, <1>2 DEF IInv, TypeOK
  <1>4. Uses'
    BY UsesUntouched
  <1>5. Consumer'
    BY ConsumerKept
  <1> QED BY <1>3, <1>4, <1>5 DEF IInv, Uses

----------------------------------------------------------------------------
(* The managing task.                                                      *)

(* The slot that register_gpio finds is free, and the IRQInstance had none.*)
LEMMA RegisterBeginStep ==
    ASSUME IInv, NEW i \in Instances, RegisterBegin(i)
    PROVE  IInv'
  <1> USE DEF ring, pvars
  <1> DEFINE s0 == Min(FreeSlots)
  <1>1. s0 \in Slots /\ ~irq_handlers[s0].enabled
    <2>1. FreeSlots # {} /\ FreeSlots \subseteq Slots
      BY DEF RegisterBegin, FreeSlots
    <2>2. s0 \in FreeSlots
      BY <2>1, SlotsAreNumbers, MinIs
    <2> QED BY <2>2 DEF FreeSlots
  <1>2. /\ manager = "idle" /\ id[i] = 0
        /\ enabled' = [enabled EXCEPT ![i] = TRUE]
        /\ id' = [id EXCEPT ![i] = s0]
        /\ gpio' = [gpio EXCEPT ![Request[i].pin] = @ \cup Request[i].mask]
        /\ manager' = "store" /\ subject' = i
        /\ UNCHANGED <<irq_handlers, now, since, HANDLER>>
        /\ UNCHANGED <<event_queue, queue_head, queue_tail, processor, event, count>>
    BY DEF RegisterBegin, ManagerAt
  <1> HIDE DEF s0
  <1>3. id \in [Instances -> 0..MaxHandlers]
    BY DEF IInv, TypeOK
  <1>4. id'[i] = s0 /\ \A j \in Instances \ {i} : id'[j] = id[j]
    BY <1>2, <1>3
  <1>5. TypeOK'
    <2>1. gpio' \in [Pins -> SUBSET Bits]
      BY <1>2, RequestTyped DEF IInv, TypeOK
    <2>2. id' \in [Instances -> 0..MaxHandlers] /\ enabled' \in [Instances -> BOOLEAN]
      BY <1>1, <1>2, SlotsAreNumbers DEF IInv, TypeOK
    <2> QED BY <1>2, <2>1, <2>2 DEF IInv, TypeOK
  <1>6. SlotsUsed'
    <2> SUFFICES ASSUME NEW s \in Slots, irq_handlers[s].enabled
                 PROVE  id'[irq_handlers[s].owner] = s
      BY <1>2 DEF IInv, SlotsUsed
    <2>1. irq_handlers[s].owner \in Instances /\ id[irq_handlers[s].owner] = s
      BY DEF IInv, SlotsUsed
    <2>2. irq_handlers[s].owner # i
      BY <1>2, <2>1, SlotsAreNumbers
    <2> QED BY <1>4, <2>1, <2>2
  <1>7. Phase'
    BY <1>1, <1>2, <1>4 DEF Phase
  <1>8. Tables'
    BY <1>2 DEF IInv, Tables, Apart
  <1>9. Consumer'
    BY <1>2, ConsumerKept
  <1> QED BY <1>5, <1>6, <1>7, <1>8, <1>9 DEF IInv

LEMMA RegisterStoreStep ==
    ASSUME IInv, RegisterStore
    PROVE  IInv'
  <1> USE DEF ring, pvars, objects
  <1> DEFINE s0 == id[subject]
  <1>1. /\ subject \in Instances /\ s0 \in Slots
        /\ irq_handlers' \in [Slots -> Handlers]
        /\ \A s \in Slots \ {s0} : irq_handlers'[s] = irq_handlers[s]
        /\ irq_handlers'[s0].enabled
        /\ irq_handlers'[s0].owner = subject
        /\ irq_handlers'[s0].pin = Request[subject].pin
        /\ irq_handlers'[s0].event_mask = Request[subject].mask
    BY StoreEffect
  <1>2. /\ manager = "store" /\ manager' = "fill"
        /\ UNCHANGED <<gpio, now, since, subject, event_queue, queue_head, queue_tail,
                       HANDLER, enabled, id, processor, event, count>>
    BY DEF RegisterStore, ManagerAt
  <1>3. ~irq_handlers[s0].enabled
    BY <1>2 DEF IInv, Phase
  <1>4. TypeOK'
    BY <1>1, <1>2 DEF IInv, TypeOK
  <1>5. SlotsUsed'
    BY <1>1, <1>2 DEF IInv, SlotsUsed
  <1>6. Phase'
    BY <1>1, <1>2 DEF Phase
  <1>7. Tables'
    BY <1>1, <1>2, <1>3 DEF IInv, Tables, Apart
  <1>8. Consumer'
    BY <1>2, ConsumerKept
  <1> QED BY <1>4, <1>5, <1>6, <1>7, <1>8 DEF IInv

LEMMA RegisterFillStep ==
    ASSUME IInv, RegisterFill
    PROVE  IInv'
  <1> USE DEF ring, pvars, objects
  <1>1. /\ subject \in Instances /\ id[subject] \in Slots
        /\ irq_handlers' \in [Slots -> Handlers]
        /\ \A s \in Slots : SameUse(irq_handlers'[s], irq_handlers[s])
    BY FillEffect
  <1>2. /\ manager = "fill" /\ manager' = "hash"
        /\ since' = [since EXCEPT ![id[subject]] = LongAgo]
        /\ UNCHANGED <<gpio, now, subject, event_queue, queue_head, queue_tail,
                       HANDLER, enabled, id, processor, event, count>>
    BY DEF RegisterFill, ManagerAt
  <1>3. since' \in [Slots -> 0..LongAgo]
    BY <1>1, <1>2, ClockAssumption DEF IInv, TypeOK, LongAgo
  <1>4. TypeOK'
    BY <1>1, <1>2, <1>3 DEF IInv, TypeOK
  <1>5. SlotsUsed'
    BY <1>1, <1>2 DEF IInv, SlotsUsed, SameUse
  <1>6. Phase'
    BY <1>1, <1>2 DEF IInv, Phase, SameUse
  <1>7. Tables'
    BY <1>1, <1>2 DEF IInv, Tables, Apart, SameUse
  <1>8. Consumer'
    BY <1>2, ConsumerKept
  <1> QED BY <1>4, <1>5, <1>6, <1>7, <1>8 DEF IInv

LEMMA RegisterHashStep ==
    ASSUME IInv, RegisterHash
    PROVE  IInv'
  <1> USE DEF ring, pvars
  <1>1. /\ manager = "hash" /\ manager' = "idle" /\ subject' = None
        /\ HANDLER' = [HANDLER EXCEPT ![id[subject]] = subject]
        /\ UNCHANGED <<irq_handlers, gpio, now, since, enabled, id, event_queue,
                       queue_head, queue_tail, processor, event, count>>
    BY DEF RegisterHash, ManagerAt
  <1>2. subject \in Instances /\ id[subject] \in Slots
        /\ irq_handlers[id[subject]].enabled /\ irq_handlers[id[subject]].owner = subject
    BY <1>1 DEF IInv, Phase
  <1>3. HANDLER \in [Slots -> Instances \cup {None}]
    BY DEF IInv, TypeOK
  <1>4. /\ HANDLER' \in [Slots -> Instances \cup {None}]
        /\ HANDLER'[id[subject]] = subject
        /\ \A s \in Slots \ {id[subject]} : HANDLER'[s] = HANDLER[s]
    BY <1>1, <1>2, <1>3
  <1>5. TypeOK'
    BY <1>1, <1>4 DEF IInv, TypeOK
  <1>6. SlotsUsed'
    BY <1>1 DEF IInv, SlotsUsed
  <1>7. Phase'
    BY <1>1 DEF Phase
  <1>8. Tables'
    <2> SUFFICES ASSUME NEW s \in Slots
                 PROVE  HANDLER'[s] = IF irq_handlers[s].enabled
                                      THEN irq_handlers[s].owner ELSE None
      BY <1>1 DEF Tables, Apart
    <2>1. CASE s = id[subject]
      BY <1>2, <1>4, <2>1
    <2>2. CASE s # id[subject]
      BY <1>4, <2>2 DEF IInv, Tables, Apart
    <2> QED BY <2>1, <2>2
  <1>9. Consumer'
    BY <1>1, ConsumerKept
  <1> QED BY <1>5, <1>6, <1>7, <1>8, <1>9 DEF IInv

(* The id may be one that another IRQInstance has taken over; the entry is *)
(* in the hash, so the slot is in use.                                     *)
LEMMA UnregisterBeginStep ==
    ASSUME IInv, NEW i \in Instances, UnregisterBegin(i)
    PROVE  IInv'
  <1> USE DEF ring, pvars
  <1>1. /\ manager = "idle" /\ id[i] # 0 /\ HANDLER[id[i]] # None
        /\ HANDLER' = [HANDLER EXCEPT ![id[i]] = None]
        /\ manager' = "unregister" /\ subject' = i
        /\ UNCHANGED <<irq_handlers, gpio, now, since, enabled, id, event_queue,
                       queue_head, queue_tail, processor, event, count>>
    BY DEF UnregisterBegin, ManagerAt
  <1>2. id[i] \in Slots
    <2>1. id[i] \in 0..MaxHandlers
      BY DEF IInv, TypeOK
    <2> QED BY <1>1, <2>1, SizesAssumption DEF Slots
  <1>3. irq_handlers[id[i]].enabled
    BY <1>1, <1>2 DEF IInv, Tables
  <1>4. HANDLER \in [Slots -> Instances \cup {None}]
    BY DEF IInv, TypeOK
  <1>5. /\ HANDLER' \in [Slots -> Instances \cup {None}]
        /\ HANDLER'[id[i]] = None
        /\ \A s \in Slots \ {id[i]} : HANDLER'[s] = HANDLER[s]
    BY <1>1, <1>2, <1>4
  <1>6. TypeOK'
    BY <1>1, <1>5 DEF IInv, TypeOK
  <1>7. SlotsUsed'
    BY <1>1 DEF IInv, SlotsUsed
  <1>8. Phase'
    BY <1>1, <1>2, <1>3 DEF Phase
  <1>9. Tables'
    <2> SUFFICES ASSUME NEW s \in Slots
                 PROVE  HANDLER'[s] = IF irq_handlers[s].enabled /\ s # id[i]
                                      THEN irq_handlers[s].owner ELSE None
      BY <1>1 DEF Tables, Apart
    <2>1. CASE s = id[i]
      BY <1>5, <2>1
    <2>2. CASE s # id[i]
      BY <1>1, <1>5, <2>2 DEF IInv, Tables, Apart
    <2> QED BY <2>1, <2>2
  <1>10. Consumer'
    BY <1>1, ConsumerKept
  <1> QED BY <1>6, <1>7, <1>8, <1>9, <1>10 DEF IInv

LEMMA UnregisterDisableEffect ==
    ASSUME IInv, UnregisterDisable
    PROVE  LET h == irq_handlers[id[subject]] IN
           /\ subject \in Instances /\ id[subject] \in Slots
           /\ h.enabled /\ h.owner \in Instances
           /\ h.pin = Request[h.owner].pin /\ h.event_mask = Request[h.owner].mask
           /\ gpio' = [gpio EXCEPT ![h.pin] = @ \ h.event_mask]
           /\ manager = "unregister" /\ manager' = "clear" /\ subject' = subject
  <1>1. manager = "unregister"
    BY DEF UnregisterDisable, ManagerAt
  <1>2. subject \in Instances /\ id[subject] \in Slots /\ irq_handlers[id[subject]].enabled
    BY <1>1 DEF IInv, Phase
  <1> QED BY <1>1, <1>2 DEF UnregisterDisable, IInv, SlotsUsed

LEMMA UnregisterDisableStep ==
    ASSUME IInv, UnregisterDisable
    PROVE  IInv'
  <1> USE DEF ring, pvars, objects
  <1> DEFINE h == irq_handlers[id[subject]]
  <1>1. /\ subject \in Instances /\ id[subject] \in Slots
        /\ h.enabled /\ h.owner \in Instances /\ h.pin = Request[h.owner].pin
        /\ gpio' = [gpio EXCEPT ![h.pin] = @ \ h.event_mask]
        /\ manager = "unregister" /\ manager' = "clear" /\ subject' = subject
    BY UnregisterDisableEffect
  <1>2. UNCHANGED <<irq_handlers, now, since, HANDLER, enabled, id, event_queue,
                    queue_head, queue_tail, processor, event, count>>
    BY DEF UnregisterDisable
  <1>3. TypeOK'
    <2>1. h.pin \in Pins
      BY <1>1, RequestTyped
    <2>2. gpio' \in [Pins -> SUBSET Bits]
      <3> HIDE DEF h
      <3> QED BY <1>1, <2>1 DEF IInv, TypeOK
    <2> QED BY <1>1, <1>2, <2>2 DEF IInv, TypeOK
  <1>4. SlotsUsed'
    BY <1>2 DEF IInv, SlotsUsed
  <1>5. Phase'
    BY <1>1, <1>2 DEF Phase
  <1>6. Tables'
    BY <1>1, <1>2 DEF IInv, Tables, Apart
  <1>7. Consumer'
    BY <1>2, ConsumerKept
  <1> QED BY <1>3, <1>4, <1>5, <1>6, <1>7 DEF IInv

LEMMA UnregisterClearStep ==
    ASSUME IInv, UnregisterClear
    PROVE  IInv'
  <1> USE DEF ring, pvars, objects
  <1> DEFINE s0 == id[subject]
  <1>1. /\ s0 \in Slots
        /\ irq_handlers' \in [Slots -> Handlers]
        /\ \A s \in Slots \ {s0} : irq_handlers'[s] = irq_handlers[s]
        /\ ~irq_handlers'[s0].enabled /\ irq_handlers'[s0].event_mask = {}
    BY ClearEffect, ClearedTyped
  <1>2. /\ manager = "clear" /\ manager' = "idle" /\ subject' = None
        /\ UNCHANGED <<gpio, now, since, event_queue, queue_head, queue_tail,
                       HANDLER, enabled, id, processor, event, count>>
    BY DEF UnregisterClear, ManagerAt
  <1>3. TypeOK'
    BY <1>1, <1>2 DEF IInv, TypeOK
  <1>4. SlotsUsed'
    BY <1>1, <1>2 DEF IInv, SlotsUsed
  <1>5. Phase'
    BY <1>2 DEF Phase
  <1>6. Tables'
    BY <1>1, <1>2 DEF IInv, Tables, Apart
  <1>7. Consumer'
    BY <1>2, ConsumerKept
  <1> QED BY <1>3, <1>4, <1>5, <1>6, <1>7 DEF IInv

LEMMA EnableStep ==
    ASSUME IInv, NEW i \in Instances, enable(i) \/ disable(i)
    PROVE  IInv'
  <1> USE DEF ring, pvars, mvars
  <1>1. /\ enabled' = [enabled EXCEPT ![i] = FALSE] \/ enabled' = [enabled EXCEPT ![i] = TRUE]
        /\ UNCHANGED <<irq_handlers, gpio, now, since, HANDLER, id, event_queue, queue_head,
                       queue_tail, manager, subject, processor, event, count>>
    BY DEF enable, disable
  <1>2. TypeOK'
    BY <1>1 DEF IInv, TypeOK
  <1> QED BY <1>1, <1>2, UsesUntouched, ConsumerKept DEF IInv, Uses

----------------------------------------------------------------------------
(* The processing task.                                                    *)

LEMMA ProcessStep ==
    ASSUME IInv, process
    PROVE  IInv'
  <1> USE DEF ring, objects, mvars
  <1>1. Uses'
    BY UsesUntouched DEF process, ProcessStart, PeekRead, PeekAdvance, ProcessTest, Dispatch
  <1>2. CASE ProcessStart
    BY <1>1, <1>2, SizesAssumption DEF IInv, Uses, TypeOK, Consumer, ProcessStart
  <1>3. CASE PeekRead
    <2>1. TypeOK'
      BY <1>3 DEF IInv, TypeOK, PeekRead
    <2>2. Consumer'
      BY <1>3 DEF Consumer, PeekRead
    <2> QED BY <1>1, <2>1, <2>2 DEF IInv, Uses
  <1>4. CASE PeekAdvance
    <2>1. queue_head' \in Indices
      <3>1. QueueSize \in Nat \ {0} /\ queue_head \in 0..(QueueSize - 1)
        BY SizesAssumption DEF IInv, TypeOK, Indices
      <3> QED BY <1>4, <3>1, SuccessorIs DEF PeekAdvance, Indices
    <2>2. TypeOK'
      BY <1>4, <2>1 DEF IInv, TypeOK, PeekAdvance
    <2>3. Consumer'
      BY <1>4 DEF Consumer, PeekAdvance
    <2> QED BY <1>1, <2>2, <2>3 DEF IInv, Uses
  <1>5. CASE ProcessTest
    <2>1. TypeOK'
      BY <1>5 DEF IInv, TypeOK, ProcessTest
    <2>2. Consumer'
      <3>1. count \in Nat /\ MaxCount \in Nat
        BY SizesAssumption DEF IInv, TypeOK
      <3> QED BY <1>5, <3>1 DEF Consumer, ProcessTest, LimitReached
    <2> QED BY <1>1, <2>1, <2>2 DEF IInv, Uses
  <1>6. CASE Dispatch
    <2>1. count \in 0..MaxCount /\ count < MaxCount /\ MaxCount \in Nat
      BY <1>6, SizesAssumption DEF IInv, TypeOK, Consumer, Dispatch, ProcessorAt
    <2>2. count' \in 0..MaxCount
      BY <1>6, <2>1 DEF Dispatch
    <2>3. TypeOK'
      BY <1>6, <2>2 DEF IInv, TypeOK, Dispatch
    <2>4. Consumer'
      BY <1>6 DEF Consumer, Dispatch
    <2> QED BY <1>1, <2>3, <2>4 DEF IInv, Uses
  <1> QED BY <1>2, <1>3, <1>4, <1>5, <1>6 DEF process

----------------------------------------------------------------------------
(* The invariant holds.                                                    *)

LEMMA IInvInit == Init => IInv
  <1> SUFFICES ASSUME Init PROVE IInv
    OBVIOUS
  <1> USE DEF Init
  <1>1. TypeOK
    <2>1. 0 \in Indices /\ 0 \in 0..(ClockMod - 1) /\ LongAgo \in 0..LongAgo /\ 0 \in 0..MaxCount
          /\ 0 \in 0..MaxHandlers
      BY SizesAssumption, ClockAssumption DEF Indices, LongAgo
    <2> QED BY <2>1, ClearedTyped DEF TypeOK
  <1>2. SlotsUsed
    BY ClearedTyped DEF SlotsUsed
  <1>3. Phase /\ Consumer
    BY DEF Phase, Consumer
  <1>4. Tables
    BY ClearedTyped DEF Tables
  <1> QED BY <1>1, <1>2, <1>3, <1>4 DEF IInv

LEMMA IInvStep ==
    ASSUME IInv, [Next]_vars
    PROVE  IInv'
  <1>1. CASE UNCHANGED vars
    <2>1. TypeOK'
      BY <1>1 DEF IInv, TypeOK, vars
    <2> QED BY <1>1, <2>1, UsesUntouched, ConsumerKept DEF IInv, Uses, vars, ring, pvars
  <1>2. CASE Manage
    BY <1>2, RegisterBeginStep, UnregisterBeginStep, EnableStep, RegisterStoreStep,
       RegisterFillStep, RegisterHashStep, UnregisterDisableStep, UnregisterClearStep
       DEF Manage
  <1> QED BY <1>1, <1>2, InterruptStep, ClockStep, ProcessStep DEF Next

LEMMA IInvAlways == Spec => []IInv
  <1> QED BY IInvInit, IInvStep, PTL DEF Spec

(* Every variable always holds a value of its type: an event that is       *)
(* dispatched has a handler's id, count does not pass max_count, and the   *)
(* indices stay inside the ring.                                           *)
THEOREM TypeCorrect == Spec => []TypeOK
  <1>1. IInv => TypeOK
    BY DEF IInv
  <1> QED BY <1>1, IInvAlways, PTL

(* The hash of the Ruby side and the table of the C side always agree when *)
(* nothing is being registered, for any number of slots and IRQInstances,  *)
(* whatever the interrupt and IRQ.process do meanwhile.                    *)
THEOREM TablesAlwaysAgree == Spec => []TablesAgree
  <1>1. IInv => TablesAgree
    BY DEF IInv, Tables, Apart, TablesAgree
  <1> QED BY <1>1, IInvAlways, PTL

----------------------------------------------------------------------------
(* The hardware.                                                           *)

(* Reported depends on what slots are used for, and on the manager.        *)
LEMMA ReportedKept ==
    ASSUME IInv, Reported, UNCHANGED gpio,
           \A i \in Instances : Armed(i)' <=> Armed(i)
    PROVE  Reported'
  BY DEF Reported, OnePinEach

LEMMA ArmedKept ==
    ASSUME IInv, UNCHANGED <<id, manager, subject>>,
           \A s \in Slots : SameUse(irq_handlers'[s], irq_handlers[s])
    PROVE  \A i \in Instances : Armed(i)' <=> Armed(i)
  BY DEF Armed, SameUse

LEMMA ReportedStep ==
    ASSUME IInv, IInv', Reported, [Next]_vars
    PROVE  Reported'
  <1> USE DEF ring, pvars, mvars, objects
  <1>1. CASE Interrupt
    <2>1. UNCHANGED <<gpio, id, manager, subject>>
      BY <1>1 DEF Interrupt
    <2>2. \A s \in Slots : SameUse(irq_handlers'[s], irq_handlers[s])
      BY <1>1, CallbackEffect DEF Interrupt, IInv
    <2> QED BY <2>1, <2>2, ArmedKept, ReportedKept
  <1>2. CASE Clock \/ process \/ UNCHANGED vars \/ \E i \in Instances : enable(i) \/ disable(i)
    <2>1. UNCHANGED <<gpio, id, manager, subject, irq_handlers>>
      BY <1>2 DEF Clock, process, ProcessStart, PeekRead, PeekAdvance, ProcessTest,
                  Dispatch, vars, enable, disable
    <2>2. \A s \in Slots : SameUse(irq_handlers'[s], irq_handlers[s])
      BY <2>1 DEF SameUse
    <2> QED BY <2>1, <2>2, ArmedKept, ReportedKept
  <1>3. ASSUME NEW i \in Instances, RegisterBegin(i) PROVE Reported'
    <2>1. /\ manager = "idle" /\ id[i] = 0
          /\ gpio' = [gpio EXCEPT ![Request[i].pin] = @ \cup Request[i].mask]
          /\ manager' = "store" /\ subject' = i
          /\ UNCHANGED irq_handlers
      BY <1>3 DEF RegisterBegin, ManagerAt
    <2>2. gpio \in [Pins -> SUBSET Bits]
      BY DEF IInv, TypeOK
    <2>3. ~Armed(i)
      BY <2>1, SlotsAreNumbers DEF Armed, IInv, SlotsUsed
    <2>4. \A j \in Instances \ {i} : Armed(j)' <=> Armed(j)
      BY <2>1 DEF Armed
    <2>5. Armed(i)'
      BY <2>1 DEF Armed
    <2> SUFFICES ASSUME OnePinEach, NEW j \in Instances
                 PROVE  gpio'[Request[j].pin] = IF Armed(j)' THEN Request[j].mask ELSE {}
      BY DEF Reported, OnePinEach
    <2>6. gpio[Request[j].pin] = IF Armed(j) THEN Request[j].mask ELSE {}
      BY DEF Reported
    <2>7. CASE j = i
      <3>1. gpio[Request[i].pin] = {}
        BY <2>3, <2>6, <2>7
      <3>2. gpio'[Request[i].pin] = Request[i].mask
        BY <2>1, <2>2, <3>1, RequestTyped
      <3> QED BY <2>5, <2>7, <3>2
    <2>8. CASE j # i
      <3>1. Request[j].pin # Request[i].pin
        BY <2>8 DEF OnePinEach
      <3>2. gpio'[Request[j].pin] = gpio[Request[j].pin]
        BY <2>1, <2>2, <3>1, RequestTyped
      <3> QED BY <2>4, <2>6, <2>8, <3>2
    <2> QED BY <2>7, <2>8
  <1>4. CASE RegisterStore
    <2>1. /\ subject \in Instances /\ id[subject] \in Slots
          /\ \A s \in Slots \ {id[subject]} : irq_handlers'[s] = irq_handlers[s]
          /\ irq_handlers'[id[subject]].enabled
          /\ irq_handlers'[id[subject]].owner = subject
      BY <1>4, StoreEffect
    <2>2. /\ manager = "store" /\ manager' = "fill" /\ UNCHANGED <<gpio, subject, id>>
      BY <1>4 DEF RegisterStore, ManagerAt
    <2>3. ~irq_handlers[id[subject]].enabled
      BY <2>2 DEF IInv, Phase
    <2>4. ASSUME NEW i \in Instances PROVE Armed(i)' <=> Armed(i)
      <3>1. CASE i = subject
        BY <2>1, <2>2, <3>1 DEF Armed
      <3>2. CASE i # subject
        BY <2>1, <2>2, <2>3, <3>2 DEF Armed
      <3> QED BY <3>1, <3>2
    <2> QED BY <2>2, <2>4, ReportedKept
  <1>5. CASE RegisterFill
    <2>1. \A s \in Slots : SameUse(irq_handlers'[s], irq_handlers[s])
      BY <1>5, FillEffect
    <2>2. manager = "fill" /\ manager' = "hash" /\ UNCHANGED <<gpio, subject, id>>
      BY <1>5 DEF RegisterFill, ManagerAt
    <2>3. \A i \in Instances : Armed(i)' <=> Armed(i)
      BY <2>1, <2>2 DEF Armed, SameUse
    <2> QED BY <2>2, <2>3, ReportedKept
  <1>6. CASE RegisterHash
    <2>1. manager = "hash" /\ manager' = "idle" /\ UNCHANGED <<gpio, irq_handlers, id>>
      BY <1>6 DEF RegisterHash, ManagerAt
    <2>2. \A i \in Instances : Armed(i)' <=> Armed(i)
      BY <2>1 DEF Armed
    <2> QED BY <2>1, <2>2, ReportedKept
  <1>7. ASSUME NEW i \in Instances, UnregisterBegin(i) PROVE Reported'
    <2>1. manager = "idle" /\ manager' = "unregister" /\ UNCHANGED <<gpio, irq_handlers, id>>
      BY <1>7 DEF UnregisterBegin, ManagerAt
    <2>2. \A j \in Instances : Armed(j)' <=> Armed(j)
      BY <2>1 DEF Armed
    <2> QED BY <2>1, <2>2, ReportedKept
  <1>8. CASE UnregisterDisable
    <2> DEFINE h == irq_handlers[id[subject]]
    <2>0. PICK i \in Instances : i = h.owner
      BY <1>8, UnregisterDisableEffect
    <2>1. /\ subject \in Instances /\ id[subject] \in Slots
          /\ h.enabled /\ i = h.owner
          /\ h.pin = Request[i].pin /\ h.event_mask = Request[i].mask
          /\ gpio' = [gpio EXCEPT ![h.pin] = @ \ h.event_mask]
          /\ manager = "unregister" /\ manager' = "clear" /\ subject' = subject
      BY <1>8, <2>0, UnregisterDisableEffect
    <2>2. UNCHANGED <<irq_handlers, id>> /\ gpio \in [Pins -> SUBSET Bits]
      BY <1>8 DEF UnregisterDisable, IInv, TypeOK
    <2>3. \A s \in Slots : irq_handlers[s].enabled /\ irq_handlers[s].owner = i
            => s = id[subject]
      <3>1. \A s \in Slots : irq_handlers[s].enabled => id[irq_handlers[s].owner] = s
        BY DEF IInv, SlotsUsed
      <3>2. id[i] = id[subject]
        BY <2>1, <3>1
      <3> QED BY <3>1, <3>2
    <2>4. Armed(i) /\ ~Armed(i)'
      BY <2>1, <2>2, <2>3 DEF Armed
    <2>5. \A j \in Instances \ {i} : Armed(j)' <=> Armed(j)
      BY <2>1, <2>2 DEF Armed
    <2> HIDE DEF h
    <2> SUFFICES ASSUME OnePinEach, NEW j \in Instances
                 PROVE  gpio'[Request[j].pin] = IF Armed(j)' THEN Request[j].mask ELSE {}
      BY DEF Reported, OnePinEach
    <2>6. gpio[Request[j].pin] = IF Armed(j) THEN Request[j].mask ELSE {}
      BY DEF Reported
    <2>7. CASE j = i
      <3>1. gpio'[Request[i].pin] = Request[i].mask \ Request[i].mask
        BY <2>1, <2>2, <2>4, <2>6, <2>7, RequestTyped
      <3> QED BY <2>4, <2>7, <3>1
    <2>8. CASE j # i
      <3>1. Request[j].pin # Request[i].pin
        BY <2>1, <2>8 DEF OnePinEach
      <3>2. gpio'[Request[j].pin] = gpio[Request[j].pin]
        BY <2>1, <2>2, <3>1, RequestTyped
      <3> QED BY <2>5, <2>6, <2>8, <3>2
    <2> QED BY <2>7, <2>8
  <1>9. CASE UnregisterClear
    <2>1. /\ id[subject] \in Slots
          /\ \A s \in Slots \ {id[subject]} : irq_handlers'[s] = irq_handlers[s]
          /\ ~irq_handlers'[id[subject]].enabled
      BY <1>9, ClearEffect, ClearedTyped
    <2>2. manager = "clear" /\ manager' = "idle" /\ UNCHANGED <<gpio, id>>
      BY <1>9 DEF UnregisterClear, ManagerAt
    <2>3. \A i \in Instances : Armed(i)' <=> Armed(i)
      BY <2>1, <2>2 DEF Armed
    <2> QED BY <2>2, <2>3, ReportedKept
  <1> QED BY <1>1, <1>2, <1>3, <1>4, <1>5, <1>6, <1>7, <1>8, <1>9 DEF Next, Manage

(* When no two IRQInstances share a pin, the hardware reports exactly the  *)
(* events that handlers wait for.                                          *)
THEOREM HardwareIsArmed == Spec => []HardwareArmed
  <1>1. Init => Reported
    <2> SUFFICES ASSUME Init, NEW i \in Instances
                 PROVE  gpio[Request[i].pin] = IF Armed(i) THEN Request[i].mask ELSE {}
      BY DEF Reported
    <2>1. ~Armed(i)
      BY ClearedTyped DEF Init, Armed
    <2> QED BY <2>1, RequestTyped DEF Init
  <1>2. IInv /\ IInv' /\ Reported /\ [Next]_vars => Reported'
    BY ReportedStep
  <1>3. IInv /\ Reported => HardwareArmed
    <2> SUFFICES ASSUME IInv, Reported, manager = "idle", OnePinEach, NEW pin \in Pins
                 PROVE  gpio[pin] = UNION {irq_handlers[s].event_mask :
                                       s \in {t \in Slots : irq_handlers[t].pin = pin}}
      BY DEF HardwareArmed
    <2> DEFINE U == UNION {irq_handlers[s].event_mask :
                              s \in {t \in Slots : irq_handlers[t].pin = pin}}
    <2>1. PICK i \in Instances : pin = Request[i].pin
      BY DEF Pins
    <2>2. gpio[pin] = IF Armed(i) THEN Request[i].mask ELSE {}
      BY <2>1 DEF Reported
    <2>3. ASSUME NEW s \in Slots, irq_handlers[s].pin = pin, irq_handlers[s].event_mask # {}
          PROVE  Armed(i) /\ irq_handlers[s].event_mask = Request[i].mask
      <3>1. /\ irq_handlers[s].enabled /\ irq_handlers[s].owner \in Instances
            /\ pin = Request[irq_handlers[s].owner].pin
            /\ irq_handlers[s].event_mask = Request[irq_handlers[s].owner].mask
        BY <2>3 DEF IInv, SlotsUsed
      <3>2. irq_handlers[s].owner = i
        BY <2>1, <3>1 DEF OnePinEach
      <3> QED BY <3>1, <3>2 DEF Armed
    <2>4. CASE Armed(i)
      <3>1. PICK s \in Slots : irq_handlers[s].enabled /\ irq_handlers[s].owner = i
        BY <2>4 DEF Armed
      <3>2. irq_handlers[s].pin = pin /\ irq_handlers[s].event_mask = Request[i].mask
        BY <2>1, <3>1 DEF IInv, SlotsUsed
      <3>3. Request[i].mask \subseteq U
        BY <3>2
      <3>4. U \subseteq Request[i].mask
        BY <2>3
      <3> QED BY <2>2, <2>4, <3>3, <3>4
    <2>5. CASE ~Armed(i)
      BY <2>2, <2>3, <2>5
    <2> QED BY <2>4, <2>5
  <1> QED BY <1>1, <1>2, <1>3, IInvAlways, PTL DEF Spec

----------------------------------------------------------------------------
(* Debouncing.                                                             *)

LEMMA TimedStep ==
    ASSUME ~ClockWraps, IInv, Timed, [Next]_vars
    PROVE  Timed'
  <1> USE DEF ring, pvars, mvars, objects
  <1>1. /\ now \in 0..(ClockMod - 1) /\ ClockMod \in Nat /\ ClockMod <= LongAgo /\ LongAgo \in Nat
        /\ since \in [Slots -> 0..LongAgo] /\ irq_handlers \in [Slots -> Handlers]
    BY ClockAssumption DEF IInv, TypeOK, LongAgo
  <1>2. \A s \in Slots : irq_handlers[s].last_event_time \in Nat
    BY <1>1 DEF Handlers
  <1>3. CASE Interrupt
    <2>1. PICK pin \in Pins : \E events \in (SUBSET gpio[pin]) \ {{}} :
            gpio_irq_callback(pin, events)
      BY <1>3 DEF Interrupt
    <2>2. PICK events \in (SUBSET gpio[pin]) \ {{}} : gpio_irq_callback(pin, events)
      BY <2>1
    <2>3. PICK first \in Slots :
              /\ \A s \in Slots \ {first} : irq_handlers'[s] = irq_handlers[s]
              /\ irq_handlers'[first].last_event_time = now
              /\ since' = [since EXCEPT ![first] = 0]
      BY <2>2, CallbackEffect DEF IInv
    <2>4. now' = now
      BY <1>3 DEF Interrupt
    <2> SUFFICES ASSUME NEW s \in Slots, irq_handlers'[s].last_event_type # {}
                 PROVE  /\ irq_handlers'[s].last_event_time <= now
                        /\ since'[s] = now - irq_handlers'[s].last_event_time
      BY <2>4 DEF Timed
    <2>5. CASE s = first
      BY <1>1, <2>3, <2>5
    <2>6. CASE s # first
      <3>1. irq_handlers'[s] = irq_handlers[s] /\ since'[s] = since[s]
        BY <1>1, <2>3, <2>6
      <3> QED BY <3>1 DEF Timed
    <2> QED BY <2>5, <2>6
  <1>4. CASE Clock
    <2>1. now' = now + 1 /\ UNCHANGED irq_handlers
      <3>1. now + 1 < ClockMod
        BY <1>4 DEF Clock
      <3>2. (now + 1) % ClockMod = now + 1
        <4>1. ClockMod \in Nat \ {0}
          BY ClockAssumption
        <4> QED BY <1>1, <3>1, <4>1, SuccessorIs
      <3> QED BY <1>4, <3>2 DEF Clock
    <2> SUFFICES ASSUME NEW s \in Slots, irq_handlers'[s].last_event_type # {}
                 PROVE  /\ irq_handlers'[s].last_event_time <= now'
                        /\ since'[s] = now' - irq_handlers'[s].last_event_time
      BY DEF Timed
    <2>2. /\ irq_handlers[s].last_event_time <= now
          /\ since[s] = now - irq_handlers[s].last_event_time
      BY <2>1 DEF Timed
    <2>3. since[s] < LongAgo
      BY <1>1, <1>2, <2>2
    <2>4. since'[s] = since[s] + 1
      BY <1>4, <2>3 DEF Clock
    <2> QED BY <1>1, <1>2, <2>1, <2>2, <2>4
  <1>5. CASE RegisterStore
    <2>1. /\ id[subject] \in Slots
          /\ \A s \in Slots \ {id[subject]} : irq_handlers'[s] = irq_handlers[s]
          /\ irq_handlers'[id[subject]].last_event_type
               = irq_handlers[id[subject]].last_event_type
          /\ irq_handlers'[id[subject]].last_event_time
               = irq_handlers[id[subject]].last_event_time
      BY <1>5, StoreEffect
    <2>2. UNCHANGED <<now, since>>
      BY <1>5 DEF RegisterStore
    <2> QED BY <2>1, <2>2 DEF Timed
  <1>6. CASE RegisterFill
    <2>1. /\ id[subject] \in Slots
          /\ \A s \in Slots \ {id[subject]} : irq_handlers'[s] = irq_handlers[s]
          /\ irq_handlers'[id[subject]].last_event_type = {}
      BY <1>6, FillEffect
    <2>2. now' = now /\ since' = [since EXCEPT ![id[subject]] = LongAgo]
      BY <1>6 DEF RegisterFill
    <2>3. \A s \in Slots \ {id[subject]} : since'[s] = since[s]
      BY <1>1, <2>2
    <2> QED BY <2>1, <2>2, <2>3 DEF Timed
  <1>7. CASE UnregisterClear
    <2>1. /\ id[subject] \in Slots
          /\ \A s \in Slots \ {id[subject]} : irq_handlers'[s] = irq_handlers[s]
          /\ irq_handlers'[id[subject]].last_event_type = {}
      BY <1>7, ClearEffect, ClearedTyped
    <2>2. UNCHANGED <<now, since>>
      BY <1>7 DEF UnregisterClear
    <2> QED BY <2>1, <2>2 DEF Timed
  <1>8. CASE UNCHANGED <<irq_handlers, now, since>>
    BY <1>8 DEF Timed
  <1>9. CASE \/ RegisterHash \/ UnregisterDisable \/ process \/ UNCHANGED vars
             \/ \E i \in Instances :
                   RegisterBegin(i) \/ UnregisterBegin(i) \/ enable(i) \/ disable(i)
    BY <1>8, <1>9 DEF RegisterHash, UnregisterDisable, vars, RegisterBegin, UnregisterBegin,
         enable, disable, process, ProcessStart, PeekRead, PeekAdvance, ProcessTest, Dispatch
  <1> QED BY <1>3, <1>4, <1>5, <1>6, <1>7, <1>9 DEF Next, Manage

(* The tail moves only when the interrupt puts an event into the ring.     *)
LEMMA OnlyInterruptPuts ==
    ASSUME [Next]_vars, queue_tail' # queue_tail
    PROVE  Interrupt
  BY DEF Next, Manage, vars, ring, Clock, RegisterBegin, UnregisterBegin, enable, disable,
         RegisterStore, RegisterFill, RegisterHash, UnregisterDisable, UnregisterClear,
         process, ProcessStart, PeekRead, PeekAdvance, ProcessTest, Dispatch

LEMMA DebouncedStep ==
    ASSUME ~ClockWraps, IInv, Timed, [Next]_vars, queue_tail' # queue_tail
    PROVE  LET e == event_queue'[queue_tail]
               h == irq_handlers[e.irq_id]
           IN  e.event_type = h.last_event_type => since[e.irq_id] >= h.debounce_ms
  <1>1. PICK pin \in Pins : \E events \in (SUBSET gpio[pin]) \ {{}} :
          gpio_irq_callback(pin, events)
    BY OnlyInterruptPuts DEF Interrupt
  <1>2. PICK events \in (SUBSET gpio[pin]) \ {{}} : gpio_irq_callback(pin, events)
    BY <1>1
  <1>3. PICK first \in Slots :
              /\ ~Bounces(first, events)
              /\ \/ UNCHANGED <<event_queue, queue_tail>>
                 \/ event_queue' = [event_queue EXCEPT ![queue_tail] =
                          [irq_id |-> first, event_type |-> events,
                           owner |-> irq_handlers[first].owner]]
    BY <1>2, CallbackEffect DEF IInv
  <1> DEFINE e == event_queue'[queue_tail]
             h == irq_handlers[first]
  <1>4. e.irq_id = first /\ e.event_type = events
    BY <1>3 DEF IInv, TypeOK
  <1>5. /\ now \in 0..(ClockMod - 1) /\ ClockMod \in 1..WordMod /\ WordMod \in Nat
        /\ since[first] \in Nat
        /\ h.debounce_ms \in Nat /\ h.last_event_time \in Nat
    BY ClockAssumption DEF IInv, TypeOK, Handlers, LongAgo
  <1>6. ASSUME events = h.last_event_type PROVE since[first] >= h.debounce_ms
    <2>1. h.last_event_time <= now /\ since[first] = now - h.last_event_time
      BY <1>6 DEF Timed
    <2>2. ~(h.debounce_ms > 0 /\ (now - h.last_event_time) % WordMod < h.debounce_ms)
      BY <1>3, <1>6 DEF Bounces
    <2> DEFINE a == now - h.last_event_time
    <2>3. a \in 0..(WordMod - 1) /\ a \in (-WordMod)..(2 * WordMod - 1)
          /\ WordMod \in Nat \ {0}
      BY <1>5, <2>1
    <2>4. a % WordMod = a
      <3> HIDE DEF a
      <3> QED BY <2>3, Modulus
    <2>5. ~(h.debounce_ms > 0 /\ a < h.debounce_ms)
      BY <2>2, <2>4
    <2>6. since[first] = a
      BY <2>1
    <2> HIDE DEF h, a
    <2> QED BY <1>5, <2>3, <2>5, <2>6
  <1> QED BY <1>4, <1>6

(* A registered handler lets two events of one type through only when they *)
(* are debounce_ms apart, while the clock does not wrap around.            *)
THEOREM EventsAreDebounced ==
    ASSUME ~ClockWraps
    PROVE  Spec => Debounced
  <1>1. Init => Timed
    BY ClearedTyped DEF Init, Timed
  <1>2. IInv /\ Timed /\ [Next]_vars => Timed'
    BY TimedStep
  <1>3. IInv /\ Timed /\ [Next]_vars =>
          [queue_tail' # queue_tail =>
             LET e == event_queue'[queue_tail]
                 h == irq_handlers[e.irq_id]
             IN  e.event_type = h.last_event_type => since[e.irq_id] >= h.debounce_ms]_vars
    BY DebouncedStep
  <1> QED BY <1>1, <1>2, <1>3, IInvAlways, PTL DEF Spec, Debounced

----------------------------------------------------------------------------
(* The ring is a queue.                                                    *)

LEMMA ContentsIs == Contents = RingSeq(event_queue, queue_head, queue_tail, QueueSize)
  BY DEF Contents, RingSeq, RingLen, Place

LEMMA ContentsIsNext ==
    Contents' = RingSeq(event_queue', queue_head', queue_tail', QueueSize)
  BY DEF Contents, RingSeq, RingLen, Place

(* What the interrupt stores becomes the last of the contents.             *)
LEMMA PutStep ==
    ASSUME IInv, Interrupt
    PROVE  \/ Contents' = Contents /\ Handed' = Handed
           \/ /\ Len(Contents) < QueueSize - 1
              /\ \E e \in Events : /\ e.owner = irq_handlers[e.irq_id].owner
                                   /\ Contents' = Append(Contents, e)
              /\ Handed' = Handed
  <1>1. PICK pin \in Pins : \E events \in (SUBSET gpio[pin]) \ {{}} :
          gpio_irq_callback(pin, events)
    BY DEF Interrupt
  <1>2. PICK events \in (SUBSET gpio[pin]) \ {{}} : gpio_irq_callback(pin, events)
    BY <1>1
  <1>3. PICK first \in Slots :
              /\ Matches(first, pin, events)
              /\ \/ UNCHANGED <<event_queue, queue_tail>>
                 \/ /\ ~Full
                    /\ event_queue' = [event_queue EXCEPT ![queue_tail] =
                          [irq_id |-> first, event_type |-> events,
                           owner |-> irq_handlers[first].owner]]
                    /\ queue_tail' = (queue_tail + 1) % QueueSize
    BY <1>2, CallbackEffect DEF IInv
  <1>4. UNCHANGED <<queue_head, processor, event>> /\ Handed' = Handed
    BY DEF Interrupt, pvars, Handed
  <1> DEFINE e == [irq_id |-> first, event_type |-> events,
                   owner |-> irq_handlers[first].owner]
  <1>5. e \in Events
    <2>1. irq_handlers[first].owner \in Instances
      BY <1>3 DEF IInv, SlotsUsed, Matches
    <2>2. events \in (SUBSET Bits) \ {{}}
      BY DEF IInv, TypeOK
    <2> QED BY <2>1, <2>2 DEF Events
  <1>51. e.owner = irq_handlers[e.irq_id].owner
    OBVIOUS
  <1> HIDE DEF e
  <1>6. CASE UNCHANGED <<event_queue, queue_tail>>
    BY <1>4, <1>6 DEF Contents
  <1>7. CASE /\ ~Full /\ event_queue' = [event_queue EXCEPT ![queue_tail] = e]
             /\ queue_tail' = (queue_tail + 1) % QueueSize
    <2>1. /\ IsRing(event_queue, queue_head, queue_tail, QueueSize)
          /\ HasRoom(queue_head, queue_tail, QueueSize)
      BY <1>7, FullIs DEF IInv
    <2>2. Stored(event_queue', event_queue, queue_tail, e)
          /\ Follows(queue_tail', queue_tail, QueueSize)
      BY <1>7 DEF Stored, Follows
    <2>3. RingSeq(event_queue', queue_head, queue_tail', QueueSize)
            = Append(RingSeq(event_queue, queue_head, queue_tail, QueueSize), e)
      BY <2>1, <2>2, RingPut
    <2>4. Contents' = Append(Contents, e)
      BY <1>4, <2>3, ContentsIs, ContentsIsNext
    <2>5. Len(Contents) = RingLen(queue_head, queue_tail, QueueSize)
      <3>1. /\ QueueSize \in Nat \ {0} /\ queue_head \in 0..(QueueSize - 1)
            /\ queue_tail \in 0..(QueueSize - 1)
        BY <2>1 DEF IsRing
      <3> QED BY <3>1, RingSeqIs, ContentsIs
    <2>6. Len(Contents) < QueueSize - 1
      BY <2>1, <2>5 DEF HasRoom
    <2> QED BY <1>4, <1>5, <1>51, <2>4, <2>6
  <1> QED BY <1>3, <1>6, <1>7 DEF e

(* What IRQ_peek_event returns is the first of the contents.               *)
LEMMA TakeStep ==
    ASSUME IInv, PeekAdvance
    PROVE  /\ Contents # <<>>
           /\ Handed' = Head(Contents)
           /\ Contents' = Tail(Contents)
  <1>1. /\ processor = "advance" /\ processor' = "test"
        /\ UNCHANGED <<event_queue, queue_tail, event>>
        /\ Follows(queue_head', queue_head, QueueSize)
    BY DEF PeekAdvance, ProcessorAt, Follows
  <1>2. queue_head # queue_tail /\ event = event_queue[queue_head]
    BY <1>1 DEF IInv, Consumer
  <1>3. IsRing(event_queue, queue_head, queue_tail, QueueSize)
    BY FullIs DEF IInv
  <1> DEFINE s == RingSeq(event_queue, queue_head, queue_tail, QueueSize)
  <1>4. /\ s # <<>> /\ Head(s) = event_queue[queue_head]
        /\ RingSeq(event_queue, queue_head', queue_tail, QueueSize) = Tail(s)
    BY <1>1, <1>2, <1>3, RingTake
  <1>5. s = Contents
    BY ContentsIs
  <1>6. Contents' = RingSeq(event_queue, queue_head', queue_tail, QueueSize)
    BY <1>1, ContentsIsNext
  <1>7. Handed' = event
    BY <1>1 DEF Handed
  <1> HIDE DEF s
  <1> QED BY <1>2, <1>4, <1>5, <1>6, <1>7

LEMMA FifoStep ==
    ASSUME IInv, [Next]_vars
    PROVE  [Fifo!Next]_<<Contents, Handed>>
  <1> USE DEF ring, pvars, mvars, objects
  <1>1. CASE Interrupt
    BY <1>1, PutStep DEF Fifo!Next, Fifo!Put
  <1>2. CASE PeekAdvance
    BY <1>2, TakeStep DEF Fifo!Next, Fifo!Take
  <1>3. CASE PeekRead
    <2>1. Contents' = Contents
      BY <1>3 DEF PeekRead, Contents
    <2>2. Handed' = NoEvent
      BY <1>3 DEF PeekRead, Handed
    <2> QED BY <2>1, <2>2 DEF Fifo!Next, Fifo!Release
  <1>4. CASE \/ UNCHANGED vars \/ Clock \/ Manage \/ ProcessStart \/ ProcessTest \/ Dispatch
    <2>1. UNCHANGED <<event_queue, queue_head, queue_tail, event>>
      BY <1>4 DEF vars, Clock, Manage, RegisterBegin, UnregisterBegin, enable, disable,
                  RegisterStore, RegisterFill, RegisterHash, UnregisterDisable,
                  UnregisterClear, ProcessStart, ProcessTest, Dispatch
    <2>2. processor' = processor \/ (processor # "advance" /\ processor' # "advance")
      <3>1. CASE Manage
        BY <3>1 DEF Manage, RegisterBegin, UnregisterBegin, enable, disable, RegisterStore,
                    RegisterFill, RegisterHash, UnregisterDisable, UnregisterClear
      <3>2. CASE UNCHANGED vars \/ Clock
        BY <3>2 DEF vars, Clock
      <3>3. CASE ProcessStart \/ ProcessTest \/ Dispatch
        BY <3>3 DEF ProcessStart, ProcessTest, Dispatch, ProcessorAt
      <3> QED BY <1>4, <3>1, <3>2, <3>3
    <2>3. Handed' = Handed
      BY <2>1, <2>2 DEF Handed
    <2>4. Contents' = Contents
      BY <2>1 DEF Contents
    <2> QED BY <2>3, <2>4
  <1> QED BY <1>1, <1>2, <1>3, <1>4 DEF Next, process

(* The ring between the interrupt and IRQ.process is a bounded queue, for  *)
(* every size of it: no event in it is lost, overwritten, handed over      *)
(* twice or out of order.                                                  *)
THEOREM RingImplementsFifo == Spec => RingIsFifo
  <1>1. Init => Fifo!Init
    <2> SUFFICES ASSUME Init PROVE Fifo!Init
      OBVIOUS
    <2>1. QueueSize \in Nat \ {0} /\ 0 \in 0..(QueueSize - 1)
      BY SizesAssumption
    <2>2. Contents = <<>>
      BY <2>1, RingEmpty, ContentsIs DEF Init
    <2> QED BY <2>2 DEF Init, Handed, Fifo!Init
  <1>2. IInv /\ [Next]_vars => [Fifo!Next]_<<Contents, Handed>>
    BY FifoStep
  <1> QED BY <1>1, <1>2, IInvAlways, PTL DEF Spec, RingIsFifo, Fifo!Spec

----------------------------------------------------------------------------
(* The events of an earlier owner of a slot come before those of its       *)
(* present one.                                                            *)

(* e belongs to the present owner of its slot; own gives those.            *)
Mine(e, own) == e.owner = own[e.irq_id]

(* After e, if it is the present owner's, all events of the slot are.      *)
After(e, q, own) ==
    Mine(e, own) => \A k \in 1..Len(q) : q[k].irq_id = e.irq_id => Mine(q[k], own)

Ordered(q, own) ==
    /\ q \in Seq(Events)
    /\ \A k, l \in 1..Len(q) :
          k < l /\ q[k].irq_id = q[l].irq_id /\ Mine(q[k], own) => Mine(q[l], own)

Absent(x, q) == \A k \in 1..Len(q) : q[k].owner # x

(* The present owner's event comes last.                                   *)
LEMMA OrderedAppend ==
    ASSUME NEW q, NEW own, Ordered(q, own), NEW e \in Events, Mine(e, own)
    PROVE  /\ Ordered(Append(q, e), own)
           /\ \A x : After(x, q, own) => After(x, Append(q, e), own)
  <1> DEFINE r == Append(q, e)
  <1>1. /\ q \in Seq(Events) /\ r \in Seq(Events) /\ Len(q) \in Nat
        /\ Len(r) = Len(q) + 1 /\ r[Len(q) + 1] = e
        /\ \A k \in 1..Len(q) : r[k] = q[k]
    BY AppendProperties DEF Ordered
  <1> HIDE DEF r
  <1>2. \A k \in 1..Len(r) : k \in 1..Len(q) \/ (k = Len(q) + 1 /\ r[k] = e)
    BY <1>1
  <1>3. ASSUME NEW k \in 1..Len(r), NEW l \in 1..Len(r), k < l,
               r[k].irq_id = r[l].irq_id, Mine(r[k], own)
        PROVE  Mine(r[l], own)
    <2>1. CASE l \in 1..Len(q)
      <3>1. k \in 1..Len(q)
        BY <1>1, <1>3, <2>1
      <3>2. r[k] = q[k] /\ r[l] = q[l]
        BY <1>1, <2>1, <3>1
      <3> QED BY <1>3, <2>1, <3>1, <3>2 DEF Ordered
    <2>2. CASE r[l] = e
      BY <2>2
    <2> QED BY <1>2, <2>1, <2>2
  <1>4. ASSUME NEW x, After(x, q, own) PROVE After(x, r, own)
    BY <1>1, <1>2, <1>4 DEF After
  <1> QED BY <1>1, <1>3, <1>4 DEF r, Ordered

(* Taking the first one.                                                   *)
LEMMA OrderedTail ==
    ASSUME NEW q, NEW own, Ordered(q, own), q # <<>>
    PROVE  Ordered(Tail(q), own) /\ After(Head(q), Tail(q), own) /\ Head(q) \in Events
  <1> DEFINE r == Tail(q)
  <1>1. /\ q \in Seq(Events) /\ r \in Seq(Events) /\ Len(q) \in Nat \ {0}
        /\ Len(r) = Len(q) - 1 /\ Head(q) = q[1]
        /\ \A k \in 1..Len(r) : r[k] = q[k + 1]
    BY HeadTailProperties, EmptySeq, LenProperties DEF Ordered
  <1> HIDE DEF r
  <1>2. \A k \in 1..Len(r) : k + 1 \in 1..Len(q) /\ 1 \in 1..Len(q) /\ 1 < k + 1
    BY <1>1
  <1>3. ASSUME NEW k \in 1..Len(r), NEW l \in 1..Len(r), k < l,
               r[k].irq_id = r[l].irq_id, Mine(r[k], own)
        PROVE  Mine(r[l], own)
    <2>1. k + 1 < l + 1
      BY <1>1, <1>3
    <2>2. r[k] = q[k + 1] /\ r[l] = q[l + 1]
      BY <1>1
    <2> QED BY <1>2, <1>3, <2>1, <2>2 DEF Ordered
  <1>4. After(Head(q), r, own)
    <2> SUFFICES ASSUME Mine(q[1], own), NEW k \in 1..Len(r), r[k].irq_id = q[1].irq_id
                 PROVE  Mine(r[k], own)
      BY <1>1 DEF After
    <2>1. r[k] = q[k + 1]
      BY <1>1
    <2> QED BY <1>2, <2>1 DEF Ordered
  <1>5. Head(q) \in Events
    BY <1>1
  <1> QED BY <1>1, <1>3, <1>4, <1>5 DEF r, Ordered

(* The owner of a slot changes to one who has no event yet, or to nobody.  *)
LEMMA OrderedOwners ==
    ASSUME NEW q, NEW own, NEW new, Ordered(q, own),
           \A s \in Slots : new[s] = own[s] \/ Absent(new[s], q)
    PROVE  /\ Ordered(q, new)
           /\ \A e : (After(e, q, own)
                     /\ (new[e.irq_id] = own[e.irq_id] \/ new[e.irq_id] # e.owner))
                        => After(e, q, new)
  <1>1. q \in Seq(Events) /\ \A k \in 1..Len(q) : q[k].irq_id \in Slots
    <2>1. q \in Seq(Events)
      BY DEF Ordered
    <2>2. \A k \in 1..Len(q) : q[k] \in Events
      BY <2>1
    <2> QED BY <2>1, <2>2 DEF Events
  <1>2. \A k \in 1..Len(q) : Mine(q[k], new) => new[q[k].irq_id] = own[q[k].irq_id]
    BY <1>1 DEF Mine, Absent
  <1>3. Ordered(q, new)
    <2> SUFFICES ASSUME NEW k \in 1..Len(q), NEW l \in 1..Len(q), k < l,
                        q[k].irq_id = q[l].irq_id, Mine(q[k], new)
                 PROVE  Mine(q[l], new)
      BY <1>1 DEF Ordered
    <2>1. new[q[k].irq_id] = own[q[k].irq_id]
      BY <1>2
    <2>2. Mine(q[k], own)
      BY <2>1 DEF Mine
    <2>3. Mine(q[l], own)
      BY <2>2 DEF Ordered
    <2> QED BY <2>1, <2>3 DEF Mine
  <1>4. ASSUME NEW e, After(e, q, own),
               new[e.irq_id] = own[e.irq_id] \/ new[e.irq_id] # e.owner
        PROVE  After(e, q, new)
    <2> SUFFICES ASSUME Mine(e, new), NEW k \in 1..Len(q), q[k].irq_id = e.irq_id
                 PROVE  Mine(q[k], new)
      BY DEF After
    <2>1. new[e.irq_id] = own[e.irq_id] /\ Mine(e, own)
      BY <1>4 DEF Mine
    <2>2. Mine(q[k], own)
      BY <1>4, <2>1 DEF After
    <2> QED BY <2>1, <2>2 DEF Mine
  <1> QED BY <1>3, <1>4

(* The owner of each slot.                                                 *)
Owners == [s \in Slots |-> irq_handlers[s].owner]

(* An IRQInstance that no slot has named yet; nothing in the ring and no   *)
(* slot is a newcomer's.                                                   *)
Newcomer(i) == id[i] = 0 \/ (manager = "store" /\ subject = i)
Unseen ==
    \A i \in Instances : Newcomer(i) =>
        /\ event.owner # i
        /\ Absent(i, Contents)
        /\ \A s \in Slots : irq_handlers[s].owner # i

(* What is held counts from PeekAdvance to the dispatch.                   *)
Holding == processor \in {"test", "dispatch"} /\ event # NoEvent
InOrder ==
    /\ Ordered(Contents, Owners)
    /\ Holding => After(event, Contents, Owners)

OwnerInv == Unseen /\ InOrder

(* Steps that leave the ring and what is held alone, and give a slot to a  *)
(* newcomer or to nobody.                                                  *)
LEMMA OwnersStep ==
    ASSUME IInv, OwnerInv, Contents' = Contents, event' = event, Holding' => Holding,
           \A i \in Instances : Newcomer(i)' => Newcomer(i),
           \A s \in Slots :
              \/ irq_handlers'[s].owner = irq_handlers[s].owner
              \/ irq_handlers'[s].owner \notin Instances
              \/ /\ Newcomer(irq_handlers'[s].owner)
                 /\ \A i \in Instances : Newcomer(i)' => i # irq_handlers'[s].owner
    PROVE  OwnerInv'
  <1>1. Unseen'
    BY DEF OwnerInv, Unseen
  <1>2. \A s \in Slots : Owners[s] = irq_handlers[s].owner /\ Owners'[s] = irq_handlers'[s].owner
    BY DEF Owners
  <1>3. Ordered(Contents, Owners)
    BY DEF OwnerInv, InOrder
  <1>4. \A k \in 1..Len(Contents) : Contents[k].owner \in Instances
    <2>1. Contents \in Seq(Events)
      BY <1>3 DEF Ordered
    <2>2. \A k \in 1..Len(Contents) : Contents[k] \in Events
      BY <2>1
    <2> QED BY <2>2 DEF Events
  <1>5. \A s \in Slots : Owners'[s] = Owners[s] \/ Absent(Owners'[s], Contents)
    <2> TAKE s \in Slots
    <2>1. CASE irq_handlers'[s].owner = irq_handlers[s].owner
      BY <1>2, <2>1
    <2>2. CASE irq_handlers'[s].owner \notin Instances
      BY <1>2, <1>4, <2>2 DEF Absent
    <2>3. CASE irq_handlers'[s].owner \in Instances /\ Newcomer(irq_handlers'[s].owner)
      BY <1>2, <2>3 DEF OwnerInv, Unseen
    <2> QED BY <2>1, <2>2, <2>3
  <1>6. Ordered(Contents, Owners')
    BY <1>3, <1>5, OrderedOwners
  <1>7. ASSUME Holding' PROVE After(event, Contents, Owners')
    <2>1. event \in Events /\ event.irq_id \in Slots /\ event.owner \in Instances
      BY <1>7 DEF IInv, TypeOK, Holding, Events
    <2>2. After(event, Contents, Owners)
      BY <1>7 DEF OwnerInv, InOrder
    <2>3. Owners'[event.irq_id] = Owners[event.irq_id] \/ Owners'[event.irq_id] # event.owner
      BY <1>2, <2>1 DEF OwnerInv, Unseen
    <2> QED BY <1>3, <1>5, <2>2, <2>3, OrderedOwners
  <1>8. InOrder'
    BY <1>6, <1>7 DEF InOrder
  <1> QED BY <1>1, <1>8 DEF OwnerInv

(* The interrupt's event is the present owner's.                           *)
LEMMA OwnerInterrupt ==
    ASSUME IInv, OwnerInv, Interrupt
    PROVE  OwnerInv'
  <1>1. UNCHANGED <<id, manager, subject, processor, event>>
    BY DEF Interrupt, objects, mvars, pvars
  <1>2. \A s \in Slots : irq_handlers'[s].owner = irq_handlers[s].owner
    BY CallbackEffect DEF Interrupt, SameUse, IInv
  <1>3. CASE Contents' = Contents
    BY <1>1, <1>2, <1>3, OwnersStep DEF Newcomer, Holding
  <1>4. CASE \E e \in Events : /\ e.owner = irq_handlers[e.irq_id].owner
                               /\ Contents' = Append(Contents, e)
    <2>1. PICK e \in Events : /\ e.owner = irq_handlers[e.irq_id].owner
                              /\ Contents' = Append(Contents, e)
      BY <1>4
    <2>2. e.irq_id \in Slots /\ Mine(e, Owners) /\ Owners' = Owners
      BY <1>2, <2>1 DEF Events, Mine, Owners
    <2>3. Ordered(Contents, Owners) /\ (Holding => After(event, Contents, Owners))
      BY DEF OwnerInv, InOrder
    <2>4. /\ Ordered(Append(Contents, e), Owners)
          /\ \A x : After(x, Contents, Owners) => After(x, Append(Contents, e), Owners)
      BY <2>2, <2>3, OrderedAppend
    <2>5. InOrder'
      BY <1>1, <2>1, <2>2, <2>3, <2>4 DEF InOrder, Holding
    <2>6. Unseen'
      <3> SUFFICES ASSUME NEW i \in Instances, Newcomer(i)
                   PROVE  event.owner # i /\ Absent(i, Append(Contents, e))
                          /\ \A s \in Slots : irq_handlers'[s].owner # i
        BY <1>1, <2>1 DEF Unseen, Newcomer
      <3>1. event.owner # i /\ Absent(i, Contents) /\ \A s \in Slots : irq_handlers[s].owner # i
        BY DEF OwnerInv, Unseen
      <3>2. Contents \in Seq(Events)
        BY <2>3 DEF Ordered
      <3>3. \A k \in 1..Len(Append(Contents, e)) :
               Append(Contents, e)[k] = e \/ (k \in 1..Len(Contents)
                                              /\ Append(Contents, e)[k] = Contents[k])
        BY <3>2, AppendProperties
      <3>4. e.owner # i
        BY <2>1, <2>2, <3>1
      <3>5. Absent(i, Append(Contents, e))
        BY <3>1, <3>3, <3>4 DEF Absent
      <3> QED BY <1>2, <3>1, <3>5
    <2> QED BY <2>5, <2>6 DEF OwnerInv
  <1> QED BY <1>3, <1>4, PutStep

(* IRQ_peek_event copies the first event, and then takes it out.           *)
LEMMA OwnerPeekRead ==
    ASSUME IInv, OwnerInv, PeekRead
    PROVE  OwnerInv'
  <1>1. /\ UNCHANGED <<irq_handlers, id, manager, subject>> /\ Contents' = Contents
        /\ ~Holding'
    BY DEF PeekRead, ring, objects, mvars, Contents, Holding
  <1>2. \A i \in Instances : Newcomer(i)' <=> Newcomer(i)
    BY <1>1 DEF Newcomer
  <1>3. InOrder'
    BY <1>1 DEF OwnerInv, InOrder, Owners
  <1>4. event' = NoEvent \/ (event' = Contents[1] /\ 1 \in 1..Len(Contents))
    <2>1. CASE queue_head = queue_tail
      BY <2>1 DEF PeekRead
    <2>2. CASE queue_head # queue_tail
      <3>1. IsRing(event_queue, queue_head, queue_tail, QueueSize)
        BY FullIs DEF IInv
      <3>2. QueueSize \in Nat \ {0} /\ queue_head \in 0..(QueueSize - 1)
            /\ queue_tail \in 0..(QueueSize - 1)
        BY <3>1 DEF IsRing
      <3>3. RingLen(queue_head, queue_tail, QueueSize) \in 1..(QueueSize - 1)
        BY <2>2, <3>2, RingLenIs
      <3>4. Len(Contents) = RingLen(queue_head, queue_tail, QueueSize)
            /\ \A k \in 1..RingLen(queue_head, queue_tail, QueueSize) :
                  Contents[k] = event_queue[Place(queue_head, k, QueueSize)]
        BY <3>2, RingSeqIs, ContentsIs
      <3>5. Place(queue_head, 1, QueueSize) = queue_head
        <4>1. 1 \in 1..QueueSize
          BY <3>2
        <4> QED BY <3>2, <4>1, PlaceIs
      <3>6. 1 \in 1..Len(Contents) /\ Contents[1] = event_queue[queue_head]
        BY <3>3, <3>4, <3>5
      <3> QED BY <2>2, <3>6 DEF PeekRead
    <2> QED BY <2>1, <2>2
  <1>5. Unseen'
    <2> SUFFICES ASSUME NEW i \in Instances, Newcomer(i)
                 PROVE  event'.owner # i /\ Absent(i, Contents)
                        /\ \A s \in Slots : irq_handlers[s].owner # i
      BY <1>1, <1>2 DEF Unseen
    <2>1. Absent(i, Contents) /\ \A s \in Slots : irq_handlers[s].owner # i
      BY DEF OwnerInv, Unseen
    <2>2. NoEvent.owner # i
      BY InstancesAssumption DEF NoEvent
    <2> QED BY <1>4, <2>1, <2>2 DEF Absent
  <1> QED BY <1>3, <1>5 DEF OwnerInv

LEMMA OwnerPeekAdvance ==
    ASSUME IInv, OwnerInv, PeekAdvance
    PROVE  OwnerInv'
  <1>1. UNCHANGED <<irq_handlers, id, manager, subject, event>> /\ processor' = "test"
    BY DEF PeekAdvance, objects, mvars
  <1>2. Contents # <<>> /\ event = Head(Contents) /\ Contents' = Tail(Contents)
    BY <1>1, TakeStep DEF Handed
  <1>3. Ordered(Contents, Owners) /\ Owners' = Owners
    BY <1>1 DEF OwnerInv, InOrder, Owners
  <1>4. InOrder'
    BY <1>1, <1>2, <1>3, OrderedTail DEF InOrder
  <1>5. Contents \in Seq(Events)
    BY <1>3 DEF Ordered
  <1>6. \A k \in 1..Len(Tail(Contents)) :
          k + 1 \in 1..Len(Contents) /\ Tail(Contents)[k] = Contents[k + 1]
    BY <1>2, <1>5, HeadTailProperties, LenProperties
  <1>7. Unseen'
    BY <1>1, <1>2, <1>6 DEF OwnerInv, Unseen, Newcomer, Absent
  <1> QED BY <1>4, <1>7 DEF OwnerInv

(* Registering and unregistering.                                          *)
LEMMA OwnerManage ==
    ASSUME IInv, OwnerInv, Manage
    PROVE  OwnerInv'
  <1> USE DEF ring, objects, mvars, pvars
  <1>1. UNCHANGED <<event_queue, queue_head, queue_tail, processor, event>>
    BY DEF Manage, RegisterBegin, UnregisterBegin, enable, disable, RegisterStore,
           RegisterFill, RegisterHash, UnregisterDisable, UnregisterClear
  <1>2. Contents' = Contents /\ Holding' = Holding
    BY <1>1 DEF Contents, Holding
  <1>3. CASE \E i \in Instances : RegisterBegin(i)
    <2>1. PICK i \in Instances : RegisterBegin(i)
      BY <1>3
    <2>2. UNCHANGED irq_handlers /\ id[i] = 0 /\ subject' = i /\ manager = "idle"
          /\ \A j \in Instances \ {i} : id'[j] = id[j]
      BY <2>1 DEF RegisterBegin, ManagerAt, IInv, TypeOK
    <2>3. \A j \in Instances : Newcomer(j)' => Newcomer(j)
      BY <2>2 DEF Newcomer
    <2> QED BY <1>1, <1>2, <2>2, <2>3, OwnersStep
  <1>4. CASE RegisterStore
    <2>1. /\ subject \in Instances /\ id[subject] \in Slots
          /\ \A s \in Slots \ {id[subject]} : irq_handlers'[s] = irq_handlers[s]
          /\ irq_handlers'[id[subject]].owner = subject
      BY <1>4, StoreEffect
    <2>2. manager = "store" /\ manager' = "fill" /\ UNCHANGED <<id, subject>>
      BY <1>4 DEF RegisterStore, ManagerAt
    <2>3. Newcomer(subject) /\ \A i \in Instances : Newcomer(i)' => Newcomer(i) /\ i # subject
      BY <2>1, <2>2, SlotsAreNumbers DEF Newcomer
    <2> QED BY <1>1, <1>2, <2>1, <2>3, OwnersStep
  <1>5. CASE RegisterFill
    <2>1. \A s \in Slots : irq_handlers'[s].owner = irq_handlers[s].owner
      BY <1>5, FillEffect DEF SameUse
    <2>2. \A i \in Instances : Newcomer(i)' => Newcomer(i)
      BY <1>5 DEF RegisterFill, ManagerAt, Newcomer
    <2> QED BY <1>1, <1>2, <2>1, <2>2, OwnersStep
  <1>6. CASE UnregisterClear
    <2>1. /\ id[subject] \in Slots
          /\ \A s \in Slots \ {id[subject]} : irq_handlers'[s] = irq_handlers[s]
          /\ irq_handlers'[id[subject]].owner = None
      BY <1>6, ClearEffect DEF ClearedHandler
    <2>2. \A s \in Slots : irq_handlers'[s].owner = irq_handlers[s].owner
                           \/ irq_handlers'[s].owner \notin Instances
      BY <2>1, InstancesAssumption
    <2>3. \A i \in Instances : Newcomer(i)' => Newcomer(i)
      BY <1>6 DEF UnregisterClear, ManagerAt, Newcomer
    <2> QED BY <1>1, <1>2, <2>2, <2>3, OwnersStep
  <1>7. CASE \/ RegisterHash \/ UnregisterDisable
             \/ \E i \in Instances : UnregisterBegin(i) \/ enable(i) \/ disable(i)
    <2>1. UNCHANGED <<irq_handlers, id>>
      BY <1>7 DEF RegisterHash, UnregisterDisable, UnregisterBegin, enable, disable
    <2>2. manager' # "store" \/ UNCHANGED <<manager, subject>>
      BY <1>7 DEF RegisterHash, UnregisterDisable, UnregisterBegin, enable, disable
    <2>3. \A i \in Instances : Newcomer(i)' => Newcomer(i)
      BY <2>1, <2>2 DEF Newcomer
    <2> QED BY <1>1, <1>2, <2>1, <2>3, OwnersStep
  <1> QED BY <1>3, <1>4, <1>5, <1>6, <1>7 DEF Manage

LEMMA OwnerStep ==
    ASSUME IInv, OwnerInv, [Next]_vars
    PROVE  OwnerInv'
  <1> USE DEF ring, objects, mvars, pvars
  <1>1. CASE \/ UNCHANGED vars \/ Clock \/ ProcessStart \/ ProcessTest \/ Dispatch
    <2>1. UNCHANGED <<irq_handlers, event_queue, queue_head, queue_tail, event,
                      id, manager, subject>>
      BY <1>1 DEF vars, Clock, ProcessStart, ProcessTest, Dispatch
    <2>2. Contents' = Contents /\ \A i \in Instances : Newcomer(i)' = Newcomer(i)
      BY <2>1 DEF Contents, Newcomer
    <2>3. processor' \in {"test", "dispatch"} => processor \in {"test", "dispatch"}
      BY <1>1 DEF vars, Clock, ProcessStart, ProcessTest, Dispatch, ProcessorAt
    <2>4. Holding' => Holding
      BY <2>1, <2>3 DEF Holding
    <2> QED BY <2>1, <2>2, <2>4, OwnersStep
  <1> QED BY <1>1, OwnerInterrupt, OwnerManage, OwnerPeekRead, OwnerPeekAdvance
          DEF Next, process

(* The events of an earlier owner of a slot, which the ring keeps when it  *)
(* is unregistered (irq.c:104-121), reach the present one only before any  *)
(* event of its own, for any number of slots, registrations and events.    *)
THEOREM StaleEventsComeFirst == Spec => []StaleEventsFirst
  <1>1. Init => OwnerInv
    <2> SUFFICES ASSUME Init PROVE OwnerInv
      OBVIOUS
    <2>1. QueueSize \in Nat \ {0} /\ 0 \in 0..(QueueSize - 1)
      BY SizesAssumption
    <2>2. Contents = <<>>
      BY <2>1, RingEmpty, ContentsIs DEF Init
    <2>3. Len(Contents) = 0 /\ Contents \in Seq(Events)
      BY <2>2, EmptySeq
    <2>4. Unseen
      BY <2>3, InstancesAssumption
         DEF Init, Unseen, Absent, NoEvent, ClearedHandler
    <2>5. InOrder
      BY <2>3 DEF Init, InOrder, Ordered, Holding
    <2> QED BY <2>4, <2>5 DEF OwnerInv
  <1>2. IInv /\ OwnerInv /\ [Next]_vars => OwnerInv'
    BY OwnerStep
  <1>3. IInv /\ OwnerInv => StaleEventsFirst
    <2> SUFFICES ASSUME IInv, OwnerInv, processor = "dispatch",
                        HANDLER[event.irq_id] = event.owner,
                        NEW k \in 1..Len(Contents), Contents[k].irq_id = event.irq_id
                 PROVE  Contents[k].owner = event.owner
      BY DEF StaleEventsFirst
    <2>1. event # NoEvent /\ event \in Events
      BY DEF IInv, TypeOK, Consumer
    <2>2. event.irq_id \in Slots /\ event.owner \in Instances
      BY <2>1 DEF Events
    <2>3. irq_handlers[event.irq_id].owner = event.owner
      BY <2>2, InstancesAssumption DEF IInv, Tables
    <2>4. Mine(event, Owners)
      BY <2>2, <2>3 DEF Mine, Owners
    <2>5. Mine(Contents[k], Owners)
      BY <2>1, <2>4 DEF OwnerInv, InOrder, Holding, After
    <2> QED BY <2>4, <2>5 DEF Mine
  <1> QED BY <1>1, <1>2, <1>3, IInvAlways, PTL DEF Spec
=============================================================================
