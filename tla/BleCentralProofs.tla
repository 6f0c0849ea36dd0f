--------------------------- MODULE BleCentralProofs ---------------------------
(***************************************************************************)
(* The mailbox of BleCentral never hands out, reads or frees a packet that *)
(* is not there, for every peer, every set of time-outs and any number of  *)
(* connections, wherever the interrupt falls.  And the discovery neither   *)
(* stalls nor ends before it has recorded everything, as long as none of   *)
(* its events is lost and the link stays up.                               *)
(***************************************************************************)
EXTENDS BleCentral, SequenceTheorems, TLAPS

(* Who holds the mutex holds the packet: outside pop_packet the mutex is   *)
(* free and the packet has not been freed, and a packet that is announced, *)
(* or about to be copied, is there.                                        *)
MailOK ==
  /\ ~fault
  /\ mail.mutex <=> pc \in {"copy", "null"}
  /\ mail.packet = Freed => pc = "null"
  /\ mail.flag \/ pc = "copy" => mail.packet \in Events
  /\ pc = "null" => ~mail.flag

\* The inductive invariant.
MailInv == TypeOK /\ MailOK

-----------------------------------------------------------------------------
(* Sequences and events.                                                   *)

\* Appending and shifting keep the element type of a queue (ble_central.rb:133,
\* 172-175, 231 and the shifts).
LEMMA QueueOps ==
  ASSUME NEW S, NEW q \in Seq(S), NEW x \in S
  PROVE  /\ Append(q, x) \in Seq(S)
         /\ q # <<>> => Head(q) \in S /\ Tail(q) \in Seq(S)
BY HeadTailProperties

\* A freed block and no block are not packets.
LEMMA FreedIsNoEvent == Freed \notin Events /\ Null \notin Events /\ Freed # Null
BY DEF Freed, Null, Events, Ev, Complete

\* The events BTstack sends on its own account.
LEMMA PlainEvents ==
  \A t \in {"WORKING", "HALTING", "CONNECTED", "OTHER"} : Ev(t, 0) \in Events
BY DEF Events

\* The answers to a query that is accepted are events, if its items are typed.
LEMMA AskedTyped ==
  ASSUME NEW type, NEW S, NEW ids \in Seq(S), query \in Seq(Events),
         \A x \in S : Ev(type, x) \in Events
  PROVE  Asked(type, ids) \in Seq(Events)
<1>1. [i \in DOMAIN ids |-> Ev(type, ids[i])] \in Seq(Events)
  OBVIOUS
<1>2. <<Complete>> \in Seq(Events)
  BY DEF Events
<1> QED BY <1>1, <1>2 DEF Asked

-----------------------------------------------------------------------------
(* The interrupt.                                                          *)

Packets == Events \cup {Null, Freed}

\* BLE_push_event in any state of pop_packet: refused while the mutex is held,
\* otherwise the packet it replaces is one that may be freed.
LEMMA Pushed ==
  ASSUME MailInv, NEW e \in Events, BLE_push_event(e), pc' = pc
  PROVE  /\ mail' \in [packet : Packets, flag : BOOLEAN, mutex : BOOLEAN]
         /\ fault' \in BOOLEAN /\ spoiled' \in BOOLEAN
         /\ MailOK'
<1>1. mail \in [packet : Packets, flag : BOOLEAN, mutex : BOOLEAN]
      /\ fault \in BOOLEAN /\ spoiled \in BOOLEAN
  BY DEF MailInv, TypeOK, Packets
<1>2. CASE mail.mutex
  <2>1. mail' = mail /\ fault' = fault /\ spoiled' \in BOOLEAN
    BY <1>2, <1>1 DEF BLE_push_event, Refuses
  <2> QED BY <1>1, <2>1 DEF MailInv, MailOK
<1>3. CASE ~mail.mutex
  <2>1. pc \notin {"copy", "null"} /\ mail.packet # Freed /\ ~fault
    BY <1>3, <1>1 DEF MailInv, MailOK
  <2>2. mail' = [mail EXCEPT !.packet = e, !.flag = TRUE]
        /\ fault' = (fault \/ mail.packet = Freed)
    BY <1>3 DEF BLE_push_event, Refuses
  <2>3. spoiled' \in BOOLEAN
    BY <1>3, <1>1 DEF BLE_push_event, Refuses
  <2>4. fault' = FALSE
    BY <1>1, <2>1, <2>2
  <2>5. mail'.packet = e /\ mail'.mutex = mail.mutex
        /\ mail' \in [packet : Packets, flag : BOOLEAN, mutex : BOOLEAN]
    BY <1>1, <2>2 DEF Packets
  <2>6. mail'.mutex <=> pc' \in {"copy", "null"}
    BY <2>5 DEF MailInv, MailOK
  <2>7. e # Freed
    BY FreedIsNoEvent
  <2> QED BY <2>1, <2>3, <2>4, <2>5, <2>6, <2>7 DEF MailOK
<1> QED BY <1>2, <1>3

-----------------------------------------------------------------------------
(* The type of each part, so that a step names the parts it changes.       *)

MailTyped == mail \in [packet : Packets, flag : BOOLEAN, mutex : BOOLEAN]
             /\ fault \in BOOLEAN /\ spoiled \in BOOLEAN
CallTyped == call \in [name : {"none", "start", "scan", "connect"}, total : Nat,
               timeout : Timeouts \cup {0, 10}, stop : StopStates \cup {"none", "IDLE"}]
States == {"OFF", "IDLE", "W4_SCAN", "W4_CONNECT"} \cup Waiting
LoopTyped == /\ pc \in {"idle", "poll", "copy", "null", "callback"}
             /\ got \in Events \cup {Null}
             /\ tc \in States
             /\ connects \in 0..MaxConnects
FoundTyped == found \in [services : SUBSET SvcSet, chars : SUBSET Items(Chars)]
DiscoveryTyped == queue \in Queues /\ query \in Seq(Events)
StackTyped == stack \in [power : {"off", "starting", "working", "halting"},
                         link : {"down", "connecting", "up"}, scan : BOOLEAN]

\* TypeOK is the conjunction of its parts.
LEMMA TypeParts ==
  TypeOK <=> MailTyped /\ CallTyped /\ LoopTyped /\ FoundTyped /\ DiscoveryTyped
             /\ StackTyped
BY DEF TypeOK, MailTyped, CallTyped, LoopTyped, FoundTyped, DiscoveryTyped,
       StackTyped, States, Packets

\* The same after a step.
LEMMA TypePartsNext ==
  MailTyped' /\ CallTyped' /\ LoopTyped' /\ FoundTyped' /\ DiscoveryTyped' /\ StackTyped'
    => TypeOK'
BY DEF TypeOK, MailTyped, CallTyped, LoopTyped, FoundTyped, DiscoveryTyped,
       StackTyped, States, Packets

\* A step that leaves the mailbox alone and neither enters nor leaves pop_packet's
\* critical section keeps the mailbox as it should be.
LEMMA MailKept ==
  ASSUME MailOK, MailTyped, UNCHANGED <<mail, fault>>, spoiled' \in BOOLEAN,
         pc \notin {"copy", "null"}, pc' \notin {"copy", "null"}
  PROVE  MailOK' /\ MailTyped'
BY DEF MailOK, MailTyped, Packets

\* The mailbox is empty and unlocked at the start.
LEMMA InitMail == Init => MailInv
<1> SUFFICES ASSUME Init PROVE MailInv
  OBVIOUS
<1>1. MailTyped /\ MailOK
  BY FreedIsNoEvent DEF Init, MailTyped, Packets, MailOK
<1>2. CallTyped
  BY DEF Init, CallTyped, NoCall
<1>3. LoopTyped
  BY BoundsAssumption DEF Init, LoopTyped, States
<1>4. FoundTyped /\ StackTyped
  BY DEF Init, FoundTyped, NothingFound, StackTyped
<1>5. DiscoveryTyped
  BY DEF Init, DiscoveryTyped, Queues
<1> QED BY <1>1, <1>2, <1>3, <1>4, <1>5, TypeParts DEF MailInv

-----------------------------------------------------------------------------
(* BTstack, in the interrupt.                                              *)

\* An event of BTstack, at any statement of the loop.
LEMMA StackStep ==
  ASSUME MailInv, Stack
  PROVE  MailInv'
<1>1. MailTyped /\ CallTyped /\ LoopTyped /\ FoundTyped /\ DiscoveryTyped /\ StackTyped
      /\ MailOK
  BY TypeParts DEF MailInv
<1>2. UNCHANGED ruby
  BY DEF Stack, PowerSettles, LinkUp, LinkDown, Answer, ReportOrNotification
<1>3. CallTyped' /\ LoopTyped' /\ FoundTyped' /\ queue' \in Queues /\ pc' = pc
  BY <1>1, <1>2 DEF ruby, CallTyped, LoopTyped, FoundTyped, DiscoveryTyped
<1>4. ASSUME NEW e \in Events, BLE_push_event(e)
      PROVE  MailTyped' /\ MailOK'
  BY <1>3, <1>4, Pushed DEF MailTyped
<1>5. CASE PowerSettles
  <2>1. MailTyped' /\ MailOK'
    BY <1>4, <1>5, PlainEvents DEF PowerSettles
  <2>2. StackTyped' /\ query' = query
    BY <1>1, <1>5 DEF PowerSettles, StackTyped
  <2> QED BY <1>1, <1>3, <2>1, <2>2, TypePartsNext DEF MailInv, DiscoveryTyped
<1>6. CASE LinkUp
  <2>1. MailTyped' /\ MailOK'
    BY <1>4, <1>6, PlainEvents DEF LinkUp
  <2>2. StackTyped' /\ query' = query
    BY <1>1, <1>6 DEF LinkUp, StackTyped
  <2> QED BY <1>1, <1>3, <2>1, <2>2, TypePartsNext DEF MailInv, DiscoveryTyped
<1>7. CASE LinkDown
  <2>1. MailTyped' /\ MailOK'
    BY <1>1, <1>3, <1>7 DEF LinkDown, MailTyped, MailOK
  <2>2. StackTyped'
    BY <1>1, <1>7 DEF LinkDown, StackTyped
  <2>3. query' \in Seq(Events)
    <3>1. Complete \in Events
      BY DEF Events
    <3> QED BY <3>1, <1>1, <1>7 DEF LinkDown, DiscoveryTyped
  <2> QED BY <1>1, <1>3, <2>1, <2>2, <2>3, TypePartsNext DEF MailInv, DiscoveryTyped
<1>8. CASE Answer
  <2>1. Head(query) \in Events /\ query' \in Seq(Events)
    BY <1>1, <1>8, HeadTailProperties DEF Answer, DiscoveryTyped
  <2>2. MailTyped' /\ MailOK'
    BY <1>4, <1>8, <2>1 DEF Answer
  <2>3. StackTyped'
    BY <1>1, <1>8 DEF Answer, StackTyped
  <2> QED BY <1>3, <2>1, <2>2, <2>3, TypePartsNext DEF MailInv, DiscoveryTyped
<1>9. CASE ReportOrNotification
  <2>1. MailTyped' /\ MailOK'
    BY <1>4, <1>9, PlainEvents DEF ReportOrNotification
  <2>2. StackTyped' /\ query' = query
    BY <1>1, <1>9 DEF ReportOrNotification, StackTyped
  <2> QED BY <1>1, <1>3, <2>1, <2>2, TypePartsNext DEF MailInv, DiscoveryTyped
<1> QED BY <1>5, <1>6, <1>7, <1>8, <1>9 DEF Stack

-----------------------------------------------------------------------------
(* The application's calls, and the end of the loop.                       *)

\* BLE#start, #scan and #connect begin, and the loop ends, outside pop_packet.
LEMMA CallStep ==
  ASSUME MailInv, start \/ scan \/ connect \/ leave
  PROVE  MailInv'
<1>1. MailTyped /\ CallTyped /\ LoopTyped /\ FoundTyped /\ DiscoveryTyped /\ StackTyped
      /\ MailOK
  BY TypeParts DEF MailInv
<1>2. UNCHANGED <<mail, fault, spoiled, got, queue, found, query>>
      /\ pc \in {"idle", "poll"} /\ pc' \in {"idle", "poll"}
  BY DEF start, scan, connect, leave, Begin, Step, ruby
<1>3. MailTyped' /\ MailOK' /\ FoundTyped' /\ DiscoveryTyped'
  BY <1>1, <1>2, MailKept DEF MailTyped, FoundTyped, DiscoveryTyped
<1>4. CallTyped'
  BY <1>1 DEF start, scan, connect, leave, Begin, ruby, CallTyped, NoCall
<1>5. StackTyped'
  BY <1>1 DEF start, scan, connect, leave, PowerOn, PowerOff, StackTyped
<1>6. tc' \in States
  BY <1>1 DEF start, scan, connect, leave, ruby, LoopTyped, States
<1>7. connects' \in 0..MaxConnects
  BY <1>1, BoundsAssumption DEF start, scan, connect, leave, ruby, LoopTyped
<1>8. LoopTyped'
  BY <1>1, <1>2, <1>6, <1>7 DEF LoopTyped
<1> QED BY <1>3, <1>4, <1>5, <1>8, TypePartsNext DEF MailInv

-----------------------------------------------------------------------------
(* pop_packet.                                                             *)

\* The time a call has slept is a number.
LEMMA SleptTyped ==
  ASSUME CallTyped, Slept
  PROVE  CallTyped'
<1>1. Counted \in Nat
  BY DEF CallTyped, Counted, POLLING_UNIT_MS
<1> QED BY <1>1 DEF CallTyped, Slept

\* pop_packet: the packet is announced when the lock is taken, is freed under it,
\* and is gone when the lock is released.
LEMMA PopStep ==
  ASSUME MailInv, Pop
  PROVE  MailInv'
<1>1. MailTyped /\ CallTyped /\ LoopTyped /\ FoundTyped /\ DiscoveryTyped /\ StackTyped
      /\ MailOK
  BY TypeParts DEF MailInv
<1>2. UNCHANGED <<tc, queue, found, stack, query, connects, spoiled>>
  BY DEF Pop, pop_nothing, pop_lock, pop_copy, pop_unlock
<1>3. FoundTyped' /\ DiscoveryTyped' /\ StackTyped'
  BY <1>1, <1>2 DEF FoundTyped, DiscoveryTyped, StackTyped
<1>4. CASE pop_nothing
  <2>1. MailTyped' /\ MailOK'
    BY <1>1, <1>2, <1>4, MailKept DEF MailTyped, pop_nothing, Step
  <2>2. CallTyped' /\ LoopTyped'
    BY <1>1, <1>2, <1>4, SleptTyped DEF pop_nothing, Step, LoopTyped
  <2> QED BY <1>3, <2>1, <2>2, TypePartsNext DEF MailInv
<1>5. CASE pop_lock
  <2>1. mail' = [mail EXCEPT !.mutex = TRUE] /\ mail.flag
        /\ UNCHANGED <<fault, got, call>> /\ pc = "poll" /\ pc' = "copy"
    BY <1>5 DEF pop_lock, Step, CanPop
  <2>2. mail.packet \in Events /\ mail.packet # Freed
    BY <1>1, <2>1, FreedIsNoEvent DEF MailOK
  <2>3. MailTyped'
    BY <1>1, <1>2, <2>1 DEF MailTyped
  <2>4. mail'.mutex = TRUE /\ mail'.packet = mail.packet
    BY <1>1, <2>1 DEF MailTyped
  <2>5. MailOK'
    BY <1>1, <2>1, <2>2, <2>4 DEF MailOK
  <2>6. CallTyped' /\ LoopTyped'
    BY <1>1, <1>2, <2>1 DEF CallTyped, LoopTyped
  <2> QED BY <1>3, <2>3, <2>5, <2>6, TypePartsNext DEF MailInv
<1>6. CASE pop_copy
  <2>1. mail' = [mail EXCEPT !.flag = FALSE, !.packet = Freed]
        /\ fault' = (fault \/ mail.packet \notin Events) /\ got' = mail.packet
        /\ call' = call /\ pc = "copy" /\ pc' = "null"
    BY <1>6 DEF pop_copy, Step, Copied
  <2>2. mail.packet \in Events /\ mail.mutex = TRUE /\ fault = FALSE
    BY <1>1, <2>1 DEF MailOK, MailTyped
  <2>3. fault' = FALSE
    BY <2>1, <2>2
  <2>4. mail'.packet = Freed /\ mail'.flag = FALSE /\ mail'.mutex = TRUE
        /\ mail' \in [packet : Packets, flag : BOOLEAN, mutex : BOOLEAN]
    BY <1>1, <2>1, <2>2 DEF MailTyped, Packets
  <2>5. MailTyped' /\ MailOK'
    BY <1>1, <1>2, <2>1, <2>3, <2>4 DEF MailTyped, MailOK
  <2>6. CallTyped' /\ LoopTyped'
    BY <1>1, <1>2, <2>1, <2>2 DEF CallTyped, LoopTyped
  <2> QED BY <1>3, <2>5, <2>6, TypePartsNext DEF MailInv
<1>7. CASE pop_unlock
  <2>1. mail' = [mail EXCEPT !.packet = Null, !.mutex = FALSE]
        /\ UNCHANGED <<fault, got, call>> /\ pc = "null" /\ pc' = "callback"
    BY <1>7 DEF pop_unlock, Step
  <2>2. mail'.packet = Null /\ mail'.mutex = FALSE /\ mail'.flag = mail.flag
        /\ mail' \in [packet : Packets, flag : BOOLEAN, mutex : BOOLEAN]
    BY <1>1, <2>1 DEF MailTyped, Packets
  <2>3. mail.flag = FALSE
    BY <1>1, <2>1 DEF MailOK, MailTyped
  <2>4. MailTyped' /\ MailOK'
    BY <1>1, <1>2, <2>1, <2>2, <2>3, FreedIsNoEvent DEF MailTyped, MailOK
  <2>5. CallTyped' /\ LoopTyped'
    BY <1>1, <1>2, <2>1 DEF CallTyped, LoopTyped
  <2> QED BY <1>3, <2>4, <2>5, TypePartsNext DEF MailInv
<1> QED BY <1>4, <1>5, <1>6, <1>7 DEF Pop

-----------------------------------------------------------------------------
(* packet_callback.                                                        *)

\* The id of a packet is a handle of the kind its type says.
LEMMA IdTyped ==
  ASSUME NEW e \in Events \cup {Null}
  PROVE  /\ e.type = "SERVICE" => e.id \in SvcSet
         /\ e.type = "CHARACTERISTIC" => e.id \in Items(Chars)
         /\ e.type = "DESCRIPTOR" => e.id \in Items(Descs)
BY DEF Events, Null, Ev, Complete

\* What each query asks for: its answers are events.
LEMMA AnswersTyped ==
  ASSUME query \in Seq(Events)
  PROVE  /\ Asked("SERVICE", Services) \in Seq(Events)
         /\ \A s \in SvcSet : Asked("CHARACTERISTIC", Chars[s]) \in Seq(Events)
         /\ \A c \in Items(Chars) : Asked("DESCRIPTOR", Descs[c]) \in Seq(Events)
         /\ \A h \in Items(Chars) \cup Items(Descs) :
              Asked("VALUE", <<h>>) \in Seq(Events)
<1>1. Asked("SERVICE", Services) \in Seq(Events)
  <2>1. \A x \in SvcSet : Ev("SERVICE", x) \in Events
    BY DEF Ev, Events
  <2>2. Services \in Seq(SvcSet)
    BY PeerAssumption
  <2> QED BY <2>1, <2>2, AskedTyped
<1>2. ASSUME NEW s \in SvcSet PROVE Asked("CHARACTERISTIC", Chars[s]) \in Seq(Events)
  <2>1. \A x \in Items(Chars) : Ev("CHARACTERISTIC", x) \in Events
    BY DEF Ev, Events
  <2>2. Chars[s] \in Seq(Items(Chars))
    BY PeerAssumption
  <2> QED BY <2>1, <2>2, AskedTyped
<1>3. ASSUME NEW c \in Items(Chars) PROVE Asked("DESCRIPTOR", Descs[c]) \in Seq(Events)
  <2>1. \A x \in Items(Descs) : Ev("DESCRIPTOR", x) \in Events
    BY DEF Ev, Events
  <2>2. Descs[c] \in Seq(Items(Descs))
    BY PeerAssumption
  <2> QED BY <2>1, <2>2, AskedTyped
<1>4. ASSUME NEW h \in Items(Chars) \cup Items(Descs)
      PROVE  Asked("VALUE", <<h>>) \in Seq(Events)
  <2>1. \A x \in Items(Chars) \cup Items(Descs) : Ev("VALUE", x) \in Events
    BY DEF Ev, Events
  <2>2. <<h>> \in Seq(Items(Chars) \cup Items(Descs))
    OBVIOUS
  <2> QED BY <2>1, <2>2, AskedTyped
<1> QED BY <1>1, <1>2, <1>3, <1>4

\* Shifting a queue and asking about what it held, whichever queue it is.
LEMMA AskTyped ==
  ASSUME DiscoveryTyped, NEW q \in {"ranges", "values", "dranges", "descs"},
         NEW to \in States, Ask(q, to)
  PROVE  DiscoveryTyped' /\ tc' \in States
<1>1. queue \in Queues /\ query \in Seq(Events)
  BY DEF DiscoveryTyped
<1>2. /\ queue.ranges \in Seq(SvcSet) /\ queue.values \in Seq(Items(Chars))
      /\ queue.dranges \in Seq(Items(Chars)) /\ queue.descs \in Seq(Items(Descs))
  BY <1>1 DEF Queues
<1>3. queue' = [queue EXCEPT ![q] = Tail(@)] /\ queue[q] # <<>> /\ tc' = to
  BY DEF Ask
<1>4. CASE q = "ranges"
  <2>1. Head(queue.ranges) \in SvcSet /\ Tail(queue.ranges) \in Seq(SvcSet)
    BY <1>2, <1>3, <1>4, HeadTailProperties
  <2>2. query' = Asked("CHARACTERISTIC", Chars[Head(queue.ranges)])
    BY <1>4 DEF Ask
  <2>3. query' \in Seq(Events)
    BY <1>1, <2>1, <2>2, AnswersTyped
  <2>4. queue' \in Queues
    BY <1>1, <1>3, <1>4, <2>1 DEF Queues
  <2> QED BY <1>3, <2>3, <2>4 DEF DiscoveryTyped
<1>5. CASE q = "values"
  <2>1. Head(queue.values) \in Items(Chars) /\ Tail(queue.values) \in Seq(Items(Chars))
    BY <1>2, <1>3, <1>5, HeadTailProperties
  <2>2. query' = Asked("VALUE", <<Head(queue.values)>>)
    BY <1>5 DEF Ask
  <2>3. query' \in Seq(Events)
    BY <1>1, <2>1, <2>2, AnswersTyped
  <2>4. queue' \in Queues
    BY <1>1, <1>3, <1>5, <2>1 DEF Queues
  <2> QED BY <1>3, <2>3, <2>4 DEF DiscoveryTyped
<1>6. CASE q = "dranges"
  <2>1. Head(queue.dranges) \in Items(Chars) /\ Tail(queue.dranges) \in Seq(Items(Chars))
    BY <1>2, <1>3, <1>6, HeadTailProperties
  <2>2. query' = Asked("DESCRIPTOR", Descs[Head(queue.dranges)])
    BY <1>6 DEF Ask
  <2>3. query' \in Seq(Events)
    BY <1>1, <2>1, <2>2, AnswersTyped
  <2>4. queue' \in Queues
    BY <1>1, <1>3, <1>6, <2>1 DEF Queues
  <2> QED BY <1>3, <2>3, <2>4 DEF DiscoveryTyped
<1>7. CASE q = "descs"
  <2>1. Head(queue.descs) \in Items(Descs) /\ Tail(queue.descs) \in Seq(Items(Descs))
    BY <1>2, <1>3, <1>7, HeadTailProperties
  <2>2. query' = Asked("VALUE", <<Head(queue.descs)>>)
    BY <1>7 DEF Ask
  <2>3. query' \in Seq(Events)
    BY <1>1, <2>1, <2>2, AnswersTyped
  <2>4. queue' \in Queues
    BY <1>1, <1>3, <1>7, <2>1 DEF Queues
  <2> QED BY <1>3, <2>3, <2>4 DEF DiscoveryTyped
<1> QED BY <1>4, <1>5, <1>6, <1>7

\* QUERY_COMPLETE: whichever queue is next, it is asked about its own kind.
LEMMA CompleteTyped ==
  ASSUME DiscoveryTyped, LoopTyped, NextQuery
  PROVE  DiscoveryTyped' /\ tc' \in States
<1>1. tc \in States /\ "W4_CHARACTERISTIC" \in States /\ "W4_VALUE" \in States
      /\ "W4_DESCRIPTOR" \in States /\ "W4_DESCRIPTOR_VALUE" \in States
      /\ "IDLE" \in States
  BY DEF LoopTyped, States, Waiting
<1>2. Finished => DiscoveryTyped' /\ tc' \in States
  BY <1>1 DEF Finished, DiscoveryTyped
<1>3. UNCHANGED <<tc, queue, query>> => DiscoveryTyped' /\ tc' \in States
  BY <1>1 DEF DiscoveryTyped
<1>4. CASE AfterServices
  BY <1>1, <1>2, <1>4, AskTyped DEF AfterServices
<1>5. CASE AfterCharacteristics
  BY <1>1, <1>3, <1>5, AskTyped DEF AfterCharacteristics
<1>6. CASE AfterValues
  BY <1>1, <1>2, <1>6, AskTyped DEF AfterValues
<1>7. CASE AfterDescriptors
  BY <1>1, <1>2, <1>7, AskTyped DEF AfterDescriptors
<1> QED BY <1>2, <1>4, <1>5, <1>6, <1>7 DEF NextQuery

\* What every branch of packet_callback does: it leaves the mailbox alone, ends
\* the poll and sleeps.
LEMMA CallbackStep ==
  ASSUME MailOK, MailTyped, CallTyped, LoopTyped, NEW type, NEW states,
         Callback(type, states), spoiled' \in BOOLEAN, tc' \in States
  PROVE  MailOK' /\ MailTyped' /\ CallTyped' /\ LoopTyped'
<1>1. UNCHANGED <<mail, fault, connects>> /\ pc = "callback" /\ pc' = "poll"
      /\ got' = Null /\ Slept
  BY DEF Callback, Step
<1>2. MailOK' /\ MailTyped'
  BY <1>1, MailKept
<1>3. CallTyped'
  BY <1>1, SleptTyped
<1>4. LoopTyped'
  BY <1>1 DEF LoopTyped
<1> QED BY <1>2, <1>3, <1>4

\* Every branch of packet_callback.
LEMMA PacketStep ==
  ASSUME MailInv, Packet
  PROVE  MailInv'
<1>1. MailTyped /\ CallTyped /\ LoopTyped /\ FoundTyped /\ DiscoveryTyped /\ StackTyped
      /\ MailOK
  BY TypeParts DEF MailInv
<1>2. queue \in Queues /\ query \in Seq(Events) /\ tc \in States
      /\ got \in Events \cup {Null} /\ spoiled \in BOOLEAN
  BY <1>1 DEF DiscoveryTyped, LoopTyped, MailTyped
<1>3. {"OFF", "IDLE", "W4_SCAN", "W4_SERVICE"} \subseteq States
  BY DEF States, Waiting
<1>4. CASE OnState
  <2>1. tc' \in States /\ spoiled' = spoiled /\ \E t, ss : Callback(t, ss)
    BY <1>3, <1>4 DEF OnState
  <2>2. StackTyped'
    BY <1>1, <1>4 DEF OnState, StackTyped
  <2>3. FoundTyped' /\ DiscoveryTyped'
    BY <1>1, <1>4 DEF OnState, FoundTyped, DiscoveryTyped
  <2> QED BY <1>1, <1>2, <2>1, <2>2, <2>3, CallbackStep, TypePartsNext DEF MailInv
<1>5. CASE OnConnected
  <2>1. tc' \in States /\ spoiled' \in BOOLEAN /\ \E t, ss : Callback(t, ss)
    BY <1>3, <1>5 DEF OnConnected, Accepted
  <2>2. FoundTyped' /\ StackTyped'
    BY <1>1, <1>5 DEF OnConnected, FoundTyped, NothingFound, StackTyped
  <2>3. DiscoveryTyped'
    BY <1>2, <1>5, AnswersTyped DEF OnConnected, DiscoveryTyped
  <2> QED BY <1>1, <2>1, <2>2, <2>3, CallbackStep, TypePartsNext DEF MailInv
<1>6. CASE OnService
  <2>1. got.id \in SvcSet
    BY <1>2, <1>6, IdTyped DEF OnService, Callback
  <2>2. tc' \in States /\ spoiled' = spoiled /\ \E t, ss : Callback(t, ss)
    BY <1>2, <1>6 DEF OnService
  <2>3. FoundTyped' /\ StackTyped'
    BY <1>1, <1>6, <2>1 DEF OnService, FoundTyped, StackTyped
  <2>4. Append(queue.ranges, got.id) \in Seq(SvcSet)
    BY <1>2, <2>1, QueueOps DEF Queues
  <2>5. DiscoveryTyped'
    BY <1>2, <1>6, <2>4 DEF OnService, DiscoveryTyped, Queues
  <2> QED BY <1>1, <1>2, <2>2, <2>3, <2>5, CallbackStep, TypePartsNext DEF MailInv
<1>7. CASE OnCharacteristic
  <2>1. got.id \in Items(Chars)
    BY <1>2, <1>7, IdTyped DEF OnCharacteristic, Callback
  <2>2. tc' \in States /\ spoiled' = spoiled /\ \E t, ss : Callback(t, ss)
    BY <1>2, <1>7 DEF OnCharacteristic
  <2>3. FoundTyped' /\ StackTyped'
    BY <1>1, <1>7, <2>1 DEF OnCharacteristic, FoundTyped, StackTyped
  <2>4. Append(queue.values, got.id) \in Seq(Items(Chars))
        /\ Append(queue.dranges, got.id) \in Seq(Items(Chars))
    BY <1>2, <2>1, QueueOps DEF Queues
  <2>5. DiscoveryTyped'
    BY <1>2, <1>7, <2>4 DEF OnCharacteristic, Queued, DiscoveryTyped, Queues
  <2> QED BY <1>1, <1>2, <2>2, <2>3, <2>5, CallbackStep, TypePartsNext DEF MailInv
<1>8. CASE OnValue
  <2>1. tc' \in States /\ spoiled' = spoiled /\ \E t, ss : Callback(t, ss)
    BY <1>2, <1>8 DEF OnValue
  <2>2. FoundTyped' /\ StackTyped'
    BY <1>1, <1>8 DEF OnValue, FoundTyped, StackTyped
  <2>3. ASSUME NEW q \in {"values", "descs"}, queue[q] # <<>>,
               query' = Asked("VALUE", <<Head(queue[q])>>),
               queue' = [queue EXCEPT ![q] = Tail(@)]
        PROVE  DiscoveryTyped'
    <3>1. queue.values \in Seq(Items(Chars)) /\ queue.descs \in Seq(Items(Descs))
      BY <1>2 DEF Queues
    <3>2. Head(queue[q]) \in Items(Chars) \cup Items(Descs)
      BY <2>3, <3>1, HeadTailProperties
    <3>3. query' \in Seq(Events)
      BY <1>2, <2>3, <3>2, AnswersTyped
    <3>4. CASE q = "values"
      <4>1. Tail(queue.values) \in Seq(Items(Chars))
        BY <2>3, <3>1, <3>4, HeadTailProperties
      <4> QED BY <1>2, <2>3, <3>3, <3>4, <4>1 DEF DiscoveryTyped, Queues
    <3>5. CASE q = "descs"
      <4>1. Tail(queue.descs) \in Seq(Items(Descs))
        BY <2>3, <3>1, <3>5, HeadTailProperties
      <4> QED BY <1>2, <2>3, <3>3, <3>5, <4>1 DEF DiscoveryTyped, Queues
    <3> QED BY <3>4, <3>5
  <2>4. DiscoveryTyped'
    BY <1>1, <1>8, <2>3 DEF OnValue, DiscoveryTyped
  <2> QED BY <1>1, <1>2, <2>1, <2>2, <2>4, CallbackStep, TypePartsNext DEF MailInv
<1>9. CASE OnDescriptor
  <2>1. got.id \in Items(Descs)
    BY <1>2, <1>9, IdTyped DEF OnDescriptor, Callback
  <2>2. tc' \in States /\ spoiled' = spoiled /\ \E t, ss : Callback(t, ss)
    BY <1>2, <1>9 DEF OnDescriptor
  <2>3. FoundTyped' /\ StackTyped'
    BY <1>1, <1>9 DEF OnDescriptor, FoundTyped, StackTyped
  <2>4. Append(queue.descs, got.id) \in Seq(Items(Descs))
    BY <1>2, <2>1, QueueOps DEF Queues
  <2>5. DiscoveryTyped'
    BY <1>2, <1>9, <2>4 DEF OnDescriptor, DiscoveryTyped, Queues
  <2> QED BY <1>1, <1>2, <2>2, <2>3, <2>5, CallbackStep, TypePartsNext DEF MailInv
<1>10. CASE OnComplete
  <2>1. DiscoveryTyped' /\ tc' \in States
    BY <1>1, <1>10, CompleteTyped DEF OnComplete
  <2>2. spoiled' = spoiled /\ \E t, ss : Callback(t, ss)
    BY <1>10 DEF OnComplete
  <2>3. FoundTyped' /\ StackTyped'
    BY <1>1, <1>10 DEF OnComplete, FoundTyped, StackTyped
  <2> QED BY <1>1, <1>2, <2>1, <2>2, <2>3, CallbackStep, TypePartsNext DEF MailInv
<1>11. CASE OnOther
  <2>1. tc' \in States /\ spoiled' = spoiled /\ \E t, ss : Callback(t, ss)
    BY <1>2, <1>11 DEF OnOther
  <2>2. FoundTyped' /\ StackTyped' /\ DiscoveryTyped'
    BY <1>1, <1>11 DEF OnOther, FoundTyped, StackTyped, DiscoveryTyped
  <2> QED BY <1>1, <1>2, <2>1, <2>2, CallbackStep, TypePartsNext DEF MailInv
<1> QED BY <1>4, <1>5, <1>6, <1>7, <1>8, <1>9, <1>10, <1>11 DEF Packet

-----------------------------------------------------------------------------
(* The specification.                                                      *)

\* The invariant holds in every reachable state.
LEMMA MailInvariant == Spec => []MailInv
<1>1. MailInv /\ [Next]_vars => MailInv'
  <2> SUFFICES ASSUME MailInv, [Next]_vars PROVE MailInv'
    OBVIOUS
  <2>1. CASE Next
    BY <2>1, StackStep, CallStep, PopStep, PacketStep DEF Next, Loop
  <2>2. CASE UNCHANGED vars
    BY <2>2 DEF vars, MailInv, MailOK, TypeOK
  <2> QED BY <2>1, <2>2
<1> QED BY InitMail, <1>1, PTL DEF Spec

\* For every peer, every set of time-outs and stop states and any number of
\* connections, no interrupt between two statements of pop_packet makes
\* BLE_push_event or pop_packet read or free a packet that is not there
\* (ble.c:10-23, 67-79).
THEOREM MailboxSafe == Spec => []NoFault
<1>1. MailInv => NoFault
  BY DEF MailInv, MailOK, NoFault
<1> QED BY MailInvariant, <1>1, PTL

\* The discovery only ever asks the peer about handles of the kind its query is
\* about: each queue holds its own kind, whatever was lost or left over from an
\* earlier discovery (ble_central.rb:110-263).
THEOREM DiscoveryTypeCorrect == Spec => []TypeOK
<1>1. MailInv => TypeOK
  BY DEF MailInv
<1> QED BY MailInvariant, <1>1, PTL

-----------------------------------------------------------------------------
(* The discovery: the invariant.                                           *)

In(x, q) == \E i \in 1..Len(q) : q[i] = x

\* An event that is still to be handled: in hand, in the mailbox, or to come.
Outstanding(e) == got = e \/ mail.packet = e \/ In(e, query)

\* The answer to a query ends with its only COMPLETE.
Ends(q) == \A i \in 1..Len(q) : q[i] = Complete <=> i = Len(q)

\* A packet is in hand between pop_packet's copy and the end of the callback only,
\* and a packet in the mailbox is announced.
HandAndBox ==
  /\ pc \notin {"null", "callback"} => got = Null
  /\ mail.packet \in Events => mail.flag

\* No query is under way before the connection event has been handled, and when
\* that event is in hand no older GATT event is behind it.
NotYetAsked ==
  tc = "W4_CONNECT" =>
    /\ query = <<>>
    /\ pc \in {"null", "callback"} => ~Gatt(mail.packet)

StillWaits == tc \in Waiting /\ ~spoiled => stack.link = "up" /\ WaitsForSomething

\* While services and characteristics are discovered, COMPLETE is the last event.
CompleteIsLast ==
  tc \in {"W4_SERVICE", "W4_CHARACTERISTIC"} /\ ~spoiled =>
    /\ got = Complete => query = <<>> /\ ~Gatt(mail.packet)
    /\ mail.packet = Complete => query = <<>>

\* Every service is recorded and queued, or its event is still to be handled.
ServicesComing ==
  tc = "W4_SERVICE" /\ ~spoiled =>
    /\ found.chars = {}
    /\ \A s \in SvcSet : \/ s \in found.services /\ In(s, queue.ranges)
                         \/ Outstanding(Ev("SERVICE", s))

\* Every service is still queued, or its characteristics are recorded or coming;
\* a characteristic that is recorded has left a value to be read.
CharsOfComing(s) ==
  \A i \in 1..Len(Chars[s]) : \/ Chars[s][i] \in found.chars
                              \/ Outstanding(Ev("CHARACTERISTIC", Chars[s][i]))
CharsComing ==
  tc = "W4_CHARACTERISTIC" /\ ~spoiled =>
    /\ found.services = SvcSet
    /\ found.chars # {} => queue.values # <<>>
    /\ \A s \in SvcSet : In(s, queue.ranges) \/ CharsOfComing(s)

\* The inductive invariant.
DiscoveryInv ==
  /\ HandAndBox /\ Ends(query) /\ NotYetAsked /\ StillWaits /\ CompleteIsLast
  /\ ServicesComing /\ CharsComing /\ DiscoveryComplete

\* What a shift of the answers leaves.
LEMMA ShiftedAnswers ==
  ASSUME query \in Seq(Events), query # <<>>, Ends(query)
  PROVE  /\ Ends(Tail(query))
         /\ Head(query) = Complete => Tail(query) = <<>>
         /\ Tail(query) = <<>> => Head(query) = Complete
         /\ \A e : In(e, query) => e = Head(query) \/ In(e, Tail(query))
<1> DEFINE n == Len(query)
           t == Tail(query)
<1>1. n \in Nat \ {0} /\ Len(t) = n - 1 /\ Head(query) = query[1]
      /\ t \in Seq(Events) /\ \A i \in 1..(n - 1) : t[i] = query[i + 1]
  BY HeadTailProperties, EmptySeq, LenProperties
<1>2. \A i \in 1..n : query[i] = Complete <=> i = n
  BY DEF Ends
<1>3. t = <<>> <=> Len(t) = 0
  BY <1>1, EmptySeq
<1> HIDE DEF n, t
<1>4. Ends(t)
  <2>1. ASSUME NEW i \in 1..(n - 1) PROVE t[i] = Complete <=> i = n - 1
    <3>1. i + 1 \in 1..n /\ (i + 1 = n <=> i = n - 1)
      BY <1>1
    <3> QED BY <1>1, <1>2, <3>1
  <2> QED BY <1>1, <2>1 DEF Ends
<1>5. Head(query) = Complete <=> n = 1
  BY <1>1, <1>2
<1>6. ASSUME NEW e, In(e, query) PROVE e = query[1] \/ In(e, t)
  <2>1. PICK i \in 1..n : query[i] = e
    BY <1>6 DEF In, n
  <2>2. CASE i # 1
    <3>1. i - 1 \in 1..(n - 1) /\ (i - 1) + 1 = i
      BY <1>1, <2>2
    <3> QED BY <1>1, <2>1, <3>1 DEF In
  <2> QED BY <2>1, <2>2
<1> QED BY <1>1, <1>3, <1>4, <1>5, <1>6 DEF t

\* What a shift of the ranges leaves.
LEMMA ShiftedRanges ==
  ASSUME NEW q \in Seq(SvcSet), q # <<>>
  PROVE  /\ Head(q) \in SvcSet
         /\ \A s : In(s, q) => s = Head(q) \/ In(s, Tail(q))
<1> DEFINE n == Len(q)
           t == Tail(q)
<1>1. n \in Nat \ {0} /\ Len(t) = n - 1 /\ Head(q) = q[1] /\ Head(q) \in SvcSet
      /\ \A i \in 1..(n - 1) : t[i] = q[i + 1]
  BY HeadTailProperties, EmptySeq, LenProperties
<1> HIDE DEF n, t
<1>2. ASSUME NEW s, In(s, q) PROVE s = q[1] \/ In(s, t)
  <2>1. PICK i \in 1..n : q[i] = s
    BY <1>2 DEF In, n
  <2>2. CASE i # 1
    <3>1. i - 1 \in 1..(n - 1) /\ (i - 1) + 1 = i
      BY <1>1, <2>2
    <3> QED BY <1>1, <2>1, <3>1 DEF In
  <2> QED BY <2>1, <2>2
<1> QED BY <1>1, <1>2 DEF t

\* Appending to the ranges.
LEMMA GrownRanges ==
  ASSUME NEW q \in Seq(SvcSet), NEW x \in SvcSet
  PROVE  In(x, Append(q, x)) /\ \A s : In(s, q) => In(s, Append(q, x))
<1>1. /\ Len(q) \in Nat /\ Len(Append(q, x)) = Len(q) + 1
      /\ Append(q, x)[Len(q) + 1] = x
      /\ \A i \in 1..Len(q) : Append(q, x)[i] = q[i]
  BY AppendProperties, LenProperties
<1>2. Len(q) + 1 \in 1..(Len(q) + 1) /\ \A i \in 1..Len(q) : i \in 1..(Len(q) + 1)
  BY <1>1
<1> QED BY <1>1, <1>2 DEF In

\* What a query answers, when BTstack accepts it and when it does not.
LEMMA AskedFacts ==
  ASSUME query \in Seq(Events), Ends(query), NEW type, type # "COMPLETE",
         NEW ids, [i \in DOMAIN ids |-> Ev(type, ids[i])] \in Seq(Events),
         Len(ids) \in Nat, DOMAIN ids = 1..Len(ids)
  PROVE  /\ Ends(Asked(type, ids))
         /\ query # <<>> \/ stack.link = "up" => Asked(type, ids) # <<>>
         /\ Accepted => \A i \in 1..Len(ids) : In(Ev(type, ids[i]), Asked(type, ids))
<1> DEFINE n == Len(ids)
           f == [i \in DOMAIN ids |-> Ev(type, ids[i])]
           a == f \o <<Complete>>
<1>1. f \in Seq(Events) /\ n \in Nat /\ \A i \in 1..n : f[i] = Ev(type, ids[i])
  OBVIOUS
<1>2. Len(f) = n
  BY <1>1, LenProperties
<1>3. \A i \in 1..n : f[i] # Complete
  BY <1>1 DEF Ev, Complete
<1>4. Complete \in Events
  BY DEF Events
<1> HIDE DEF f
<1>5. Len(a) = n + 1 /\ a[n + 1] = Complete /\ \A i \in 1..n : a[i] = f[i]
  BY <1>1, <1>2, <1>4
<1>6. a # <<>>
  BY <1>1, <1>5, EmptySeq
<1> HIDE DEF a
<1>7. Ends(a)
  BY <1>1, <1>3, <1>5 DEF Ends
<1>8. \A i \in 1..n : In(Ev(type, ids[i]), a)
  BY <1>1, <1>5 DEF In
<1>9. Asked(type, ids) = IF Accepted THEN a ELSE query
  BY DEF Asked, a, f
<1>10. query # <<>> \/ stack.link = "up" => Accepted \/ query # <<>>
  BY DEF Accepted
<1> QED BY <1>6, <1>7, <1>8, <1>9, <1>10

\* The four kinds of query.
LEMMA QueryFacts ==
  ASSUME query \in Seq(Events), Ends(query)
  PROVE  /\ Ends(Asked("SERVICE", Services))
         /\ query # <<>> \/ stack.link = "up" => Asked("SERVICE", Services) # <<>>
         /\ Accepted => \A s \in SvcSet : In(Ev("SERVICE", s), Asked("SERVICE", Services))
         /\ \A s \in SvcSet :
              /\ Ends(Asked("CHARACTERISTIC", Chars[s]))
              /\ query # <<>> \/ stack.link = "up" => Asked("CHARACTERISTIC", Chars[s]) # <<>>
              /\ Accepted => \A i \in 1..Len(Chars[s]) :
                   In(Ev("CHARACTERISTIC", Chars[s][i]), Asked("CHARACTERISTIC", Chars[s]))
         /\ \A c \in Items(Chars) :
              /\ Ends(Asked("DESCRIPTOR", Descs[c]))
              /\ query # <<>> \/ stack.link = "up" => Asked("DESCRIPTOR", Descs[c]) # <<>>
         /\ \A h \in Items(Chars) \cup Items(Descs) :
              /\ Ends(Asked("VALUE", <<h>>))
              /\ query # <<>> \/ stack.link = "up" => Asked("VALUE", <<h>>) # <<>>
<1>1. /\ Ends(Asked("SERVICE", Services))
      /\ query # <<>> \/ stack.link = "up" => Asked("SERVICE", Services) # <<>>
      /\ Accepted => \A s \in SvcSet : In(Ev("SERVICE", s), Asked("SERVICE", Services))
  <2>1. Services \in Seq(SvcSet)
    BY PeerAssumption
  <2>2. Len(Services) \in Nat /\ DOMAIN Services = 1..Len(Services)
    BY <2>1, LenProperties
  <2>3. \A x \in SvcSet : Ev("SERVICE", x) \in Events
    BY DEF Ev, Events
  <2>4. [i \in DOMAIN Services |-> Ev("SERVICE", Services[i])] \in Seq(Events)
    BY <2>1, <2>3
  <2>5. \A s \in SvcSet : \E i \in 1..Len(Services) : s = Services[i]
    BY <2>2 DEF SvcSet
  <2> QED BY <2>2, <2>4, <2>5, AskedFacts
<1>2. ASSUME NEW s \in SvcSet
      PROVE  /\ Ends(Asked("CHARACTERISTIC", Chars[s]))
             /\ query # <<>> \/ stack.link = "up" => Asked("CHARACTERISTIC", Chars[s]) # <<>>
             /\ Accepted => \A i \in 1..Len(Chars[s]) :
                  In(Ev("CHARACTERISTIC", Chars[s][i]), Asked("CHARACTERISTIC", Chars[s]))
  <2>1. Chars[s] \in Seq(Items(Chars))
    BY PeerAssumption
  <2>2. Len(Chars[s]) \in Nat /\ DOMAIN Chars[s] = 1..Len(Chars[s])
    BY <2>1, LenProperties
  <2>3. \A x \in Items(Chars) : Ev("CHARACTERISTIC", x) \in Events
    BY DEF Ev, Events
  <2>4. [i \in DOMAIN Chars[s] |-> Ev("CHARACTERISTIC", Chars[s][i])] \in Seq(Events)
    BY <2>1, <2>3
  <2> QED BY <2>2, <2>4, AskedFacts
<1>3. ASSUME NEW c \in Items(Chars)
      PROVE  /\ Ends(Asked("DESCRIPTOR", Descs[c]))
             /\ query # <<>> \/ stack.link = "up" => Asked("DESCRIPTOR", Descs[c]) # <<>>
  <2>1. Descs[c] \in Seq(Items(Descs))
    BY PeerAssumption
  <2>2. Len(Descs[c]) \in Nat /\ DOMAIN Descs[c] = 1..Len(Descs[c])
    BY <2>1, LenProperties
  <2>3. \A x \in Items(Descs) : Ev("DESCRIPTOR", x) \in Events
    BY DEF Ev, Events
  <2>4. [i \in DOMAIN Descs[c] |-> Ev("DESCRIPTOR", Descs[c][i])] \in Seq(Events)
    BY <2>1, <2>3
  <2> QED BY <2>2, <2>4, AskedFacts
<1>4. ASSUME NEW h \in Items(Chars) \cup Items(Descs)
      PROVE  /\ Ends(Asked("VALUE", <<h>>))
             /\ query # <<>> \/ stack.link = "up" => Asked("VALUE", <<h>>) # <<>>
  <2>1. Len(<<h>>) \in Nat /\ DOMAIN <<h>> = 1..Len(<<h>>)
    OBVIOUS
  <2>2. Ev("VALUE", h) \in Events
    BY DEF Ev, Events
  <2>3. [i \in DOMAIN <<h>> |-> Ev("VALUE", <<h>>[i])] \in Seq(Events)
    BY <2>2
  <2> QED BY <2>1, <2>3, AskedFacts
<1> QED BY <1>1, <1>2, <1>3, <1>4

-----------------------------------------------------------------------------
(* What keeps the discovery going, step by step.                           *)

\* The events the discovery counts on are GATT events, and each has its state.
Needed(e) == Gatt(e) /\ tc \in Handled(e.type)
LEMMA GattEvents ==
  /\ Gatt(Complete) /\ Complete.type = "COMPLETE" /\ Complete # Null
  /\ \A s \in SvcSet : Gatt(Ev("SERVICE", s))
  /\ \A s \in SvcSet : \A i \in 1..Len(Chars[s]) :
       Chars[s][i] \in Items(Chars) /\ Gatt(Ev("CHARACTERISTIC", Chars[s][i]))
<1>1. Gatt(Complete) /\ Complete.type = "COMPLETE" /\ Complete # Null
  BY DEF Gatt, Complete, Null, Ev, Events, GattTypes
<1>2. ASSUME NEW s \in SvcSet PROVE Gatt(Ev("SERVICE", s))
  BY DEF Gatt, Ev, Events, GattTypes
<1>3. ASSUME NEW s \in SvcSet, NEW i \in 1..Len(Chars[s])
      PROVE  Chars[s][i] \in Items(Chars) /\ Gatt(Ev("CHARACTERISTIC", Chars[s][i]))
  <2>1. Chars[s] \in Seq(Items(Chars))
    BY PeerAssumption
  <2>2. Chars[s][i] \in Items(Chars)
    BY <2>1, ElementOfSeq
  <2> HIDE DEF Items
  <2>3. ASSUME NEW c \in Items(Chars) PROVE Gatt(Ev("CHARACTERISTIC", c))
    BY DEF Gatt, Ev, Events, GattTypes
  <2> QED BY <2>2, <2>3
<1> QED BY <1>1, <1>2, <1>3

\* Which state handles which GATT event.
LEMMA HandledStates ==
  /\ Handled("COMPLETE") = Waiting
  /\ Handled("SERVICE") = {"W4_SERVICE"}
  /\ Handled("CHARACTERISTIC") = {"W4_CHARACTERISTIC"}
BY DEF Handled

\* What is recorded, queued and expected stays so when no event the present state
\* handles is dropped.
LEMMA ExpectationsKept ==
  ASSUME ServicesComing, CharsComing, DiscoveryComplete,
         UNCHANGED <<tc, queue, found>>,
         ~spoiled' => ~spoiled,
         ~spoiled' => \A e : Needed(e) /\ Outstanding(e) => Outstanding(e)'
  PROVE  ServicesComing' /\ CharsComing' /\ DiscoveryComplete'
<1>1. ServicesComing'
  <2> SUFFICES ASSUME tc = "W4_SERVICE", ~spoiled'
               PROVE  ServicesComing'
    BY DEF ServicesComing
  <2>1. ASSUME NEW s \in SvcSet PROVE Needed(Ev("SERVICE", s))
    BY GattEvents, HandledStates DEF Needed, Ev
  <2>2. found.chars = {}
        /\ \A s \in SvcSet : (s \in found.services /\ In(s, queue.ranges))
                             \/ Outstanding(Ev("SERVICE", s))
    BY DEF ServicesComing
  <2>3. \A s \in SvcSet : (s \in found.services /\ In(s, queue.ranges))
                             \/ Outstanding(Ev("SERVICE", s))'
    BY <2>1, <2>2
  <2> QED BY <2>2, <2>3 DEF ServicesComing
<1>2. CharsComing'
  <2> SUFFICES ASSUME tc = "W4_CHARACTERISTIC", ~spoiled'
               PROVE  CharsComing'
    BY DEF CharsComing
  <2>1. ASSUME NEW s \in SvcSet, NEW i \in 1..Len(Chars[s])
        PROVE Needed(Ev("CHARACTERISTIC", Chars[s][i]))
    BY GattEvents, HandledStates DEF Needed, Ev
  <2>2. found.services = SvcSet /\ (found.chars # {} => queue.values # <<>>)
        /\ \A s \in SvcSet : In(s, queue.ranges) \/ CharsOfComing(s)
    BY DEF CharsComing
  <2>3. ASSUME NEW s \in SvcSet, CharsOfComing(s) PROVE CharsOfComing(s)'
    BY <2>1, <2>3 DEF CharsOfComing
  <2> QED BY <2>2, <2>3 DEF CharsComing
<1>3. DiscoveryComplete'
  BY DEF DiscoveryComplete
<1> QED BY <1>1, <1>2, <1>3

\* BLE_push_event when no event of the discovery is lost: a GATT event in the
\* mailbox stays there, and one that is pushed finds none there.
LEMMA PushFacts ==
  ASSUME MailInv, HandAndBox, NEW e \in Events, BLE_push_event(e)
  PROVE  /\ mail'.packet \in Events => mail'.flag
         /\ ~spoiled' => ~spoiled
         /\ ~spoiled' /\ Gatt(mail.packet) => mail'.packet = mail.packet
         /\ ~spoiled' /\ Gatt(e) => mail'.packet = e /\ ~Gatt(mail.packet)
         /\ ~Gatt(e) /\ ~Gatt(mail.packet) => ~Gatt(mail'.packet)
         /\ ~Gatt(e) /\ Gatt(mail'.packet) => mail'.packet = mail.packet
<1>1. mail \in [packet : Packets, flag : BOOLEAN, mutex : BOOLEAN]
      /\ spoiled \in BOOLEAN
  BY DEF MailInv, TypeOK, Packets
<1>2. Gatt(mail.packet) => mail.flag
  BY DEF HandAndBox, Gatt
<1>3. CASE mail.mutex
  <2>1. mail' = mail /\ spoiled' = (spoiled \/ Gatt(e))
    BY <1>3 DEF BLE_push_event, Refuses
  <2>2. ~spoiled' => ~spoiled /\ ~Gatt(e)
    BY <1>1, <2>1
  <2> QED BY <2>1, <2>2 DEF HandAndBox
<1>4. CASE ~mail.mutex
  <2>1. mail' = [mail EXCEPT !.packet = e, !.flag = TRUE]
        /\ spoiled' = (spoiled \/ (mail.flag /\ Gatt(mail.packet)))
    BY <1>4 DEF BLE_push_event, Refuses
  <2>2. mail'.packet = e /\ mail'.flag
    BY <1>1, <2>1
  <2>3. ~spoiled' => ~spoiled /\ ~Gatt(mail.packet)
    BY <1>1, <1>2, <2>1
  <2> QED BY <2>2, <2>3
<1> QED BY <1>3, <1>4

\* An event that is no GATT event, from an interrupt.
LEMMA PlainPush ==
  ASSUME MailInv, DiscoveryInv, NEW e \in Events, ~Gatt(e), BLE_push_event(e),
         UNCHANGED <<query, ruby>>, stack.link = "up" => stack'.link = "up"
  PROVE  DiscoveryInv'
<1>1. HandAndBox /\ Ends(query) /\ NotYetAsked /\ StillWaits /\ CompleteIsLast
      /\ ServicesComing /\ CharsComing /\ DiscoveryComplete
  BY DEF DiscoveryInv
<1>2. UNCHANGED <<query, pc, got, tc, queue, found>>
  BY DEF ruby
<1>3. /\ mail'.packet \in Events => mail'.flag
      /\ ~spoiled' => ~spoiled
      /\ ~spoiled' /\ Gatt(mail.packet) => mail'.packet = mail.packet
      /\ ~Gatt(mail.packet) => ~Gatt(mail'.packet)
      /\ Gatt(mail'.packet) => mail'.packet = mail.packet
  BY <1>1, PushFacts
<1>4. HandAndBox' /\ Ends(query)'
  BY <1>1, <1>2, <1>3 DEF HandAndBox
<1>5. NotYetAsked'
  BY <1>1, <1>2, <1>3 DEF NotYetAsked, Gatt
<1>6. ~spoiled' => \A g : Gatt(g) /\ Outstanding(g) => Outstanding(g)'
  BY <1>2, <1>3 DEF Outstanding
<1>7. ServicesComing' /\ CharsComing' /\ DiscoveryComplete'
  BY <1>1, <1>2, <1>3, <1>6, ExpectationsKept DEF Needed
<1>8. StillWaits'
  BY <1>1, <1>2, <1>3, GattEvents DEF StillWaits, WaitsForSomething
<1>9. CompleteIsLast'
  BY <1>1, <1>2, <1>3, GattEvents DEF CompleteIsLast, Gatt
<1> QED BY <1>4, <1>5, <1>7, <1>8, <1>9 DEF DiscoveryInv

\* An answer of the peer, pushed: the query goes on, or COMPLETE is in the mailbox.
LEMMA AnswerStep ==
  ASSUME MailInv, DiscoveryInv, Answer
  PROVE  DiscoveryInv'
<1>1. HandAndBox /\ Ends(query) /\ NotYetAsked /\ StillWaits /\ CompleteIsLast
      /\ ServicesComing /\ CharsComing /\ DiscoveryComplete
  BY DEF DiscoveryInv
<1>2. query # <<>> /\ query' = Tail(query) /\ UNCHANGED <<stack, pc, got, tc, queue, found>>
  BY DEF Answer, ruby
<1>3. query \in Seq(Events)
  BY DEF MailInv, TypeOK
<1>4. PICK e : e = Head(query)
  OBVIOUS
<1>5. e \in Events /\ BLE_push_event(e)
  BY <1>2, <1>3, <1>4, HeadTailProperties DEF Answer
<1>6. /\ Ends(Tail(query))
      /\ e = Complete => Tail(query) = <<>>
      /\ Tail(query) = <<>> => e = Complete
      /\ \A g : In(g, query) => g = e \/ In(g, Tail(query))
  BY <1>1, <1>2, <1>3, <1>4, ShiftedAnswers
<1>7. /\ mail'.packet \in Events => mail'.flag
      /\ ~spoiled' => ~spoiled
      /\ ~spoiled' /\ Gatt(mail.packet) => mail'.packet = mail.packet
      /\ ~spoiled' /\ Gatt(e) => mail'.packet = e /\ ~Gatt(mail.packet)
  BY <1>1, <1>5, PushFacts
<1>8. Ends(query)'
  BY <1>2, <1>6 DEF Ends
<1>9. HandAndBox' /\ NotYetAsked'
  BY <1>1, <1>2, <1>7 DEF HandAndBox, NotYetAsked
<1>10. ~spoiled' => \A g : Gatt(g) /\ Outstanding(g) => Outstanding(g)'
  <2> SUFFICES ASSUME ~spoiled', NEW g, Gatt(g), Outstanding(g)
               PROVE  Outstanding(g)'
    OBVIOUS
  <2>1. got = g \/ mail.packet = g \/ g = e \/ In(g, Tail(query))
    BY <1>6 DEF Outstanding
  <2>2. got' = g \/ mail'.packet = g \/ In(g, Tail(query))
    BY <2>1, <1>2, <1>7
  <2> QED BY <2>2, <1>2 DEF Outstanding
<1>11. ServicesComing' /\ CharsComing' /\ DiscoveryComplete'
  BY <1>1, <1>2, <1>7, <1>10, ExpectationsKept DEF Needed
<1>12. StillWaits'
  BY <1>1, <1>2, <1>6, <1>7, GattEvents DEF StillWaits, WaitsForSomething
<1>13. CompleteIsLast'
  <2> SUFFICES ASSUME tc \in {"W4_SERVICE", "W4_CHARACTERISTIC"}, ~spoiled'
               PROVE  /\ got = Complete => query' = <<>> /\ ~Gatt(mail'.packet)
                      /\ mail'.packet = Complete => query' = <<>>
    BY <1>2 DEF CompleteIsLast, Gatt
  <2>1. /\ got # Complete
        /\ mail.packet # Complete
    BY <1>1, <1>2, <1>7 DEF CompleteIsLast
  <2>2. mail'.packet = mail.packet \/ mail'.packet = e
    BY <1>5 DEF BLE_push_event, MailInv, TypeOK
  <2> QED BY <1>2, <1>6, <2>1, <2>2
<1> QED BY <1>8, <1>9, <1>11, <1>12, <1>13 DEF DiscoveryInv

\* The link drops: nothing more is promised of this discovery.
LEMMA LinkDownStep ==
  ASSUME MailInv, DiscoveryInv, LinkDown
  PROVE  DiscoveryInv'
<1>1. HandAndBox /\ Ends(query) /\ NotYetAsked
  BY DEF DiscoveryInv
<1>2. spoiled' = TRUE /\ UNCHANGED <<mail, pc, got, tc, queue, found>>
      /\ query' = IF query = <<>> THEN <<>> ELSE <<Complete>>
  BY DEF LinkDown, ruby
<1>3. HandAndBox'
  BY <1>1, <1>2 DEF HandAndBox
<1>4. NotYetAsked'
  BY <1>1, <1>2 DEF NotYetAsked, Gatt
<1>5. Ends(<<>>) /\ Ends(<<Complete>>)
  BY DEF Ends
<1>6. Ends(query)'
  BY <1>2, <1>5 DEF Ends
<1>7. StillWaits' /\ CompleteIsLast' /\ ServicesComing' /\ CharsComing' /\ DiscoveryComplete'
  BY <1>2 DEF StillWaits, CompleteIsLast, ServicesComing, CharsComing, DiscoveryComplete
<1> QED BY <1>3, <1>4, <1>6, <1>7 DEF DiscoveryInv

\* BTstack's events, at any statement of the loop.
LEMMA StackKeepsDiscovery ==
  ASSUME MailInv, DiscoveryInv, Stack
  PROVE  DiscoveryInv'
<1>1. \A t \in {"WORKING", "HALTING", "CONNECTED", "OTHER"} :
        Ev(t, 0) \in Events /\ ~Gatt(Ev(t, 0))
  BY PlainEvents DEF Gatt, GattTypes, Ev
<1>2. StackTyped
  BY TypeParts DEF MailInv
<1>3. CASE PowerSettles
  <2>1. stack'.link = stack.link /\ UNCHANGED <<query, ruby>>
    BY <1>2, <1>3 DEF PowerSettles, StackTyped
  <2>2. BLE_push_event(Ev("WORKING", 0)) \/ BLE_push_event(Ev("HALTING", 0))
    BY <1>3 DEF PowerSettles
  <2> QED BY <1>1, <2>1, <2>2, PlainPush
<1>4. CASE LinkUp
  <2>1. stack'.link = "up" /\ UNCHANGED <<query, ruby>>
    BY <1>2, <1>4 DEF LinkUp, StackTyped
  <2> QED BY <1>1, <1>4, <2>1, PlainPush DEF LinkUp
<1>5. CASE ReportOrNotification
  <2>1. stack'.link = stack.link /\ UNCHANGED <<query, ruby>>
    BY <1>5 DEF ReportOrNotification
  <2> QED BY <1>1, <1>5, <2>1, PlainPush DEF ReportOrNotification
<1> QED BY <1>3, <1>4, <1>5, LinkDownStep, AnswerStep DEF Stack

\* The application's calls and the end of the loop leave the discovery as it is, or
\* turn to another state.
LEMMA CallKeepsDiscovery ==
  ASSUME MailInv, DiscoveryInv, start \/ scan \/ connect \/ leave
  PROVE  DiscoveryInv'
<1>1. HandAndBox /\ Ends(query) /\ NotYetAsked /\ StillWaits /\ CompleteIsLast
      /\ ServicesComing /\ CharsComing /\ DiscoveryComplete
  BY DEF DiscoveryInv
<1>2. UNCHANGED <<mail, spoiled, got, queue, found, query>>
      /\ pc \in {"idle", "poll"} /\ pc' \in {"idle", "poll"}
  BY DEF start, scan, connect, leave, Begin, Step, ruby
<1>3. StackTyped
  BY TypeParts DEF MailInv
<1>4. \/ tc' = tc /\ stack'.link = stack.link
      \/ tc' = "OFF"
      \/ tc' = "W4_CONNECT" /\ query = <<>>
  BY <1>3 DEF start, scan, connect, leave, ruby, PowerOn, PowerOff, StackTyped
<1>5. HandAndBox' /\ Ends(query)'
  BY <1>1, <1>2 DEF HandAndBox, Ends
<1>6. NotYetAsked'
  BY <1>1, <1>2, <1>4 DEF NotYetAsked
<1>7. CASE tc' = tc /\ stack'.link = stack.link
  <2>1. \A e : Outstanding(e) => Outstanding(e)'
    BY <1>2 DEF Outstanding
  <2>2. ServicesComing' /\ CharsComing' /\ DiscoveryComplete'
    BY <1>1, <1>2, <1>7, <2>1, ExpectationsKept
  <2>3. StillWaits' /\ CompleteIsLast'
    BY <1>1, <1>2, <1>7 DEF StillWaits, WaitsForSomething, CompleteIsLast, Gatt
  <2> QED BY <1>5, <1>6, <2>2, <2>3 DEF DiscoveryInv
<1>8. CASE tc' \in {"OFF", "W4_CONNECT"}
  <2>1. StillWaits' /\ CompleteIsLast' /\ ServicesComing' /\ CharsComing'
        /\ DiscoveryComplete'
    BY <1>8 DEF StillWaits, CompleteIsLast, ServicesComing, CharsComing,
                DiscoveryComplete, Waiting
  <2> QED BY <1>5, <1>6, <2>1 DEF DiscoveryInv
<1> QED BY <1>4, <1>7, <1>8

\* pop_packet takes the packet from the mailbox into the hand and loses nothing.
LEMMA PopKeepsDiscovery ==
  ASSUME MailInv, DiscoveryInv, Pop
  PROVE  DiscoveryInv'
<1>1. HandAndBox /\ Ends(query) /\ NotYetAsked /\ StillWaits /\ CompleteIsLast
      /\ ServicesComing /\ CharsComing /\ DiscoveryComplete
  BY DEF DiscoveryInv
<1>2. UNCHANGED <<tc, queue, found, stack, query, connects, spoiled>>
  BY DEF Pop, pop_nothing, pop_lock, pop_copy, pop_unlock
<1>3. mail \in [packet : Packets, flag : BOOLEAN, mutex : BOOLEAN]
  BY TypeParts DEF MailInv, MailTyped
<1>4. Ends(query)'
  BY <1>1, <1>2 DEF Ends
<1>5. ASSUME HandAndBox', NotYetAsked', CompleteIsLast',
             \A e : Gatt(e) /\ Outstanding(e) => Outstanding(e)'
      PROVE  DiscoveryInv'
  <2>1. ServicesComing' /\ CharsComing' /\ DiscoveryComplete'
    BY <1>1, <1>2, <1>5, ExpectationsKept DEF Needed
  <2>2. StillWaits'
    <3> SUFFICES ASSUME tc \in Waiting, ~spoiled
                 PROVE  stack.link = "up" /\ WaitsForSomething'
      BY <1>2 DEF StillWaits
    <3>1. stack.link = "up" /\ (query # <<>> \/ Outstanding(Complete))
      BY <1>1 DEF StillWaits, WaitsForSomething, Outstanding
    <3>2. query # <<>> \/ Outstanding(Complete)'
      BY <1>5, <3>1, GattEvents
    <3>3. In(Complete, query) => query # <<>>
      BY DEF In
    <3>4. Outstanding(Complete)' => got' = Complete \/ mail'.packet = Complete
                                    \/ In(Complete, query)
      BY <1>2 DEF Outstanding
    <3> QED BY <1>2, <3>1, <3>2, <3>3, <3>4 DEF WaitsForSomething
  <2> QED BY <1>4, <1>5, <2>1, <2>2 DEF DiscoveryInv
<1>6. CASE pop_nothing \/ pop_lock
  <2>1. got' = got /\ mail'.packet = mail.packet /\ mail'.flag = mail.flag
        /\ pc = "poll" /\ pc' \in {"poll", "copy"}
    BY <1>3, <1>6 DEF pop_nothing, pop_lock, Step
  <2>2. HandAndBox' /\ NotYetAsked' /\ CompleteIsLast'
    BY <1>1, <1>2, <2>1 DEF HandAndBox, NotYetAsked, CompleteIsLast, Gatt
  <2>3. \A e : Outstanding(e) => Outstanding(e)'
    BY <1>2, <2>1 DEF Outstanding
  <2> QED BY <1>5, <2>2, <2>3
<1>7. CASE pop_copy
  <2>1. got' = mail.packet /\ mail'.packet = Freed /\ pc = "copy" /\ pc' = "null"
    BY <1>3, <1>7 DEF pop_copy, Step, Copied
  <2>2. got = Null /\ Freed \notin Events /\ Null \notin Events
    BY <1>1, <2>1, FreedIsNoEvent DEF HandAndBox
  <2>3. HandAndBox' /\ NotYetAsked'
    BY <1>1, <1>2, <2>1, <2>2 DEF HandAndBox, NotYetAsked, Gatt
  <2>4. Complete \in Events
    BY GattEvents DEF Gatt
  <2>5. CompleteIsLast'
    BY <1>1, <1>2, <2>1, <2>2, <2>4 DEF CompleteIsLast, Gatt
  <2>6. \A e : Gatt(e) /\ Outstanding(e) => Outstanding(e)'
    BY <1>2, <2>1, <2>2 DEF Outstanding, Gatt
  <2> QED BY <1>5, <2>3, <2>5, <2>6
<1>8. CASE pop_unlock
  <2>1. got' = got /\ mail'.packet = Null /\ pc = "null" /\ pc' = "callback"
    BY <1>3, <1>8 DEF pop_unlock, Step
  <2>2. mail.packet \notin Events /\ Null \notin Events
    BY <1>1, <2>1, FreedIsNoEvent DEF HandAndBox, MailInv, MailOK
  <2>3. HandAndBox' /\ NotYetAsked'
    BY <1>1, <1>2, <2>1, <2>2 DEF HandAndBox, NotYetAsked, Gatt
  <2>4. Complete \in Events
    BY GattEvents DEF Gatt
  <2>5. CompleteIsLast'
    BY <1>1, <1>2, <2>1, <2>2, <2>4 DEF CompleteIsLast, Gatt
  <2>6. \A e : Gatt(e) /\ Outstanding(e) => Outstanding(e)'
    BY <1>2, <2>1, <2>2 DEF Outstanding, Gatt
  <2> QED BY <1>5, <2>3, <2>5, <2>6
<1> QED BY <1>6, <1>7, <1>8 DEF Pop

-----------------------------------------------------------------------------
(* packet_callback, and what it leaves in hand: nothing.                   *)

\* The packet in hand is gone after the callback.
LEMMA CallbackEmptiesHand ==
  ASSUME HandAndBox, NEW t, NEW ss, Callback(t, ss)
  PROVE  HandAndBox' /\ got' = Null /\ got.type = t /\ tc \in ss
         /\ UNCHANGED mail /\ pc = "callback" /\ pc' = "poll"
BY DEF Callback, Step, HandAndBox

\* In the states after the characteristics, a step that stays among them, records
\* nothing and leaves a query under way or an event in the mailbox.
LEMMA LateStates ==
  ASSUME DiscoveryComplete, HandAndBox', Ends(query)', found' = found, spoiled' = spoiled,
         tc \in {"W4_VALUE", "W4_DESCRIPTOR", "W4_DESCRIPTOR_VALUE"},
         tc' \in {"IDLE", "W4_VALUE", "W4_DESCRIPTOR", "W4_DESCRIPTOR_VALUE"},
         StillWaits'
  PROVE  DiscoveryInv'
<1>1. NotYetAsked' /\ CompleteIsLast' /\ ServicesComing' /\ CharsComing'
  BY DEF NotYetAsked, CompleteIsLast, ServicesComing, CharsComing
<1>2. DiscoveryComplete'
  BY DEF DiscoveryComplete
<1> QED BY <1>1, <1>2 DEF DiscoveryInv

\* The host controller's state: no discovery is under way.
LEMMA StateKeepsDiscovery ==
  ASSUME MailInv, DiscoveryInv, OnState
  PROVE  DiscoveryInv'
<1>1. HandAndBox /\ Ends(query)
  BY DEF DiscoveryInv
<1>2. tc' \in {"W4_SCAN", "OFF"} /\ query' = query /\ \E t, ss : Callback(t, ss)
  BY DEF OnState
<1>3. HandAndBox' /\ Ends(query)'
  BY <1>1, <1>2, CallbackEmptiesHand DEF Ends
<1>4. NotYetAsked' /\ StillWaits' /\ CompleteIsLast' /\ ServicesComing' /\ CharsComing'
      /\ DiscoveryComplete'
  BY <1>2 DEF NotYetAsked, StillWaits, CompleteIsLast, ServicesComing, CharsComing,
              DiscoveryComplete, Waiting
<1> QED BY <1>3, <1>4 DEF DiscoveryInv

\* The connection: every service is going to be answered, unless the query is
\* refused.
LEMMA ConnectedStartsDiscovery ==
  ASSUME MailInv, DiscoveryInv, OnConnected
  PROVE  DiscoveryInv'
<1>1. HandAndBox /\ Ends(query) /\ NotYetAsked
  BY DEF DiscoveryInv
<1>2. query' = Asked("SERVICE", Services) /\ found' = NothingFound /\ spoiled' = ~Accepted
      /\ tc' = (IF Accepted THEN "W4_SERVICE" ELSE "IDLE") /\ UNCHANGED <<queue, stack>>
      /\ Callback("CONNECTED", {"W4_CONNECT"})
  BY DEF OnConnected
<1>3. HandAndBox' /\ got' = Null /\ tc = "W4_CONNECT" /\ UNCHANGED mail /\ pc = "callback"
  BY <1>1, <1>2, CallbackEmptiesHand
<1>4. ~Gatt(mail'.packet)
  BY <1>1, <1>3 DEF NotYetAsked
<1>5. query \in Seq(Events)
  BY DEF MailInv, TypeOK
<1>6. /\ Ends(query')
      /\ stack.link = "up" => query' # <<>>
      /\ Accepted => \A s \in SvcSet : In(Ev("SERVICE", s), query')
  BY <1>1, <1>2, <1>5, QueryFacts
<1>7. Ends(query)' /\ NotYetAsked' /\ CharsComing' /\ DiscoveryComplete'
  BY <1>2, <1>6 DEF NotYetAsked, CharsComing, DiscoveryComplete, Ends, NothingFound
<1>8. CASE Accepted
  <2>1. stack'.link = "up" /\ query' # <<>> /\ tc' = "W4_SERVICE"
    BY <1>2, <1>6, <1>8 DEF Accepted
  <2>2. StillWaits'
    BY <2>1 DEF StillWaits, WaitsForSomething
  <2>3. got' # Complete /\ mail'.packet # Complete
    BY <1>3, <1>4, GattEvents
  <2>4. CompleteIsLast'
    BY <2>3 DEF CompleteIsLast
  <2>5. ServicesComing'
    BY <1>2, <1>6, <1>8 DEF ServicesComing, Outstanding, NothingFound, In
  <2> QED BY <1>3, <1>7, <2>2, <2>4, <2>5 DEF DiscoveryInv
<1>9. CASE ~Accepted
  <2>1. tc' = "IDLE"
    BY <1>2, <1>9
  <2>2. StillWaits' /\ CompleteIsLast' /\ ServicesComing'
    BY <2>1 DEF StillWaits, CompleteIsLast, ServicesComing, Waiting
  <2> QED BY <1>3, <1>7, <2>2 DEF DiscoveryInv
<1> QED BY <1>8, <1>9

\* A service is recorded and its range queued; the others still come.
LEMMA ServiceKeepsDiscovery ==
  ASSUME MailInv, DiscoveryInv, OnService
  PROVE  DiscoveryInv'
<1>1. HandAndBox /\ Ends(query) /\ StillWaits /\ CompleteIsLast /\ ServicesComing
  BY DEF DiscoveryInv
<1>2. found' = [found EXCEPT !.services = @ \cup {got.id}]
      /\ queue' = [queue EXCEPT !.ranges = Append(@, got.id)]
      /\ UNCHANGED <<tc, stack, query, spoiled>> /\ Callback("SERVICE", {"W4_SERVICE"})
  BY DEF OnService
<1>3. HandAndBox' /\ got' = Null /\ got.type = "SERVICE" /\ tc = "W4_SERVICE" /\ UNCHANGED mail
  BY <1>1, <1>2, CallbackEmptiesHand
<1>4. FoundTyped /\ queue \in Queues /\ got \in Events \cup {Null}
  BY DEF MailInv, TypeOK, FoundTyped
<1>5. got.id \in SvcSet
  BY <1>3, <1>4, IdTyped
<1>6. got # Complete /\ \A s \in SvcSet : got = Ev("SERVICE", s) => s = got.id
  BY <1>3 DEF Ev, Complete
<1>7. Ends(query)' /\ NotYetAsked' /\ CharsComing' /\ DiscoveryComplete'
  BY <1>1, <1>2, <1>3 DEF NotYetAsked, CharsComing, DiscoveryComplete, Ends
<1>8. StillWaits' /\ CompleteIsLast'
  BY <1>1, <1>2, <1>3, <1>6, GattEvents DEF StillWaits, WaitsForSomething, CompleteIsLast
<1>9. found'.chars = found.chars /\ found'.services = found.services \cup {got.id}
  BY <1>2, <1>4 DEF FoundTyped
<1>10. queue'.ranges = Append(queue.ranges, got.id) /\ queue.ranges \in Seq(SvcSet)
  BY <1>2, <1>4 DEF Queues
<1>11. In(got.id, queue'.ranges) /\ \A s : In(s, queue.ranges) => In(s, queue'.ranges)
  BY <1>5, <1>10, GrownRanges
<1>12. ServicesComing'
  <2>0. ~spoiled => found'.chars = {}
    BY <1>1, <1>3, <1>9 DEF ServicesComing
  <2> SUFFICES ASSUME ~spoiled, NEW s \in SvcSet
               PROVE  (s \in found'.services /\ In(s, queue'.ranges))
                      \/ Outstanding(Ev("SERVICE", s))'
    BY <1>2, <1>3, <2>0 DEF ServicesComing, In
  <2>1. ((s \in found.services /\ In(s, queue.ranges))
         \/ Outstanding(Ev("SERVICE", s)))
    BY <1>1, <1>3 DEF ServicesComing
  <2>2. CASE s = got.id
    BY <1>9, <1>11, <2>1, <2>2
  <2>3. CASE s # got.id
    <3>1. Outstanding(Ev("SERVICE", s)) => Outstanding(Ev("SERVICE", s))'
      BY <1>2, <1>3, <1>6, <2>3 DEF Outstanding
    <3> QED BY <1>9, <1>11, <2>1, <3>1
  <2> QED BY <2>2, <2>3
<1> QED BY <1>3, <1>7, <1>8, <1>12 DEF DiscoveryInv

\* A characteristic is filed, since its service is recorded, and its value queued.
LEMMA CharacteristicKeepsDiscovery ==
  ASSUME MailInv, DiscoveryInv, OnCharacteristic
  PROVE  DiscoveryInv'
<1>1. HandAndBox /\ Ends(query) /\ StillWaits /\ CompleteIsLast /\ CharsComing
  BY DEF DiscoveryInv
<1>2. queue' = Queued(got.id) /\ UNCHANGED <<tc, stack, query, spoiled>>
      /\ Callback("CHARACTERISTIC", {"W4_CHARACTERISTIC"})
  BY DEF OnCharacteristic
<1>3. HandAndBox' /\ got' = Null /\ got.type = "CHARACTERISTIC"
      /\ tc = "W4_CHARACTERISTIC" /\ UNCHANGED mail
  BY <1>1, <1>2, CallbackEmptiesHand
<1>4. FoundTyped /\ queue \in Queues /\ got \in Events \cup {Null}
  BY DEF MailInv, TypeOK, FoundTyped
<1>5. got.id \in Items(Chars)
  BY <1>3, <1>4, IdTyped
<1>6. got # Complete /\ \A c : got = Ev("CHARACTERISTIC", c) => c = got.id
  BY <1>3 DEF Ev, Complete
<1>7. Ends(query)' /\ NotYetAsked' /\ ServicesComing' /\ DiscoveryComplete'
  BY <1>1, <1>2, <1>3 DEF NotYetAsked, ServicesComing, DiscoveryComplete, Ends
<1>8. StillWaits' /\ CompleteIsLast'
  BY <1>1, <1>2, <1>3, <1>6, GattEvents DEF StillWaits, WaitsForSomething, CompleteIsLast
<1>9. \E s \in SvcSet : \E i \in DOMAIN Chars[s] : Chars[s][i] = got.id
  BY <1>5, PeerAssumption DEF Items
<1>10. found'.services = found.services
       /\ found'.chars = found.chars \cup
            {c \in {got.id} : \E s \in found.services :
                                \E i \in DOMAIN Chars[s] : Chars[s][i] = c}
  BY <1>4 DEF OnCharacteristic, FoundTyped
<1>11. found.services = SvcSet => found'.chars = found.chars \cup {got.id}
  BY <1>9, <1>10
<1>12. queue'.ranges = queue.ranges /\ queue'.values = Append(queue.values, got.id)
       /\ queue.values \in Seq(Items(Chars))
  BY <1>2, <1>4 DEF Queues, Queued
<1>13. queue'.values # <<>>
  <2> DEFINE q == queue.values
             x == got.id
  <2>1. q \in Seq(Items(Chars)) /\ x \in Items(Chars)
    BY <1>5, <1>12
  <2> HIDE DEF q, x
  <2>2. Len(q) \in Nat /\ Len(Append(q, x)) = Len(q) + 1
    BY <2>1, AppendProperties, LenProperties
  <2>3. Append(q, x) # <<>>
    BY <2>2
  <2> QED BY <1>12, <2>3 DEF q, x
<1>14. CharsComing'
  <2> SUFFICES ASSUME ~spoiled PROVE CharsComing'
    BY <1>2 DEF CharsComing
  <2>1. found.services = SvcSet /\ \A s \in SvcSet : In(s, queue.ranges) \/ CharsOfComing(s)
    BY <1>1, <1>3 DEF CharsComing
  <2>2. ASSUME NEW s \in SvcSet, CharsOfComing(s) PROVE CharsOfComing(s)'
    <3> SUFFICES ASSUME NEW i \in 1..Len(Chars[s])
                 PROVE  \/ Chars[s][i] \in found'.chars
                        \/ Outstanding(Ev("CHARACTERISTIC", Chars[s][i]))'
      BY DEF CharsOfComing
    <3>1. PICK c : c = Chars[s][i]
      OBVIOUS
    <3>2. c \in found.chars \/ Outstanding(Ev("CHARACTERISTIC", c))
      BY <2>2, <3>1 DEF CharsOfComing
    <3>3. c # got.id /\ Outstanding(Ev("CHARACTERISTIC", c))
            => Outstanding(Ev("CHARACTERISTIC", c))'
      BY <1>2, <1>3, <1>6 DEF Outstanding
    <3>4. c \in found'.chars \/ Outstanding(Ev("CHARACTERISTIC", c))'
      BY <1>11, <2>1, <3>2, <3>3
    <3> QED BY <3>1, <3>4
  <2>3. \A s \in SvcSet : In(s, queue.ranges)' \/ CharsOfComing(s)'
    BY <1>12, <2>1, <2>2 DEF In
  <2> QED BY <1>10, <1>13, <2>1, <2>3 DEF CharsComing
<1> QED BY <1>3, <1>7, <1>8, <1>14 DEF DiscoveryInv

\* Values and descriptors: the next one is asked for, or the query goes on.
LEMMA ValueKeepsDiscovery ==
  ASSUME MailInv, DiscoveryInv, OnValue \/ OnDescriptor
  PROVE  DiscoveryInv'
<1>1. HandAndBox /\ Ends(query) /\ StillWaits /\ DiscoveryComplete
  BY DEF DiscoveryInv
<1>2. UNCHANGED <<tc, found, stack, spoiled>>
      /\ (Callback("VALUE", {"W4_VALUE", "W4_DESCRIPTOR_VALUE"})
          \/ Callback("DESCRIPTOR", {"W4_DESCRIPTOR"}))
  BY DEF OnValue, OnDescriptor
<1>3. HandAndBox' /\ got' = Null /\ got.type \in {"VALUE", "DESCRIPTOR"} /\ UNCHANGED mail
      /\ tc \in {"W4_VALUE", "W4_DESCRIPTOR", "W4_DESCRIPTOR_VALUE"}
  BY <1>1, <1>2, CallbackEmptiesHand
<1>4. query \in Seq(Events) /\ queue \in Queues
  BY DEF MailInv, TypeOK
<1>5. query' = query \/ \E h \in Items(Chars) \cup Items(Descs) : query' = Asked("VALUE", <<h>>)
  <2>1. ASSUME NEW q \in {"values", "descs"}, queue[q] # <<>>
        PROVE  Head(queue[q]) \in Items(Chars) \cup Items(Descs)
    <3>1. queue.values \in Seq(Items(Chars)) /\ queue.descs \in Seq(Items(Descs))
      BY <1>4 DEF Queues
    <3> QED BY <2>1, <3>1, HeadTailProperties
  <2> HIDE DEF Items
  <2>2. \/ query' = query
        \/ \E q \in {"values", "descs"} :
             queue[q] # <<>> /\ query' = Asked("VALUE", <<Head(queue[q])>>)
    BY DEF OnValue, OnDescriptor
  <2> QED BY <2>1, <2>2
<1>6. Ends(query') /\ (query # <<>> \/ stack.link = "up" => query' = query \/ query' # <<>>)
  BY <1>1, <1>4, <1>5, QueryFacts
<1>7. Ends(query)'
  BY <1>6 DEF Ends
<1>8. got # Complete
  BY <1>3, GattEvents
<1>9. StillWaits'
  BY <1>1, <1>2, <1>3, <1>6, <1>8, GattEvents DEF StillWaits, WaitsForSomething
<1> QED BY <1>1, <1>2, <1>3, <1>7, <1>9, LateStates

\* An event the state does not handle is not one it waits for.
LEMMA OtherKeepsDiscovery ==
  ASSUME MailInv, DiscoveryInv, OnOther
  PROVE  DiscoveryInv'
<1>1. HandAndBox /\ Ends(query) /\ NotYetAsked /\ StillWaits /\ CompleteIsLast
      /\ ServicesComing /\ CharsComing /\ DiscoveryComplete
  BY DEF DiscoveryInv
<1>2. UNCHANGED <<tc, queue, found, stack, query, spoiled>> /\ Callback(got.type, {tc})
      /\ tc \notin Handled(got.type)
  BY DEF OnOther
<1>3. HandAndBox' /\ got' = Null /\ UNCHANGED mail /\ pc = "callback" /\ pc' = "poll"
  BY <1>1, <1>2, CallbackEmptiesHand
<1>4. Ends(query)' /\ NotYetAsked'
  BY <1>1, <1>2, <1>3 DEF Ends, NotYetAsked
<1>5. \A e : Needed(e) /\ Outstanding(e) => Outstanding(e)'
  BY <1>2, <1>3 DEF Needed, Outstanding
<1>6. ServicesComing' /\ CharsComing' /\ DiscoveryComplete'
  BY <1>1, <1>2, <1>5, ExpectationsKept
<1>7. tc \in Waiting => got # Complete
  BY <1>2, GattEvents, HandledStates
<1>8. StillWaits'
  BY <1>1, <1>2, <1>3, <1>7 DEF StillWaits, WaitsForSomething
<1>9. CompleteIsLast'
  BY <1>1, <1>2, <1>3, GattEvents DEF CompleteIsLast
<1> QED BY <1>3, <1>4, <1>6, <1>8, <1>9 DEF DiscoveryInv

-----------------------------------------------------------------------------
(* QUERY_COMPLETE.                                                         *)

\* Ask(q, to) sends a query; in particular, the link being up, one is under way.
LEMMA AskFacts ==
  ASSUME MailInv, Ends(query), NEW q \in {"ranges", "values", "dranges", "descs"},
         NEW to, Ask(q, to)
  PROVE  /\ tc' = to /\ Ends(query)'
         /\ stack.link = "up" => query' # <<>>
<1>1. query \in Seq(Events) /\ queue.ranges \in Seq(SvcSet)
      /\ queue.values \in Seq(Items(Chars)) /\ queue.dranges \in Seq(Items(Chars))
      /\ queue.descs \in Seq(Items(Descs))
  BY DEF MailInv, TypeOK, Queues
<1>2. queue[q] # <<>> /\ tc' = to
  BY DEF Ask
<1>3. Ends(query') /\ (stack.link = "up" => query' # <<>>)
  <2>1. CASE q = "ranges"
    <3>1. Head(queue.ranges) \in SvcSet
          /\ query' = Asked("CHARACTERISTIC", Chars[Head(queue.ranges)])
      BY <1>1, <1>2, <2>1, HeadTailProperties DEF Ask
    <3> QED BY <1>1, <3>1, QueryFacts
  <2>2. CASE q = "dranges"
    <3>1. Head(queue.dranges) \in Items(Chars)
          /\ query' = Asked("DESCRIPTOR", Descs[Head(queue.dranges)])
      BY <1>1, <1>2, <2>2, HeadTailProperties DEF Ask
    <3> QED BY <1>1, <3>1, QueryFacts
  <2>3. CASE q = "values"
    <3>1. Head(queue.values) \in Items(Chars)
          /\ query' = Asked("VALUE", <<Head(queue.values)>>)
      BY <1>1, <1>2, <2>3, HeadTailProperties DEF Ask
    <3> HIDE DEF Items
    <3> QED BY <1>1, <3>1, QueryFacts
  <2>4. CASE q = "descs"
    <3>1. Head(queue.descs) \in Items(Descs)
          /\ query' = Asked("VALUE", <<Head(queue.descs)>>)
      BY <1>1, <1>2, <2>4, HeadTailProperties DEF Ask
    <3> HIDE DEF Items
    <3> QED BY <1>1, <3>1, QueryFacts
  <2> QED BY <2>1, <2>2, <2>3, <2>4
<1> QED BY <1>2, <1>3 DEF Ends

\* Asking about the next range, when every other service is queued or done.
LEMMA NextRange ==
  ASSUME MailInv, Ends(query), HandAndBox', Ask("ranges", "W4_CHARACTERISTIC"),
         UNCHANGED <<mail, found, stack, spoiled>>, got' = Null,
         ~spoiled => /\ Accepted /\ ~Gatt(mail.packet)
                     /\ found.services = SvcSet
                     /\ found.chars # {} => queue.values # <<>>
                     /\ \A s \in SvcSet : \/ In(s, queue.ranges)
                                          \/ \A i \in 1..Len(Chars[s]) : Chars[s][i] \in found.chars
  PROVE  DiscoveryInv'
<1>1. tc' = "W4_CHARACTERISTIC" /\ Ends(query)' /\ (stack.link = "up" => query' # <<>>)
  BY AskFacts
<1>2. NotYetAsked' /\ ServicesComing' /\ DiscoveryComplete'
  BY <1>1 DEF NotYetAsked, ServicesComing, DiscoveryComplete
<1>3. StillWaits'
  BY <1>1 DEF StillWaits, WaitsForSomething, Accepted
<1>4. CompleteIsLast'
  BY GattEvents DEF CompleteIsLast
<1>5. CharsComing'
  <2> SUFFICES ASSUME ~spoiled PROVE CharsComing'
    BY DEF CharsComing
  <2>1. queue \in Queues /\ query \in Seq(Events)
    BY DEF MailInv, TypeOK
  <2>2. queue.ranges # <<>> /\ queue.ranges \in Seq(SvcSet)
        /\ queue'.ranges = Tail(queue.ranges) /\ queue'.values = queue.values
    BY <2>1 DEF Ask, Queues
  <2>3. PICK h : h = Head(queue.ranges)
    OBVIOUS
  <2>4. h \in SvcSet /\ \A s : In(s, queue.ranges) => s = h \/ In(s, Tail(queue.ranges))
    BY <2>2, <2>3, ShiftedRanges
  <2>5. query' = Asked("CHARACTERISTIC", Chars[h])
    BY <2>3 DEF Ask
  <2>6. \A i \in 1..Len(Chars[h]) : In(Ev("CHARACTERISTIC", Chars[h][i]), query')
    BY <2>1, <2>4, <2>5, QueryFacts
  <2>7. CharsOfComing(h)'
    BY <2>6 DEF CharsOfComing, Outstanding, In
  <2>8. ASSUME NEW s \in SvcSet PROVE In(s, queue.ranges)' \/ CharsOfComing(s)'
    <3>1. CASE In(s, queue.ranges)
      <4>1. s = h \/ In(s, queue'.ranges)
        BY <2>2, <2>4, <3>1
      <4> QED BY <2>7, <4>1 DEF In
    <3>2. CASE \A i \in 1..Len(Chars[s]) : Chars[s][i] \in found.chars
      BY <3>2 DEF CharsOfComing
    <3> QED BY <3>1, <3>2
  <2> QED BY <2>2, <2>8 DEF CharsComing
<1> QED BY <1>1, <1>2, <1>3, <1>4, <1>5 DEF DiscoveryInv

\* COMPLETE in hand while services or characteristics are discovered: nothing of
\* the query is left behind it.
LEMMA NothingBehind ==
  ASSUME StillWaits, CompleteIsLast, ~spoiled, got = Complete,
         tc \in {"W4_SERVICE", "W4_CHARACTERISTIC"}
  PROVE  /\ Accepted /\ ~Gatt(mail.packet)
         /\ \A e : Gatt(e) /\ e.type # "COMPLETE" => ~Outstanding(e)
<1>1. query = <<>> /\ ~Gatt(mail.packet) /\ stack.link = "up"
  BY DEF StillWaits, CompleteIsLast, Waiting
<1>2. \A e : ~In(e, query)
  BY <1>1 DEF In
<1>3. ASSUME NEW e, Gatt(e), e.type # "COMPLETE" PROVE ~Outstanding(e)
  BY <1>1, <1>2, <1>3, GattEvents DEF Outstanding
<1> QED BY <1>1, <1>3 DEF Accepted

\* The peer has a service, and every service a characteristic.
LEMMA PeerNotEmpty ==
  /\ \E s \in SvcSet : TRUE
  /\ \A s \in SvcSet : 1 \in 1..Len(Chars[s])
<1>1. Services \in Seq(SvcSet) /\ Services # <<>>
  BY PeerAssumption
<1>2. Head(Services) \in SvcSet
  BY <1>1, HeadTailProperties
<1>3. ASSUME NEW s \in SvcSet PROVE 1 \in 1..Len(Chars[s])
  <2>1. Chars[s] \in Seq(Items(Chars)) /\ Chars[s] # <<>>
    BY PeerAssumption
  <2>2. PICK q : q = Chars[s]
    OBVIOUS
  <2>3. Len(q) \in Nat /\ Len(q) # 0
    BY <2>1, <2>2, LenProperties, EmptySeq
  <2> QED BY <2>2, <2>3
<1> QED BY <1>2, <1>3

\* The end of the services: all of them are recorded and queued.
LEMMA ServicesEnd ==
  ASSUME MailInv, DiscoveryInv, HandAndBox', got = Complete, got' = Null,
         tc = "W4_SERVICE", AfterServices, UNCHANGED <<mail, found, stack, spoiled>>
  PROVE  DiscoveryInv'
<1>1. Ends(query) /\ StillWaits /\ CompleteIsLast /\ ServicesComing
  BY DEF DiscoveryInv
<1>2. CASE ~spoiled
  <2>1. Accepted /\ ~Gatt(mail.packet)
        /\ \A e : Gatt(e) /\ e.type # "COMPLETE" => ~Outstanding(e)
    BY <1>1, <1>2, NothingBehind
  <2>2. ASSUME NEW s \in SvcSet PROVE s \in found.services /\ In(s, queue.ranges)
    <3>1. Gatt(Ev("SERVICE", s)) /\ Ev("SERVICE", s).type # "COMPLETE"
      BY GattEvents DEF Ev
    <3> QED BY <1>1, <1>2, <2>1, <3>1 DEF ServicesComing
  <2>3. found.services = SvcSet /\ found.chars = {}
    BY <1>1, <1>2, <2>2 DEF ServicesComing, MailInv, TypeOK
  <2>4. queue.ranges # <<>>
    BY <2>2, PeerNotEmpty DEF In
  <2>5. Ask("ranges", "W4_CHARACTERISTIC")
    BY <2>4 DEF AfterServices
  <2> QED BY <1>1, <2>1, <2>2, <2>3, <2>5, NextRange
<1>3. CASE spoiled
  <2>1. CASE queue.ranges # <<>>
    BY <1>1, <1>3, <2>1, NextRange DEF AfterServices
  <2>2. CASE queue.ranges = <<>>
    <3>1. tc' = "IDLE" /\ query' = query
      BY <2>2 DEF AfterServices, Finished
    <3>2. Ends(query)' /\ NotYetAsked' /\ StillWaits' /\ CompleteIsLast'
          /\ ServicesComing' /\ CharsComing' /\ DiscoveryComplete'
      BY <1>1, <1>3, <3>1 DEF Ends, NotYetAsked, StillWaits, CompleteIsLast,
         ServicesComing, CharsComing, DiscoveryComplete
    <3> QED BY <3>2 DEF DiscoveryInv
  <2> QED BY <2>1, <2>2
<1> QED BY <1>2, <1>3

\* The end of the characteristics of one service, and of all of them.
LEMMA CharacteristicsEnd ==
  ASSUME MailInv, DiscoveryInv, HandAndBox', got = Complete, got' = Null,
         tc = "W4_CHARACTERISTIC", AfterCharacteristics,
         UNCHANGED <<mail, found, stack, spoiled>>
  PROVE  DiscoveryInv'
<1>1. Ends(query) /\ StillWaits /\ CompleteIsLast /\ CharsComing
  BY DEF DiscoveryInv
<1>2. ASSUME ~spoiled
      PROVE  /\ Accepted /\ ~Gatt(mail.packet)
             /\ found.services = SvcSet
             /\ found.chars # {} => queue.values # <<>>
             /\ \A s \in SvcSet : \/ In(s, queue.ranges)
                                  \/ \A i \in 1..Len(Chars[s]) : Chars[s][i] \in found.chars
  <2>1. Accepted /\ ~Gatt(mail.packet)
        /\ \A e : Gatt(e) /\ e.type # "COMPLETE" => ~Outstanding(e)
    BY <1>1, <1>2, NothingBehind
  <2>2. ASSUME NEW s \in SvcSet, CharsOfComing(s), NEW i \in 1..Len(Chars[s])
        PROVE  Chars[s][i] \in found.chars
    <3>1. PICK e : e = Ev("CHARACTERISTIC", Chars[s][i])
      OBVIOUS
    <3>2. Gatt(e) /\ e.type # "COMPLETE"
      BY <3>1, GattEvents DEF Ev
    <3> QED BY <2>1, <2>2, <3>1, <3>2 DEF CharsOfComing
  <2>3. found.services = SvcSet /\ (found.chars # {} => queue.values # <<>>)
        /\ \A s \in SvcSet : In(s, queue.ranges) \/ CharsOfComing(s)
    BY <1>1, <1>2 DEF CharsComing
  <2> QED BY <2>1, <2>2, <2>3
<1>3. CASE queue.ranges # <<>>
  <2>1. Ask("ranges", "W4_CHARACTERISTIC")
    BY <1>3 DEF AfterCharacteristics
  <2> QED BY <1>1, <1>2, <2>1, NextRange
<1>4. CASE queue.ranges = <<>>
  <2>1. ~spoiled => /\ found.services = SvcSet /\ stack.link = "up"
                    /\ found.chars # {} => queue.values # <<>>
                    /\ \A s \in SvcSet : \A i \in 1..Len(Chars[s]) : Chars[s][i] \in found.chars
    BY <1>2, <1>4 DEF In, Accepted
  <2>2. ~spoiled => found.chars # {} /\ queue.values # <<>>
    BY <2>1, PeerNotEmpty
  <2>3. ~spoiled => found.chars = Items(Chars)
    <3>1. \A c \in Items(Chars) : \E s \in SvcSet : \E i \in DOMAIN Chars[s] : Chars[s][i] = c
      BY PeerAssumption DEF Items
    <3>2. \A s \in SvcSet : DOMAIN Chars[s] = 1..Len(Chars[s])
      BY PeerAssumption, LenProperties
    <3>3. found.chars \subseteq Items(Chars)
      BY DEF MailInv, TypeOK
    <3>4. ASSUME ~spoiled, NEW c \in Items(Chars) PROVE c \in found.chars
      <4>1. PICK s \in SvcSet : \E i \in DOMAIN Chars[s] : Chars[s][i] = c
        BY <3>1
      <4>2. PICK i \in 1..Len(Chars[s]) : Chars[s][i] = c
        BY <3>2, <4>1
      <4> QED BY <2>1, <3>4, <4>2
    <3> QED BY <3>3, <3>4
  <2>4. CASE queue.values # <<>>
    <3>1. Ask("values", "W4_VALUE")
      BY <1>4, <2>4 DEF AfterCharacteristics
    <3>2. tc' = "W4_VALUE" /\ Ends(query)' /\ (stack.link = "up" => query' # <<>>)
      BY <1>1, <3>1, AskFacts
    <3>3. NotYetAsked' /\ CompleteIsLast' /\ ServicesComing' /\ CharsComing'
      BY <3>2 DEF NotYetAsked, CompleteIsLast, ServicesComing, CharsComing
    <3>4. StillWaits' /\ DiscoveryComplete'
      BY <2>1, <2>3, <3>2 DEF StillWaits, WaitsForSomething, DiscoveryComplete
    <3> QED BY <3>2, <3>3, <3>4 DEF DiscoveryInv
  <2>5. CASE queue.values = <<>>
    <3>1. spoiled /\ tc' = tc /\ query' = query
      BY <1>4, <2>2, <2>5 DEF AfterCharacteristics
    <3>2. Ends(query)' /\ NotYetAsked' /\ StillWaits' /\ CompleteIsLast'
          /\ ServicesComing' /\ CharsComing' /\ DiscoveryComplete'
      BY <1>1, <3>1 DEF Ends, NotYetAsked, StillWaits, CompleteIsLast,
         ServicesComing, CharsComing, DiscoveryComplete
    <3> QED BY <3>2 DEF DiscoveryInv
  <2> QED BY <2>4, <2>5
<1> QED BY <1>3, <1>4

\* QUERY_COMPLETE in every state.
LEMMA CompleteKeepsDiscovery ==
  ASSUME MailInv, DiscoveryInv, OnComplete
  PROVE  DiscoveryInv'
<1>1. HandAndBox /\ Ends(query) /\ StillWaits /\ DiscoveryComplete
  BY DEF DiscoveryInv
<1>2. NextQuery /\ UNCHANGED <<found, stack, spoiled>> /\ Callback("COMPLETE", Waiting)
  BY DEF OnComplete
<1>3. HandAndBox' /\ got' = Null /\ got.type = "COMPLETE" /\ UNCHANGED mail
  BY <1>1, <1>2, CallbackEmptiesHand
<1>4. got = Complete
  <2>1. got \in Events \cup {Null}
    BY DEF MailInv, TypeOK
  <2> QED BY <1>3, <2>1 DEF Events, Null, Ev, Complete
<1>5. CASE tc = "W4_SERVICE" /\ AfterServices
  BY <1>2, <1>3, <1>4, <1>5, ServicesEnd
<1>6. CASE tc = "W4_CHARACTERISTIC" /\ AfterCharacteristics
  BY <1>2, <1>3, <1>4, <1>6, CharacteristicsEnd
<1>7. CASE \/ tc = "W4_VALUE" /\ AfterValues
           \/ tc = "W4_DESCRIPTOR" /\ AfterDescriptors
           \/ tc = "W4_DESCRIPTOR_VALUE" /\ Finished
  <2>1. \/ Finished
        \/ \E q \in {"dranges", "descs"}, to \in {"W4_DESCRIPTOR", "W4_DESCRIPTOR_VALUE"} :
             Ask(q, to)
    BY <1>7 DEF AfterValues, AfterDescriptors
  <2>2. CASE Finished
    <3>1. tc' = "IDLE" /\ query' = query
      BY <2>2 DEF Finished
    <3>2. Ends(query)' /\ StillWaits'
      BY <1>1, <3>1 DEF Ends, StillWaits, Waiting
    <3> QED BY <1>1, <1>2, <1>3, <1>7, <3>1, <3>2, LateStates
  <2>3. ASSUME NEW q \in {"dranges", "descs"},
               NEW to \in {"W4_DESCRIPTOR", "W4_DESCRIPTOR_VALUE"}, Ask(q, to)
        PROVE  DiscoveryInv'
    <3>1. tc' = to /\ Ends(query)' /\ (stack.link = "up" => query' # <<>>)
      BY <1>1, <2>3, AskFacts
    <3>2. StillWaits'
      BY <1>1, <1>2, <1>7, <3>1 DEF StillWaits, WaitsForSomething, Waiting
    <3> QED BY <1>1, <1>2, <1>3, <1>7, <3>1, <3>2, LateStates
  <2> QED BY <2>1, <2>2, <2>3
<1> QED BY <1>2, <1>5, <1>6, <1>7 DEF NextQuery

\* Nothing is asked and nothing recorded at the start.
LEMMA InitDiscovery == Init => DiscoveryInv
<1> SUFFICES ASSUME Init PROVE DiscoveryInv
  OBVIOUS
<1>1. HandAndBox /\ Ends(query)
  BY FreedIsNoEvent DEF Init, HandAndBox, Ends
<1>2. NotYetAsked /\ StillWaits /\ CompleteIsLast /\ ServicesComing /\ CharsComing
      /\ DiscoveryComplete
  BY DEF Init, NotYetAsked, StillWaits, CompleteIsLast, ServicesComing, CharsComing,
         DiscoveryComplete, Waiting
<1> QED BY <1>1, <1>2 DEF DiscoveryInv

\* The invariant holds in every reachable state.
LEMMA DiscoveryInvariant == Spec => []DiscoveryInv
<1>1. MailInv /\ DiscoveryInv /\ [Next]_vars => DiscoveryInv'
  <2> SUFFICES ASSUME MailInv, DiscoveryInv, [Next]_vars PROVE DiscoveryInv'
    OBVIOUS
  <2>1. CASE Stack
    BY <2>1, StackKeepsDiscovery
  <2>2. CASE start \/ scan \/ connect \/ leave
    BY <2>2, CallKeepsDiscovery
  <2>3. CASE Pop
    BY <2>3, PopKeepsDiscovery
  <2>4. CASE Packet
    BY <2>4, StateKeepsDiscovery, ConnectedStartsDiscovery, ServiceKeepsDiscovery,
       CharacteristicKeepsDiscovery, ValueKeepsDiscovery, CompleteKeepsDiscovery,
       OtherKeepsDiscovery DEF Packet
  <2>5. CASE UNCHANGED vars
    <3>1. UNCHANGED <<mail, pc, got, tc, queue, found, stack, query, spoiled>>
      BY <2>5 DEF vars
    <3>2. \A e : Outstanding(e) => Outstanding(e)'
      BY <3>1 DEF Outstanding
    <3>3. ServicesComing' /\ CharsComing' /\ DiscoveryComplete'
      BY <3>1, <3>2, ExpectationsKept DEF DiscoveryInv
    <3>4. HandAndBox' /\ Ends(query)' /\ NotYetAsked' /\ StillWaits' /\ CompleteIsLast'
      BY <3>1 DEF DiscoveryInv, HandAndBox, Ends, NotYetAsked, StillWaits,
                  WaitsForSomething, CompleteIsLast, Gatt
    <3> QED BY <3>3, <3>4 DEF DiscoveryInv
  <2> QED BY <2>1, <2>2, <2>3, <2>4, <2>5 DEF Next, Loop
<1> QED BY InitDiscovery, MailInvariant, <1>1, PTL DEF Spec

\* For every peer, and wherever the interrupts fall: as long as no event of a
\* discovery was lost and its link is up, packet_callback never waits for a GATT
\* event that cannot come any more (ble_central.rb:107-263).
THEOREM DiscoveryWaits == Spec => []WaitsForSomething
<1>1. DiscoveryInv => WaitsForSomething
  BY DEF DiscoveryInv, StillWaits, WaitsForSomething
<1> QED BY DiscoveryInvariant, <1>1, PTL

\* For every peer: a discovery none of whose events was lost has recorded every
\* service and every characteristic when it goes on to the values or ends, whatever
\* the queues held when it started (ble_central.rb:110-187).
THEOREM DiscoveryFindsAll == Spec => []DiscoveryComplete
<1>1. DiscoveryInv => DiscoveryComplete
  BY DEF DiscoveryInv
<1> QED BY DiscoveryInvariant, <1>1, PTL

=============================================================================
