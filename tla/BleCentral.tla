------------------------------ MODULE BleCentral ------------------------------
(***************************************************************************)
(* The BLE central role: BTstack's callbacks, which run in an interrupt,   *)
(* hand HCI and GATT events to the Ruby loop of BLE#start through a        *)
(* mailbox that holds one packet, guarded by the flag packet_mutex.  The   *)
(* loop takes at most one packet per poll and runs BLE#packet_callback on  *)
(* it, the state machine that discovers services, characteristics, values  *)
(* and descriptors of the peer one GATT query at a time.                   *)
(*                                                                         *)
(* A callback runs to its end; it may interrupt the Ruby side between any  *)
(* two statements of pop_packet.  BTstack and the peer are external: a     *)
(* query is refused while another one is under way or the link is down,    *)
(* and answers with its results followed by QUERY_COMPLETE; a link that    *)
(* drops ends the query with QUERY_COMPLETE.                               *)
(***************************************************************************)
EXTENDS Naturals, Sequences, FiniteSets

CONSTANTS
  Services,        \* the peer's services, in handle order
  Chars,           \* service -> its characteristics
  Descs,           \* characteristic -> its descriptors
  Timeouts,        \* timeout_ms of BLE#start; 0 stands for nil
  StopStates,      \* stop_state of BLE#start
  MaxConnects      \* bound on the connections made

Items(f) == UNION {{f[k][i] : i \in DOMAIN f[k]} : k \in DOMAIN f}

SvcSet == {Services[i] : i \in DOMAIN Services}

\* The Bluetooth specification makes every peer have the GAP service and its
\* device name characteristic.
ASSUME PeerAssumption ==
  /\ Services \in Seq(SvcSet) /\ Services # <<>>
  /\ Chars \in [SvcSet -> Seq(Items(Chars)) \ {<<>>}]
  /\ Descs \in [Items(Chars) -> Seq(Items(Descs))]
ASSUME BoundsAssumption == Timeouts \subseteq Nat /\ MaxConnects \in Nat

VARIABLES
  mail,     \* [packet, flag, mutex]: the mailbox; its packet may be Null or Freed
  fault,    \* a packet was read or freed when there was none
  pc,       \* where the Ruby side is
  got,      \* the packet pop_packet returns
  call,     \* [name, timeout, stop, total] of the call being run
  tc,       \* @state
  queue,    \* the four handle queues of the discovery
  found,    \* @services: what has been recorded
  stack,    \* [power, link, scan]: BTstack
  query,    \* the answers of the query under way still to come
  connects,
  spoiled   \* an event of this discovery was lost, or its link dropped

vars == <<mail, fault, pc, got, call, tc, queue, found, stack, query,
          connects, spoiled>>
ruby == <<pc, got, call, tc, queue, found, connects>>

POLLING_UNIT_MS == 100

Ev(type, id) == [type |-> type, id |-> id]
Complete == Ev("COMPLETE", 0)
Null == Ev("NULL", 0)
Freed == Ev("FREED", 0)     \* a block that has been freed
GattTypes == {"COMPLETE", "SERVICE", "CHARACTERISTIC", "VALUE", "DESCRIPTOR"}
Events == [type : {"SERVICE"}, id : SvcSet]
          \cup [type : {"CHARACTERISTIC"}, id : Items(Chars)]
          \cup [type : {"VALUE"}, id : Items(Chars) \cup Items(Descs)]
          \cup [type : {"DESCRIPTOR"}, id : Items(Descs)]
          \cup {Complete}
          \cup {Ev(t, 0) : t \in {"WORKING", "HALTING", "CONNECTED", "OTHER"}}

\* @state while a GATT query is expected to answer
Waiting == {"W4_SERVICE", "W4_CHARACTERISTIC", "W4_VALUE", "W4_DESCRIPTOR",
            "W4_DESCRIPTOR_VALUE"}

NothingFound == [services |-> {}, chars |-> {}]
NoCall == [name |-> "none", timeout |-> 0, stop |-> "none", total |-> 0]

Init ==
  /\ mail = [packet |-> Null, flag |-> FALSE, mutex |-> FALSE]
  /\ fault = FALSE /\ pc = "idle" /\ got = Null /\ call = NoCall
  /\ tc = "OFF"
  /\ queue = [ranges |-> <<>>, values |-> <<>>, dranges |-> <<>>, descs |-> <<>>]
  /\ found = NothingFound
  /\ stack = [power |-> "off", link |-> "down", scan |-> FALSE]
  /\ query = <<>> /\ connects = 0 /\ spoiled = FALSE

-----------------------------------------------------------------------------
(* BLE_push_event, in the interrupt.                                   *)

RefusesNever == FALSE    \* mutant: the mutex is not looked at
Refuses == mail.mutex

Gatt(p) == p \in Events /\ p.type \in GattTypes

\* BLE_push_event(e): a packet nobody has taken yet is replaced; nothing is
\* kept while the mutex is held.  Either way a GATT event may be lost.
BLE_push_event(e) ==
  IF Refuses
  THEN /\ spoiled' = (spoiled \/ Gatt(e))
       /\ UNCHANGED <<mail, fault>>
  ELSE /\ mail' = [mail EXCEPT !.packet = e, !.flag = TRUE]
       /\ fault' = (fault \/ mail.packet = Freed)
       /\ spoiled' = (spoiled \/ (mail.flag /\ Gatt(mail.packet)))

-----------------------------------------------------------------------------
(* BTstack and the peer (external).  packet_handler forwards these events. *)

PowerSettles ==
  /\ \/ /\ stack.power = "starting"
        /\ stack' = [stack EXCEPT !.power = "working"]
        /\ BLE_push_event(Ev("WORKING", 0))
     \/ /\ stack.power = "halting" /\ stack.link = "down"
        /\ stack' = [stack EXCEPT !.power = "off"]
        /\ BLE_push_event(Ev("HALTING", 0))
  /\ UNCHANGED <<query, ruby>>

LinkUp ==
  /\ stack.power = "working" /\ stack.link = "connecting"
  /\ stack' = [stack EXCEPT !.link = "up"]
  /\ BLE_push_event(Ev("CONNECTED", 0))
  /\ UNCHANGED <<query, ruby>>

\* The disconnection itself is not forwarded to a central; the query it ends
\* is only seen to complete, which Answer delivers.
LinkDown ==
  /\ stack.link # "down"
  /\ stack' = [stack EXCEPT !.link = "down"]
  /\ query' = IF query = <<>> THEN <<>> ELSE <<Complete>>
  /\ spoiled' = TRUE
  /\ UNCHANGED <<mail, fault, ruby>>

Answer ==
  /\ query # <<>>
  /\ query' = Tail(query)
  /\ BLE_push_event(Head(query))
  /\ UNCHANGED <<stack, ruby>>

\* An advertising report or a notification: packet_callback has no state for
\* either, but they take the place of what is in the mailbox.
ReportOrNotification ==
  /\ stack.power = "working" /\ (stack.scan \/ stack.link = "up")
  /\ BLE_push_event(Ev("OTHER", 0))
  /\ UNCHANGED <<stack, query, ruby>>

\* gatt_client_...: a query that is refused has no effect, and only
\* discover_primary_services' result is looked at.
Accepted == query = <<>> /\ stack.link = "up"
Asked(type, ids) ==
  IF Accepted THEN [i \in DOMAIN ids |-> Ev(type, ids[i])] \o <<Complete>>
              ELSE query

-----------------------------------------------------------------------------
(* The calls of the application: BLE#scan, BLE#connect and BLE#start.      *)

PowerOn == [stack EXCEPT !.power = IF @ = "working" THEN @ ELSE "starting"]
PowerOff == [stack EXCEPT !.power = IF @ = "off" THEN @ ELSE "halting"]

Begin(name, timeout, stop) ==
  /\ pc = "idle"
  /\ pc' = "poll"
  /\ call' = [name |-> name, timeout |-> timeout, stop |-> stop, total |-> 0]
  /\ UNCHANGED <<mail, fault, got, queue, found, query, spoiled>>

start ==
  /\ \E t \in Timeouts, s \in StopStates : Begin("start", t, s)
  /\ stack' = PowerOn
  /\ UNCHANGED <<tc, connects>>

scan ==
  /\ \E t \in Timeouts : Begin("scan", t, "IDLE")
  /\ tc' = "OFF"
  /\ stack' = PowerOn
  /\ UNCHANGED connects

\* gap_connect fails when the peer is connected already; then connect only
\* stops the scan.
connect ==
  \/ /\ connects < MaxConnects
     /\ stack.link = "down" /\ query = <<>>
     /\ Begin("connect", 10, "IDLE")
     /\ tc' = "W4_CONNECT"
     /\ stack' = [PowerOn EXCEPT !.scan = FALSE, !.link = "connecting"]
     /\ connects' = connects + 1
  \/ /\ pc = "idle"
     /\ stack' = [stack EXCEPT !.scan = FALSE]
     /\ UNCHANGED <<mail, fault, query, spoiled, ruby>>

-----------------------------------------------------------------------------
(* The loop of BLE#start, and pop_packet statement by statement.           *)

TimedOut == call.timeout # 0 /\ call.timeout <= call.total

Step(from, to) == pc = from /\ pc' = to

\* The mailbox is read once per poll and slept on afterwards: the test and the
\* lock are one step, and the sleep ends the step that handles the packet.
Counted == IF call.timeout = 0 THEN 0 ELSE call.total + POLLING_UNIT_MS
Slept == call' = [call EXCEPT !.total = Counted]

Polls == ~TimedOut /\ tc # call.stop
CanPop == ~mail.mutex /\ mail.flag

pop_nothing ==
  /\ Polls /\ ~CanPop
  /\ Step("poll", "poll")
  /\ Slept
  /\ UNCHANGED <<mail, fault, got, tc, queue, found, stack, query, connects,
                 spoiled>>

pop_lock ==
  /\ Polls /\ CanPop
  /\ Step("poll", "copy")
  /\ mail' = [mail EXCEPT !.mutex = TRUE]
  /\ UNCHANGED <<fault, got, call, tc, queue, found, stack, query, connects,
                 spoiled>>

\* An interrupt looks at the mutex only: what is done under it is one step up
\* to the free, and one from there to the unlock.
Copied == [mail EXCEPT !.flag = FALSE, !.packet = Freed]

pop_copy ==
  /\ Step("copy", "null")
  /\ fault' = (fault \/ mail.packet \notin Events)
  /\ got' = mail.packet
  /\ mail' = Copied
  /\ UNCHANGED <<call, tc, queue, found, stack, query, connects, spoiled>>

\* packet = NULL, then packet_mutex = false: neither is volatile, and it is assumed
\* that the compiler keeps the order of the two stores.  An interrupt between them
\* still sees the mutex, so they are one step.
pop_unlock ==
  /\ Step("null", "callback")
  /\ mail' = [mail EXCEPT !.packet = Null, !.mutex = FALSE]
  /\ UNCHANGED <<fault, got, call, tc, queue, found, stack, query, connects,
                 spoiled>>

\* The end of the loop, its ensure clause, and what scan does after it
leave ==
  /\ TimedOut \/ tc = call.stop
  /\ Step("poll", "idle")
  /\ stack' = PowerOff
  /\ tc' = IF call.name = "scan" THEN "OFF" ELSE tc
  /\ call' = NoCall
  /\ UNCHANGED <<mail, fault, got, queue, found, query, connects, spoiled>>

-----------------------------------------------------------------------------
(* BLE#packet_callback for a central.                                      *)

Callback(type, states) ==
  /\ Step("callback", "poll")
  /\ Slept
  /\ got.type = type /\ tc \in states
  /\ got' = Null
  /\ UNCHANGED <<mail, fault, connects>>

OnState ==
  /\ \/ /\ Callback("WORKING", {"OFF", "IDLE"})
        /\ tc' = "W4_SCAN" /\ stack' = [stack EXCEPT !.scan = TRUE]
     \/ /\ Callback("HALTING", {"OFF", "IDLE"})
        /\ tc' = "OFF" /\ UNCHANGED stack
  /\ UNCHANGED <<queue, found, query, spoiled>>

\* The four queues are not emptied: what an earlier discovery left stays.
OnConnected ==
  /\ Callback("CONNECTED", {"W4_CONNECT"})
  /\ tc' = IF Accepted THEN "W4_SERVICE" ELSE "IDLE"
  /\ query' = Asked("SERVICE", Services)
  /\ found' = NothingFound
  /\ spoiled' = ~Accepted
  /\ UNCHANGED <<queue, stack>>

OnService ==
  /\ Callback("SERVICE", {"W4_SERVICE"})
  /\ found' = [found EXCEPT !.services = @ \cup {got.id}]
  /\ queue' = [queue EXCEPT !.ranges = Append(@, got.id)]
  /\ UNCHANGED <<tc, stack, query, spoiled>>

\* Its value is to be read, and its descriptors if its range has room for any.
Queued(c) ==
  [queue EXCEPT !.values = Append(@, c),
                !.dranges = IF Descs[c] = <<>> THEN @ ELSE Append(@, c)]

\* A characteristic is filed under the service whose range holds it.
OnCharacteristic ==
  /\ Callback("CHARACTERISTIC", {"W4_CHARACTERISTIC"})
  /\ found' = [found EXCEPT !.chars = @ \cup
                 {c \in {got.id} : \E s \in found.services :
                                     \E i \in DOMAIN Chars[s] : Chars[s][i] = c}]
  /\ queue' = Queued(got.id)
  /\ UNCHANGED <<tc, stack, query, spoiled>>

\* The value of a characteristic or of a descriptor (which is stored): ask for
\* the next one, before the query has completed.
OnValue ==
  LET q == IF tc = "W4_VALUE" THEN "values" ELSE "descs"
  IN  /\ Callback("VALUE", {"W4_VALUE", "W4_DESCRIPTOR_VALUE"})
      /\ IF queue[q] = <<>>
         THEN UNCHANGED <<queue, query>>
         ELSE /\ query' = Asked("VALUE", <<Head(queue[q])>>)
              /\ queue' = [queue EXCEPT ![q] = Tail(@)]
      /\ UNCHANGED <<tc, found, stack, spoiled>>

OnDescriptor ==
  /\ Callback("DESCRIPTOR", {"W4_DESCRIPTOR"})
  /\ queue' = [queue EXCEPT !.descs = Append(@, got.id)]
  /\ UNCHANGED <<tc, found, stack, query, spoiled>>

\* Ask(q, to): shift queue q, ask about what it held, and wait in state to.
Ask(q, to) ==
  /\ queue[q] # <<>>
  /\ LET h == Head(queue[q]) IN
       query' = CASE q = "ranges"  -> Asked("CHARACTERISTIC", Chars[h])
                  [] q = "dranges" -> Asked("DESCRIPTOR", Descs[h])
                  [] OTHER         -> Asked("VALUE", <<h>>)
  /\ queue' = [queue EXCEPT ![q] = Tail(@)]
  /\ tc' = to

Finished == tc' = "IDLE" /\ UNCHANGED <<queue, query>>

\* QUERY_COMPLETE: go on with the next queue that is not empty.
AfterServices ==
  IF queue.ranges # <<>> THEN Ask("ranges", "W4_CHARACTERISTIC") ELSE Finished

AfterCharacteristicsOnce ==   \* mutant: one service only is asked about
  IF queue.values # <<>> THEN Ask("values", "W4_VALUE")
  ELSE UNCHANGED <<tc, queue, query>>
AfterCharacteristics ==
  IF queue.ranges # <<>> THEN Ask("ranges", tc)
  ELSE IF queue.values # <<>> THEN Ask("values", "W4_VALUE")
  ELSE UNCHANGED <<tc, queue, query>>

AfterValuesRereads ==         \* mutant: the value is asked for again
  IF queue.dranges = <<>> THEN Finished
  ELSE query' = Asked("VALUE", <<Head(queue.dranges)>>) /\ UNCHANGED <<tc, queue>>
AfterValues ==
  IF queue.dranges # <<>> THEN Ask("dranges", "W4_DESCRIPTOR") ELSE Finished

AfterDescriptorsStays ==      \* mutant: no end without a descriptor
  IF queue.dranges # <<>> THEN Ask("dranges", tc) ELSE UNCHANGED <<tc, queue, query>>
AfterDescriptors ==
  IF queue.dranges # <<>> THEN Ask("dranges", tc)
  ELSE IF queue.descs # <<>> THEN Ask("descs", "W4_DESCRIPTOR_VALUE")
  ELSE Finished

NextQuery ==
  \/ tc = "W4_SERVICE" /\ AfterServices
  \/ tc = "W4_CHARACTERISTIC" /\ AfterCharacteristics
  \/ tc = "W4_VALUE" /\ AfterValues
  \/ tc = "W4_DESCRIPTOR" /\ AfterDescriptors
  \/ tc = "W4_DESCRIPTOR_VALUE" /\ Finished

OnComplete ==
  /\ Callback("COMPLETE", Waiting)
  /\ NextQuery
  /\ UNCHANGED <<found, stack, spoiled>>

Handled(type) ==
  CASE type \in {"WORKING", "HALTING"} -> {"OFF", "IDLE"}
    [] type = "CONNECTED"      -> {"W4_CONNECT"}
    [] type = "SERVICE"        -> {"W4_SERVICE"}
    [] type = "CHARACTERISTIC" -> {"W4_CHARACTERISTIC"}
    [] type = "VALUE"          -> {"W4_VALUE", "W4_DESCRIPTOR_VALUE"}
    [] type = "DESCRIPTOR"     -> {"W4_DESCRIPTOR"}
    [] type = "COMPLETE"       -> Waiting
    [] OTHER                   -> {}

\* Everything else is ignored, or given to a method the application overrides.
OnOther ==
  /\ pc = "callback"
  /\ tc \notin Handled(got.type)
  /\ Callback(got.type, {tc})
  /\ UNCHANGED <<tc, queue, found, stack, query, spoiled>>

Pop == pop_nothing \/ pop_lock \/ pop_copy \/ pop_unlock
Packet == \/ OnState \/ OnConnected \/ OnService \/ OnCharacteristic \/ OnValue
          \/ OnDescriptor \/ OnComplete \/ OnOther
Loop == Pop \/ Packet \/ leave
Stack == \/ PowerSettles \/ LinkUp \/ LinkDown
         \/ Answer \/ ReportOrNotification

Next == Loop \/ Stack \/ start \/ scan \/ connect

\* The Ruby loop never blocks except to sleep, and BTstack answers a query.
Fairness == WF_vars(Loop) /\ WF_vars(Answer)
Spec == Init /\ [][Next]_vars /\ Fairness

-----------------------------------------------------------------------------
(* Properties.                                                             *)

Queues == [ranges : Seq(SvcSet), values : Seq(Items(Chars)),
           dranges : Seq(Items(Chars)), descs : Seq(Items(Descs))]

\* Every variable has its type; the queues hold handles of the peer, each of the
\* kind its query is about.
TypeOK ==
  /\ mail \in [packet : Events \cup {Null, Freed}, flag : BOOLEAN, mutex : BOOLEAN]
  /\ fault \in BOOLEAN /\ spoiled \in BOOLEAN
  /\ pc \in {"idle", "poll", "copy", "null", "callback"}
  /\ got \in Events \cup {Null}
  /\ call \in [name : {"none", "start", "scan", "connect"}, total : Nat,
               timeout : Timeouts \cup {0, 10}, stop : StopStates \cup {"none", "IDLE"}]
  /\ tc \in {"OFF", "IDLE", "W4_SCAN", "W4_CONNECT"} \cup Waiting
  /\ queue \in Queues /\ query \in Seq(Events)
  /\ found \in [services : SUBSET SvcSet, chars : SUBSET Items(Chars)]
  /\ stack \in [power : {"off", "starting", "working", "halting"},
                link : {"down", "connecting", "up"}, scan : BOOLEAN]
  /\ connects \in 0..MaxConnects

\* The mailbox never hands out a packet that is not there: no interrupt between
\* two statements of pop_packet makes BLE_push_event or the next pop_packet read
\* or free a packet that was freed before (ble.c:10-23, 67-79).
NoFault == ~fault

\* Discovery does not stall by itself: as long as none of its events was lost
\* and the link is up, a central that waits for a GATT event has a query under
\* way, or the event that completes one in the mailbox or in hand
\* (ble_central.rb:107-263; the peer has at least one characteristic).
WaitsForSomething ==
  tc \in Waiting /\ ~spoiled =>
    \/ query # <<>>
    \/ mail.packet = Complete
    \/ got = Complete

\* A discovery none of whose events was lost ends with every service and every
\* characteristic of the peer recorded, also when queues of an earlier one that
\* timed out are still there (ble_central.rb:110-187).
DiscoveryComplete ==
  tc \in {"IDLE", "W4_VALUE", "W4_DESCRIPTOR", "W4_DESCRIPTOR_VALUE"}
    /\ found.services # {} /\ ~spoiled
  => found.services = SvcSet /\ found.chars = Items(Chars)

\* A discovery ends, unless an event is lost, the link drops or the application's
\* call times out first (ble.rb:119-144, ble_central.rb:107-263).
DiscoveryEnds ==
  (tc \in Waiting) ~> (tc \notin Waiting \/ spoiled \/ pc = "idle")

=============================================================================
