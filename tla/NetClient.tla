----------------------------- MODULE NetClient -----------------------------
(***************************************************************************)
(* The TCP and UDP clients of mrbgems/picoruby-net: one call of            *)
(* TCPClient_send or UDPClient_send after another.                         *)
(*                                                                         *)
(* lwIP (external) is built to be polled: its callbacks run inside         *)
(* Net_sleep_ms, any number of them in one sleep, and nowhere else.  They  *)
(* share the field cs->state with the polling loop.  A use of memory that  *)
(* has been freed stops the model; its kind is kept in call.fault.         *)
(***************************************************************************)
EXTENDS Integers, Sequences

CONSTANTS
    Packets,        \* the payloads that arrive
    MaxPackets,     \* bound: how many arrive in one call
    MaxWait,        \* max_wait: 200 for TCP, 50 for UDP in the code
    PollAfter       \* sleeps before lwIP's poll timer fires (15 of the 20 s)

ASSUME BoundsAssumption ==
    MaxPackets \in Nat /\ MaxWait \in Nat \ {0} /\ PollAfter \in 0..MaxWait

VARIABLES
    call,    \* the call: protocol, where it is, its locals and its outcome
    cs,      \* the connection: allocated, state, pcb, received data, its block
    res,     \* net_response_t, as the caller sees it
    lwip     \* what lwIP has done in this call; refused, fresh and overtaken are
             \* history: altcp_write has failed, the connection was established in
             \* this sleep, and another callback then overwrote CONNECTED

vars == <<call, cs, res, lwip>>

NoConnection == [live |-> FALSE, state |-> "NONE", pcb |-> "none",
                 data |-> <<>>, block |-> 0]
NoResponse == [data |-> <<>>, block |-> 0]
Quiet == [resolving |-> FALSE, up |-> FALSE, eof |-> FALSE, written |-> FALSE,
          refused |-> FALSE, fresh |-> FALSE, overtaken |-> FALSE,
          errors |-> {}, arrived |-> <<>>]

Init ==
    /\ call = [proto |-> "TCP", at |-> "returned", ip |-> "zero",
               max_wait |-> 0, ret |-> FALSE, fault |-> "none"]
    /\ cs = NoConnection /\ res = NoResponse /\ lwip = Quiet

At(place) == call.at = place
Tcp == call.proto = "TCP"
Goto(place) == call' = [call EXCEPT !.at = place]
Fault(kind) == call' = [call EXCEPT !.at = "fault", !.fault = kind]

----------------------------------------------------------------------------
(* Resolving the name and opening the connection.                          *)

(* dns_gethostbyname knows the address, will call back, or fails; the      *)
(* failure is not looked at and leaves the address zero.                   *)
Begin(proto) ==
    /\ At("returned")
    /\ \E ip \in {"zero", "host"}, asked \in BOOLEAN :
          /\ asked => ip = "zero"
          /\ call' = [call EXCEPT !.proto = proto, !.at = "resolve", !.ip = ip,
                                  !.max_wait = MaxWait, !.ret = FALSE]
          /\ lwip' = [Quiet EXCEPT !.resolving = asked]
    /\ cs' = NoConnection /\ res' = NoResponse

(* A name that is not found resolves to the loopback address.              *)
dns_found ==
    /\ At("resolve") /\ lwip.resolving
    /\ \E ip \in {"host", "loopback"} : call' = [call EXCEPT !.ip = ip]
    /\ lwip' = [lwip EXCEPT !.resolving = FALSE]
    /\ UNCHANGED <<cs, res>>

(* The state of a new connection: the first call to lwIP fails or not.     *)
OpenStates == {"ERROR", IF Tcp THEN "CONNECTION_STARTED" ELSE "WAITING"}

Open ==
    /\ At("resolve") /\ call.ip = "host"
    /\ \/ Goto("returned") /\ UNCHANGED cs          \* no pcb: cs is NULL
       \/ /\ Goto("poll")
          /\ \E state \in OpenStates :
                cs' = [NoConnection EXCEPT !.live = TRUE, !.state = state,
                                           !.pcb = "open"]
    /\ UNCHANGED <<res, lwip>>

Unknown ==
    /\ At("resolve") /\ call.ip = "loopback"
    /\ Goto("returned")
    /\ UNCHANGED <<cs, res, lwip>>

----------------------------------------------------------------------------
(* The callbacks.                                                          *)

CallbackDue == At("sleep") /\ cs.pcb = "open"

(* TCPClient_close frees cs; lwIP may not call back any more.              *)
Closed(c) == [c EXCEPT !.live = FALSE, !.pcb = "none"]

(* Something else was reported after the connection, in the same sleep.    *)
Noted == [lwip EXCEPT !.overtaken = @ \/ lwip.fresh]

connected_cb ==
    /\ CallbackDue /\ Tcp /\ ~lwip.up
    /\ \/ /\ cs' = [cs EXCEPT !.state = "CONNECTED"]
          /\ lwip' = [lwip EXCEPT !.up = TRUE, !.fresh = TRUE]
       \/ cs' = Closed(cs) /\ lwip' = [lwip EXCEPT !.errors = @ \cup {"callback"}]
    /\ UNCHANGED <<call, res>>

(* Mutant: the data is not appended but replaces what was there.           *)
AppendedOver(data, p) == <<p>>
Appended(data, p) == Append(data, p)

(* The data grows; realloc extends its block or moves it to another one.   *)
Realloc(c, p) ==
    {[c EXCEPT !.data = Appended(@, p), !.block = b] : b \in c.block..(c.block + 1)}

recv_cb ==
    /\ CallbackDue /\ Tcp /\ lwip.up /\ ~lwip.eof
    /\ \/ /\ Len(lwip.arrived) < MaxPackets
          /\ \E p \in Packets :
                /\ \E c \in Realloc(cs, p) : cs' = [c EXCEPT !.state = "PACKET_RECVED"]
                /\ lwip' = [Noted EXCEPT !.arrived = Append(@, p)]
       \/ cs' = [cs EXCEPT !.state = "FINISHED"] /\ lwip' = [Noted EXCEPT !.eof = TRUE]
       \/ /\ cs' = Closed([cs EXCEPT !.state = "ERROR"])
          /\ lwip' = [Noted EXCEPT !.errors = @ \cup {"callback"}]
    /\ UNCHANGED <<call, res>>

poll_cb ==
    /\ CallbackDue /\ Tcp /\ MaxWait - call.max_wait >= PollAfter
    /\ cs' = [cs EXCEPT !.state = "TIMEOUT"]
    /\ lwip' = Noted
    /\ UNCHANGED <<call, res>>

(* lwIP has freed the pcb when it reports an error; cs->pcb stays.         *)
err_cb ==
    /\ CallbackDue /\ Tcp
    /\ cs' = [cs EXCEPT !.state = "ERROR", !.pcb = "freed"]
    /\ lwip' = [Noted EXCEPT !.errors = @ \cup {"connection"}]
    /\ UNCHANGED <<call, res>>

UDPClient_recv_cb ==
    /\ CallbackDue /\ ~Tcp
    /\ \/ /\ Len(lwip.arrived) < MaxPackets
          /\ \E p \in Packets :
                /\ \E c \in Realloc(cs, p) : cs' = [c EXCEPT !.state = "RECEIVED"]
                /\ lwip' = [lwip EXCEPT !.arrived = Append(@, p)]
       \/ cs' = [cs EXCEPT !.state = "ERROR"] /\ UNCHANGED lwip
    /\ UNCHANGED <<call, res>>

Callback == dns_found \/ connected_cb \/ recv_cb \/ poll_cb \/ err_cb \/ UDPClient_recv_cb

----------------------------------------------------------------------------
(* The polling loop.                                                       *)

(* Mutant: the counter is not decremented.                                 *)
CountedNever(n) == n
Counted(n) == n - 1

(* while (poll_impl(&cs) && 0 < max_wait--) Net_sleep_ms(100);             *)
Loop ==
    call' = [call EXCEPT !.at = IF 0 < call.max_wait THEN "sleep" ELSE "finish",
                         !.max_wait = Counted(@)]

(* Mutant: altcp_output is left out.                                       *)
WrittenNot(l) == l
(* altcp_write and altcp_output: the request is sent.                      *)
Written(l) == [l EXCEPT !.written = TRUE]

Poll ==
    /\ At("poll") /\ cs.live
    /\ CASE Tcp /\ cs.state = "CONNECTED" ->
                /\ Loop
                /\ \/ /\ cs' = [cs EXCEPT !.state = "WAITING_PACKET"]
                      /\ lwip' = Written(lwip)
                   \/ /\ cs' = [cs EXCEPT !.state = "ERROR"]
                      /\ lwip' = [lwip EXCEPT !.refused = TRUE]
         [] cs.state = "PACKET_RECVED" ->
                /\ Loop
                /\ cs' = [cs EXCEPT !.state = "WAITING_PACKET"]
                /\ UNCHANGED lwip
         [] cs.state = "RECEIVED" ->
                /\ Goto("finish")
                /\ cs' = [cs EXCEPT !.state = "FINISHED"]
                /\ UNCHANGED lwip
         [] cs.state \in {"FINISHED", "ERROR", "TIMEOUT"} ->
                Goto("finish") /\ UNCHANGED <<cs, lwip>>
         [] OTHER -> Loop /\ UNCHANGED <<cs, lwip>>
    /\ UNCHANGED res

Net_sleep_ms ==
    /\ At("sleep")
    /\ Goto("poll")
    /\ lwip' = [lwip EXCEPT !.fresh = FALSE]
    /\ UNCHANGED <<cs, res>>

(* A callback has freed cs.                                                *)
PollFreed ==
    /\ At("poll") /\ ~cs.live
    /\ Fault("cs")
    /\ UNCHANGED <<cs, res, lwip>>

(* Mutant: off by one.                                                     *)
TimedOutEarly == call.max_wait <= 1
TimedOut == call.max_wait <= 0

(* The end of the call, and mrb_free(res.recv_data) by its caller.         *)
Finish ==
    LET r == IF TimedOut THEN res ELSE [data |-> cs.data, block |-> cs.block]
    IN  /\ At("finish") /\ cs.pcb # "freed"
        /\ res' = r
        /\ call' = [call EXCEPT !.ret = (cs.state = "FINISHED"),
                                !.at = IF r.block = cs.block THEN "returned" ELSE "fault",
                                !.fault = IF r.block = cs.block THEN "none" ELSE "data"]
        /\ cs' = Closed(cs)
        /\ UNCHANGED lwip

(* TCPClient_close of a pcb that lwIP has freed.                           *)
CloseFreed ==
    /\ At("finish") /\ cs.pcb = "freed"
    /\ Fault("pcb")
    /\ UNCHANGED <<cs, res, lwip>>

Client == Open \/ Unknown \/ Poll \/ Net_sleep_ms \/ PollFreed \/ Finish \/ CloseFreed

Next == Callback \/ Client \/ \E proto \in {"TCP", "UDP"} : Begin(proto)

(* The call goes on as long as it can: its loop does not wait for anything *)
(* but the time, and callbacks do not keep a sleep from ending.            *)
Spec == Init /\ [][Next]_vars /\ WF_vars(Client)

----------------------------------------------------------------------------
(* Properties.                                                             *)

(* Freed memory is used only in three situations: lwIP passed an error to  *)
(* a callback (cs is then freed under the loop), it reported the loss of   *)
(* the connection (the pcb is then closed again), or the call ran out of   *)
(* polls after data had moved (the caller then frees the old block).       *)
FaultsExplained ==
    /\ call.fault = "cs" => "callback" \in lwip.errors
    /\ call.fault = "pcb" => "connection" \in lwip.errors
    /\ call.fault = "data" => call.max_wait <= 0 /\ lwip.arrived # <<>>

(* A call that succeeds before its last poll returns every packet that has *)
(* arrived, in order, and for TCP up to the end of the stream, whatever    *)
(* the order in which callbacks overwrite the state.                       *)
AnswerComplete ==
    call.ret /\ call.max_wait > 0 => res.data = lwip.arrived /\ (Tcp => lwip.eof)

(* A TCP call that succeeds has sent its request, but for two cases.       *)
(* Another callback overwrote CONNECTED in the very sleep that established *)
(* the connection; or altcp_write failed, and the end of the stream, seen  *)
(* in the sleep that the loop still takes, overwrote the ERROR             *)
(* (tcp.c:225-243, 274-278).                                               *)
RequestSent ==
    call.ret /\ Tcp => lwip.written \/ lwip.overtaken \/ lwip.refused

(* Once the name is resolved, the call ends.                               *)
CallEnds == At("poll") ~> (At("returned") \/ At("fault"))
=============================================================================
