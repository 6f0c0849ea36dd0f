-------------------------- MODULE NetClientProofs --------------------------
(***************************************************************************)
(* The safety properties of NetClient, for any payloads, any number of     *)
(* packets, any number of polls and any time of lwIP's poll timer.         *)
(***************************************************************************)
EXTENDS NetClient, SequenceTheorems, TLAPS

States == {"NONE", "ERROR", "CONNECTION_STARTED", "WAITING", "CONNECTED",
           "WAITING_PACKET", "PACKET_RECVED", "FINISHED", "TIMEOUT", "RECEIVED"}

Calls == [proto : {"TCP", "UDP"},
          at : {"returned", "resolve", "poll", "sleep", "finish", "fault"},
          ip : {"zero", "host", "loopback"}, max_wait : Int,
          ret : BOOLEAN, fault : {"none", "cs", "pcb", "data"}]
Connections == [live : BOOLEAN, state : States, pcb : {"none", "open", "freed"},
                data : Seq(Packets), block : Nat]
Responses == [data : Seq(Packets), block : Nat]
Lwips == [resolving : BOOLEAN, up : BOOLEAN, eof : BOOLEAN, written : BOOLEAN,
          refused : BOOLEAN, fresh : BOOLEAN, overtaken : BOOLEAN,
          errors : SUBSET {"callback", "connection"}, arrived : Seq(Packets)]

(* Every variable has its type.                                            *)
Typed == call \in Calls /\ cs \in Connections /\ res \in Responses /\ lwip \in Lwips

(* The outcome of a call is empty until its end, and only a fault is final. *)
Outcome ==
    /\ call.at # "fault" => call.fault = "none"
    /\ call.ret => call.at \in {"returned", "fault"}
    /\ call.at \notin {"returned", "fault"} => res = NoResponse
    /\ call.at = "resolve" => cs = NoConnection /\ lwip.arrived = <<>>

(* Memory: what has been freed or moved was so by a callback that left its *)
(* mark.                                                                   *)
Memory ==
    /\ call.at \in {"poll", "sleep"} /\ ~cs.live => "callback" \in lwip.errors
    /\ cs.pcb = "freed" => "connection" \in lwip.errors
    /\ cs.block # 0 => lwip.arrived # <<>>

(* The data of a connection is what has arrived; a TCP connection only     *)
(* finishes at the end of the stream.                                      *)
Received ==
    /\ call.at \in {"poll", "sleep", "finish"} => cs.data = lwip.arrived
    /\ Tcp => cs.state # "RECEIVED" /\ (cs.state = "FINISHED" => lwip.eof)

(* The request of an established connection has been sent or has failed,   *)
(* or the state is still CONNECTED and the next poll will send it.  Until  *)
(* the sleep that established it ends, the connection is fresh.            *)
Request ==
    /\ lwip.up => Tcp
    /\ lwip.eof => lwip.up
    /\ lwip.up => \/ lwip.written \/ lwip.overtaken \/ lwip.refused
                  \/ cs.state = "CONNECTED" /\ (call.at = "sleep" => lwip.fresh)

(* The inductive invariant.                                                *)
NetInv == /\ Typed /\ Outcome /\ Memory /\ Received /\ Request
          /\ FaultsExplained /\ AnswerComplete /\ RequestSent

----------------------------------------------------------------------------
(* The initial values.                                                     *)
LEMMA Constants == NoConnection \in Connections /\ NoResponse \in Responses /\ Quiet \in Lwips
  <1>1. <<>> \in Seq(Packets)
    OBVIOUS
  <1> QED BY <1>1 DEF NoConnection, NoResponse, Quiet, Connections, Responses, Lwips, States

(* The client has nothing to start with.                                   *)
LEMMA InitNet == Init => NetInv
  <1> SUFFICES ASSUME Init PROVE NetInv
    OBVIOUS
  <1>1. Typed
    BY Constants DEF Init, Typed, Calls
  <1>2. Outcome /\ Memory /\ Received /\ Request
    BY DEF Init, Outcome, Memory, Received, Request, NoConnection, Quiet, Tcp
  <1>3. FaultsExplained /\ AnswerComplete /\ RequestSent
    BY DEF Init, FaultsExplained, AnswerComplete, RequestSent
  <1> QED BY <1>1, <1>2, <1>3 DEF NetInv

(* A call begins.                                                          *)
LEMMA BeginStep ==
    ASSUME NetInv, NEW proto \in {"TCP", "UDP"}, Begin(proto)
    PROVE  NetInv'
  <1>1. PICK ip \in {"zero", "host"}, asked \in BOOLEAN :
           /\ call' = [call EXCEPT !.proto = proto, !.at = "resolve", !.ip = ip,
                                   !.max_wait = MaxWait, !.ret = FALSE]
           /\ lwip' = [Quiet EXCEPT !.resolving = asked]
    BY DEF Begin
  <1>2. cs' = NoConnection /\ res' = NoResponse /\ call.at = "returned"
    BY DEF Begin, At
  <1>3. call \in Calls /\ call.fault = "none"
    BY <1>2 DEF NetInv, Typed, Outcome
  <1>4. call' \in Calls /\ call'.at = "resolve" /\ call'.ret = FALSE
        /\ call'.fault = "none"
    <2> DEFINE c == [call EXCEPT !.proto = proto, !.at = "resolve"]
    <2>1. c \in Calls /\ c.at = "resolve" /\ c.fault = "none"
      BY <1>3 DEF Calls
    <2>2. call' = [c EXCEPT !.ip = ip, !.max_wait = MaxWait, !.ret = FALSE]
      BY <1>1
    <2>3. MaxWait \in Int
      BY BoundsAssumption
    <2> HIDE DEF c
    <2> QED BY <1>1, <2>1, <2>2, <2>3 DEF Calls
  <1>5. lwip' \in Lwips /\ lwip'.arrived = <<>> /\ lwip'.up = FALSE /\ lwip'.eof = FALSE
    <2>1. lwip' \in Lwips
      BY <1>1, Constants DEF Lwips
    <2> QED BY <1>1, <2>1 DEF Quiet
  <1>6. cs'.pcb = "none" /\ cs'.block = 0 /\ cs'.state = "NONE"
    BY <1>2 DEF NoConnection
  <1> QED BY <1>2, <1>4, <1>5, <1>6, Constants
       DEF NetInv, Typed, Outcome, Memory, Received, Request, FaultsExplained,
           AnswerComplete, RequestSent

(* What the client does before it polls, and what it does with freed       *)
(* memory, leaves lwIP and the response alone.                             *)
LEMMA OpenStep ==
    ASSUME NetInv, Open \/ Unknown \/ dns_found
    PROVE  NetInv'
  <1>0. /\ call \in Calls /\ cs \in Connections /\ res \in Responses /\ lwip \in Lwips
        /\ call.at = "resolve" /\ cs = NoConnection /\ lwip.arrived = <<>>
        /\ call.fault = "none" /\ call.ret = FALSE /\ res = NoResponse /\ res' = res
    BY DEF NetInv, Typed, Outcome, Open, Unknown, dns_found, At, Calls
  <1>1. CASE dns_found
    <2>1. PICK ip \in {"host", "loopback"} : call' = [call EXCEPT !.ip = ip]
      BY <1>1 DEF dns_found
    <2>2. /\ call' \in Calls /\ call'.at = call.at /\ call'.fault = call.fault
          /\ call'.ret = call.ret /\ call'.proto = call.proto
      BY <1>0, <2>1 DEF Calls
    <2>3. /\ lwip' \in Lwips /\ lwip'.arrived = lwip.arrived /\ lwip'.up = lwip.up
          /\ lwip'.written = lwip.written /\ lwip'.fresh = lwip.fresh /\ lwip'.refused = lwip.refused
          /\ lwip'.eof = lwip.eof /\ lwip'.overtaken = lwip.overtaken
          /\ lwip'.errors = lwip.errors
      BY <1>0, <1>1 DEF dns_found, Lwips
    <2>4. cs' = cs
      BY <1>1 DEF dns_found
    <2> QED BY <1>0, <2>2, <2>3, <2>4
         DEF NetInv, Typed, Outcome, Memory, Received, Request, FaultsExplained,
             AnswerComplete, RequestSent, Tcp
  <1>2. CASE (Open \/ Unknown) /\ call' = [call EXCEPT !.at = "returned"] /\ cs' = cs
    <2>1. /\ call' \in Calls /\ call'.at = "returned" /\ call'.fault = "none"
          /\ call'.ret = FALSE /\ call'.proto = call.proto /\ lwip' = lwip
      BY <1>0, <1>2 DEF Calls, Open, Unknown
    <2>2. cs' = cs /\ cs.pcb = "none" /\ cs.block = 0 /\ cs.state = "NONE"
      BY <1>0, <1>2 DEF NoConnection
    <2>3. Outcome' /\ FaultsExplained' /\ AnswerComplete' /\ RequestSent'
      BY <1>0, <2>1 DEF Outcome, FaultsExplained, AnswerComplete, RequestSent
    <2>4. Memory' /\ Received' /\ Request'
      BY <1>0, <2>1, <2>2 DEF NetInv, Memory, Received, Request, Tcp
    <2>5. Typed'
      BY <1>0, <2>1, <2>2 DEF Typed
    <2> QED BY <2>3, <2>4, <2>5 DEF NetInv
  <1>3. CASE Open /\ Goto("poll") /\ \E state \in OpenStates :
             cs' = [NoConnection EXCEPT !.live = TRUE, !.state = state, !.pcb = "open"]
    <2>1. PICK state \in OpenStates :
             cs' = [NoConnection EXCEPT !.live = TRUE, !.state = state, !.pcb = "open"]
      BY <1>3
    <2>2. state \in {"ERROR", "CONNECTION_STARTED", "WAITING"}
      BY DEF OpenStates
    <2>3. /\ cs' \in Connections /\ cs'.live = TRUE /\ cs'.state = state
          /\ cs'.pcb = "open" /\ cs'.data = <<>> /\ cs'.block = 0
      BY <2>1, <2>2, Constants DEF Connections, States, NoConnection
    <2>4. /\ call' \in Calls /\ call'.at = "poll" /\ call'.fault = "none"
          /\ call'.ret = FALSE /\ call'.proto = call.proto /\ lwip' = lwip
      BY <1>0, <1>3 DEF Calls, Open, Goto
    <2>5. cs.state = "NONE"
      BY <1>0 DEF NoConnection
    <2> QED BY <1>0, <2>2, <2>3, <2>4, <2>5
         DEF NetInv, Typed, Outcome, Memory, Received, Request, FaultsExplained,
             AnswerComplete, RequestSent, Tcp
  <1> QED BY <1>1, <1>2, <1>3 DEF Open, Unknown, Goto

----------------------------------------------------------------------------
(* The callbacks: all of them run in the sleep of a connection that is     *)
(* open, and leave the call and the response alone.                        *)
LEMMA CallbackStep ==
    ASSUME NetInv, connected_cb \/ recv_cb \/ poll_cb \/ err_cb \/ UDPClient_recv_cb
    PROVE  NetInv'
  <1>0. /\ call \in Calls /\ cs \in Connections /\ res \in Responses /\ lwip \in Lwips
        /\ call.at = "sleep" /\ cs.pcb = "open" /\ call' = call /\ res' = res
        /\ call.fault = "none" /\ call.ret = FALSE /\ res = NoResponse
        /\ cs.data = lwip.arrived
    BY DEF NetInv, Typed, Outcome, Received, connected_cb, recv_cb, poll_cb, err_cb,
           UDPClient_recv_cb, CallbackDue, At, Calls
  <1>1. SUFFICES cs' \in Connections /\ lwip' \in Lwips /\ Memory' /\ Received' /\ Request'
    BY <1>0 DEF NetInv, Typed, Outcome, FaultsExplained, AnswerComplete, RequestSent
  <1>2. Memory /\ Received /\ Request
    BY DEF NetInv
  <1>3. /\ Noted \in Lwips /\ Noted.overtaken = (lwip.overtaken \/ lwip.fresh)
        /\ Noted.up = lwip.up /\ Noted.eof = lwip.eof /\ Noted.written = lwip.written
        /\ Noted.fresh = lwip.fresh /\ Noted.refused = lwip.refused /\ Noted.errors = lwip.errors
        /\ Noted.arrived = lwip.arrived
    BY <1>0 DEF Noted, Lwips
  <1>4. CASE connected_cb
    <2>1. CASE cs' = Closed(cs)
      <3>1. /\ cs' \in Connections /\ cs'.live = FALSE /\ cs'.pcb = "none"
            /\ cs'.data = cs.data /\ cs'.block = cs.block /\ cs'.state = cs.state
        BY <1>0, <2>1 DEF Closed, Connections
      <3>2. lwip' = [lwip EXCEPT !.errors = @ \cup {"callback"}]
        <4>1. cs'.live = FALSE \/ cs'.state = "CONNECTED"
          BY <3>1
        <4>2. [cs EXCEPT !.state = "CONNECTED"].pcb = "open"
          BY <1>0 DEF Connections
        <4> QED BY <1>4, <3>1, <4>2 DEF connected_cb
      <3>3. /\ lwip' \in Lwips /\ "callback" \in lwip'.errors
            /\ lwip'.arrived = lwip.arrived /\ lwip'.eof = lwip.eof /\ lwip'.up = lwip.up
            /\ lwip'.written = lwip.written /\ lwip'.fresh = lwip.fresh /\ lwip'.refused = lwip.refused
            /\ lwip'.overtaken = lwip.overtaken
        BY <1>0, <3>2 DEF Lwips
      <3> QED BY <1>0, <1>2, <3>1, <3>3 DEF Memory, Received, Request, Tcp
    <2>2. CASE ~(cs' = Closed(cs))
      <3>1. cs' = [cs EXCEPT !.state = "CONNECTED"]
            /\ lwip' = [lwip EXCEPT !.up = TRUE, !.fresh = TRUE]
        BY <1>4, <2>2 DEF connected_cb
      <3>2. /\ cs' \in Connections /\ cs'.state = "CONNECTED" /\ cs'.live = cs.live
            /\ cs'.pcb = cs.pcb /\ cs'.data = cs.data /\ cs'.block = cs.block
        BY <1>0, <3>1 DEF Connections, States
      <3>3. /\ lwip' \in Lwips /\ lwip'.up = TRUE /\ lwip'.fresh = TRUE
            /\ lwip'.errors = lwip.errors /\ lwip'.arrived = lwip.arrived
            /\ lwip'.eof = lwip.eof /\ lwip'.written = lwip.written
            /\ lwip'.overtaken = lwip.overtaken
        BY <1>0, <3>1 DEF Lwips
      <3>4. Tcp
        BY <1>4 DEF connected_cb
      <3> QED BY <1>0, <1>2, <3>2, <3>3, <3>4 DEF Memory, Received, Request, Tcp
    <2> QED BY <2>1, <2>2
  (* A packet: TCP and UDP append it in the same way.                      *)
  <1>5. ASSUME NEW p \in Packets, NEW c \in Realloc(cs, p), NEW state \in States
        PROVE  LET d == [c EXCEPT !.state = state]
               IN  /\ d \in Connections /\ d.state = state /\ d.live = cs.live
                   /\ d.pcb = cs.pcb /\ d.data = Append(cs.data, p)
    <2>1. PICK b \in cs.block..(cs.block + 1) :
             c = [cs EXCEPT !.data = Append(@, p), !.block = b]
      BY DEF Realloc, Appended
    <2>2. Append(cs.data, p) \in Seq(Packets) /\ b \in Nat
      BY <1>0 DEF Connections
    <2>3. /\ c \in Connections /\ c.live = cs.live /\ c.pcb = cs.pcb
          /\ c.data = Append(cs.data, p)
      BY <1>0, <2>1, <2>2 DEF Connections
    <2> QED BY <2>3 DEF Connections
  <1>6. ASSUME NEW p \in Packets, NEW l \in Lwips, l.arrived = lwip.arrived
        PROVE  LET m == [l EXCEPT !.arrived = Append(@, p)]
               IN  /\ m \in Lwips /\ m.arrived = Append(lwip.arrived, p)
                   /\ m.arrived # <<>> /\ m.up = l.up /\ m.eof = l.eof
                   /\ m.written = l.written /\ m.fresh = l.fresh /\ m.refused = l.refused
                   /\ m.overtaken = l.overtaken /\ m.errors = l.errors
    <2>1. Append(lwip.arrived, p) \in Seq(Packets) /\ Append(lwip.arrived, p) # <<>>
      BY <1>0 DEF Lwips
    <2> QED BY <1>6, <2>1 DEF Lwips
  <1>7. CASE recv_cb
    <2>0. call.proto = "TCP" /\ lwip.up
      BY <1>7 DEF recv_cb, Tcp
    <2>1. ASSUME NEW p \in Packets, NEW c \in Realloc(cs, p),
                 cs' = [c EXCEPT !.state = "PACKET_RECVED"],
                 lwip' = [Noted EXCEPT !.arrived = Append(@, p)]
          PROVE  cs' \in Connections /\ lwip' \in Lwips /\ Memory' /\ Received' /\ Request'
      <3>1. "PACKET_RECVED" \in States
        BY DEF States
      <3>2. /\ cs' \in Connections /\ cs'.state = "PACKET_RECVED" /\ cs'.live = cs.live
            /\ cs'.pcb = cs.pcb /\ cs'.data = Append(cs.data, p)
        BY <1>5, <2>1, <3>1
      <3>3. /\ lwip' \in Lwips /\ lwip'.arrived = Append(lwip.arrived, p)
            /\ lwip'.arrived # <<>> /\ lwip'.up = lwip.up /\ lwip'.eof = lwip.eof
            /\ lwip'.written = lwip.written /\ lwip'.fresh = lwip.fresh /\ lwip'.refused = lwip.refused
            /\ lwip'.overtaken = (lwip.overtaken \/ lwip.fresh)
            /\ lwip'.errors = lwip.errors
        BY <1>3, <1>6, <2>1
      <3> QED BY <1>0, <1>2, <3>2, <3>3 DEF Memory, Received, Request, Tcp
    <2>2. CASE cs' = [cs EXCEPT !.state = "FINISHED"] /\ lwip' = [Noted EXCEPT !.eof = TRUE]
      <3>1. /\ cs' \in Connections /\ cs'.state = "FINISHED" /\ cs'.live = cs.live
            /\ cs'.pcb = cs.pcb /\ cs'.data = cs.data /\ cs'.block = cs.block
        BY <1>0, <2>2 DEF Connections, States
      <3>2. /\ lwip' \in Lwips /\ lwip'.arrived = lwip.arrived
            /\ lwip'.up = lwip.up /\ lwip'.eof = TRUE
            /\ lwip'.written = lwip.written /\ lwip'.fresh = lwip.fresh /\ lwip'.refused = lwip.refused
            /\ lwip'.overtaken = (lwip.overtaken \/ lwip.fresh)
            /\ lwip'.errors = lwip.errors
        BY <1>3, <2>2 DEF Lwips
      <3> QED BY <1>0, <1>2, <2>0, <3>1, <3>2 DEF Memory, Received, Request, Tcp
    <2>3. CASE /\ cs' = Closed([cs EXCEPT !.state = "ERROR"])
               /\ lwip' = [Noted EXCEPT !.errors = @ \cup {"callback"}]
      <3>1. /\ cs' \in Connections /\ cs'.state = "ERROR" /\ cs'.live = FALSE
            /\ cs'.pcb = "none" /\ cs'.data = cs.data /\ cs'.block = cs.block
        BY <1>0, <2>3 DEF Connections, States, Closed
      <3>2. /\ lwip' \in Lwips /\ lwip'.arrived = lwip.arrived
            /\ lwip'.up = lwip.up /\ lwip'.eof = lwip.eof
            /\ lwip'.written = lwip.written /\ lwip'.fresh = lwip.fresh /\ lwip'.refused = lwip.refused
            /\ lwip'.overtaken = (lwip.overtaken \/ lwip.fresh)
            /\ "callback" \in lwip'.errors
        BY <1>3, <2>3 DEF Lwips
      <3> QED BY <1>0, <1>2, <3>1, <3>2 DEF Memory, Received, Request, Tcp
    <2> QED BY <1>7, <2>1, <2>2, <2>3 DEF recv_cb
  <1>8. CASE poll_cb
    <2>1. /\ cs' \in Connections /\ cs'.state = "TIMEOUT" /\ cs'.live = cs.live
          /\ cs'.pcb = cs.pcb /\ cs'.data = cs.data /\ cs'.block = cs.block
      BY <1>0, <1>8 DEF poll_cb, Connections, States
    <2>2. lwip' = Noted
      BY <1>8 DEF poll_cb
    <2> QED BY <1>0, <1>2, <1>3, <2>1, <2>2 DEF Memory, Received, Request, Tcp
  <1>9. CASE err_cb
    <2>1. /\ cs' \in Connections /\ cs'.state = "ERROR" /\ cs'.live = cs.live
          /\ cs'.pcb = "freed" /\ cs'.data = cs.data /\ cs'.block = cs.block
      BY <1>0, <1>9 DEF err_cb, Connections, States
    <2>2. /\ lwip' \in Lwips /\ lwip'.arrived = lwip.arrived
          /\ lwip'.up = lwip.up /\ lwip'.eof = lwip.eof
          /\ lwip'.written = lwip.written /\ lwip'.fresh = lwip.fresh /\ lwip'.refused = lwip.refused
          /\ lwip'.overtaken = (lwip.overtaken \/ lwip.fresh)
          /\ lwip'.errors = lwip.errors \cup {"connection"}
      BY <1>3, <1>9 DEF err_cb, Lwips
    <2> QED BY <1>0, <1>2, <2>1, <2>2 DEF Memory, Received, Request, Tcp
  <1>10. CASE UDPClient_recv_cb
    <2>0. call.proto # "TCP"
      BY <1>10 DEF UDPClient_recv_cb, Tcp
    <2>1. ASSUME NEW p \in Packets, NEW c \in Realloc(cs, p),
                 cs' = [c EXCEPT !.state = "RECEIVED"],
                 lwip' = [lwip EXCEPT !.arrived = Append(@, p)]
          PROVE  cs' \in Connections /\ lwip' \in Lwips /\ Memory' /\ Received' /\ Request'
      <3>1. "RECEIVED" \in States
        BY DEF States
      <3>2. /\ cs' \in Connections /\ cs'.state = "RECEIVED" /\ cs'.live = cs.live
            /\ cs'.pcb = cs.pcb /\ cs'.data = Append(cs.data, p)
        BY <1>5, <2>1, <3>1
      <3>3. /\ lwip' \in Lwips /\ lwip'.arrived = Append(lwip.arrived, p)
            /\ lwip'.arrived # <<>> /\ lwip'.up = lwip.up /\ lwip'.eof = lwip.eof
            /\ lwip'.written = lwip.written /\ lwip'.fresh = lwip.fresh /\ lwip'.refused = lwip.refused
            /\ lwip'.overtaken = lwip.overtaken /\ lwip'.errors = lwip.errors
        BY <1>0, <1>6, <2>1
      <3> QED BY <1>0, <1>2, <2>0, <3>2, <3>3 DEF Memory, Received, Request, Tcp
    <2>2. CASE cs' = [cs EXCEPT !.state = "ERROR"] /\ UNCHANGED lwip
      <3>1. /\ cs' \in Connections /\ cs'.state = "ERROR" /\ cs'.live = cs.live
            /\ cs'.pcb = cs.pcb /\ cs'.data = cs.data /\ cs'.block = cs.block
        BY <1>0, <2>2 DEF Connections, States
      <3> QED BY <1>0, <1>2, <2>0, <2>2, <3>1 DEF Memory, Received, Request, Tcp
    <2> QED BY <1>10, <2>1, <2>2 DEF UDPClient_recv_cb
  <1> QED BY <1>4, <1>7, <1>8, <1>9, <1>10

----------------------------------------------------------------------------
(* The polling loop.                                                       *)
LEMMA PollStep ==
    ASSUME NetInv, Poll
    PROVE  NetInv'
  <1>0. /\ call \in Calls /\ cs \in Connections /\ res \in Responses /\ lwip \in Lwips
        /\ call.at = "poll" /\ cs.live /\ res' = res /\ res = NoResponse
        /\ call.fault = "none" /\ call.ret = FALSE /\ cs.data = lwip.arrived
    BY DEF NetInv, Typed, Outcome, Received, Poll, At, Calls
  <1>1. Memory /\ Received /\ Request
    BY DEF NetInv
  <1>2. /\ call' \in Calls /\ call'.at \in {"sleep", "finish"}
        /\ call'.fault = "none" /\ call'.ret = FALSE /\ call'.proto = call.proto
    <2>1. Loop \/ Goto("finish")
      BY DEF Poll
    <2>2. call.max_wait - 1 \in Int
      BY <1>0 DEF Calls
    <2> QED BY <1>0, <2>1, <2>2 DEF Loop, Goto, Counted, Calls
  <1>3. SUFFICES cs' \in Connections /\ lwip' \in Lwips /\ Memory' /\ Received' /\ Request'
    BY <1>0, <1>2 DEF NetInv, Typed, Outcome, FaultsExplained, AnswerComplete, RequestSent
  <1>4. CASE cs' = cs /\ lwip' = lwip /\ ~(Tcp /\ cs.state = "CONNECTED")
    BY <1>0, <1>1, <1>2, <1>4 DEF Memory, Received, Request, Tcp
  <1>5. ASSUME NEW state \in {"WAITING_PACKET", "ERROR", "FINISHED"},
               cs' = [cs EXCEPT !.state = state]
        PROVE  /\ cs' \in Connections /\ cs'.state = state /\ cs'.live = cs.live
               /\ cs'.pcb = cs.pcb /\ cs'.data = cs.data /\ cs'.block = cs.block
    BY <1>0, <1>5 DEF Connections, States
  <1>6. CASE cs' = [cs EXCEPT !.state = "WAITING_PACKET"] /\ lwip' = Written(lwip)
    <2>1. /\ lwip' \in Lwips /\ lwip'.arrived = lwip.arrived
          /\ lwip'.up = lwip.up /\ lwip'.eof = lwip.eof
          /\ lwip'.written = TRUE /\ lwip'.overtaken = lwip.overtaken
          /\ lwip'.errors = lwip.errors
      BY <1>0, <1>6 DEF Lwips, Written
    <2> QED BY <1>0, <1>1, <1>2, <1>5, <1>6, <2>1 DEF Memory, Received, Request, Tcp
  <1>7. CASE cs' = [cs EXCEPT !.state = "ERROR"] /\ lwip' = [lwip EXCEPT !.refused = TRUE]
    <2>1. /\ lwip' \in Lwips /\ lwip'.arrived = lwip.arrived
          /\ lwip'.up = lwip.up /\ lwip'.eof = lwip.eof /\ lwip'.refused = TRUE
          /\ lwip'.errors = lwip.errors
      BY <1>0, <1>7 DEF Lwips
    <2> QED BY <1>0, <1>1, <1>2, <1>5, <1>7, <2>1 DEF Memory, Received, Request, Tcp
  <1>9. CASE /\ cs.state = "PACKET_RECVED"
             /\ cs' = [cs EXCEPT !.state = "WAITING_PACKET"] /\ lwip' = lwip
    BY <1>0, <1>1, <1>2, <1>5, <1>9 DEF Memory, Received, Request, Tcp
  <1>8. CASE /\ cs.state = "RECEIVED"
             /\ cs' = [cs EXCEPT !.state = "FINISHED"] /\ lwip' = lwip
    BY <1>0, <1>1, <1>2, <1>5, <1>8 DEF Memory, Received, Request, Tcp
  <1> QED BY <1>0, <1>4, <1>6, <1>7, <1>8, <1>9 DEF Poll

(* The sleep ends; a connection that was freed is looked at.               *)
LEMMA SleepStep ==
    ASSUME NetInv, Net_sleep_ms \/ PollFreed \/ CloseFreed
    PROVE  NetInv'
  <1>0. /\ call \in Calls /\ cs' = cs /\ res' = res /\ Typed
        /\ call.fault = "none" /\ call.ret = FALSE /\ call.at \in {"sleep", "poll", "finish"}
        /\ Outcome /\ Memory /\ Received /\ Request
    BY DEF NetInv, Typed, Outcome, Net_sleep_ms, PollFreed, CloseFreed, At, Calls
  <1>1. CASE Net_sleep_ms
    <2>1. /\ call' \in Calls /\ call'.at = "poll" /\ call.at = "sleep"
          /\ call'.fault = "none" /\ call'.ret = FALSE /\ call'.proto = call.proto
      BY <1>0, <1>1 DEF Net_sleep_ms, Goto, At, Calls
    <2>2. /\ lwip' \in Lwips /\ lwip'.arrived = lwip.arrived
          /\ lwip'.up = lwip.up /\ lwip'.eof = lwip.eof
          /\ lwip'.written = lwip.written /\ lwip'.refused = lwip.refused
          /\ lwip'.overtaken = lwip.overtaken /\ lwip'.errors = lwip.errors
      BY <1>0, <1>1 DEF Net_sleep_ms, Typed, Lwips
    <2> QED BY <1>0, <2>1, <2>2 DEF NetInv, Typed, Outcome, Memory, Received, Request,
                              FaultsExplained, AnswerComplete, RequestSent, Tcp
  <1>2. CASE PollFreed
    <2>1. /\ call' \in Calls /\ call'.at = "fault" /\ call.at = "poll" /\ ~cs.live
          /\ call'.fault = "cs" /\ call'.ret = FALSE /\ call'.proto = call.proto
          /\ lwip' = lwip
      BY <1>0, <1>2 DEF PollFreed, Fault, At, Calls
    <2> QED BY <1>0, <2>1 DEF NetInv, Typed, Outcome, Memory, Received, Request,
                              FaultsExplained, AnswerComplete, RequestSent, Tcp
  <1>3. CASE CloseFreed
    <2>1. /\ call' \in Calls /\ call'.at = "fault" /\ cs.pcb = "freed"
          /\ call'.fault = "pcb" /\ call'.ret = FALSE /\ call'.proto = call.proto
          /\ lwip' = lwip
      BY <1>0, <1>3 DEF CloseFreed, Fault, At, Calls
    <2> QED BY <1>0, <2>1 DEF NetInv, Typed, Outcome, Memory, Received, Request,
                              FaultsExplained, AnswerComplete, RequestSent, Tcp
  <1> QED BY <1>1, <1>2, <1>3

(* The end of the call: only here is the outcome stored.                   *)
LEMMA FinishStep ==
    ASSUME NetInv, Finish
    PROVE  NetInv'
  <1> DEFINE r == IF TimedOut THEN res ELSE [data |-> cs.data, block |-> cs.block]
  <1>0. /\ call \in Calls /\ cs \in Connections /\ res \in Responses /\ lwip \in Lwips
        /\ call.at = "finish" /\ cs.pcb # "freed" /\ res = NoResponse /\ lwip' = lwip
        /\ call.fault = "none" /\ call.ret = FALSE /\ cs.data = lwip.arrived
        /\ Memory /\ Received /\ Request
    BY DEF NetInv, Typed, Outcome, Received, Finish, At, Calls
  <1>1. /\ res' = r /\ cs' = Closed(cs)
        /\ call' = [call EXCEPT !.ret = (cs.state = "FINISHED"),
                                !.at = IF r.block = cs.block THEN "returned" ELSE "fault",
                                !.fault = IF r.block = cs.block THEN "none" ELSE "data"]
    BY DEF Finish
  <1>2. res' \in Responses
    BY <1>0, <1>1 DEF Responses, Connections
  <1>3. /\ cs' \in Connections /\ cs'.pcb = "none" /\ cs'.data = cs.data
        /\ cs'.block = cs.block /\ cs'.state = cs.state
    BY <1>0, <1>1 DEF Connections, Closed
  <1>4. /\ call' \in Calls /\ call'.proto = call.proto /\ call'.max_wait = call.max_wait
        /\ call'.ret = (cs.state = "FINISHED") /\ call'.at \in {"returned", "fault"}
        /\ call'.at # "fault" => call'.fault = "none"
        /\ call'.fault \in {"none", "data"}
        /\ call'.fault = "data" => r.block # cs.block
    <2> HIDE DEF r
    <2> QED BY <1>0, <1>1 DEF Calls
  <1>5. r.block # cs.block => call.max_wait <= 0 /\ cs.block # 0
    BY <1>0 DEF TimedOut, NoResponse
  <1>6. FaultsExplained'
    <2> HIDE DEF r
    <2> QED BY <1>0, <1>4, <1>5 DEF FaultsExplained, Memory
  <1>7. AnswerComplete'
    <2>1. call.max_wait > 0 => res'.data = lwip.arrived
      BY <1>0, <1>1 DEF TimedOut, Calls
    <2> HIDE DEF r
    <2> QED BY <1>0, <1>4, <2>1 DEF AnswerComplete, Received, Tcp
  <1>8. RequestSent'
    <2> HIDE DEF r
    <2> QED BY <1>0, <1>4 DEF RequestSent, Received, Request, Tcp
  <1>9. Outcome' /\ Memory' /\ Received' /\ Request'
    <2> HIDE DEF r
    <2> QED BY <1>0, <1>3, <1>4 DEF Outcome, Memory, Received, Request, Tcp
  <1> HIDE DEF r
  <1> QED BY <1>0, <1>2, <1>3, <1>4, <1>6, <1>7, <1>8, <1>9 DEF NetInv, Typed

----------------------------------------------------------------------------
(* The invariant holds in every reachable state.                           *)
LEMMA NetInvariant == Spec => []NetInv
  <1>1. NetInv /\ [Next]_vars => NetInv'
    <2> SUFFICES ASSUME NetInv, [Next]_vars PROVE NetInv'
      OBVIOUS
    <2>1. CASE \E proto \in {"TCP", "UDP"} : Begin(proto)
      BY <2>1, BeginStep
    <2>2. CASE Callback
      BY <2>2, OpenStep, CallbackStep DEF Callback
    <2>3. CASE Client
      BY <2>3, OpenStep, PollStep, SleepStep, FinishStep DEF Client
    <2>4. CASE UNCHANGED vars
      BY <2>4 DEF vars, NetInv, Typed, Outcome, Memory, Received, Request,
                  FaultsExplained, AnswerComplete, RequestSent, Tcp
    <2> QED BY <2>1, <2>2, <2>3, <2>4 DEF Next
  <1> QED BY InitNet, <1>1, PTL DEF Spec

(* For any payloads and bounds, TCPClient_send and UDPClient_send use      *)
(* freed memory only in the three situations FaultsExplained names         *)
(* (tcp.c:40-142, 218-286).                                                *)
THEOREM FaultsAreExplained == Spec => []FaultsExplained
  BY NetInvariant, PTL DEF NetInv

(* For any payloads and bounds, a call that succeeds before its last poll  *)
(* returns every packet that has arrived, in order (tcp.c:64-102, 257-286, *)
(* udp.c:30-57, 146-176).                                                  *)
THEOREM AnswersAreComplete == Spec => []AnswerComplete
  BY NetInvariant, PTL DEF NetInv

(* For any payloads and bounds, a TCP call that succeeds has sent its      *)
(* request, unless its CONNECTED was overwritten in the sleep that stored  *)
(* it, or altcp_write failed and the end of the stream overwrote the ERROR *)
(* (tcp.c:64-122, 225-243, 266-282).                                       *)
THEOREM RequestIsSent == Spec => []RequestSent
  BY NetInvariant, PTL DEF NetInv
=============================================================================
