----------------------------- MODULE PsgProofs -----------------------------
(***************************************************************************)
(* Proofs about Psg: with a driver selected only after deinit, the two     *)
(* cores share the ring and the words of the FIFO without a fault.  And    *)
(* about PsgEnvelope, the envelope generator of the same file: the         *)
(* envelope follows its drawing.                                           *)
(***************************************************************************)
EXTENDS Psg, PsgEnvelope, Rings

----------------------------------------------------------------------------
(* The inductive invariant.                                                *)

Packets == [n : Nat, tick : Delays \cup {0}]
Places0 == {"idle", "alloc", "head", "tail", "start", "wait_ready", "push",
            "wait_done", "free"}
Working == {"loop", "peek", "copy", "due", "process"}
Places1 == Working \cup {"down", "boot", "spin"}

Core0s == [at : Places0, drv : BOOLEAN, alive : BOOLEAN, joining : BOOLEAN]
Core1s == [at : Places1, timer : BOOLEAN, pkt : Packets]
Buffers == [buf : {"NULL", "freed", "live"}, slot : [Indices -> Packets],
            head : Indices, tail : Indices]
Records == [pushed : Nat, played : Nat, fault : BOOLEAN]

Typed == core0 \in Core0s /\ core1 \in Core1s /\ rb \in Buffers /\ done \in Records

Words(a, b) == [to0 |-> a, to1 |-> b]

(* Where the two cores can be at the same time, and the words that are     *)
(* then under way.                                                         *)
BothStopped ==
    /\ core0.at \in {"idle", "alloc", "head", "tail", "start", "free"}
    /\ ~core0.alive /\ core1.at = "down" /\ fifo = Words(<<>>, <<>>)
Starting ==
    /\ core0.at = "wait_ready" /\ ~core0.alive
    /\ \/ core1.at = "boot" /\ fifo = Words(<<>>, <<"p1", "p2">>)
       \/ core1.at \in Working /\ fifo = Words(<<"ACK_CORE1_READY">>, <<>>)
Playing ==
    /\ core0.at \in {"idle", "push"} /\ core0.alive
    /\ core1.at \in Working /\ fifo = Words(<<>>, <<>>)
Stopping ==
    /\ core0.at = "wait_done" /\ core0.alive
    /\ \/ core1.at \in Working /\ fifo = Words(<<>>, <<"CMD_CLEANUP">>)
       \/ core1.at = "spin" /\ fifo = Words(<<"ACK_DONE">>, <<>>)

Handshake == BothStopped \/ Starting \/ Playing \/ Stopping

(* What deinit and reset_psg have set up before core 1 runs.               *)
Prepared ==
    /\ core0.at \in {"alloc", "head", "tail", "start", "wait_ready"} => core0.drv
    /\ core0.at \in {"head", "tail", "start", "wait_ready"} \/ core0.alive =>
          rb.buf = "live"
    /\ core0.at = "tail" => rb.head = 0

(* The packets in the ring, and how many core 1 has taken.                 *)
Queue == RingSeq(rb.slot, rb.tail, rb.head, QueueLen)
Taken == IF core1.at = "process" THEN done.played + 1 ELSE done.played
Waiting == IF core0.at = "push" THEN 1 ELSE 0

(* The packets are numbered without a gap from the one after the last that *)
(* was taken to the last that was pushed; core 1 holds the next one.       *)
Numbered ==
    /\ \A k \in 1..Len(Queue) : Queue[k].n = Taken + k
    /\ Taken + Len(Queue) + Waiting = done.pushed
    /\ core0.at = "push" => Len(Queue) < QueueLen - 1 /\ rb.slot[rb.head].n = done.pushed
    /\ core1.at \in {"copy", "due"} => rb.head # rb.tail
    /\ core1.at \in {"due", "process"} => core1.pkt.n = done.played + 1

Joined ==
    /\ core0.at = "wait_done" /\ core0.joining => rb.head = rb.tail
    /\ core0.at = "free" /\ core0.joining => done.played = done.pushed

Running == core0.at \in {"start", "wait_ready"} \/ core0.alive

Inv ==
    /\ Typed /\ Handshake /\ Prepared
    /\ Running => Numbered
    /\ Joined /\ NoFault

----------------------------------------------------------------------------
(* The ring.                                                               *)

LEMMA QueueFacts ==
    ASSUME Typed
    PROVE  /\ IsRing(rb.slot, rb.tail, rb.head, QueueLen)
           /\ Queue \in Seq(Packets)
           /\ Len(Queue) = RingLen(rb.tail, rb.head, QueueLen)
           /\ Len(Queue) \in Nat
           /\ Len(Queue) = 0 <=> rb.head = rb.tail
  <1>1. /\ QueueLen \in Nat \ {0} /\ rb.tail \in 0..(QueueLen - 1)
        /\ rb.head \in 0..(QueueLen - 1) /\ rb.slot \in [0..(QueueLen - 1) -> Packets]
    BY SizesAssumption DEF Typed, Buffers, Indices
  <1>2. IsRing(rb.slot, rb.tail, rb.head, QueueLen)
    BY <1>1 DEF IsRing
  <1>3. Queue \in Seq(Packets)
    BY <1>1, RingSeqIsSeq DEF Queue
  <1>4. Len(Queue) = RingLen(rb.tail, rb.head, QueueLen)
    BY <1>1, RingSeqIs DEF Queue
  <1> DEFINE h == rb.tail
             t == rb.head
  <1>5. RingLen(h, t, QueueLen) \in 0..(QueueLen - 1)
    <2> HIDE DEF h, t
    <2> QED BY <1>1, RingLenIs DEF h, t
  <1>6. RingLen(h, t, QueueLen) = 0 <=> h = t
    <2>1. QueueLen \in Nat \ {0} /\ h \in 0..(QueueLen - 1) /\ t \in 0..(QueueLen - 1)
      BY <1>1
    <2> HIDE DEF h, t
    <2> QED BY <2>1, RingLenIs
  <1> QED BY <1>2, <1>3, <1>4, <1>5, <1>6

(* The packet at the tail is the next one, whoever looks at it.            *)
LEMMA FirstPacket ==
    ASSUME Typed, Numbered, rb.head # rb.tail
    PROVE  rb.slot[rb.tail].n = Taken + 1
  <1>1. IsRing(rb.slot, rb.tail, rb.head, QueueLen) /\ Queue \in Seq(Packets)
        /\ Len(Queue) \in Nat \ {0}
    BY QueueFacts
  <1>2. Queue[1].n = Taken + 1
    BY <1>1 DEF Numbered
  <1>3. Queue[1] = rb.slot[rb.tail]
    <2>1. /\ QueueLen \in Nat \ {0} /\ rb.tail \in 0..(QueueLen - 1)
          /\ rb.head \in 0..(QueueLen - 1) /\ 1 \in 1..QueueLen
      BY <1>1 DEF IsRing
    <2>2. Place(rb.tail, 1, QueueLen) = rb.tail
      BY <2>1, PlaceIs
    <2>3. 1 \in 1..RingLen(rb.tail, rb.head, QueueLen)
      BY <1>1, QueueFacts
    <2>4. Queue[1] = rb.slot[Place(rb.tail, 1, QueueLen)]
      BY <2>3 DEF Queue, RingSeq
    <2> QED BY <2>2, <2>4
  <1> QED BY <1>2, <1>3

(* Steps that leave the ring alone.                                        *)
LEMMA NumberedKept ==
    ASSUME Numbered, UNCHANGED rb, Waiting' = Waiting, Taken' = Taken,
           done'.pushed = done.pushed, core0'.at = "push" => core0.at = "push",
           core1'.at \in {"copy", "due"} => rb.head # rb.tail,
           core1'.at \in {"due", "process"} => core1'.pkt.n = done'.played + 1
    PROVE  Numbered'
  <1>1. Queue' = Queue
    BY DEF Queue
  <1> QED BY <1>1 DEF Numbered

----------------------------------------------------------------------------
(* Records.                                                                *)

LEMMA Goto0Is ==
    ASSUME Typed, NEW place \in Places0, Goto0(place)
    PROVE  /\ core0' \in Core0s /\ core0'.at = place
           /\ core0'.drv = core0.drv /\ core0'.alive = core0.alive
           /\ core0'.joining = core0.joining
  BY DEF Typed, Core0s, Goto0

LEMMA Goto1Is ==
    ASSUME Typed, NEW place \in Places1, Goto1(place)
    PROVE  /\ core1' \in Core1s /\ core1'.at = place /\ core1'.pkt = core1.pkt
  BY DEF Typed, Core1s, Goto1

LEMMA GarbageIs == Garbage \in Packets /\ Garbage.n = 0
  BY DEF Garbage, Packets

----------------------------------------------------------------------------
(* Core 0: from select to a running core 1.                                *)

LEMMA SelectStep ==
    ASSUME Inv, ~Reselect, Select
    PROVE  Inv'
  <1> USE DEF Select, At0
  <1>1. core0.at = "idle" /\ ~core0.alive /\ core1.at = "down" /\ fifo = Words(<<>>, <<>>)
    BY DEF Inv, Handshake, BothStopped, Starting, Playing, Stopping
  <1>2. /\ core0' \in Core0s /\ core0'.at = "alloc" /\ core0'.drv = TRUE
        /\ core0'.alive = core0.alive /\ core0'.joining = FALSE
    BY DEF Inv, Typed, Core0s, Places0
  <1>3. rb' \in Buffers
    BY DEF Inv, Typed, Buffers
  <1>4. Typed'
    BY <1>2, <1>3 DEF Inv, Typed
  <1>5. Handshake'
    BY <1>1, <1>2 DEF Handshake, BothStopped
  <1>6. Prepared' /\ ~Running' /\ Joined'
    BY <1>1, <1>2 DEF Prepared, Running, Joined
  <1> QED BY <1>4, <1>5, <1>6 DEF Inv, NoFault

LEMMA ResetAllocStep ==
    ASSUME Inv, ResetAlloc
    PROVE  Inv'
  <1> USE DEF ResetAlloc, At0
  <1>1. core0.at = "alloc" /\ ~core0.alive /\ core1.at = "down" /\ fifo = Words(<<>>, <<>>)
    BY DEF Inv, Handshake, BothStopped, Starting, Playing, Stopping
  <1>2. /\ core0' \in Core0s /\ core0'.at = "head" /\ core0'.drv = core0.drv
        /\ core0'.alive = core0.alive
    BY Goto0Is DEF Inv, Places0
  <1>3. rb' \in Buffers /\ rb'.buf = "live"
    BY GarbageIs DEF Inv, Typed, Buffers
  <1>4. Typed'
    BY <1>2, <1>3 DEF Inv, Typed
  <1>5. Handshake'
    BY <1>1, <1>2 DEF Handshake, BothStopped
  <1>6. Prepared' /\ ~Running' /\ Joined'
    BY <1>1, <1>2, <1>3 DEF Inv, Prepared, Running, Joined
  <1> QED BY <1>4, <1>5, <1>6 DEF Inv, NoFault

LEMMA ResetHeadStep ==
    ASSUME Inv, ResetHead
    PROVE  Inv'
  <1> USE DEF ResetHead, At0
  <1>1. core0.at = "head" /\ ~core0.alive /\ core1.at = "down" /\ fifo = Words(<<>>, <<>>)
    BY DEF Inv, Handshake, BothStopped, Starting, Playing, Stopping
  <1>2. /\ core0' \in Core0s /\ core0'.at = "tail" /\ core0'.drv = core0.drv
        /\ core0'.alive = core0.alive
    BY Goto0Is DEF Inv, Places0
  <1>3. rb' \in Buffers /\ rb'.buf = rb.buf /\ rb'.head = 0
    <2>1. 0 \in Indices
      BY SizesAssumption DEF Indices
    <2> QED BY <2>1 DEF Inv, Typed, Buffers
  <1>4. Typed'
    BY <1>2, <1>3 DEF Inv, Typed
  <1>5. Handshake'
    BY <1>1, <1>2 DEF Handshake, BothStopped
  <1>6. Prepared' /\ ~Running' /\ Joined'
    BY <1>1, <1>2, <1>3 DEF Inv, Prepared, Running, Joined
  <1> QED BY <1>4, <1>5, <1>6 DEF Inv, NoFault

(* The ring is empty and the numbers start again.                          *)
LEMMA ResetTailStep ==
    ASSUME Inv, ResetTail
    PROVE  Inv'
  <1> USE DEF ResetTail, At0
  <1>1. core0.at = "tail" /\ ~core0.alive /\ core1.at = "down" /\ fifo = Words(<<>>, <<>>)
    BY DEF Inv, Handshake, BothStopped, Starting, Playing, Stopping
  <1>2. /\ core0' \in Core0s /\ core0'.at = "start" /\ core0'.drv = core0.drv
        /\ core0'.alive = core0.alive
    BY Goto0Is DEF Inv, Places0
  <1>3. 0 \in Indices
    BY SizesAssumption DEF Indices
  <1>4. rb' \in Buffers /\ rb'.buf = rb.buf /\ rb'.head = rb.head /\ rb'.tail = 0
    BY <1>3 DEF Inv, Typed, Buffers, TailReset
  <1>5. done' \in Records /\ done'.pushed = 0 /\ done'.played = 0 /\ done'.fault = done.fault
    BY DEF Inv, Typed, Records
  <1>6. Typed'
    BY <1>2, <1>4, <1>5 DEF Inv, Typed
  <1>7. Handshake'
    BY <1>1, <1>2 DEF Handshake, BothStopped
  <1>8. Prepared' /\ Joined'
    BY <1>1, <1>2, <1>4 DEF Inv, Prepared, Joined
  <1>9. Numbered'
    <2>1. rb'.head = 0
      BY <1>1, <1>4 DEF Inv, Prepared
    <2>2. Queue' = <<>>
      <3>1. RingSeq(rb'.slot, 0, 0, QueueLen) = <<>>
        BY <1>3, SizesAssumption, RingEmpty DEF Indices
      <3> QED BY <1>4, <2>1, <3>1 DEF Queue
    <2>3. Taken' = 0 /\ Waiting' = 0 /\ core1'.at = "down"
      BY <1>1, <1>2, <1>5 DEF Taken, Waiting
    <2> QED BY <1>2, <1>5, <2>2, <2>3 DEF Numbered
  <1> QED BY <1>5, <1>6, <1>7, <1>8, <1>9 DEF Inv, NoFault

LEMMA StartStep ==
    ASSUME Inv, Start
    PROVE  Inv'
  <1> USE DEF Start, At0
  <1>1. core0.at = "start" /\ ~core0.alive /\ core1.at = "down" /\ fifo = Words(<<>>, <<>>)
    BY DEF Inv, Handshake, BothStopped, Starting, Playing, Stopping
  <1>2. /\ core0' \in Core0s /\ core0'.at = "wait_ready" /\ core0'.drv = core0.drv
        /\ core0'.alive = core0.alive
    BY <1>1, Goto0Is DEF Inv, Places0
  <1>3. core1' \in Core1s /\ core1'.at = "boot"
    BY <1>1, Goto1Is DEF Inv, Places1
  <1>4. fifo' = Words(<<>>, <<"p1", "p2">>)
    <2>1. fifo' = [fifo EXCEPT !.to1 = @ \o <<"p1", "p2">>]
      BY <1>1
    <2>2. <<>> \o <<"p1", "p2">> = <<"p1", "p2">>
      OBVIOUS
    <2> QED BY <1>1, <2>1, <2>2 DEF Words
  <1>5. Typed'
    BY <1>2, <1>3 DEF Inv, Typed
  <1>6. Handshake'
    BY <1>1, <1>2, <1>3, <1>4 DEF Handshake, Starting
  <1>7. Prepared' /\ Joined'
    BY <1>1, <1>2 DEF Inv, Prepared, Joined
  <1>8. Numbered'
    <2>1. Numbered
      BY <1>1 DEF Inv, Running
    <2> QED BY <1>1, <1>2, <1>3, <2>1, NumberedKept DEF Taken, Waiting
  <1> QED BY <1>5, <1>6, <1>7, <1>8 DEF Inv, NoFault

LEMMA WaitReadyStep ==
    ASSUME Inv, WaitReady
    PROVE  Inv'
  <1> USE DEF WaitReady, At0
  <1>1. core0.at = "wait_ready" /\ ~core0.alive /\ fifo.to0 # <<>> /\ Starting
    BY DEF Inv, Handshake, BothStopped, Starting, Playing, Stopping
  <1>2. core1.at \in Working /\ fifo = Words(<<"ACK_CORE1_READY">>, <<>>)
    BY <1>1 DEF Starting, Words
  <1>3. /\ core0' \in Core0s /\ core0'.at = "idle" /\ core0'.drv = core0.drv
        /\ core0'.alive = TRUE
    BY DEF Inv, Typed, Core0s, Places0
  <1>4. fifo' = Words(<<>>, <<>>)
    <2>1. Tail(<<"ACK_CORE1_READY">>) = <<>>
      OBVIOUS
    <2> QED BY <1>2, <2>1 DEF Words
  <1>5. Typed'
    BY <1>3 DEF Inv, Typed
  <1>6. Handshake'
    BY <1>2, <1>3, <1>4 DEF Handshake, Playing
  <1>7. Prepared' /\ Joined'
    BY <1>1, <1>3 DEF Inv, Prepared, Joined
  <1>8. Numbered'
    <2>1. Numbered
      BY <1>1 DEF Inv, Running
    <2> QED BY <1>1, <1>3, <2>1, NumberedKept DEF Taken, Waiting, Numbered
  <1> QED BY <1>5, <1>6, <1>7, <1>8 DEF Inv, NoFault

----------------------------------------------------------------------------
(* Core 0: PSG_rb_push.                                                    *)

LEMMA RingCells ==
    ASSUME Typed, NEW x \in Packets, rb' = [rb EXCEPT !.slot[rb.head] = x]
    PROVE  /\ rb' \in Buffers
           /\ rb'.buf = rb.buf /\ rb'.head = rb.head /\ rb'.tail = rb.tail
           /\ rb'.slot = [rb.slot EXCEPT ![rb.head] = x]
  <1> DEFINE c == [rb.slot EXCEPT ![rb.head] = x]
  <1>1. rb \in Buffers /\ c \in [Indices -> Packets]
    BY DEF Typed, Buffers
  <1>2. rb' = [rb EXCEPT !.slot = c]
    BY <1>1 DEF Buffers
  <1> HIDE DEF c
  <1>3. rb' \in Buffers /\ rb'.buf = rb.buf /\ rb'.head = rb.head /\ rb'.tail = rb.tail
        /\ rb'.slot = c
    BY <1>1, <1>2 DEF Buffers
  <1> QED BY <1>3 DEF c

(* The packet is written to the entry that core 1 does not look at.        *)
LEMMA PushStoreStep ==
    ASSUME Inv, ~LatePush, NEW tick \in Delays, PushStore(tick)
    PROVE  Inv'
  <1> USE DEF PushStore, At0
  <1> DEFINE x == [n |-> done.pushed + 1, tick |-> tick]
  <1>1. /\ core0.at = "idle" /\ core0.alive /\ Playing /\ ~Full
    BY DEF Inv, Handshake, BothStopped, Starting, Playing, Stopping
  <1>2. /\ core0' \in Core0s /\ core0'.at = "push" /\ core0'.drv = core0.drv
        /\ core0'.alive = core0.alive
    BY Goto0Is DEF Inv, Places0
  <1>3. done.pushed \in Nat /\ done.played \in Nat
    BY DEF Inv, Typed, Records
  <1>4. done' \in Records /\ done'.pushed = done.pushed + 1
        /\ done'.played = done.played /\ done'.fault = done.fault
    <2>1. rb.buf = "live"
      BY <1>1 DEF Inv, Prepared
    <2>2. done \in Records
      BY DEF Inv, Typed
    <2>3. (done.fault \/ rb.buf # "live") = done.fault
      BY <2>1, <2>2 DEF Records
    <2>4. done' = [done EXCEPT !.pushed = done.pushed + 1, !.fault = done.fault]
      BY <2>3
    <2>5. done.pushed + 1 \in Nat /\ done.fault \in BOOLEAN
      BY <1>3, <2>2 DEF Records
    <2> HIDE DEF x
    <2> QED BY <2>2, <2>4, <2>5 DEF Records
  <1>5. x \in Packets /\ x.n = done.pushed + 1
    BY <1>3 DEF Packets
  <1>6. /\ rb' \in Buffers
        /\ rb'.buf = rb.buf /\ rb'.head = rb.head /\ rb'.tail = rb.tail
        /\ rb'.slot = [rb.slot EXCEPT ![rb.head] = x]
    <2>1. rb' = [rb EXCEPT !.slot[rb.head] = x]
      OBVIOUS
    <2> HIDE DEF x
    <2> QED BY <1>5, <2>1, RingCells DEF Inv
  <1> HIDE DEF x
  <1>7. Typed'
    BY <1>2, <1>4, <1>6 DEF Inv, Typed
  <1>8. Handshake'
    BY <1>1, <1>2 DEF Handshake, Playing
  <1>9. Prepared' /\ Joined'
    BY <1>1, <1>2, <1>6 DEF Inv, Prepared, Joined
  <1>10. Numbered'
    <2>1. Numbered
      BY <1>1 DEF Inv, Running
    <2>2. IsRing(rb.slot, rb.tail, rb.head, QueueLen) /\ Len(Queue) \in Nat
          /\ Len(Queue) = RingLen(rb.tail, rb.head, QueueLen)
      BY QueueFacts DEF Inv
    <2>3. Queue' = Queue
      <3>1. Stored(rb'.slot, rb.slot, rb.head, x)
        BY <1>6 DEF Stored
      <3>2. RingSeq(rb'.slot, rb.tail, rb.head, QueueLen)
              = RingSeq(rb.slot, rb.tail, rb.head, QueueLen)
        BY <2>2, <3>1, RingStore
      <3> QED BY <1>6, <3>2 DEF Queue
    <2>4. Len(Queue) < QueueLen - 1
      <3>1. (rb.head + 1) % QueueLen # rb.tail
        BY <1>1 DEF Full, Next1
      <3>2. HasRoom(rb.tail, rb.head, QueueLen)
        BY <2>2, <3>1, RingRoom
      <3> QED BY <2>2, <3>2 DEF HasRoom
    <2>5. rb'.slot[rb'.head].n = done'.pushed
      BY <1>4, <1>5, <1>6 DEF Inv, Typed, Buffers
    <2>6. Taken' = Taken /\ Waiting = 0 /\ Waiting' = 1 /\ Taken \in Nat
      BY <1>1, <1>2, <1>3, <1>4 DEF Taken, Waiting
    <2>7. Taken' + Len(Queue') + Waiting' = done'.pushed
      BY <1>3, <1>4, <2>1, <2>2, <2>3, <2>6 DEF Numbered
    <2>8. \A k \in 1..Len(Queue') : Queue'[k].n = Taken' + k
      BY <2>1, <2>3, <2>6 DEF Numbered
    <2> QED BY <1>2, <1>4, <1>6, <2>1, <2>3, <2>4, <2>5, <2>7, <2>8 DEF Numbered
  <1> QED BY <1>4, <1>7, <1>8, <1>9, <1>10 DEF Inv, NoFault

(* The head is advanced over it.                                           *)
LEMMA PushHeadStep ==
    ASSUME Inv, PushHead
    PROVE  Inv'
  <1> USE DEF PushHead, At0
  <1>1. /\ core0.at = "push" /\ core0.alive /\ Playing
    BY DEF Inv, Handshake, BothStopped, Starting, Playing, Stopping
  <1>2. /\ core0' \in Core0s /\ core0'.at = "idle" /\ core0'.drv = core0.drv
        /\ core0'.alive = core0.alive
    BY Goto0Is DEF Inv, Places0
  <1>3. rb.head \in 0..(QueueLen - 1) /\ QueueLen \in Nat \ {0} /\ rb \in Buffers
    BY SizesAssumption DEF Inv, Typed, Buffers, Indices
  <1>4. Next1(rb.head) \in Indices
    BY <1>3, SuccessorIs DEF Next1, Indices
  <1>5. /\ rb' \in Buffers /\ rb'.buf = rb.buf /\ rb'.slot = rb.slot
        /\ rb'.head = Next1(rb.head) /\ rb'.tail = rb.tail
    <2> HIDE DEF Next1
    <2> QED BY <1>3, <1>4 DEF Buffers
  <1>6. Typed'
    BY <1>2, <1>5 DEF Inv, Typed
  <1>7. Handshake'
    BY <1>1, <1>2 DEF Handshake, Playing
  <1>8. Prepared' /\ Joined'
    BY <1>1, <1>2, <1>5 DEF Inv, Prepared, Joined
  <1>9. Numbered'
    <2> DEFINE x == rb.slot[rb.head]
    <2>1. Numbered /\ x.n = done.pushed /\ Len(Queue) < QueueLen - 1
      BY <1>1 DEF Inv, Running, Numbered
    <2>2. IsRing(rb.slot, rb.tail, rb.head, QueueLen) /\ Len(Queue) \in Nat
          /\ Queue \in Seq(Packets)
          /\ Len(Queue) = RingLen(rb.tail, rb.head, QueueLen)
      BY QueueFacts DEF Inv
    <2>3. Queue' = Append(Queue, x) /\ Len(Queue') = Len(Queue) + 1
      <3>1. Stored(rb'.slot, rb.slot, rb.head, x)
        BY <1>3, <1>5 DEF Buffers, Indices, Stored
      <3>2. Follows(rb'.head, rb.head, QueueLen)
        BY <1>5 DEF Follows, Next1
      <3>3. HasRoom(rb.tail, rb.head, QueueLen)
        BY <2>1, <2>2 DEF HasRoom
      <3>4. RingSeq(rb'.slot, rb.tail, rb'.head, QueueLen)
              = Append(RingSeq(rb.slot, rb.tail, rb.head, QueueLen), x)
        BY <2>2, <3>1, <3>2, <3>3, RingPut
      <3>5. Queue' = Append(Queue, x)
        BY <1>5, <3>4 DEF Queue
      <3>6. x \in Packets
        BY <1>3 DEF Buffers, Indices
      <3> QED BY <2>2, <3>5, <3>6, AppendProperties
    <2>4. rb'.head # rb'.tail
      <3> SUFFICES ASSUME rb'.head = rb.tail PROVE FALSE
        BY <1>5
      <3>1. RingSeq(rb'.slot, rb.tail, rb.tail, QueueLen) = <<>>
        <4>1. QueueLen \in Nat \ {0} /\ rb.tail \in 0..(QueueLen - 1)
          BY <2>2 DEF IsRing
        <4> QED BY <4>1, RingEmpty
      <3>2. Queue' = <<>>
        BY <1>5, <3>1 DEF Queue
      <3>3. Len(Queue') = 0
        BY <3>2
      <3> QED BY <2>2, <2>3, <3>3
    <2>5. /\ Taken' = Taken /\ Waiting = 1 /\ Waiting' = 0 /\ Taken \in Nat
          /\ done' = done /\ core1' = core1
      BY <1>1, <1>2 DEF Taken, Waiting, Inv, Typed, Records
    <2>6. Taken + Len(Queue) + 1 = done.pushed
      BY <2>1, <2>5 DEF Numbered
    <2>7. ASSUME NEW k \in 1..Len(Queue') PROVE Queue'[k].n = Taken' + k
      <3>1. CASE k \in 1..Len(Queue)
        <4>1. Queue'[k] = Queue[k]
          BY <2>2, <2>3, <3>1 DEF Buffers
        <4> QED BY <2>1, <2>5, <3>1, <4>1 DEF Numbered
      <3>2. CASE k = Len(Queue) + 1
        <4>1. Queue'[k] = x
          BY <2>2, <2>3, <3>2
        <4>2. Taken' + k = done.pushed
          BY <2>2, <2>5, <2>6, <3>2
        <4> QED BY <2>1, <4>1, <4>2
      <3> QED BY <2>2, <2>3, <3>1, <3>2
    <2>8. Taken' + Len(Queue') + Waiting' = done'.pushed
      BY <2>2, <2>3, <2>5, <2>6
    <2> QED BY <1>2, <2>1, <2>4, <2>5, <2>7, <2>8 DEF Numbered
  <1> QED BY <1>6, <1>7, <1>8, <1>9 DEF Inv, NoFault

----------------------------------------------------------------------------
(* Core 0: deinit.                                                         *)

LEMMA DeinitStep ==
    ASSUME Inv, NEW joining \in BOOLEAN, Deinit(joining)
    PROVE  Inv'
  <1> USE DEF Deinit, At0
  <1>1. core0.at = "idle" /\ (BothStopped \/ Playing)
    BY DEF Inv, Handshake, BothStopped, Starting, Playing, Stopping
  <1>2. CASE core0.alive
    <2>1. Playing
      BY <1>1, <1>2 DEF BothStopped
    <2>2. /\ core0' \in Core0s /\ core0'.at = "wait_done" /\ core0'.alive = core0.alive
          /\ core0'.joining = joining
      BY <1>2 DEF Inv, Typed, Core0s, Places0
    <2>3. fifo' = Words(<<>>, <<"CMD_CLEANUP">>)
      <3>1. Append(<<>>, "CMD_CLEANUP") = <<"CMD_CLEANUP">>
        OBVIOUS
      <3> QED BY <1>2, <2>1, <3>1 DEF Playing, Words
    <2>4. Typed'
      BY <2>2 DEF Inv, Typed
    <2>5. Handshake'
      BY <1>2, <2>1, <2>2, <2>3 DEF Handshake, Playing, Stopping
    <2>6. Prepared'
      BY <1>2, <2>2 DEF Inv, Prepared
    <2>7. Joined'
      BY <2>2 DEF Joined, buffer_empty_p
    <2>8. Numbered'
      <3>1. Numbered
        BY <1>2 DEF Inv, Running
      <3> QED BY <1>1, <2>2, <3>1, NumberedKept DEF Taken, Waiting, Numbered
    <2> QED BY <2>4, <2>5, <2>6, <2>7, <2>8 DEF Inv, NoFault
  <1>3. CASE ~core0.alive
    <2>1. BothStopped
      BY <1>1, <1>3 DEF Playing
    <2>2. /\ core0' \in Core0s /\ core0'.at = "free" /\ core0'.alive = core0.alive
          /\ core0'.joining = FALSE
      BY <1>3 DEF Inv, Typed, Core0s, Places0
    <2>3. Typed'
      BY <2>2 DEF Inv, Typed
    <2>4. Handshake'
      BY <1>3, <2>1, <2>2 DEF Handshake, BothStopped
    <2>5. Prepared' /\ Joined' /\ ~Running'
      BY <1>3, <2>2 DEF Prepared, Joined, Running
    <2> QED BY <2>3, <2>4, <2>5 DEF Inv, NoFault
  <1> QED BY <1>2, <1>3

(* The acknowledgement is the only word there, and core 1 has finished.    *)
LEMMA WaitDoneStep ==
    ASSUME Inv, WaitDone
    PROVE  Inv'
  <1> USE DEF WaitDone, At0
  <1>1. core0.at = "wait_done" /\ core0.alive /\ Stopping
    BY DEF Inv, Handshake, BothStopped, Starting, Playing, Stopping
  <1>2. core1.at = "spin" /\ fifo = Words(<<"ACK_DONE">>, <<>>)
    <2>1. fifo.to0 # <<>>
      OBVIOUS
    <2> QED BY <1>1, <2>1 DEF Stopping, Words
  <1>3. /\ core0' \in Core0s /\ core0'.at = "free" /\ core0'.alive = FALSE
        /\ core0'.joining = core0.joining
    BY DEF Inv, Typed, Core0s, Places0
  <1>4. core1' \in Core1s /\ core1'.at = "down"
    BY DEF Inv, Typed, Core1s, Places1
  <1>5. fifo' = Words(<<>>, <<>>)
    <2> DEFINE w == <<"ACK_DONE">>
    <2>1. AfterAck(w) = <<>>
      <3>1. DOMAIN w = {1} /\ Len(w) = 1 /\ w[1] = "ACK_DONE"
        OBVIOUS
      <3>2. (CHOOSE i \in DOMAIN w : w[i] = "ACK_DONE") = 1
        BY <3>1
      <3>3. SubSeq(w, 2, 1) = <<>>
        OBVIOUS
      <3> HIDE DEF w
      <3> QED BY <3>1, <3>2, <3>3 DEF AfterAck
    <2>2. fifo' = [fifo EXCEPT !.to0 = AfterAck(@)]
      OBVIOUS
    <2> QED BY <1>2, <2>1, <2>2 DEF Words
  <1>6. Typed'
    BY <1>3, <1>4 DEF Inv, Typed
  <1>7. Handshake'
    BY <1>3, <1>4, <1>5 DEF Handshake, BothStopped
  <1>8. Prepared' /\ ~Running'
    BY <1>3 DEF Prepared, Running
  <1>9. Joined'
    <2>1. ASSUME core0.joining PROVE done.played = done.pushed
      <3>1. rb.head = rb.tail
        BY <1>1, <2>1 DEF Inv, Joined
      <3>2. Len(Queue) = 0
        BY <3>1, QueueFacts DEF Inv
      <3>3. Numbered /\ done.played \in Nat
        BY <1>1 DEF Inv, Running, Typed, Records
      <3>4. Taken = done.played /\ Waiting = 0
        BY <1>1, <1>2 DEF Taken, Waiting
      <3>5. Taken + Len(Queue) + Waiting = done.pushed
        BY <3>3 DEF Numbered
      <3> QED BY <3>2, <3>3, <3>4, <3>5
    <2> QED BY <1>3, <2>1 DEF Joined
  <1> QED BY <1>6, <1>7, <1>8, <1>9 DEF Inv, NoFault

LEMMA DeinitFreeStep ==
    ASSUME Inv, DeinitFree
    PROVE  Inv'
  <1> USE DEF DeinitFree, At0
  <1>1. core0.at = "free" /\ ~core0.alive /\ core1.at = "down" /\ fifo = Words(<<>>, <<>>)
    BY DEF Inv, Handshake, BothStopped, Starting, Playing, Stopping
  <1>2. /\ core0' \in Core0s /\ core0'.at = "idle" /\ core0'.alive = core0.alive
    BY Goto0Is DEF Inv, Places0
  <1>3. rb' \in Buffers
    BY DEF Inv, Typed, Buffers
  <1>4. Typed'
    BY <1>2, <1>3 DEF Inv, Typed
  <1>5. Handshake'
    BY <1>1, <1>2 DEF Handshake, BothStopped
  <1>6. Prepared' /\ ~Running' /\ Joined'
    BY <1>1, <1>2 DEF Prepared, Running, Joined
  <1> QED BY <1>4, <1>5, <1>6 DEF Inv, NoFault

----------------------------------------------------------------------------
(* Core 1.                                                                 *)

(* While core 1 works, the ring is set up and core 0 is at one of the      *)
(* places from which it does not touch what core 1 reads.                  *)
LEMMA Active ==
    ASSUME Inv, core1.at \in Working
    PROVE  /\ Running /\ Numbered /\ rb.buf = "live"
           /\ core0.at \in {"wait_ready", "idle", "push", "wait_done"}
           /\ Starting \/ Playing \/ Stopping
  <1>1. Starting \/ Playing \/ Stopping
    BY DEF Inv, Handshake, BothStopped, Working
  <1>2. /\ core0.at = "wait_ready" \/ core0.alive
        /\ core0.at \in {"wait_ready", "idle", "push", "wait_done"}
    BY <1>1 DEF Starting, Playing, Stopping
  <1> QED BY <1>1, <1>2 DEF Inv, Running, Prepared

(* A step of core 1 from work to work leaves the handshake where it was.   *)
LEMMA StillActive ==
    ASSUME Inv, core1.at \in Working, core1'.at \in Working, UNCHANGED <<core0, fifo>>
    PROVE  Handshake'
  <1>1. Starting \/ Playing \/ Stopping
    BY Active
  <1>2. core1.at # "boot" /\ core1.at # "spin"
    BY DEF Working
  <1>3. CASE Starting
    BY <1>2, <1>3 DEF Handshake, Starting
  <1>4. CASE Playing
    BY <1>4 DEF Handshake, Playing
  <1>5. CASE Stopping
    BY <1>2, <1>5 DEF Handshake, Stopping
  <1> QED BY <1>1, <1>3, <1>4, <1>5

(* Such a step that leaves the ring and the counters alone too.            *)
LEMMA OnlyCore1Moves ==
    ASSUME Inv, core1.at \in Working, core1'.at \in Working, core1' \in Core1s,
           UNCHANGED <<core0, rb, fifo, done>>, Numbered'
    PROVE  Inv'
  <1>1. Typed'
    BY DEF Inv, Typed
  <1>2. Handshake'
    BY StillActive
  <1>3. Prepared'
    BY DEF Inv, Prepared
  <1>4. Joined'
    BY DEF Inv, Joined
  <1> QED BY <1>1, <1>2, <1>3, <1>4 DEF Inv, NoFault

(* Core 1 starts only after a driver was selected.                         *)
LEMMA BootStep ==
    ASSUME Inv, Boot
    PROVE  Inv'
  <1> USE DEF Boot, At1
  <1>1. core1.at = "boot" /\ core0.at = "wait_ready" /\ ~core0.alive
        /\ fifo = Words(<<>>, <<"p1", "p2">>)
    BY DEF Inv, Handshake, BothStopped, Starting, Playing, Stopping, Working
  <1>2. core1' \in Core1s /\ core1'.at = "loop" /\ core1'.at \in Working
    BY DEF Inv, Typed, Core1s, Places1, Working
  <1>3. fifo' = Words(<<"ACK_CORE1_READY">>, <<>>)
    <2> DEFINE w == <<"p1", "p2">>
    <2>1. Append(<<>>, "ACK_CORE1_READY") = <<"ACK_CORE1_READY">>
      OBVIOUS
    <2>2. SubSeq(w, 3, Len(w)) = <<>>
      <3>1. Len(w) = 2
        OBVIOUS
      <3>2. SubSeq(w, 3, 2) = <<>>
        OBVIOUS
      <3> QED BY <3>1, <3>2
    <2> HIDE DEF w
    <2>3. fifo.to0 = <<>> /\ fifo.to1 = w
      BY <1>1 DEF Words, w
    <2>4. fifo' = [to0 |-> Append(fifo.to0, "ACK_CORE1_READY"),
                   to1 |-> SubSeq(fifo.to1, 3, Len(fifo.to1))]
      OBVIOUS
    <2> QED BY <2>1, <2>2, <2>3, <2>4 DEF Words
  <1>4. core0.drv
    BY <1>1 DEF Inv, Prepared
  <1>5. /\ done' \in Records /\ done'.pushed = done.pushed /\ done'.played = done.played
        /\ done'.fault = done.fault
    BY <1>4 DEF Inv, Typed, Records
  <1>6. Typed'
    BY <1>2, <1>5 DEF Inv, Typed
  <1>7. Handshake'
    BY <1>1, <1>2, <1>3 DEF Handshake, Starting
  <1>8. Prepared' /\ Joined'
    BY <1>1 DEF Inv, Prepared, Joined
  <1>9. Numbered'
    <2>1. Numbered
      BY <1>1 DEF Inv, Running
    <2> QED BY <1>1, <1>2, <1>5, <2>1, NumberedKept DEF Taken, Waiting
  <1> QED BY <1>5, <1>6, <1>7, <1>8, <1>9 DEF Inv, NoFault

(* Only the loop answers CMD_CLEANUP: no packet is in the hands of core 1. *)
LEMMA CleanupStep ==
    ASSUME Inv, Cleanup
    PROVE  Inv'
  <1> USE DEF Cleanup, At1
  <1>1. core1.at = "loop" /\ core1.at \in Working
    BY DEF Working
  <1>2. Running /\ Numbered /\ (Starting \/ Playing \/ Stopping)
    BY <1>1, Active
  <1>3. core0.at = "wait_done" /\ core0.alive /\ fifo = Words(<<>>, <<"CMD_CLEANUP">>)
    <2>1. fifo.to1 # <<>>
      OBVIOUS
    <2> QED BY <1>1, <1>2, <2>1 DEF Starting, Playing, Stopping, Words
  <1>4. core1' \in Core1s /\ core1'.at = "spin"
    BY DEF Inv, Typed, Core1s, Places1
  <1>5. fifo' = Words(<<"ACK_DONE">>, <<>>)
    <2>1. Append(<<>>, "ACK_DONE") = <<"ACK_DONE">> /\ Tail(<<"CMD_CLEANUP">>) = <<>>
      OBVIOUS
    <2>2. fifo.to0 = <<>> /\ fifo.to1 = <<"CMD_CLEANUP">>
      BY <1>3 DEF Words
    <2> QED BY <2>1, <2>2 DEF CleanupAnswer, Words
  <1>6. Typed'
    BY <1>4 DEF Inv, Typed
  <1>7. Handshake'
    BY <1>3, <1>4, <1>5 DEF Handshake, Stopping
  <1>8. Prepared' /\ Joined'
    BY <1>3 DEF Inv, Prepared, Joined
  <1>9. Numbered'
    BY <1>1, <1>2, <1>4, NumberedKept DEF Taken, Waiting, Numbered
  <1> QED BY <1>6, <1>7, <1>8, <1>9 DEF Inv, NoFault

(* The tick interrupts the loop.                                           *)
LEMMA TickStep ==
    ASSUME Inv, tick_cb
    PROVE  Inv'
  <1> USE DEF tick_cb, At1
  <1>1. core1.at = "loop" /\ core1.at \in Working
    BY DEF Working
  <1>2. core1' \in Core1s /\ core1'.at = "peek" /\ core1'.at \in Working
    BY Goto1Is DEF Inv, Places1, Working
  <1>3. Numbered
    BY <1>1, Active
  <1>4. Numbered'
    BY <1>1, <1>2, <1>3, NumberedKept DEF Taken, Waiting
  <1> QED BY <1>1, <1>2, <1>4, OnlyCore1Moves

(* The head may be advanced after this test, never back to the tail.       *)
LEMMA PeekStep ==
    ASSUME Inv, PSG_rb_peek
    PROVE  Inv'
  <1> USE DEF PSG_rb_peek, At1
  <1>1. core1.at = "peek" /\ core1.at \in Working
    BY DEF Working
  <1>2. core1' \in Core1s /\ core1'.at \in {"loop", "copy"} /\ core1'.at \in Working
        /\ (core1'.at = "copy" => rb.head # rb.tail)
    BY Goto1Is DEF Inv, Places1, Working, Nothing
  <1>3. Numbered
    BY <1>1, Active
  <1>4. Numbered'
    BY <1>1, <1>2, <1>3, NumberedKept DEF Taken, Waiting
  <1> QED BY <1>1, <1>2, <1>4, OnlyCore1Moves

(* What core 1 copies is live, written, and the next packet.               *)
LEMMA CopyStep ==
    ASSUME Inv, PeekCopy
    PROVE  Inv'
  <1> USE DEF PeekCopy, At1
  <1> DEFINE x == rb.slot[rb.tail]
  <1>1. core1.at = "copy" /\ core1.at \in Working
    BY DEF Working
  <1>2. Numbered /\ rb.buf = "live" /\ rb.head # rb.tail
    BY <1>1, Active DEF Numbered
  <1>3. Taken = done.played /\ done.played \in Nat
    BY <1>1 DEF Taken, Inv, Typed, Records
  <1>4. x.n = done.played + 1
    BY <1>2, <1>3, FirstPacket DEF Inv
  <1>5. x # Garbage
    BY <1>3, <1>4, GarbageIs
  <1>6. x \in Packets
    BY DEF Inv, Typed, Buffers
  <1> HIDE DEF x
  <1>7. core1' = [core1 EXCEPT !.at = "due", !.pkt = x]
    BY DEF x
  <1>8. core1' \in Core1s /\ core1'.at = "due" /\ core1'.at \in Working /\ core1'.pkt = x
    BY <1>6, <1>7 DEF Inv, Typed, Core1s, Places1, Working
  <1>9. /\ done' \in Records /\ done'.pushed = done.pushed /\ done'.played = done.played
        /\ done'.fault = done.fault
    <2>1. done' = [done EXCEPT !.fault = @ \/ rb.buf # "live" \/ x = Garbage]
      BY DEF x
    <2> QED BY <1>2, <1>5, <2>1 DEF Inv, Typed, Records
  <1>10. Typed'
    BY <1>8, <1>9 DEF Inv, Typed
  <1>11. Handshake'
    BY <1>1, <1>8, StillActive
  <1>12. Prepared'
    BY DEF Inv, Prepared
  <1>13. Joined'
    BY <1>9 DEF Inv, Joined
  <1>14. Numbered'
    BY <1>1, <1>2, <1>4, <1>8, <1>9, NumberedKept DEF Taken, Waiting
  <1> QED BY <1>9, <1>10, <1>11, <1>12, <1>13, <1>14 DEF Inv, NoFault

(* A packet that is not due stays in the ring.                             *)
LEMMA NotYetStep ==
    ASSUME Inv, NotYet
    PROVE  Inv'
  <1> USE DEF NotYet, At1
  <1>1. core1.at = "due" /\ core1.at \in Working
    BY DEF Working
  <1>2. core1' \in Core1s /\ core1'.at = "loop" /\ core1'.at \in Working
    BY Goto1Is DEF Inv, Places1, Working
  <1>3. Numbered
    BY <1>1, Active
  <1>4. Numbered'
    BY <1>1, <1>2, <1>3, NumberedKept DEF Taken, Waiting
  <1> QED BY <1>1, <1>2, <1>4, OnlyCore1Moves

(* The packet that was copied is the one that is taken from the ring.      *)
LEMMA PopStep ==
    ASSUME Inv, PSG_rb_pop
    PROVE  Inv'
  <1> USE DEF PSG_rb_pop, At1
  <1>1. core1.at = "due" /\ core1.at \in Working
    BY DEF Working
  <1>2. Numbered /\ rb.head # rb.tail /\ core1.pkt.n = done.played + 1
    BY <1>1, Active DEF Numbered
  <1>3. core1' \in Core1s /\ core1'.at = "process" /\ core1'.at \in Working
        /\ core1'.pkt = core1.pkt
    BY Goto1Is DEF Inv, Places1, Working
  <1>4. rb.tail \in 0..(QueueLen - 1) /\ QueueLen \in Nat \ {0} /\ rb \in Buffers
    BY SizesAssumption DEF Inv, Typed, Buffers, Indices
  <1>5. Next1(rb.tail) \in Indices
    BY <1>4, SuccessorIs DEF Next1, Indices
  <1>6. /\ rb' \in Buffers /\ rb'.buf = rb.buf /\ rb'.slot = rb.slot
        /\ rb'.head = rb.head /\ rb'.tail = Next1(rb.tail)
    <2> HIDE DEF Next1
    <2> QED BY <1>4, <1>5 DEF Buffers
  <1>7. Typed'
    BY <1>3, <1>6 DEF Inv, Typed
  <1>8. Handshake'
    BY <1>1, <1>3, StillActive
  <1>9. Prepared'
    <2>1. core0.at # "tail"
      BY <1>1, Active
    <2> QED BY <1>6, <2>1 DEF Inv, Prepared
  <1>10. Joined'
    BY <1>2 DEF Inv, Joined
  <1>11. Numbered'
    <2>1. IsRing(rb.slot, rb.tail, rb.head, QueueLen) /\ Len(Queue) \in Nat
          /\ Queue \in Seq(Packets) /\ Len(Queue) # 0
      BY <1>2, QueueFacts DEF Inv
    <2>2. Queue' = Tail(Queue)
      <3>1. Follows(rb'.tail, rb.tail, QueueLen)
        BY <1>6 DEF Follows, Next1
      <3>2. RingSeq(rb.slot, rb'.tail, rb.head, QueueLen)
              = Tail(RingSeq(rb.slot, rb.tail, rb.head, QueueLen))
        BY <1>2, <2>1, <3>1, RingTake
      <3> QED BY <1>6, <3>2 DEF Queue
    <2>3. Queue # <<>>
      BY <2>1
    <2>4. Len(Queue') = Len(Queue) - 1
          /\ \A k \in 1..(Len(Queue) - 1) : Queue'[k] = Queue[k + 1]
      <3>1. /\ Len(Tail(Queue)) = Len(Queue) - 1
            /\ \A k \in 1..Len(Tail(Queue)) : Tail(Queue)[k] = Queue[k + 1]
        BY <2>1, <2>3, HeadTailProperties
      <3> QED BY <2>2, <3>1
    <2>5. /\ Taken = done.played /\ Taken' = done.played + 1 /\ Waiting' = Waiting
          /\ done.played \in Nat /\ Waiting \in {0, 1} /\ done.pushed \in Nat
      BY <1>1, <1>3 DEF Taken, Waiting, Inv, Typed, Records
    <2>6. ASSUME NEW k \in 1..Len(Queue') PROVE Queue'[k].n = Taken' + k
      <3>1. Queue'[k] = Queue[k + 1] /\ k + 1 \in 1..Len(Queue) /\ k \in Nat
        BY <2>1, <2>4
      <3>2. Queue[k + 1].n = Taken + (k + 1)
        BY <1>2, <3>1 DEF Numbered
      <3> QED BY <2>5, <3>1, <3>2
    <2>7. Taken' + Len(Queue') + Waiting' = done'.pushed
      <3>1. Taken + Len(Queue) + Waiting = done.pushed
        BY <1>2 DEF Numbered
      <3> QED BY <2>1, <2>4, <2>5, <3>1
    <2>8. core0.at = "push" => Len(Queue') < QueueLen - 1 /\ rb'.slot[rb'.head].n = done'.pushed
      <3>1. core0.at = "push" => Len(Queue) < QueueLen - 1 /\ rb.slot[rb.head].n = done.pushed
        BY <1>2 DEF Numbered
      <3> QED BY <1>4, <1>6, <2>1, <2>4, <3>1
    <2> QED BY <1>2, <1>3, <2>6, <2>7, <2>8 DEF Numbered
  <1> QED BY <1>7, <1>8, <1>9, <1>10, <1>11 DEF Inv, NoFault

(* It is processed in its turn.                                            *)
LEMMA ProcessStep ==
    ASSUME Inv, PSG_process_packet
    PROVE  Inv'
  <1> USE DEF PSG_process_packet, At1
  <1>1. core1.at = "process" /\ core1.at \in Working
    BY DEF Working
  <1>2. Numbered /\ core1.pkt.n = done.played + 1
    BY <1>1, Active DEF Numbered
  <1>3. core1' \in Core1s /\ core1'.at = "peek" /\ core1'.at \in Working
    BY Goto1Is DEF Inv, Places1, Working
  <1>4. done.played \in Nat
    BY DEF Inv, Typed, Records
  <1>5. /\ done' \in Records /\ done'.pushed = done.pushed
        /\ done'.played = done.played + 1 /\ done'.fault = done.fault
    <2> DEFINE m == done.played + 1
               f == done.fault \/ core1.pkt.n # m
    <2>1. done \in Records /\ m \in Nat
      BY <1>4 DEF Inv, Typed
    <2>2. f = done.fault
      BY <1>2, <2>1 DEF Records
    <2>3. done' = [done EXCEPT !.played = m, !.fault = f]
      BY <1>2
    <2> HIDE DEF m, f
    <2>4. done' \in Records /\ done'.pushed = done.pushed /\ done'.played = m
          /\ done'.fault = f
      BY <2>1, <2>2, <2>3 DEF Records
    <2> QED BY <2>2, <2>4 DEF m
  <1>6. Typed'
    BY <1>3, <1>5 DEF Inv, Typed
  <1>7. Handshake'
    BY <1>1, <1>3, StillActive
  <1>8. Prepared'
    BY DEF Inv, Prepared
  <1>9. Joined'
    <2>1. core0.at # "free"
      BY <1>1, Active
    <2> QED BY <2>1 DEF Inv, Joined
  <1>10. Numbered'
    <2>1. Taken = done.played + 1 /\ Taken' = done.played + 1 /\ Waiting' = Waiting
      BY <1>1, <1>3, <1>5 DEF Taken, Waiting
    <2> QED BY <1>2, <1>3, <1>5, <2>1, NumberedKept
  <1> QED BY <1>5, <1>6, <1>7, <1>8, <1>9, <1>10 DEF Inv, NoFault

----------------------------------------------------------------------------
(* The invariant of the specification.                                     *)

LEMMA InvInit ==
    ASSUME Init
    PROVE  Inv
  <1> USE DEF Init
  <1>1. core0 \in Core0s /\ core0.at = "idle" /\ ~core0.alive
    BY DEF Core0s, Places0
  <1>2. core1 \in Core1s /\ core1.at = "down"
    BY GarbageIs DEF Core1s, Places1
  <1>3. rb \in Buffers
    <2>1. 0 \in Indices
      BY SizesAssumption DEF Indices
    <2>2. [k \in Indices |-> Garbage] \in [Indices -> Packets]
      BY GarbageIs
    <2> QED BY <2>1, <2>2 DEF Buffers
  <1>4. done \in Records /\ ~done.fault
    BY DEF Records
  <1>5. Typed
    BY <1>1, <1>2, <1>3, <1>4 DEF Typed
  <1>6. Handshake
    BY <1>1, <1>2 DEF Handshake, BothStopped, Words
  <1>7. Prepared /\ Joined /\ ~Running
    BY <1>1 DEF Prepared, Joined, Running
  <1> QED BY <1>4, <1>5, <1>6, <1>7 DEF Inv, NoFault

LEMMA InvStutter ==
    ASSUME Inv, UNCHANGED vars
    PROVE  Inv'
  <1> USE DEF vars
  <1>1. Typed' /\ Handshake' /\ Prepared'
    BY DEF Inv, Typed, Handshake, BothStopped, Starting, Playing, Stopping, Prepared
  <1>2. Queue' = Queue /\ Taken' = Taken /\ Waiting' = Waiting
    BY DEF Queue, Taken, Waiting
  <1>3. Running' => Numbered'
    BY <1>2 DEF Inv, Running, Numbered
  <1>4. Joined' /\ NoFault'
    BY DEF Inv, Joined, NoFault
  <1> QED BY <1>1, <1>3, <1>4 DEF Inv

LEMMA InvStep ==
    ASSUME ~Reselect, ~LatePush, Inv, [Next]_vars
    PROVE  Inv'
  <1>1. CASE Script
    <2>1. CASE Select
      BY <2>1, SelectStep
    <2>2. ASSUME NEW d \in Delays, PushStore(d) PROVE Inv'
      BY <2>2, PushStoreStep
    <2>3. ASSUME NEW j \in BOOLEAN, Deinit(j) PROVE Inv'
      BY <2>3, DeinitStep
    <2> QED BY <1>1, <2>1, <2>2, <2>3 DEF Script
  <1>2. CASE Core0
    BY <1>2, ResetAllocStep, ResetHeadStep, ResetTailStep, StartStep, WaitReadyStep,
       PushHeadStep, WaitDoneStep, DeinitFreeStep DEF Core0
  <1>3. CASE Boot \/ Cleanup \/ tick_cb
    BY <1>3, BootStep, CleanupStep, TickStep
  <1>4. CASE Interrupt
    BY <1>4, PeekStep, CopyStep, NotYetStep, PopStep, ProcessStep DEF Interrupt
  <1>5. CASE UNCHANGED vars
    BY <1>5, InvStutter
  <1> QED BY <1>1, <1>2, <1>3, <1>4, <1>5 DEF Next

LEMMA InvAlways ==
    ASSUME ~Reselect, ~LatePush
    PROVE  Spec => []Inv
  <1>1. Init => Inv
    BY InvInit
  <1>2. Inv /\ [Next]_vars => Inv'
    BY InvStep
  <1> QED BY <1>1, <1>2, PTL DEF Spec

----------------------------------------------------------------------------
(* The theorems.                                                           *)

(* Core 1 never reads a packet from memory that is freed or was not        *)
(* written, core 0 never writes one there, core 1 never calls a driver     *)
(* that is not there, and processes the packets in the order of            *)
(* PSG_rb_push, none twice and none left out, for every length of the ring *)
(* and every range of g_tick_ms, as long as a driver is only selected      *)
(* after deinit and nothing is pushed after it.                            *)
THEOREM CoresShareSafely ==
    ASSUME ~Reselect, ~LatePush
    PROVE  Spec => []NoFault
  <1>1. Inv => NoFault
    BY DEF Inv
  <1> QED BY <1>1, InvAlways, PTL

(* Between head and tail are the packets that were pushed and not taken: a *)
(* full ring refuses one and never looks empty.                            *)
THEOREM PendingIsInTheRing ==
    ASSUME ~Reselect, ~LatePush
    PROVE  Spec => []RingHoldsPending
  <1>1. Inv => RingHoldsPending
    <2> SUFFICES ASSUME Inv, core0.alive, At0("idle"),
                        core1.at \in {"loop", "peek", "copy", "due"}
                 PROVE  (rb.head - rb.tail) % QueueLen = done.pushed - done.played
      BY DEF RingHoldsPending
    <2>1. Numbered /\ done.played \in Nat
      BY DEF Inv, Running, Typed, Records
    <2>2. Taken = done.played /\ Waiting = 0
      BY DEF Taken, Waiting, At0
    <2>3. Len(Queue) \in Nat /\ Len(Queue) = (rb.head - rb.tail) % QueueLen
      BY QueueFacts DEF Inv, RingLen
    <2>4. done.played + Len(Queue) + 0 = done.pushed
      BY <2>1, <2>2 DEF Numbered
    <2>5. Len(Queue) = done.pushed - done.played
      BY <2>1, <2>3, <2>4
    <2> QED BY <2>3, <2>5
  <1> QED BY <1>1, InvAlways, PTL

(* When Driver#join has seen an empty ring and deinit has stopped core 1,  *)
(* every packet was processed: CMD_CLEANUP is only answered by the loop of *)
(* core 1, after the interrupt that holds the last packet.                 *)
THEOREM JoinWaitsForAll ==
    ASSUME ~Reselect, ~LatePush
    PROVE  Spec => []JoinPlaysAll
  <1>1. Inv => JoinPlaysAll
    BY DEF Inv, Joined, JoinPlaysAll, At0
  <1> QED BY <1>1, InvAlways, PTL

(* No word of one session of the cores is left for the next: select and    *)
(* deinit take whatever they find for the acknowledgement they wait for.   *)
THEOREM SessionsDoNotMix ==
    ASSUME ~Reselect, ~LatePush
    PROVE  Spec => []FifoDrained
  <1>1. Inv => FifoDrained
    BY DEF Inv, Handshake, BothStopped, Starting, Playing, Stopping, FifoDrained, At0, Words
  <1> QED BY <1>1, InvAlways, PTL

----------------------------------------------------------------------------
(* The envelope generator, PsgEnvelope.                                    *)

(* The shapes whose drawing the code follows: all but those that end at    *)
(* the level opposite to the end of their ramp (01xx, 1011 and 1111).      *)
AsDrawn(s) ==
    /\ "continue" \notin s => "attack" \notin s
    /\ ~({"continue", "alternate", "hold"} \subseteq s)

Size == Top + 1

(* Whether the cycle of step n is a backward one.                          *)
Back(n) == "alternate" \in shape /\ (n \div Size) % 2 = 1

(* A running envelope is where its steps place it on the ramp of its       *)
(* cycle, and has not finished the only one; one that stopped had reached  *)
(* the level it is to hold.                                                *)
Tracked(e) ==
    /\ e.up \in BOOLEAN /\ e.running \in BOOLEAN /\ e.steps \in Nat /\ e.level \in 0..Top
    /\ e.running =>
          /\ e.up = (Attack # Back(e.steps))
          /\ e.level = Ramp(e.up, e.steps % Size)
          /\ OneShot => e.steps <= Top
    /\ ~e.running => e.steps = 0 \/ (OneShot /\ e.steps > Top /\ e.level = Final)

Fields == [on : BOOLEAN, legato : BOOLEAN, cnt : Nat, level : 0..Top,
           up : BOOLEAN, running : BOOLEAN, steps : Nat]

(* The inductive invariant.                                                *)
EnvInv ==
    /\ env \in [Tracks -> Fields] /\ shape \in Shapes \cup {{}}
    /\ \A tr \in Tracks : Tracked(env[tr])

(* What quotient and remainder are.                                        *)
LEMMA Division ==
    ASSUME NEW m \in Nat \ {0}, NEW q \in Nat, NEW r \in 0..(m - 1)
    PROVE  (m * q + r) \div m = q /\ (m * q + r) % m = r
<1>1. (m * q + r) \div m = q
  OBVIOUS
<1>2. (m * q + r) % m = r
  OBVIOUS
<1> QED BY <1>1, <1>2

(* Every number has them.                                                  *)
LEMMA Divided ==
    ASSUME NEW m \in Nat \ {0}, NEW n \in Nat
    PROVE  \E q \in Nat, r \in 0..(m - 1) : n = m * q + r
<1>1. n \div m \in Nat
  OBVIOUS
<1>2. n - m * (n \div m) \in 0..(m - 1)
  OBVIOUS
<1>3. n = m * (n \div m) + (n - m * (n \div m))
  BY <1>1
<1> QED BY <1>1, <1>2, <1>3

(* One step more is the next place of the cycle, or the first place of the *)
(* next cycle.                                                             *)
LEMMA NextPlace ==
    ASSUME NEW m \in Nat \ {0}, NEW n \in Nat
    PROVE  /\ n % m \in 0..(m - 1) /\ n \div m \in Nat
           /\ n < m => n % m = n /\ n \div m = 0
           /\ n % m # m - 1 => (n + 1) % m = (n % m) + 1 /\ (n + 1) \div m = n \div m
           /\ n % m = m - 1 => (n + 1) % m = 0 /\ (n + 1) \div m = n \div m + 1
<1>1. PICK q \in Nat, r \in 0..(m - 1) : n = m * q + r
  BY Divided
<1>2. n % m = r /\ n \div m = q
  BY <1>1, Division
<1>3. ASSUME n < m PROVE n % m = n /\ n \div m = 0
  <2>1. n = m * 0 + n /\ n \in 0..(m - 1)
    BY <1>3
  <2>2. (m * 0 + n) \div m = 0 /\ (m * 0 + n) % m = n
    BY <2>1, Division
  <2> QED BY <2>1, <2>2
<1>4. ASSUME r # m - 1 PROVE (n + 1) % m = r + 1 /\ (n + 1) \div m = q
  <2>1. r + 1 \in 0..(m - 1) /\ n + 1 = m * q + (r + 1)
    BY <1>1, <1>4
  <2>2. (m * q + (r + 1)) \div m = q /\ (m * q + (r + 1)) % m = r + 1
    BY <2>1, Division
  <2> QED BY <2>1, <2>2
<1>5. ASSUME r = m - 1 PROVE (n + 1) % m = 0 /\ (n + 1) \div m = q + 1
  <2>1. 0 \in 0..(m - 1) /\ q + 1 \in Nat /\ n + 1 = m * (q + 1) + 0
    BY <1>1, <1>5
  <2>2. (m * (q + 1) + 0) \div m = q + 1 /\ (m * (q + 1) + 0) % m = 0
    BY <2>1, Division
  <2> QED BY <2>1, <2>2
<1> QED BY <1>2, <1>3, <1>4, <1>5

(* Every other cycle is a backward one.                                    *)
LEMMA OddEven == ASSUME NEW c \in Nat PROVE (c + 1) % 2 = 1 <=> ~(c % 2 = 1)
OBVIOUS

(* What a step stores in the record of a track.                            *)
LEMMA Stepped ==
    ASSUME NEW e \in Fields, NEW i \in Nat
    PROVE  LET u == [e EXCEPT !.cnt = 0, !.steps = i]
           IN  /\ u \in Fields
               /\ u.up = e.up /\ u.running = e.running /\ u.steps = i /\ u.level = e.level
<1> DEFINE u == [e EXCEPT !.cnt = 0, !.steps = i]
<1>1. u \in Fields
  BY DEF Fields
<1>2. u.up = e.up /\ u.running = e.running /\ u.steps = i /\ u.level = e.level
  BY DEF Fields
<1> QED BY <1>1, <1>2

(* update_envelope for one track: it counts, moves on the ramp, stops at   *)
(* its end or starts the next cycle (psg.c:249-297).                       *)
LEMMA UpdatedTracked ==
    ASSUME Top \in Nat \ {0}, NEW e \in Fields, Tracked(e), AsDrawn(shape)
    PROVE  Updated(e) \in Fields /\ Tracked(Updated(e))
<1> DEFINE n == e.steps
           m == Size
           k == n % m
           c == n \div m
<1>0. /\ m \in Nat \ {0} /\ n \in Nat /\ m = Top + 1 /\ Top \in Nat \ {0}
      /\ e.cnt \in Nat /\ e.level \in 0..Top /\ e.up \in BOOLEAN
  BY DEF Size, Fields
<1>1. /\ k \in 0..(m - 1) /\ c \in Nat
      /\ n < m => k = n /\ c = 0
      /\ k # m - 1 => (n + 1) % m = k + 1 /\ (n + 1) \div m = c
      /\ k = m - 1 => (n + 1) % m = 0 /\ (n + 1) \div m = c + 1
  BY <1>0, NextPlace
<1>2. CASE Skipped(e)
  BY <1>2 DEF Updated
<1>3. CASE ~Skipped(e) /\ Counting(e)
  <2>1. Updated(e) = [e EXCEPT !.cnt = e.cnt + 1]
    BY <1>3 DEF Updated
  <2>2. PICK u : u = Updated(e)
    OBVIOUS
  <2>3. u \in Fields /\ u.up = e.up /\ u.running = e.running /\ u.steps = e.steps
        /\ u.level = e.level
    BY <1>0, <2>1, <2>2 DEF Fields
  <2> QED BY <2>2, <2>3 DEF Tracked
<1>4. ASSUME ~Skipped(e)
      PROVE  /\ e.running = TRUE /\ e.up = (Attack # Back(n)) /\ e.level = Ramp(e.up, k)
             /\ OneShot => n <= Top
             /\ AtEnd(e) <=> k = Top
  <2>1. /\ e.running = TRUE /\ e.up = (Attack # Back(n)) /\ e.level = Ramp(e.up, k)
        /\ OneShot => n <= Top
    BY <1>4 DEF Skipped, Tracked, Fields
  <2>2. AtEnd(e) <=> k = Top
    BY <1>0, <1>1, <2>1 DEF AtEnd, Ramp
  <2> QED BY <2>1, <2>2
<1>5. CASE ~Skipped(e) /\ ~Counting(e) /\ ~AtEnd(e)
  <2>1. Updated(e) = [Moved(e) EXCEPT !.cnt = 0, !.steps = Moved(e).steps + 1]
    BY <1>5 DEF Updated
  <2>2. PICK u : u = Updated(e)
    OBVIOUS
  <2>3. k # Top /\ k # m - 1
    BY <1>0, <1>4, <1>5
  <2>4. (IF e.up THEN e.level + 1 ELSE e.level - 1) = Ramp(e.up, k + 1)
        /\ Ramp(e.up, k + 1) \in 0..Top
    BY <1>0, <1>1, <1>4, <1>5, <2>3 DEF Ramp
  <2> HIDE DEF n, m, k, c
  <2>5. u \in Fields /\ u.up = e.up /\ u.running = e.running /\ u.steps = n + 1
        /\ u.level = Ramp(e.up, k + 1)
    <3>1. PICK v \in Fields : v = Moved(e)
      BY <2>4 DEF Fields, Moved
    <3>2. v.up = e.up /\ v.running = e.running /\ v.steps = n /\ v.level = Ramp(e.up, k + 1)
      BY <2>4, <3>1 DEF Fields, Moved, n
    <3>3. u = [v EXCEPT !.cnt = 0, !.steps = n + 1]
      BY <2>1, <2>2, <3>1, <3>2
    <3>4. n + 1 \in Nat
      BY <1>0
    <3> QED BY <3>2, <3>3, <3>4, Stepped
  <2>6. Back(n + 1) = Back(n)
    BY <1>1, <2>3 DEF Back, m, c
  <2>7. OneShot => n + 1 <= Top
    BY <1>0, <1>1, <1>4, <1>5, <2>3
  <2>8. (n + 1) % Size = k + 1
    BY <1>1, <2>3 DEF m
  <2> QED BY <1>0, <1>4, <1>5, <2>2, <2>5, <2>6, <2>7, <2>8 DEF Tracked, Fields
<1>6. CASE ~Skipped(e) /\ ~Counting(e) /\ AtEnd(e) /\ OneShot
  <2>1. Updated(e) = [e EXCEPT !.cnt = 0, !.running = FALSE, !.steps = e.steps + 1]
    BY <1>6 DEF Updated, Stopped
  <2>2. PICK u : u = Updated(e)
    OBVIOUS
  <2>3. k = Top /\ n = Top /\ c = 0
    BY <1>0, <1>1, <1>4, <1>6
  <2>4. ~Back(n)
    BY <2>3 DEF Back
  <2>5. e.level = Final
    <3>0. Back(n) = FALSE /\ Attack \in BOOLEAN
      BY <2>4 DEF Back, Attack
    <3>1. e.up = Attack
      BY <1>4, <1>6, <3>0
    <3>3. e.level = (IF Attack THEN Top ELSE 0)
      BY <1>0, <1>4, <1>6, <2>3, <3>0, <3>1 DEF Ramp
    <3>2. Final = IF Attack THEN Top ELSE 0
      <4>1. CASE "continue" \notin shape
        BY <4>1 DEF Final, AsDrawn, Attack
      <4>2. CASE "continue" \in shape
        <5>1. "hold" \in shape /\ "alternate" \notin shape
          BY <1>6, <4>2 DEF OneShot, AsDrawn
        <5>2. Final = IF Attack # ("alternate" \in shape) THEN Top ELSE 0
          BY <4>2 DEF Final
        <5>3. (Attack # ("alternate" \in shape)) <=> Attack
          BY <5>1 DEF Attack
        <5> QED BY <5>2, <5>3
      <4> QED BY <4>1, <4>2
    <3> QED BY <3>2, <3>3
  <2> HIDE DEF n, m, k, c
  <2>6. u \in Fields /\ u.running = FALSE /\ u.steps = n + 1 /\ u.level = e.level
    <3>1. PICK v \in Fields : v = [e EXCEPT !.running = FALSE]
      BY DEF Fields
    <3>2. v.running = FALSE /\ v.level = e.level
      BY <3>1 DEF Fields
    <3>3. u = [v EXCEPT !.cnt = 0, !.steps = n + 1]
      BY <2>1, <2>2, <3>1 DEF n, Fields
    <3>4. n + 1 \in Nat
      BY <1>0
    <3> QED BY <3>2, <3>3, <3>4, Stepped
  <2>7. n + 1 > Top
    BY <1>0, <2>3
  <2> QED BY <1>6, <2>2, <2>5, <2>6, <2>7 DEF Tracked, Fields
<1>7. CASE ~Skipped(e) /\ ~Counting(e) /\ AtEnd(e) /\ ~OneShot
  <2>1. Updated(e) = [e EXCEPT !.cnt = 0, !.up = Turned(e),
                               !.level = IF Turned(e) THEN 0 ELSE Top, !.steps = e.steps + 1]
    BY <1>7 DEF Updated, Restarted
  <2>2. PICK u : u = Updated(e)
    OBVIOUS
  <2>3. k = Top /\ k = m - 1
    BY <1>0, <1>4, <1>7
  <2>4. Turned(e) \in BOOLEAN /\ Turned(e) = (Attack # Back(n + 1))
    <3>1. (c + 1) % 2 = 1 <=> ~(c % 2 = 1)
      BY <1>1, OddEven
    <3>2. "alternate" \in shape => (Back(n + 1) <=> ~Back(n))
      BY <1>1, <2>3, <3>1 DEF Back
    <3>3. "alternate" \notin shape => ~Back(n + 1) /\ ~Back(n)
      BY DEF Back
    <3>4. e.up = (Attack # Back(n))
      BY <1>4, <1>7
    <3> HIDE DEF n
    <3>5. Attack \in BOOLEAN /\ Back(n) \in BOOLEAN /\ Back(n + 1) \in BOOLEAN
      BY DEF Attack, Back
    <3> QED BY <3>2, <3>3, <3>4, <3>5 DEF Turned, Attack
  <2> HIDE DEF n, m, k, c
  <2>5. u \in Fields /\ u.up = Turned(e) /\ u.running = e.running /\ u.steps = n + 1
        /\ u.level = IF Turned(e) THEN 0 ELSE Top
    <3>1. PICK b \in BOOLEAN : b = Turned(e)
      BY <2>4
    <3>2. PICK l \in 0..Top : l = IF b THEN 0 ELSE Top
      BY <1>0, <3>1
    <3>3. PICK v \in Fields : v = [e EXCEPT !.up = b, !.level = l]
      BY DEF Fields
    <3>4. v.up = b /\ v.running = e.running /\ v.level = l
      BY <3>3 DEF Fields
    <3>5. u = [v EXCEPT !.cnt = 0, !.steps = n + 1]
      BY <2>1, <2>2, <3>1, <3>2, <3>3 DEF n, Fields
    <3>6. n + 1 \in Nat
      BY <1>0
    <3>7. u \in Fields /\ u.up = b /\ u.running = e.running /\ u.steps = n + 1 /\ u.level = l
      BY <3>4, <3>5, <3>6, Stepped
    <3> QED BY <3>1, <3>2, <3>7
  <2>6. (n + 1) % Size = 0
    BY <1>1, <2>3 DEF m
  <2>7. u.level = Ramp(u.up, 0)
    BY <1>0, <2>5 DEF Ramp
  <2> QED BY <1>0, <1>4, <1>7, <2>2, <2>4, <2>5, <2>6, <2>7 DEF Tracked, Fields
<1> QED BY <1>2, <1>3, <1>5, <1>6, <1>7

(* RESET_ENVELOPE starts the ramp, after a note or with a new shape.       *)
LEMMA ResetFields ==
    ASSUME Top \in Nat \ {0}, NEW e \in Fields, NEW s
    PROVE  LET u == RESET_ENVELOPE(e, s)
           IN  /\ u \in Fields
               /\ u.up = ("attack" \in s) /\ u.running = TRUE /\ u.steps = 0
               /\ u.level = StartLevel(s)
<1>1. StartLevel(s) \in 0..Top /\ ("attack" \in s) \in BOOLEAN
  BY DEF StartLevel
<1>2. PICK l \in 0..Top : l = StartLevel(s)
  BY <1>1
<1>3. PICK b \in BOOLEAN : b = ("attack" \in s)
  BY <1>1
<1>4. PICK v \in Fields : v = [e EXCEPT !.up = b, !.level = l, !.running = TRUE]
  BY DEF Fields
<1>5. v.up = b /\ v.running = TRUE /\ v.level = l
  BY <1>4 DEF Fields
<1>6. RESET_ENVELOPE(e, s) = [v EXCEPT !.cnt = 0, !.steps = 0]
  BY <1>2, <1>3, <1>4 DEF RESET_ENVELOPE, Fields
<1>7. PICK u : u = RESET_ENVELOPE(e, s)
  OBVIOUS
<1>8. u \in Fields /\ u.up = v.up /\ u.running = v.running /\ u.steps = 0 /\ u.level = v.level
  <2>1. PICK i \in Nat : i = 0
    OBVIOUS
  <2>2. u = [v EXCEPT !.cnt = 0, !.steps = i]
    BY <1>6, <1>7, <2>1
  <2> QED BY <2>1, <2>2, Stepped
<1> QED BY <1>2, <1>3, <1>5, <1>7, <1>8

(* Such a track follows its ramp, with the shape as it is and with a new   *)
(* one.                                                                    *)
LEMMA ResetTracked ==
    ASSUME Top \in Nat \ {0}, NEW u \in Fields
    PROVE  /\ u.up = Attack /\ u.running = TRUE /\ u.steps = 0 /\ u.level = StartLevel(shape)
                => Tracked(u)
           /\ u.up = Attack' /\ u.running = TRUE /\ u.steps = 0 /\ u.level = StartLevel(shape')
                => Tracked(u)'
<1>0. Top \in Nat \ {0} /\ Size \in Nat \ {0} /\ 0 < Size
  BY DEF Size
<1>1. 0 % Size = 0 /\ 0 \div Size = 0
  BY <1>0, NextPlace
<1>2. Back(0) = FALSE /\ Back(0)' = FALSE
  BY <1>1 DEF Back, Size
<1>3. ASSUME u.up = Attack, u.running = TRUE, u.steps = 0, u.level = StartLevel(shape)
      PROVE  Tracked(u)
  <2>1. Attack \in BOOLEAN
    BY DEF Attack
  <2>2. u.level = Ramp(u.up, 0)
    <3>1. CASE "attack" \in shape
      <4>1. u.up = TRUE /\ u.level = 0
        BY <1>3, <3>1 DEF StartLevel, Attack
      <4> QED BY <4>1 DEF Ramp
    <3>2. CASE "attack" \notin shape
      <4>1. Attack = FALSE /\ StartLevel(shape) = Top
        BY <3>2 DEF StartLevel, Attack
      <4>2. u.up = FALSE /\ u.level = Top
        BY <1>3, <4>1
      <4> QED BY <1>0, <4>2 DEF Ramp
    <3> QED BY <3>1, <3>2
  <2>3. u.up = (Attack # Back(0))
    BY <1>2, <1>3, <2>1
  <2> QED BY <1>0, <1>1, <1>3, <2>2, <2>3 DEF Tracked, Fields
<1>4. ASSUME u.up = Attack', u.running = TRUE, u.steps = 0, u.level = StartLevel(shape')
      PROVE  Tracked(u)'
  <2>1. Attack' \in BOOLEAN
    BY DEF Attack
  <2>2. u.level = Ramp(u.up, 0)
    <3>1. CASE "attack" \in shape'
      <4>1. u.up = TRUE /\ u.level = 0
        BY <1>4, <3>1 DEF StartLevel, Attack
      <4> QED BY <4>1 DEF Ramp
    <3>2. CASE "attack" \notin shape'
      <4>1. Attack' = FALSE /\ StartLevel(shape') = Top
        BY <3>2 DEF StartLevel, Attack
      <4>2. u.up = FALSE /\ u.level = Top
        BY <1>4, <4>1
      <4> QED BY <1>0, <4>2 DEF Ramp
    <3> QED BY <3>1, <3>2
  <2>3. u.up = (Attack' # Back(0)')
    BY <1>2, <1>4, <2>1
  <2> QED BY <1>0, <1>1, <1>4, <2>2, <2>3 DEF Tracked, Fields, Size, Ramp
<1> QED BY <1>3, <1>4

(* A step that leaves the shape alone and keeps every track on its ramp.   *)
LEMMA TracksKept ==
    ASSUME EnvInv, shape' = shape, env' \in [Tracks -> Fields],
           \A tr \in Tracks : Tracked(env'[tr])
    PROVE  EnvInv'
<1>1. ASSUME NEW tr \in Tracks PROVE Tracked(env[tr])'
  <2>1. PICK u : u = env'[tr]
    OBVIOUS
  <2>2. Tracked(u)
    BY <1>1, <2>1
  <2>3. Tracked(u)'
    BY <2>2 DEF Tracked, Attack, Back, OneShot, Final, Size, Ramp
  <2> QED BY <2>1, <2>3 DEF Tracked, Back, Size, Ramp, Attack, OneShot, Final
<1> QED BY <1>1 DEF EnvInv

(* Every register write, and every sample.                                 *)
LEMMA EnvStep ==
    ASSUME Top \in Nat \ {0}, \A s \in Shapes : AsDrawn(s), EnvInv, EnvelopeNext
    PROVE  EnvInv'
<1>0. /\ env \in [Tracks -> Fields] /\ shape \in Shapes \cup {{}}
      /\ \A tr \in Tracks : Tracked(env[tr])
  BY DEF EnvInv
<1>1. CASE WriteShape
  <2>1. PICK s \in Shapes : shape' = s
                            /\ env' = [tr \in Tracks |-> RESET_ENVELOPE(env[tr], s)]
    BY <1>1 DEF WriteShape
  <2>2. ASSUME NEW tr \in Tracks PROVE env'[tr] \in Fields /\ Tracked(env[tr])'
    <3>1. PICK u : u = RESET_ENVELOPE(env[tr], s)
      OBVIOUS
    <3>2. u \in Fields /\ u.up = ("attack" \in s) /\ u.running = TRUE /\ u.steps = 0
          /\ u.level = StartLevel(s)
      BY <1>0, <3>1, ResetFields
    <3>3. Tracked(u)'
      BY <2>1, <3>2, ResetTracked DEF Attack
    <3>4. env'[tr] = u
      BY <2>1, <3>1
    <3> QED BY <3>2, <3>3, <3>4 DEF Tracked, Back, Size, Ramp, Attack, OneShot, Final
  <2> QED BY <2>1, <2>2 DEF EnvInv
<1>2. CASE WritePeriod
  BY <1>0, <1>2, TracksKept DEF WritePeriod
<1>3. CASE WriteVolume \/ WriteLegato
  <2>1. PICK tr \in Tracks : \E b \in BOOLEAN : env' = [env EXCEPT ![tr].on = b]
                                             \/ env' = [env EXCEPT ![tr].legato = b]
    BY <1>3 DEF WriteVolume, WriteLegato
  <2>2. PICK e \in Fields : e = env[tr]
    BY <1>0
  <2>3. PICK u \in Fields : /\ env' = [env EXCEPT ![tr] = u]
                            /\ u.up = e.up /\ u.running = e.running
                            /\ u.steps = e.steps /\ u.level = e.level
    <3>1. PICK b \in BOOLEAN : env' = [env EXCEPT ![tr] = [e EXCEPT !.on = b]]
                               \/ env' = [env EXCEPT ![tr] = [e EXCEPT !.legato = b]]
      BY <2>1, <2>2
    <3> QED BY <3>1 DEF Fields
  <2>4. Tracked(u)
    BY <1>0, <2>2, <2>3 DEF Tracked
  <2>5. env' \in [Tracks -> Fields] /\ \A t \in Tracks : Tracked(env'[t])
    BY <1>0, <2>3, <2>4
  <2>6. shape' = shape
    BY <1>3 DEF WriteVolume, WriteLegato
  <2> QED BY <2>5, <2>6, TracksKept
<1>4. CASE WriteTone
  <2>1. PICK tr \in Tracks : env' = [env EXCEPT ![tr] = RESET_ENVELOPE(env[tr], shape)]
    BY <1>4 DEF WriteTone
  <2>2. PICK u : u = RESET_ENVELOPE(env[tr], shape)
    OBVIOUS
  <2>3. u \in Fields /\ u.up = ("attack" \in shape) /\ u.running = TRUE /\ u.steps = 0
        /\ u.level = StartLevel(shape)
    BY <1>0, <2>2, ResetFields
  <2>4. Tracked(u)
    BY <2>3, ResetTracked DEF Attack
  <2>5. env' \in [Tracks -> Fields] /\ \A t \in Tracks : Tracked(env'[t])
    BY <1>0, <2>1, <2>2, <2>3, <2>4
  <2>6. shape' = shape
    BY <1>4 DEF WriteTone
  <2> QED BY <2>5, <2>6, TracksKept
<1>5. CASE update_envelope
  <2>1. AsDrawn(shape)
    BY <1>0 DEF AsDrawn
  <2>2. ASSUME NEW tr \in Tracks PROVE env'[tr] \in Fields /\ Tracked(env'[tr])
    <3>1. env'[tr] = env[tr] \/ env'[tr] = Updated(env[tr])
      BY <1>5 DEF update_envelope
    <3>2. Updated(env[tr]) \in Fields /\ Tracked(Updated(env[tr]))
      BY <1>0, <2>1, UpdatedTracked
    <3> QED BY <1>0, <3>1, <3>2
  <2>3. env' \in [Tracks -> Fields] /\ shape' = shape
    BY <1>5, <2>2 DEF update_envelope
  <2> QED BY <2>2, <2>3, TracksKept
<1> QED BY <1>1, <1>2, <1>3, <1>4, <1>5 DEF EnvelopeNext

(* After reset_psg no envelope runs.                                       *)
LEMMA InitEnv ==
    ASSUME Top \in Nat \ {0}, EnvelopeInit
    PROVE  EnvInv
<1>0. Top \in Nat
  OBVIOUS
<1>1. env \in [Tracks -> Fields] /\ shape = {}
  BY <1>0 DEF EnvelopeInit, Fields
<1>2. ASSUME NEW tr \in Tracks
      PROVE  env[tr].up \in BOOLEAN /\ env[tr].running = FALSE /\ env[tr].steps = 0
             /\ env[tr].level = 0
  BY DEF EnvelopeInit
<1>3. ASSUME NEW tr \in Tracks PROVE Tracked(env[tr])
  <2>1. PICK e \in Fields : e = env[tr]
    BY <1>1
  <2>2. e.up \in BOOLEAN /\ e.running = FALSE /\ e.steps = 0 /\ e.level \in 0..Top
        /\ e.steps \in Nat
    BY <1>2, <2>1 DEF Fields
  <2>3. Tracked(e)
    BY <2>2, Zenon DEF Tracked
  <2> QED BY <2>1, <2>3
<1> QED BY <1>1, <1>3 DEF EnvInv

(* For every number of levels and of tracks, every period and any number   *)
(* of register writes in between: with the shapes the code draws as psg.h  *)
(* does, every track is at the level its waveform has after the steps it   *)
(* has taken (psg.c:249-297, psg.h:93-113).                                *)
THEOREM EnvelopeFollowsDrawing ==
    ASSUME \A s \in Shapes : AsDrawn(s)
    PROVE  EnvelopeSpec => []FollowsDrawing
<1> Top \in Nat \ {0}
  BY RegistersAssumption
<1>0. EnvelopeInit => EnvInv
  BY InitEnv
<1>1. EnvInv /\ [EnvelopeNext]_(envelopeVars) => EnvInv'
  <2> SUFFICES ASSUME EnvInv, [EnvelopeNext]_(envelopeVars) PROVE EnvInv'
    OBVIOUS
  <2>1. CASE UNCHANGED envelopeVars
    BY <2>1, TracksKept DEF envelopeVars, EnvInv
  <2> QED BY <2>1, EnvStep
<1>2. EnvInv => FollowsDrawing
  <2> SUFFICES ASSUME EnvInv, NEW tr \in Tracks, env[tr].steps > 0
               PROVE  env[tr].level = Drawn(env[tr].steps)
    BY DEF FollowsDrawing
  <2>1. PICK e \in Fields : e = env[tr]
    BY DEF EnvInv
  <2>2. Tracked(e) /\ e.steps \in Nat /\ e.steps > 0 /\ Top \in Nat
    BY <2>1 DEF EnvInv, Fields
  <2>3. Drawn(e.steps) = IF OneShot /\ e.steps > Top THEN Final
                         ELSE Ramp(Attack # Back(e.steps), e.steps % Size)
    BY DEF Drawn, Back, Size
  <2>4. CASE e.running = TRUE
    <3>1. e.up = (Attack # Back(e.steps)) /\ e.level = Ramp(e.up, e.steps % Size)
          /\ (OneShot => ~(e.steps > Top))
      BY <2>2, <2>4 DEF Tracked
    <3>2. Drawn(e.steps) = Ramp(Attack # Back(e.steps), e.steps % Size)
      BY <2>3, <3>1
    <3>3. e.level = Drawn(e.steps)
      BY <3>1, <3>2
    <3> QED BY <2>1, <3>3
  <2>5. CASE e.running = FALSE
    <3>1. OneShot /\ e.steps > Top /\ e.level = Final
      BY <2>2, <2>5 DEF Tracked
    <3> QED BY <2>1, <2>3, <3>1
  <2>6. e.running \in BOOLEAN
    BY DEF Fields
  <2> QED BY <2>4, <2>5, <2>6
<1> QED BY <1>0, <1>1, <1>2, PTL DEF EnvelopeSpec
============================================================================
