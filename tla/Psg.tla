-------------------------------- MODULE Psg --------------------------------
(***************************************************************************)
(* The sound generator, mrbgems/picoruby-psg: the life of the driver and   *)
(* the packets that scripts on core 0 send to core 1 through a ring.       *)
(*                                                                         *)
(* Core 1 runs psg_core1_main; its tick interrupt takes the packets that   *)
(* are due.  PSG_rb_push is taken apart at the places where core 1 can     *)
(* tell, as if PSG_enter_critical did not keep the other core out: so it   *)
(* is on the RP2350, and on the RP2040 there are fewer interleavings.      *)
(* Functions of core 0 are not interrupted by other tasks, but between two *)
(* of them the shell may run the trap of Driver#trap, whose deinit frees   *)
(* the ring of a script that is not stopped yet: see LatePush.             *)
(* A packet carries its number, for the properties only.                   *)
(***************************************************************************)
EXTENDS Integers, Sequences

CONSTANTS
    QueueLen,       \* PSG_PACKET_QUEUE_LEN
    Delays,         \* the tick delays that scripts ask for
    TickMod,        \* range of g_tick_ms, 2^32 in the code
    MaxPackets,     \* bound: packets of one session
    Reselect,       \* whether scripts select a driver while one is selected
    LatePush        \* whether a script may push after the trap's deinit

Indices == 0..(QueueLen - 1)
Garbage == [n |-> 0, tick |-> 0]

ASSUME SizesAssumption == QueueLen \in Nat \ {0, 1} /\ MaxPackets \in Nat
ASSUME TicksAssumption ==
    /\ TickMod \in Nat \ {0} /\ TickMod % 2 = 0
    /\ Delays \subseteq 0..(TickMod \div 2 - 1)
ASSUME UseAssumption == Reselect \in BOOLEAN /\ LatePush \in BOOLEAN

VARIABLES
    core0,       \* where the script is, psg_drv, core1_alive, deinit's caller
    core1,       \* where core 1 is, its tick timer, the packet it has read
    rb,          \* the ring: buffer, its entries, head, tail
    g_tick_ms,
    fifo,        \* the words under way between the cores
    done         \* packets pushed and processed in this session, wrong reads

vars == <<core0, core1, rb, g_tick_ms, fifo, done>>

Init ==
    /\ core0 = [at |-> "idle", drv |-> FALSE, alive |-> FALSE, joining |-> FALSE]
    /\ core1 = [at |-> "down", timer |-> FALSE, pkt |-> Garbage]
    /\ rb = [buf |-> "NULL", slot |-> [k \in Indices |-> Garbage], head |-> 0, tail |-> 0]
    /\ g_tick_ms = 0
    /\ fifo = [to0 |-> <<>>, to1 |-> <<>>]
    /\ done = [pushed |-> 0, played |-> 0, fault |-> FALSE]

At0(place) == core0.at = place
At1(place) == core1.at = place
Goto0(place) == core0' = [core0 EXCEPT !.at = place]
Goto1(place) == core1' = [core1 EXCEPT !.at = place]

Next1(k) == (k + 1) % QueueLen

----------------------------------------------------------------------------
(* Core 0: select_pwm and select_mcp4922.                                  *)

(* psg_drv = ...; reset_psg, up to mrb_free ...                            *)
Select ==
    /\ At0("idle") /\ (core0.alive => Reselect)
    /\ core0' = [core0 EXCEPT !.at = "alloc", !.drv = TRUE, !.joining = FALSE]
    /\ rb' = [rb EXCEPT !.buf = IF @ = "NULL" THEN @ ELSE "freed"]
    /\ UNCHANGED <<core1, g_tick_ms, fifo, done>>

(* ... mrb_malloc ...                                                      *)
ResetAlloc ==
    /\ At0("alloc") /\ Goto0("head")
    /\ rb' = [rb EXCEPT !.buf = "live", !.slot = [k \in Indices |-> Garbage]]
    /\ UNCHANGED <<core1, g_tick_ms, fifo, done>>

ResetHead ==
    /\ At0("head") /\ Goto0("tail")
    /\ rb' = [rb EXCEPT !.head = 0]
    /\ UNCHANGED <<core1, g_tick_ms, fifo, done>>

(* Mutant: the tail is not reset.                                          *)
TailKept(tail) == tail
TailReset(tail) == 0

ResetTail ==
    /\ At0("tail") /\ Goto0("start")
    /\ rb' = [rb EXCEPT !.tail = TailReset(@)]
    /\ done' = [done EXCEPT !.pushed = 0, !.played = 0]
    /\ UNCHANGED <<core1, g_tick_ms, fifo>>

(* PSG_tick_start_core1: core 1 is launched and sent its parameters.       *)
Start ==
    /\ At0("start")
    /\ IF core0.alive
       THEN Goto0("idle") /\ UNCHANGED <<core1, fifo>>
       ELSE /\ Goto0("wait_ready")
            /\ Goto1("boot")
            /\ fifo' = [fifo EXCEPT !.to1 = @ \o <<"p1", "p2">>]
    /\ UNCHANGED <<rb, g_tick_ms, done>>

(* The acknowledgement is taken for ACK_CORE1_READY whatever it is.        *)
WaitReady ==
    /\ At0("wait_ready") /\ fifo.to0 # <<>>
    /\ core0' = [core0 EXCEPT !.at = "idle", !.alive = TRUE]
    /\ fifo' = [fifo EXCEPT !.to0 = Tail(@)]
    /\ UNCHANGED <<core1, rb, g_tick_ms, done>>

----------------------------------------------------------------------------
(* Core 0: send_reg, set_lfo, set_pan, ... all end in PSG_rb_push.         *)

(* Mutant: the entry that tells a full ring from an empty one is used too. *)
FullNever == FALSE
Full == Next1(rb.head) = rb.tail

(* PSG_rb_push does not look whether the ring is there.                    *)
PushStore(tick) ==
    /\ At0("idle") /\ (core0.alive \/ LatePush) /\ ~Full
    /\ done.pushed < MaxPackets
    /\ Goto0("push")
    /\ rb' = [rb EXCEPT !.slot[rb.head] = [n |-> done.pushed + 1, tick |-> tick]]
    /\ done' = [done EXCEPT !.pushed = @ + 1, !.fault = @ \/ rb.buf # "live"]
    /\ UNCHANGED <<core1, g_tick_ms, fifo>>

PushHead ==
    /\ At0("push") /\ Goto0("idle")
    /\ rb' = [rb EXCEPT !.head = Next1(@)]
    /\ UNCHANGED <<core1, g_tick_ms, fifo, done>>

----------------------------------------------------------------------------
(* Core 0: deinit, called by the script, by its trap or by Driver#join.    *)

(* Mutant: off by one.                                                     *)
BufferAlmostEmpty == rb.head \in {rb.tail, Next1(rb.tail)}
buffer_empty_p == rb.head = rb.tail

(* Driver#join waits for an empty ring and then deinitializes.             *)
Deinit(joining) ==
    /\ At0("idle") /\ (joining => core0.alive /\ buffer_empty_p)
    /\ core0' = [core0 EXCEPT !.drv = FALSE, !.joining = joining,
                              !.at = IF core0.alive THEN "wait_done" ELSE "free"]
    /\ fifo' = IF core0.alive THEN [fifo EXCEPT !.to1 = Append(@, "CMD_CLEANUP")] ELSE fifo
    /\ UNCHANGED <<core1, rb, g_tick_ms, done>>

(* Mutant: the word is looked at and not taken.                            *)
AfterAckKept(words) == words
(* The words after the first ACK_DONE; those before it are ignored.        *)
AfterAck(words) ==
    LET k == CHOOSE i \in DOMAIN words : words[i] = "ACK_DONE"
    IN  SubSeq(words, k + 1, Len(words))

(* multicore_reset_core1, and the audio timer is cancelled.                *)
WaitDone ==
    /\ At0("wait_done") /\ \E i \in DOMAIN fifo.to0 : fifo.to0[i] = "ACK_DONE"
    /\ core0' = [core0 EXCEPT !.at = "free", !.alive = FALSE]
    /\ core1' = [core1 EXCEPT !.at = "down", !.timer = FALSE]
    /\ fifo' = [fifo EXCEPT !.to0 = AfterAck(@)]
    /\ UNCHANGED <<rb, g_tick_ms, done>>

DeinitFree ==
    /\ At0("free") /\ Goto0("idle")
    /\ rb' = [rb EXCEPT !.buf = "NULL"]
    /\ UNCHANGED <<core1, g_tick_ms, fifo, done>>

----------------------------------------------------------------------------
(* Core 1.                                                                 *)

(* psg_core1_main up to its loop.                                          *)
Boot ==
    /\ At1("boot") /\ Len(fifo.to1) >= 2
    /\ core1' = [core1 EXCEPT !.at = "loop", !.timer = TRUE]
    /\ fifo' = [to0 |-> Append(fifo.to0, "ACK_CORE1_READY"),
                to1 |-> SubSeq(fifo.to1, 3, Len(fifo.to1))]
    /\ done' = [done EXCEPT !.fault = @ \/ ~core0.drv]
    /\ UNCHANGED <<core0, rb, g_tick_ms>>

(* Mutant: the wrong answer.                                               *)
CleanupAnswerReady == "ACK_CORE1_READY"
CleanupAnswer == "ACK_DONE"

(* The timer is cancelled and core 1 spins.                                *)
Cleanup ==
    /\ At1("loop") /\ fifo.to1 # <<>>
    /\ core1' = [core1 EXCEPT !.at = "spin", !.timer = FALSE]
    /\ fifo' = [to0 |-> Append(fifo.to0, CleanupAnswer), to1 |-> Tail(fifo.to1)]
    /\ UNCHANGED <<core0, rb, g_tick_ms, done>>

(* tick_cb interrupts the loop.                                            *)
tick_cb ==
    /\ At1("loop") /\ core1.timer
    /\ Goto1("peek")
    /\ g_tick_ms' = (g_tick_ms + 1) % TickMod
    /\ UNCHANGED <<core0, rb, fifo, done>>

(* Mutant: a single packet is taken for none.                              *)
NothingWithOne == rb.head \in {rb.tail, Next1(rb.tail)}
Nothing == rb.tail = rb.head

PSG_rb_peek ==
    /\ At1("peek")
    /\ Goto1(IF Nothing THEN "loop" ELSE "copy")
    /\ UNCHANGED <<core0, rb, g_tick_ms, fifo, done>>

PeekCopy ==
    /\ At1("copy")
    /\ core1' = [core1 EXCEPT !.at = "due", !.pkt = rb.slot[rb.tail]]
    /\ done' = [done EXCEPT !.fault = @ \/ rb.buf # "live" \/ rb.slot[rb.tail] = Garbage]
    /\ UNCHANGED <<core0, rb, g_tick_ms, fifo>>

(* ~(0 < (int32_t)(pkt.tick - g_tick_ms))                                  *)
Due ==
    LET d == (core1.pkt.tick - g_tick_ms) % TickMod
    IN  d = 0 \/ d >= TickMod \div 2

NotYet ==
    /\ At1("due") /\ ~Due /\ Goto1("loop")
    /\ UNCHANGED <<core0, rb, g_tick_ms, fifo, done>>

PSG_rb_pop ==
    /\ At1("due") /\ Due /\ Goto1("process")
    /\ g_tick_ms' = (g_tick_ms - core1.pkt.tick) % TickMod
    /\ rb' = [rb EXCEPT !.tail = Next1(@)]
    /\ UNCHANGED <<core0, fifo, done>>

PSG_process_packet ==
    /\ At1("process") /\ Goto1("peek")
    /\ done' = [done EXCEPT !.played = core1.pkt.n,
                            !.fault = @ \/ core1.pkt.n # done.played + 1]
    /\ UNCHANGED <<core0, rb, g_tick_ms, fifo>>

Script == Select \/ (\E d \in Delays : PushStore(d)) \/ (\E j \in BOOLEAN : Deinit(j))
Core0 == ResetAlloc \/ ResetHead \/ ResetTail \/ Start \/ WaitReady \/ PushHead
         \/ WaitDone \/ DeinitFree
Interrupt == PSG_rb_peek \/ PeekCopy \/ NotYet \/ PSG_rb_pop \/ PSG_process_packet

Next == Script \/ Core0 \/ Boot \/ Cleanup \/ tick_cb \/ Interrupt

(* Both cores run, the timer fires, and the interrupt, which comes once in *)
(* a millisecond, leaves time to the loop of core 1.                       *)
Spec ==
    /\ Init /\ [][Next]_vars
    /\ WF_vars(Core0) /\ WF_vars(Boot) /\ SF_vars(Cleanup)
    /\ WF_vars(tick_cb) /\ WF_vars(Interrupt)

----------------------------------------------------------------------------
(* Properties.                                                             *)

(* As long as a driver is only selected after deinit and no script pushes  *)
(* after it, core 1 never reads a packet from memory that is freed or was  *)
(* not written, core 0 never writes one there, core 1 never calls a driver *)
(* that is not there, and it processes the packets in the order in which   *)
(* they were pushed, none twice and none left out, with no lock.           *)
NoFault == ~done.fault

(* The packets between the two ends of the ring are those pushed and not   *)
(* yet taken: a full ring refuses a packet and never looks empty.          *)
RingHoldsPending ==
    (core0.alive /\ At0("idle") /\ core1.at \in {"loop", "peek", "copy", "due"}) =>
        (rb.head - rb.tail) % QueueLen = done.pushed - done.played

(* When Driver#join has seen the ring empty and stopped core 1, every      *)
(* packet has been processed, the one in the hands of core 1 included.     *)
JoinPlaysAll == At0("free") /\ core0.joining => done.played = done.pushed

(* The words of a session are consumed in it: an acknowledgement is never  *)
(* left for the next handshake of the cores.                               *)
FifoDrained == At0("idle") => fifo = [to0 |-> <<>>, to1 |-> <<>>]

(* select and deinit return: the handshakes of the two cores end.          *)
HandshakeEnds == (At0("wait_ready") \/ At0("wait_done")) ~> At0("idle")

(* A packet that was pushed is processed, unless the driver is stopped,    *)
(* across the wrap-around of g_tick_ms.                                    *)
PacketsPlayed ==
    \A n \in 1..MaxPackets :
        (At0("idle") /\ core0.alive /\ done.pushed = n)
            ~> (done.played >= n \/ ~core0.alive \/ ~core0.drv)
=============================================================================
