------------------------------ MODULE UartRing ------------------------------
(***************************************************************************)
(* The receive buffer of a UART, mrbgems/picoruby-uart: a ring filled by   *)
(* the receive interrupt and emptied, without a lock, by the methods read, *)
(* readpartial, gets and clear_rx_buffer.  The interrupt may come between  *)
(* any two steps of a method; a method is not interrupted by another one.  *)
(***************************************************************************)
EXTENDS Integers, Sequences

CONSTANTS
    Bytes,         \* what is received
    NewLine,       \* the byte that ends a line
    Garbage,       \* an element of the caller's buffer that was not written
    Size,          \* rx_buffer_size
    MaxLen,        \* lengths scripts ask for are 0..MaxLen
    MayOverrun     \* whether bytes may arrive while the ring is full

ASSUME BytesAssumption == NewLine \in Bytes /\ Garbage \notin Bytes
(* initializeBuffer takes the powers of two that fit an int, and also 1, a *)
(* ring that never holds a byte.                                           *)
ASSUME PowerOfTwoAssumption == Size \in {2 ^ k : k \in 1..30}
ASSUME BoundsAssumption == MaxLen \in Nat /\ MayOverrun \in BOOLEAN

VARIABLES
    data, head, tail,   \* the RingBuffer
    pc,                 \* where the method is
    op,                 \* which method it is
    want,               \* len of popBuffer, the length the method returns
    left,               \* how many bytes popBuffer still has to copy
    buf,                \* what it has copied
    pos,                \* i of searchCharBuffer
    result              \* the string the last method returned

ringVars == <<data, head, tail>>
vars == <<data, head, tail, pc, op, want, left, buf, pos, result>>

Indices == 0..(Size - 1)

----------------------------------------------------------------------------
(* The mask is Size - 1, so & mask is % Size.                              *)
Advanced(i) == (i + 1) % Size

bufferDataSize == (tail - head) % Size

bufferFreeSize == Size - bufferDataSize

(* The interrupt handler, for one byte: UART_pushBuffer.                   *)
UART_pushBuffer(ch) ==
    /\ MayOverrun \/ bufferDataSize < Size - 1 \/ pc = "clear"
    /\ bufferFreeSize >= 1
    /\ data' = [data EXCEPT ![tail] = ch]
    /\ tail' = Advanced(tail)
    /\ UNCHANGED <<head, pc, op, want, left, buf, pos, result>>

----------------------------------------------------------------------------
(* The methods.                                                            *)

Enter(method, len) ==
    /\ pc = "idle" /\ pc' = "pop"
    /\ op' = method /\ want' = len
    /\ UNCHANGED ringVars /\ UNCHANGED <<left, buf, pos, result>>

(* read(len) returns nil, and takes nothing, when less is available.  When *)
(* the argument is left out, len_val is not initialized and any length may *)
(* be found in it.                                                         *)
mrb_read ==
    /\ bufferDataSize # 0
    /\ \E len \in 0..MaxLen : len <= bufferDataSize /\ Enter("read", len)

ReadAll == bufferDataSize # 0 /\ Enter("read", bufferDataSize)

mrb_readpartial ==
    /\ bufferDataSize # 0
    /\ \E maxlen \in 0..MaxLen :
          Enter("readpartial",
                IF bufferDataSize < maxlen THEN bufferDataSize ELSE maxlen)

mrb_gets ==
    /\ pc = "idle" /\ pc' = "search"
    /\ op' = "gets" /\ pos' = 0
    /\ UNCHANGED ringVars /\ UNCHANGED <<want, left, buf, result>>

(* Mutant: the position is taken for the length.                           *)
LineLengthShort == pos
LineLength == pos + 1

(* searchCharBuffer asks for the size of the data again for every byte.    *)
searchCharBuffer ==
    /\ pc = "search"
    /\ \/ /\ pos >= bufferDataSize
          /\ pc' = "idle" /\ pos' = 0 /\ UNCHANGED want
       \/ /\ pos < bufferDataSize /\ data[(head + pos) % Size] = NewLine
          /\ pc' = "pop" /\ pos' = 0 /\ want' = LineLength
       \/ /\ pos < bufferDataSize /\ data[(head + pos) % Size] # NewLine
          /\ pos' = pos + 1 /\ UNCHANGED <<pc, want>>
    /\ UNCHANGED ringVars /\ UNCHANGED <<op, left, buf, result>>

(* popBuffer: how much it is going to copy; nothing when the ring is empty *)
(* or smaller than len.                                                    *)
popBuffer ==
    /\ pc = "pop" /\ pc' = "copy"
    /\ left' = IF want > Size \/ tail = head THEN 0
               ELSE IF bufferDataSize < want THEN bufferDataSize ELSE want
    /\ buf' = <<>>
    /\ UNCHANGED ringVars /\ UNCHANGED <<op, want, pos, result>>

PopByte ==
    /\ pc = "copy" /\ left > 0
    /\ buf' = Append(buf, data[head])
    /\ head' = Advanced(head)
    /\ left' = left - 1
    /\ UNCHANGED <<data, tail, pc, op, want, pos, result>>

(* The method returns want bytes, whatever popBuffer has copied.           *)
Return ==
    /\ pc = "copy" /\ left = 0
    /\ result' = [k \in 1..want |-> IF k <= Len(buf) THEN buf[k] ELSE Garbage]
    /\ pc' = "idle" /\ buf' = <<>> /\ want' = 0
    /\ UNCHANGED ringVars /\ UNCHANGED <<op, left, pos>>

(* clearBuffer stores head, then tail.                                     *)
ClearHead ==
    /\ pc = "idle" /\ pc' = "clear"
    /\ head' = 0
    /\ UNCHANGED <<data, tail, op, want, left, buf, pos, result>>

(* Mutant: only head is reset.                                             *)
ClearedTailKept == tail
ClearedTail == 0

ClearTail ==
    /\ pc = "clear" /\ pc' = "idle"
    /\ tail' = ClearedTail
    /\ UNCHANGED <<data, head, op, want, left, buf, pos, result>>

----------------------------------------------------------------------------
(* initializeBuffer; data is not initialized.                              *)
Init ==
    /\ data = [k \in Indices |-> Garbage]
    /\ head = 0 /\ tail = 0
    /\ pc = "idle" /\ op = "none"
    /\ want = 0 /\ left = 0 /\ pos = 0
    /\ buf = <<>> /\ result = <<>>

Interrupt == \E ch \in Bytes : UART_pushBuffer(ch)

Next ==
    \/ Interrupt
    \/ mrb_read \/ ReadAll \/ mrb_readpartial
    \/ mrb_gets \/ searchCharBuffer
    \/ popBuffer \/ PopByte \/ Return
    \/ ClearHead \/ ClearTail

Spec == Init /\ [][Next]_vars

----------------------------------------------------------------------------
(* Properties.                                                             *)

(* The bytes in the ring, oldest first.                                    *)
Contents ==
    [k \in 1..bufferDataSize |-> data[(head + k - 1) % Size]]

Stream == INSTANCE ByteStream
            WITH pending <- IF pc = "clear" THEN <<>> ELSE buf \o Contents

(* While the ring is not overrun, the methods return the bytes received,   *)
(* once and in order, although the interrupt adds bytes while they look    *)
(* for the end of a line, copy, or clear the buffer.                       *)
RingIsStream == Stream!Spec

(* gets returns one line: it ends with the only newline in it.             *)
GetsIsLine ==
    op = "gets" /\ pc = "copy" /\ left = 0 =>
        \A k \in 1..want : k <= Len(buf) /\ (buf[k] = NewLine <=> k = want)
=============================================================================
