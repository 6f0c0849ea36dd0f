----------------------------- MODULE ByteStream -----------------------------
(* What the receive buffer of a UART promises: bytes are read once and in  *)
(* the order they were received, and a reader gets nothing else.           *)
EXTENDS Naturals, Sequences

CONSTANT Bytes

VARIABLES pending, result

Init == pending = <<>> /\ result = <<>>

Receive ==
    /\ \E b \in Bytes : pending' = Append(pending, b)
    /\ UNCHANGED result

Read ==
    \E n \in 0..Len(pending) :
        /\ result' = SubSeq(pending, 1, n)
        /\ pending' = SubSeq(pending, n + 1, Len(pending))

Clear == pending' = <<>> /\ UNCHANGED result

Next == Receive \/ Read \/ Clear

Spec == Init /\ [][Next]_<<pending, result>>
=============================================================================
