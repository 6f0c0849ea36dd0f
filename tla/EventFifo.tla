----------------------------- MODULE EventFifo -----------------------------
(* What the event queue between the GPIO interrupt and IRQ.process         *)
(* promises: a bounded queue, from which events are handed over one by one *)
(* in the order they were put in.                                          *)
EXTENDS Naturals, Sequences

CONSTANTS Events, Nothing, Capacity

VARIABLES q, handed

Init == q = <<>> /\ handed = Nothing

Put ==
    /\ Len(q) < Capacity
    /\ \E e \in Events : q' = Append(q, e)
    /\ UNCHANGED handed

Take == q # <<>> /\ handed' = Head(q) /\ q' = Tail(q)

(* The consumer has forgotten what it was handed.                          *)
Release == handed' = Nothing /\ UNCHANGED q

Next == Put \/ Take \/ Release

Spec == Init /\ [][Next]_<<q, handed>>
=============================================================================
