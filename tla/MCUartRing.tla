----------------------------- MODULE MCUartRing -----------------------------
(* Small instances of UartRing for TLC.                                    *)
EXTENDS UartRing

CONSTANTS x, nl
=============================================================================
