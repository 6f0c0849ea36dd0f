------------------------------- MODULE MCPsg -------------------------------
(* Small instance of Psg for TLC.                                          *)
EXTENDS Psg
=============================================================================
