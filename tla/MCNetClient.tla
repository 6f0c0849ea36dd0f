---------------------------- MODULE MCNetClient ----------------------------
(* Small instance of NetClient for TLC.                                    *)
EXTENDS NetClient
=============================================================================
