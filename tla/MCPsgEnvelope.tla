--------------------------- MODULE MCPsgEnvelope ---------------------------
(* Small instance of PsgEnvelope for TLC.                                  *)
EXTENDS PsgEnvelope

(* The shapes whose drawing the code follows: all but those that end at    *)
(* the level opposite to the end of their ramp (01xx, 1011 and 1111).      *)
AsDrawn ==
    {s \in AllShapes :
        /\ "continue" \notin s => "attack" \notin s
        /\ ~({"continue", "alternate", "hold"} \subseteq s)}
=============================================================================
