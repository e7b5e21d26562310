--------------------------- MODULE MCSessionOutput ---------------------------
(* Instances of SessionOutput for TLC.                                      *)
EXTENDS SessionOutputProps

CONSTANTS s1

OneSave == {s1}
=============================================================================
