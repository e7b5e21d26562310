--------------------------- MODULE MCCdpSession ---------------------------
(* An instance of CdpSession for TLC: the session of the connection and one *)
(* attached target, which takes turns with it in the queue of tasks.        *)
EXTENDS CdpSessionProps

CONSTANT page

Pages == {page}
=============================================================================
