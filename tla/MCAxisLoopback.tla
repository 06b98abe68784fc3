--------------------------- MODULE MCAxisLoopback ---------------------------
(* A short transaction over FIFOs that fill up.                            *)
EXTENDS AxisLoopback
=============================================================================
