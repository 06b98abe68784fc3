-------------------------- MODULE MCPeripheralPort --------------------------
(* A scratchpad of one word, and one address beyond it.                    *)
EXTENDS PeripheralPort
=============================================================================
