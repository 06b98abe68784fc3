---------------------------- MODULE MCCounter64 ----------------------------
(* Words of four values: the counter carries several times in a call.      *)
EXTENDS Counter64
=============================================================================
