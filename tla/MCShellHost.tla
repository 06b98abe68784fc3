---------------------------- MODULE MCShellHost ----------------------------
(* One CSR, the pair of input FIFOs, the output FIFO and the status word   *)
(* of one lane of shell-example.                                           *)
EXTENDS ShellHost

MCWords == 0 .. WordCount - 1
MCStrobes == {AllBytes}
=============================================================================
