----------------------------- MODULE MCPlShell -----------------------------
(* The shell with one CSR and one FIFO in each direction,                  *)
(* under every legal master and every user logic.                          *)
EXTENDS PlShell

MCWords == 0 .. Els
AllBytes == {{0, 1, 2, 3}}
=============================================================================
