---------------------------- MODULE MCBlackParrot ----------------------------
(* Files that begin at the first word of the DRAM, cross its end of the      *)
(* window and hold lines of every kind.  The word that lets the core go is   *)
(* the last of them, or not, or never reached.                               *)
EXTENDS BlackParrot

MCLine(op, addr, low, high) == [op |-> op, addr |-> addr, low |-> low, high |-> high]
MCGo == MCLine("2", freeze, 0, 0)
MCFiles ==
  {<<MCLine("3", DRAM, 2, 3), MCLine("2", DRAM + 2, 4, 0), MCLine("2", DRAM, 5, 0),
     MCLine("3", \h23FFFFFE, 6, 7), MCGo, MCLine("2", DRAM + 2, 1, 0),
     MCLine("ff", 0, 0, 0)>>,
   <<MCLine("2", \h80182, 0, 0), MCLine("0", DRAM, 9, 0), MCLine("fe", 0, 0, 0), MCGo>>,
   <<MCLine("2", DRAM, 2, 0), MCLine("1", DRAM, 9, 0), MCLine("unknown", 0, 0, 0), MCGo>>}

MCDemands ==
  [write : {TRUE}, addr : {\h101000, \h102000, \h104000}] \cup
  [write : {FALSE}, addr : {\h100000, \h110004, \h110808, \h11FFFC,
                            \h120000, \h120004, \h120008, \h130000}]
=============================================================================
