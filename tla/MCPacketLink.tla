---------------------------- MODULE MCPacketLink ----------------------------
(* Two words of memory and a register, packets of two words, and files with  *)
(* one, two or three writes, with and without a fence or an unknown command  *)
(* between them.                                                             *)
EXTENDS PacketLink

MCTo(dst) == [kind |-> "write", dst |-> dst]
MCFence == [kind |-> "fence", dst |-> "none"]
MCUnknown == [kind |-> "unknown", dst |-> "a"]
MCFiles ==
  {<<MCTo("a"), MCTo("b")>>, <<MCTo("a"), MCUnknown>>, <<MCUnknown, MCTo("b")>>,
   <<MCTo("a"), MCFence, MCTo("csr")>>, <<MCTo("a"), MCTo("b"), MCFence, MCTo("a")>>}
=============================================================================
