--------------------------- MODULE MCTraceEncoder ---------------------------
(***************************************************************************)
(* The trace path on a small program-counter bus, in units of one          *)
(* instruction: Step = 1, deltas below ShortSpan are sent as such.         *)
(***************************************************************************)
EXTENDS TraceEncoder
=============================================================================
