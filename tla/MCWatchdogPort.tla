--------------------------- MODULE MCWatchdogPort ---------------------------
(* A watchdog whose period is shorter than a write, so that its writes     *)
(* queue for the port.                                                     *)
EXTENDS WatchdogPort
=============================================================================
