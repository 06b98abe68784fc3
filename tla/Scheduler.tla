------------------------------ MODULE Scheduler ------------------------------
(***************************************************************************)
(* The scheduler of cosim/include/common/bsg_zynq_pl_simulation.h, which   *)
(* runs in the one thread of the program.  next() resumes each coroutine   *)
(* of co_list once, in order (turn "sweep"), then polls the devices and    *)
(* the ports for requests, which adds coroutines ("pollm", "polls"), then  *)
(* ticks the clock ("tick").  Between two calls of next() the turn is the  *)
(* program's ("call").                                                     *)
(*                                                                         *)
(* A step is one resumption, one poll or one tick.  A coroutine is the     *)
(* yield at which it waits, its pc, with its parameters.  A new coroutine  *)
(* runs at once up to its first yield, the one in lock(), which comes      *)
(* before the first look at the mutex.                                     *)
(***************************************************************************)
EXTENDS Integers, Sequences, SequencesExt

VARIABLES
  turn, pos,   \* the part of next() under way; the coroutine to resume
  co_list      \* the coroutines, oldest first

scheduler == <<turn, pos, co_list>>

SchedulerInit == turn = "sweep" /\ pos = 1 /\ co_list = << >>

-----------------------------------------------------------------------------
me == co_list[pos]

Resumed(port, pc) ==
  /\ turn = "sweep" /\ pos <= Len(co_list)
  /\ me.port = port /\ me.pc = pc
  /\ UNCHANGED turn

\* The coroutine runs on to the yield at pc.
Yield(pc) ==
  /\ co_list' = [co_list EXCEPT ![pos].pc = pc]
  /\ pos' = pos + 1

\* The coroutine ends and is erased.
Finish ==
  /\ co_list' = RemoveAt(co_list, pos)
  /\ pos' = pos

Spawn(coroutine) == co_list' = Append(co_list, coroutine)

EndSweep ==
  /\ turn = "sweep" /\ pos > Len(co_list)
  /\ turn' = "pollm"
  /\ UNCHANGED <<pos, co_list>>

\* next() is called again.
BeginSweep == turn' = "sweep" /\ pos' = 1 /\ UNCHANGED co_list

-----------------------------------------------------------------------------
Threads(port) == {k \in 1 .. Len(co_list) : co_list[k].port = port}

\* The coroutines that are past lock().
Holders(port) == {k \in Threads(port) : co_list[k].pc # "lock"}

\* The coroutine has run since the last tick.
TickToCome(k) == turn \in {"pollm", "polls", "tick"} \/ (turn = "sweep" /\ k < pos)
=============================================================================
