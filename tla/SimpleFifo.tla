----------------------------- MODULE SimpleFifo -----------------------------
(***************************************************************************)
(* rtl/simple_fifo.sv: the circular buffer behind the trace encoder.       *)
(*                                                                         *)
(* One action is one clock edge (or the asynchronous reset); the           *)
(* combinational outputs ready_o, v_o and data_o are operators of the      *)
(* registered state.  The pointers have clog2(DEPTH) bits and wrap by      *)
(* overflow, which is modulo DEPTH only if DEPTH is a power of two (the    *)
(* comment at lines 44-45; the only instance has DEPTH = 4): PowerOfTwo    *)
(* says so, and of other depths the module says nothing.                   *)
(***************************************************************************)
EXTENDS Integers, Sequences

CONSTANTS
  Data,     \* the words of WIDTH bits
  Depth     \* DEPTH, a power of two

ASSUME DepthAssumption == Depth \in Nat \ {0}

\* What the overflow of the pointers asks of DEPTH.
ASSUME PowerOfTwo == \E k \in 1 .. Depth : Depth = 2 ^ k

VARIABLES
  mem_r,    \* the storage, not reset
  wptr_r,   \* the next slot to write
  rptr_r,   \* the slot of the oldest item
  count_r   \* the number of items held

fifoVars == <<mem_r, wptr_r, rptr_r, count_r>>

Slots == 0 .. Depth - 1

FifoTypeOK ==
  /\ mem_r \in [Slots -> Data]
  /\ wptr_r \in Slots
  /\ rptr_r \in Slots
  /\ count_r \in 0 .. Depth

-----------------------------------------------------------------------------
full  == count_r = Depth
empty == count_r = 0

ready_o == ~full
v_o     == ~empty
data_o  == mem_r[rptr_r]

\* A pointer register keeps the low clog2(Depth) bits of what it is assigned.
Wrap(n) == n % Depth
NextPtr(p) == Wrap(p + 1)

\* After the reset of power-up: the registers are cleared, the memory is not.
FifoInit ==
  /\ mem_r \in [Slots -> Data]
  /\ wptr_r = 0
  /\ rptr_r = 0
  /\ count_r = 0

FifoReset ==
  /\ wptr_r' = 0
  /\ rptr_r' = 0
  /\ count_r' = 0
  /\ UNCHANGED mem_r

\* Mutant of Write: the full flag is not consulted.
WriteUnguarded(v_i, data_i) ==
  IF v_i
  THEN /\ mem_r' = [mem_r EXCEPT ![wptr_r] = data_i]
       /\ wptr_r' = NextPtr(wptr_r)
  ELSE UNCHANGED <<mem_r, wptr_r>>

Write(v_i, data_i) ==
  IF v_i /\ ~full
  THEN /\ mem_r' = [mem_r EXCEPT ![wptr_r] = data_i]
       /\ wptr_r' = NextPtr(wptr_r)
  ELSE UNCHANGED <<mem_r, wptr_r>>

Read(yumi_i) ==
  rptr_r' = IF yumi_i /\ ~empty THEN NextPtr(rptr_r) ELSE rptr_r

\* Mutant of Count: a write together with a read counts as a write.
CountNoBoth(v_i, yumi_i) ==
  count_r' = CASE v_i /\ ~full -> count_r + 1
               [] ~(v_i /\ ~full) /\ (yumi_i /\ ~empty) -> count_r - 1
               [] OTHER -> count_r

Count(v_i, yumi_i) ==
  count_r' = CASE (v_i /\ ~full) /\ ~(yumi_i /\ ~empty) -> count_r + 1
               [] ~(v_i /\ ~full) /\ (yumi_i /\ ~empty) -> count_r - 1
               [] OTHER -> count_r

\* The always_ff block out of reset.
FifoClock(v_i, data_i, yumi_i) ==
  /\ Write(v_i, data_i)
  /\ Read(yumi_i)
  /\ Count(v_i, yumi_i)

FifoNext ==
  \/ \E v_i, yumi_i \in BOOLEAN, data_i \in Data : FifoClock(v_i, data_i, yumi_i)
  \/ FifoReset

FifoSpec == FifoInit /\ [][FifoNext]_fifoVars

-----------------------------------------------------------------------------
(***************************************************************************)
(* Correctness.                                                            *)
(***************************************************************************)

\* The slot of the i-th oldest item, i \in 1 .. count_r.
Slot(i) == Wrap(rptr_r + i - 1)

\* The items held, oldest first.
Contents == [i \in 1 .. count_r |-> mem_r[Slot(i)]]

(***************************************************************************)
(* The three registers are redundant: the write pointer is always          *)
(* count_r slots past the read pointer.  full and empty are decided by the *)
(* count alone while the accesses go through the pointers, so an item      *)
(* would be overwritten or read twice as soon as the three disagree.       *)
(***************************************************************************)
PointersAgree == wptr_r = Wrap(rptr_r + count_r)

\* The ring buffer implements the bounded queue: nothing accepted is lost,
\* duplicated, overwritten or reordered, across every wrap of the pointers.
Queue == INSTANCE BoundedQueue WITH Capacity <- Depth, queue <- Contents
ImplementsQueue == Queue!Spec
=============================================================================
