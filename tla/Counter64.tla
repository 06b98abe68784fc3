------------------------------ MODULE Counter64 ------------------------------
(***************************************************************************)
(* get_counter_64 of cosim/include/common/bsg_utils.h, and its twin        *)
(* shell_read64b of bsg_zynq_pl_base.h: a program reads a counter of two   *)
(* words, which runs on meanwhile, one word at a time, and starts again    *)
(* when the high word has changed.                                         *)
(*                                                                         *)
(* Each shell_read is one atomic read (ShellHost.tla).  The counter is one *)
(* of the PL, such as minstret or mtime; any number of counts may pass     *)
(* between two reads.                                                      *)
(***************************************************************************)
EXTENDS Integers

CONSTANTS
  Half,     \* the values of a word: 2^32
  MaxHigh   \* bound on the high word, below which the counter never wraps

ASSUME CounterAssumption == Half \in Nat /\ Half > 1 /\ MaxHigh \in 0 .. Half - 1

VARIABLES
  count,            \* the counter
  reading,          \* the read that comes next, "idle" between two calls
  val_hi, val_lo,   \* the words read
  val,              \* what the last call returned
  \* history: the counter at the start of the call, the passes that failed
  began, retries

counterVars == <<count, reading, val_hi, val_lo, val, began, retries>>

Counts == [hi : 0 .. MaxHigh, lo : 0 .. Half - 1]

CounterTypeOK ==
  /\ count \in Counts /\ began \in Counts
  /\ reading \in {"idle", "hi", "lo", "hi2"}
  /\ val_hi \in 0 .. MaxHigh /\ val_lo \in 0 .. Half - 1
  /\ val \in Int /\ retries \in Nat

-----------------------------------------------------------------------------
\* The counter of the PL.
Advance ==
  /\ \/ /\ count.lo < Half - 1
        /\ count' = [count EXCEPT !.lo = count.lo + 1]
     \/ /\ count.lo = Half - 1 /\ count.hi < MaxHigh
        /\ count' = [hi |-> count.hi + 1, lo |-> 0]
  /\ UNCHANGED <<reading, val_hi, val_lo, val, began, retries>>

Start ==
  /\ reading = "idle" /\ reading' = "hi"
  /\ began' = count /\ retries' = 0
  /\ UNCHANGED <<count, val_hi, val_lo, val>>

ReadHi ==
  /\ reading = "hi" /\ reading' = "lo"
  /\ val_hi' = count.hi
  /\ UNCHANGED <<count, val_lo, val, began, retries>>

ReadLo ==
  /\ reading = "lo" /\ reading' = "hi2"
  /\ val_lo' = count.lo
  /\ UNCHANGED <<count, val_hi, val, began, retries>>

\* shell_read returns an int32_t, which the assignment to a uint64_t extends
\* with its sign.
Widened(word) == IF 2 * word < Half THEN word ELSE word + Half * Half - Half

\* Mutant of ReadHi2: the high word is not read again.
ReadHi2Never ==
  /\ reading = "hi2" /\ reading' = "idle"
  /\ val' = val_hi * Half + val_lo
  /\ UNCHANGED <<count, val_hi, val_lo, began, retries>>

\* Mutant of ReadHi2: the pass that failed is tried again from its middle.
ReadHi2KeepsHigh ==
  /\ reading = "hi2"
  /\ IF count.hi = val_hi THEN reading' = "idle" /\ retries' = retries
                          ELSE reading' = "lo" /\ retries' = retries + 1
  /\ UNCHANGED <<count, val_hi, val_lo, val, began>>

ReadHi2 ==
  /\ reading = "hi2"
  /\ IF count.hi = val_hi
     THEN /\ reading' = "idle"
          /\ val' = (Widened(val_hi) * Half + Widened(val_lo)) % (Half * Half)
          /\ UNCHANGED retries
     ELSE reading' = "hi" /\ retries' = retries + 1 /\ UNCHANGED val
  /\ UNCHANGED <<count, val_hi, val_lo, began>>

CounterInit ==
  /\ count \in Counts /\ began = count
  /\ reading = "idle" /\ val_hi = count.hi /\ val_lo = count.lo
  /\ val = 0 /\ retries = 0

CounterNext == Advance \/ Start \/ ReadHi \/ ReadLo \/ ReadHi2

CounterSpec == CounterInit /\ [][CounterNext]_counterVars

-----------------------------------------------------------------------------
NotAfter(a, b) == a.hi < b.hi \/ (a.hi = b.hi /\ a.lo <= b.lo)

(***************************************************************************)
(* The two words that a call accepts are the halves of one value, which    *)
(* the counter had during the call: whatever carries happen between the    *)
(* reads, the words are never those of two different values.               *)
(***************************************************************************)
Untorn ==
  LET accepted == [hi |-> val_hi, lo |-> val_lo]
  IN  reading = "idle" => NotAfter(began, accepted) /\ NotAfter(accepted, count)

(***************************************************************************)
(* A pass fails only for a carry of its own: a call makes no more passes   *)
(* than the high word has changed, and one.                                *)
(***************************************************************************)
RetriesPaid == reading # "idle" => retries <= count.hi - began.hi

(***************************************************************************)
(* "attempting to read mtime reg in BP CFG space, should increase          *)
(* monotonically" (black-parrot-example/ps.cpp, lines 111-112): a call     *)
(* never returns less than the call before it.                             *)
(***************************************************************************)
Monotonic == [][val' >= val]_counterVars
=============================================================================
