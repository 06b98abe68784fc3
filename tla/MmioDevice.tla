----------------------------- MODULE MmioDevice -----------------------------
(***************************************************************************)
(* What the shell promises to a program: a device of CSRs and FIFOs whose  *)
(* operations are atomic.  A call names a location, takes effect once      *)
(* between its start and its return, and a read returns the value at that  *)
(* moment.  Meanwhile the user logic takes words from the FIFOs towards    *)
(* the PL and feeds the FIFOs towards the PS.  A write to a full FIFO is   *)
(* dropped and a read from an empty one is bogus, as documented            *)
(* (bsg_zynq_pl_shell.sv, lines 15-19).                                    *)
(***************************************************************************)
EXTENDS Integers, Sequences

CONSTANTS NumCsrs, NumIns, NumOuts, Els, Words

VARIABLES
  op,         \* the call under way
  returned,   \* what the last call returned, kept until the next
  csr,        \* the CSRs
  csr_new,    \* the CSRs written by this very step
  inq, outq   \* the FIFOs

vars == <<op, returned, csr, csr_new, inq, outq>>

Csrs == 0 .. NumCsrs - 1
Ins  == 0 .. NumIns - 1
Outs == 0 .. NumOuts - 1

NoOp == [kind |-> "none"]

WriteLocs == ({"csr"} \X Csrs) \cup ({"ps_to_pl"} \X Ins) \cup {<<"none", 0>>}
ReadLocs == ({"csr"} \X Csrs) \cup ({"pl_to_ps"} \X Outs) \cup {<<"none", 0>>}
              \cup ({"pl_to_ps_count"} \X Outs) \cup ({"ps_to_pl_count"} \X Ins)
              \cup {<<"csr_i", 0>>}

Value(loc) ==
  CASE loc[1] = "csr" -> {csr[loc[2]]}
    [] loc[1] = "pl_to_ps" ->
         IF outq[loc[2]] = << >> THEN Words ELSE {Head(outq[loc[2]])}
    [] loc[1] = "pl_to_ps_count" -> {Len(outq[loc[2]])}
    [] loc[1] = "ps_to_pl_count" -> {Els - Len(inq[loc[2]])}
    [] loc[1] = "csr_i" -> Words
    [] loc[1] = "none" -> {0}

Init ==
  /\ op = NoOp /\ returned = 0
  /\ csr = [k \in Csrs |-> 0] /\ csr_new = {}
  /\ inq = [k \in Ins |-> << >>] /\ outq = [k \in Outs |-> << >>]

\* The state after a step that writes data at wloc, reads rloc, and in which
\* the user logic pops the FIFOs pops and offers offered to the others.
Memory(wloc, data, rloc) ==
  \E pops \in SUBSET {k \in Ins : inq[k] # << >>},
     offered \in [Outs -> {<< >>} \cup {<<x>> : x \in Words}] :
    /\ csr_new' = {k \in Csrs : wloc = <<"csr", k>>}
    /\ csr' = [k \in Csrs |-> IF k \in csr_new' THEN data ELSE csr[k]]
    /\ inq' = [k \in Ins |->
         (IF k \in pops THEN Tail(inq[k]) ELSE inq[k])
           \o (IF wloc = <<"ps_to_pl", k>> /\ Len(inq[k]) < Els
               THEN <<data>> ELSE << >>)]
    /\ outq' = [k \in Outs |->
         (IF rloc = <<"pl_to_ps", k>> /\ outq[k] # << >> THEN Tail(outq[k])
                                                         ELSE outq[k])
           \o (IF Len(outq[k]) < Els THEN offered[k] ELSE << >>)]

Untouched == Memory(<<"none", 0>>, 0, <<"none", 0>>)

Call ==
  /\ op = NoOp
  /\ \/ \E loc \in WriteLocs, data \in Words :
          op' = [kind |-> "write", loc |-> loc, data |-> data, applied |-> FALSE]
     \/ \E loc \in ReadLocs :
          op' = [kind |-> "read", loc |-> loc, data |-> 0, applied |-> FALSE]
  /\ returned' = 0 /\ Untouched

ApplyWrite ==
  /\ op.kind = "write" /\ ~op.applied
  /\ op' = [op EXCEPT !.applied = TRUE]
  /\ Memory(op.loc, op.data, <<"none", 0>>) /\ UNCHANGED returned

ApplyRead ==
  /\ op.kind = "read" /\ ~op.applied
  /\ \E value \in Value(op.loc) :
       op' = [op EXCEPT !.applied = TRUE, !.data = value]
  /\ Memory(<<"none", 0>>, 0, op.loc) /\ UNCHANGED returned

Return ==
  /\ op # NoOp /\ op.applied
  /\ op' = NoOp
  /\ returned' = IF op.kind = "read" THEN op.data ELSE returned
  /\ Untouched

User == Untouched /\ UNCHANGED <<op, returned>>

Next == Call \/ ApplyWrite \/ ApplyRead \/ Return \/ User

Spec == Init /\ [][Next]_vars
=============================================================================
