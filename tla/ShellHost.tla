------------------------------ MODULE ShellHost ------------------------------
(***************************************************************************)
(* A PS program on the simulator: the shell of PlShell.tla, driven by the  *)
(* AXI4-Lite master coroutines of cosim/include/common/bsg_axil.h, with    *)
(* the user logic of cosim/shell-example/v/top_zynq.sv behind it.          *)
(*                                                                         *)
(* The program calls shell_read and shell_write one at a time; a call      *)
(* starts a coroutine and runs next() until the coroutine has ended.       *)
(* next() resumes the coroutine up to its next yield, then ticks the       *)
(* clock.  A step here is a tick followed by the stretch of coroutine code *)
(* that runs before the next tick, so that pins driven by the coroutine    *)
(* meet the edge of the following step.  pc names the yield at which the   *)
(* coroutine waits.  The port's mutex is free at every call since one call *)
(* is under way at a time.                                                 *)
(***************************************************************************)
EXTENDS PlShell

CONSTANTS
  WordCount,    \* 2^32
  WriteData,    \* the words the program writes
  AllBytes,     \* the strobe the program passes
  Tracked       \* the FIFOs from the PS whose credit is kept

ASSUME HostAssumption ==
  /\ WordCount \in Nat \ {0} /\ Words = 0 .. WordCount - 1 /\ Payload = Words
  /\ WriteData \subseteq Words /\ AllBytes \in Strobes
  /\ Addresses \subseteq Words
  /\ NumIns = 2 * NumOuts /\ NumStats = 1

VARIABLES
  pc,           \* the yield where the coroutine waits, "idle" when there is none
  call,         \* the call under way
  done,         \* the flags aw_done, w_done, b_done, ar_done, r_done that are set
  rdata,        \* the local rdata of the read helper
  returned,     \* what shell_read returned, kept until the next call
  last_write_addr_r,    \* user logic: the address of the last write
  \* history: the words the program may still write to and read from each FIFO
  \* going by the last count it read, and whether the call was covered by it
  in_credit, out_credit, covered

coroutine == <<pc, call, done, rdata, returned>>
credits == <<in_credit, out_credit, covered>>
hostVars == <<shellVars, coroutine, last_write_addr_r, credits>>

NoCall == [kind |-> "none"]
Calls == {NoCall} \cup [kind : {"write"}, addr : Addresses, data : WriteData]
                  \cup [kind : {"read"}, addr : Addresses]

HostTypeOK ==
  /\ ShellTypeOK
  /\ pc \in {"idle", "aw", "bsetup", "b", "ar", "rsetup", "r", "unlock"}
  /\ call \in Calls
  /\ done \subseteq {"aw", "w", "b", "ar", "r"}
  /\ rdata \in Words /\ returned \in Words
  /\ last_write_addr_r \in Addresses
  /\ in_credit \in [Ins -> 0 .. Els] /\ out_credit \in [Outs -> 0 .. Els]
  /\ covered \in BOOLEAN

-----------------------------------------------------------------------------
(***************************************************************************)
(* The user logic: each FIFO towards the PS is fed with the sums of a pair *)
(* of FIFOs from the PS.                                                   *)
(***************************************************************************)
pair_valid(k) == in_valid(2 * k) /\ in_valid(2 * k + 1)
pair_sum(k) ==
  IF pair_valid(k)
  THEN (Head(ps_to_pl[2 * k]) + Head(ps_to_pl[2 * k + 1])) % WordCount ELSE 0

Loopback ==
  /\ ShellEdge({i \in Ins : pair_valid(i \div 2) /\ out_ready(i \div 2)},
               {k \in Outs : pair_valid(k)},
               [k \in Outs |-> pair_sum(k)],
               [s \in Stats |-> last_write_addr_r])
  /\ last_write_addr_r' = IF AWVALID /\ axi_awready THEN aw ELSE last_write_addr_r

-----------------------------------------------------------------------------
(***************************************************************************)
(* The coroutines.  After the edge they look at the new outputs.           *)
(***************************************************************************)
\* The flags that a look at the ready and valid pins sets.
Seen(flags) ==
  {f \in flags : CASE f = "aw" -> axi_awready'
                   [] f = "w" -> axi_wready'
                   [] f = "b" -> axi_bvalid'
                   [] f = "ar" -> axi_arready'
                   [] f = "r" -> axi_rvalid'}

Less1(n) == IF n = 0 THEN 0 ELSE n - 1

ShellWrite(addr, data) ==
  /\ pc = "idle" /\ pc' = "aw"
  /\ call' = [kind |-> "write", addr |-> addr, data |-> data]
  /\ aw' = addr /\ w' = [data |-> data, strb |-> AllBytes]
  /\ done' = Seen({"aw", "w"})
  /\ LET loc == WriteLoc(addr)
     IN  /\ covered' = (loc[1] = "ps_to_pl" /\ in_credit[loc[2]] > 0)
         /\ in_credit' = [k \in Ins |-> IF loc = <<"ps_to_pl", k>>
                                         THEN Less1(in_credit[k]) ELSE in_credit[k]]
  /\ returned' = 0
  /\ UNCHANGED <<bready, ar, rready, rdata, out_credit>>

\* axil_write_helper: until both address and data are consumed.
WriteLoop ==
  /\ pc = "aw"
  /\ aw' = IF "aw" \in done THEN NoBeat ELSE aw
  /\ w' = IF "w" \in done THEN NoBeat ELSE w
  /\ IF {"aw", "w"} \subseteq done
     THEN pc' = "bsetup" /\ UNCHANGED done
     ELSE pc' = "aw" /\ done' = done \cup Seen({"aw", "w"})
  /\ UNCHANGED <<bready, ar, rready, call, rdata, returned, credits>>

BSetup ==
  /\ pc = "bsetup" /\ pc' = "b"
  /\ bready' = TRUE
  /\ done' = done \cup Seen({"b"})
  /\ UNCHANGED <<aw, w, ar, rready, call, rdata, returned, credits>>

BLoop ==
  /\ pc = "b"
  /\ IF "b" \in done
     THEN pc' = "unlock" /\ bready' = FALSE /\ UNCHANGED done
     ELSE pc' = "b" /\ done' = Seen({"b"}) \cup done /\ UNCHANGED bready
  /\ UNCHANGED <<aw, w, ar, rready, call, rdata, returned, credits>>

ShellRead(addr) ==
  /\ pc = "idle" /\ pc' = "ar"
  /\ call' = [kind |-> "read", addr |-> addr]
  /\ ar' = addr
  /\ done' = Seen({"ar"})
  /\ LET loc == ReadLoc(addr)
     IN  /\ covered' = (loc[1] = "pl_to_ps" /\ out_credit[loc[2]] > 0)
         /\ out_credit' = [k \in Outs |-> IF loc = <<"pl_to_ps", k>>
                                           THEN Less1(out_credit[k]) ELSE out_credit[k]]
  /\ returned' = 0
  /\ UNCHANGED <<aw, w, bready, rready, rdata, in_credit>>

\* Mutant of ReadLoop: the address is offered for a single cycle.
ReadOnce ==
  /\ pc = "ar"
  /\ pc' = "rsetup" /\ ar' = NoBeat
  /\ UNCHANGED <<aw, w, bready, rready, call, done, rdata, returned, credits>>

\* axil_read_helper: until the address is consumed.
ReadLoop ==
  /\ pc = "ar"
  /\ IF "ar" \in done
     THEN pc' = "rsetup" /\ ar' = NoBeat /\ UNCHANGED done
     ELSE pc' = "ar" /\ done' = done \cup Seen({"ar"}) /\ UNCHANGED ar
  /\ UNCHANGED <<aw, w, bready, rready, call, rdata, returned, credits>>

Capture ==
  /\ done' = done \cup Seen({"r"})
  /\ rdata' = IF axi_rvalid' THEN axi_rdata' ELSE rdata

RSetup ==
  /\ pc = "rsetup" /\ pc' = "r"
  /\ rready' = TRUE
  /\ Capture
  /\ UNCHANGED <<aw, w, bready, ar, call, returned, credits>>

RLoop ==
  /\ pc = "r"
  /\ IF "r" \in done
     THEN pc' = "unlock" /\ rready' = FALSE /\ UNCHANGED <<done, rdata>>
     ELSE pc' = "r" /\ Capture /\ UNCHANGED rready
  /\ UNCHANGED <<aw, w, bready, ar, call, returned, credits>>

\* The coroutine ends: the callback hands the word to the caller.
Return ==
  /\ pc = "unlock" /\ pc' = "idle"
  /\ call' = NoCall /\ done' = {} /\ rdata' = 0
  /\ returned' = IF call.kind = "read" THEN rdata ELSE returned
  /\ covered' = FALSE
  /\ LET loc == IF call.kind = "read" THEN ReadLoc(call.addr) ELSE <<"none", 0>>
     IN  /\ in_credit' = [k \in Ins |-> IF loc = <<"ps_to_pl_count", k>> /\ k \in Tracked
                                         THEN rdata ELSE in_credit[k]]
         /\ out_credit' = [k \in Outs |-> IF loc = <<"pl_to_ps_count", k>>
                                           THEN rdata ELSE out_credit[k]]
  /\ UNCHANGED pins

\* The program ticks the clock between two calls.
Between == pc = "idle" /\ UNCHANGED <<pins, coroutine, credits>>

Coroutine ==
  \/ \E addr \in Addresses, data \in WriteData : ShellWrite(addr, data)
  \/ WriteLoop \/ BSetup \/ BLoop
  \/ \E addr \in Addresses : ShellRead(addr)
  \/ ReadLoop \/ RSetup \/ RLoop
  \/ Return
  \/ Between

HostInit ==
  /\ ShellInit
  /\ pc = "idle" /\ call = NoCall /\ done = {} /\ rdata = 0 /\ returned = 0
  /\ last_write_addr_r = 0
  /\ in_credit = [k \in Ins |-> 0] /\ out_credit = [k \in Outs |-> 0]
  /\ covered = FALSE

HostNext == Loopback /\ Handshakes /\ Coroutine

HostSpec == HostInit /\ [][HostNext]_hostVars

\* The caller runs next() until its call is done.
FairHostSpec == HostSpec /\ WF_hostVars(HostNext)

-----------------------------------------------------------------------------
(***************************************************************************)
(* Correctness.                                                            *)
(***************************************************************************)

(***************************************************************************)
(* The coroutines are a legal AXI4-Lite master: they hold what they offer  *)
(* until the shell has accepted it, and start no read before the answer to *)
(* the last one, although they look at READY one edge after it was raised. *)
(* The invariants of PlShell.tla hold for every such master.               *)
(***************************************************************************)
HostIsLegalMaster == [][LegalMaster]_shellVars

Unapplied ==
  \/ pc = "aw" /\ ~axi_bvalid
  \/ pc = "ar" /\ ~axi_rvalid

(***************************************************************************)
(* "Reading the FIFO csrs tells you how many consecutive words you can     *)
(* read/write before checking the csr again" (lines 18-19): the count a    *)
(* program read some time ago, less the words it has moved since, never    *)
(* exceeds the room or the words there are now, so a write covered by it   *)
(* is not dropped and a read covered by it is not bogus.                   *)
(***************************************************************************)
CreditsHold ==
  /\ \A k \in Ins :
       in_credit[k] + (IF covered /\ Unapplied /\ call.kind = "write"
                          /\ WriteLoc(call.addr) = <<"ps_to_pl", k>>
                       THEN 1 ELSE 0)
         <= Els - Len(ps_to_pl[k])
  /\ \A k \in Outs :
       out_credit[k] + (IF covered /\ Unapplied /\ call.kind = "read"
                           /\ ReadLoc(call.addr) = <<"pl_to_ps", k>>
                        THEN 1 ELSE 0)
         <= Len(pl_to_ps[k])

(***************************************************************************)
(* Each call takes effect exactly once, between its start and its return,  *)
(* at the location of its address, and a read returns what was there at    *)
(* that moment: the handshakes implement the atomic device.                *)
(***************************************************************************)
Device == INSTANCE MmioDevice WITH
  op <- IF call.kind = "none" THEN [kind |-> "none"]
        ELSE [kind |-> call.kind,
              loc |-> IF call.kind = "write" THEN WriteLoc(call.addr)
                                             ELSE ReadLoc(call.addr),
              data |-> IF call.kind = "write" THEN call.data
                       ELSE IF Unapplied THEN 0 ELSE axi_rdata,
              applied |-> ~Unapplied],
  csr <- slv_r, csr_new <- csr_data_new_r, inq <- ps_to_pl, outq <- pl_to_ps
ImplementsDevice == Device!Spec

(***************************************************************************)
(* Every call returns: no handshake of the helpers waits for a pin that    *)
(* the shell has already pulsed, and aw_en always comes back.              *)
(***************************************************************************)
EveryCallReturns == pc # "idle" ~> pc = "idle"
=============================================================================
