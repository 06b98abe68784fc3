------------------------------- MODULE PlShell -------------------------------
(***************************************************************************)
(* cosim/v/bsg_zynq_pl_shell.sv: the AXI4-Lite subordinate through which   *)
(* the processing system (PS) reads and writes the CSRs and the FIFOs of   *)
(* the programmable logic (PL).                                            *)
(*                                                                         *)
(* A step is one rising clock edge: the registers of the shell take their  *)
(* next values from the pins, then the master sees the new outputs and     *)
(* drives the pins for the edge to come.  Each always block of the source  *)
(* is an operator that gives the next value of its registers.  The payload *)
(* of a channel is looked at only while its VALID is high, so a channel is *)
(* one variable: the beat it offers, or NoBeat.  An address is the index   *)
(* of a word; the shell ignores the byte offset below ADDR_LSB_lp.         *)
(*                                                                         *)
(* The master is any AXI4-Lite master with at most one read outstanding    *)
(* ("This design expects no outstanding transactions"); the user logic is  *)
(* any.  ShellHost.tla puts the simulator's master and the user logic of   *)
(* shell-example in their place.                                           *)
(***************************************************************************)
EXTENDS Integers, Sequences, FiniteSets

CONSTANTS
  NumCsrs,      \* num_regs_ps_to_pl_p
  NumIns,       \* num_fifo_ps_to_pl_p
  NumOuts,      \* num_fifo_pl_to_ps_p
  NumStats,     \* num_regs_pl_to_ps_p
  AddrSpan,     \* the words that an address of C_S_AXI_ADDR_WIDTH bits can name
  ReadSpan,     \* 2^BSG_SAFE_CLOG2(read_locs_lp)
  WriteSpan,    \* 2^BSG_SAFE_CLOG2(write_locs_lp)
  Els,          \* els_p of the FIFOs: 4 in the source
  Words,        \* the values of the data bus
  Payload,      \* the words that the PS and the user logic send
  Strobes,      \* the write strobes the master uses
  NoBeat        \* a channel with VALID low

Csrs  == 0 .. NumCsrs - 1
Ins   == 0 .. NumIns - 1
Outs  == 0 .. NumOuts - 1
Stats == 0 .. NumStats - 1

read_locs_lp  == NumCsrs + NumOuts + NumIns + NumOuts + NumStats
write_locs_lp == NumCsrs + NumIns

Addresses == 0 .. AddrSpan - 1

ASSUME SizeAssumption ==
  /\ NumCsrs \in Nat /\ NumIns \in Nat /\ NumOuts \in Nat /\ NumStats \in Nat
  /\ ReadSpan \in Nat \ {0} /\ read_locs_lp <= ReadSpan
  /\ AddrSpan \in Nat /\ ReadSpan <= AddrSpan
  /\ WriteSpan \in Nat \ {0} /\ write_locs_lp <= WriteSpan
  /\ Els \in Nat \ {0}
ASSUME WordAssumption == 0 .. Els \subseteq Words /\ Payload \subseteq Words
ASSUME NoBeatAssumption ==
  /\ NoBeat \notin Addresses
  /\ NoBeat \notin [data : Payload, strb : Strobes]

VARIABLES
  \* the registers of the shell
  axi_awready, aw_en, axi_awaddr, axi_wready, axi_bvalid,
  axi_arready, axi_araddr, axi_rvalid, axi_rdata,
  slv_r,            \* the user CSRs
  csr_data_new_r,   \* the CSRs written at the last edge
  ps_to_pl,         \* the FIFOs towards the PL, oldest word first
  ps_to_pl_free,    \* their flow counters: free space
  pl_to_ps,         \* the FIFOs towards the PS
  pl_to_ps_used,    \* their flow counters: words available
  \* the pins the master drives
  aw, w, bready, ar, rready,
  \* the master's accounts: address and data beats accepted without response
  aw_owed, w_owed, ar_owed

writeRegs == <<axi_awready, aw_en, axi_awaddr, axi_wready, axi_bvalid>>
readRegs  == <<axi_arready, axi_araddr, axi_rvalid, axi_rdata>>
userRegs  == <<slv_r, csr_data_new_r, ps_to_pl, ps_to_pl_free, pl_to_ps,
               pl_to_ps_used>>
pins      == <<aw, w, bready, ar, rready>>
accounts  == <<aw_owed, w_owed, ar_owed>>
shellVars == <<writeRegs, readRegs, userRegs, pins, accounts>>

WBeats == [data : Payload, strb : Strobes]

ShellTypeOK ==
  /\ axi_awready \in BOOLEAN /\ aw_en \in BOOLEAN /\ axi_wready \in BOOLEAN
  /\ axi_bvalid \in BOOLEAN /\ axi_arready \in BOOLEAN /\ axi_rvalid \in BOOLEAN
  /\ axi_awaddr \in Addresses /\ axi_araddr \in Addresses
  /\ axi_rdata \in Words
  /\ slv_r \in [Csrs -> Words]
  /\ csr_data_new_r \in SUBSET Csrs
  /\ ps_to_pl \in [Ins -> Seq(Words)] /\ ps_to_pl_free \in [Ins -> 0 .. Els]
  /\ pl_to_ps \in [Outs -> Seq(Words)] /\ pl_to_ps_used \in [Outs -> 0 .. Els]
  /\ aw \in Addresses \cup {NoBeat} /\ ar \in Addresses \cup {NoBeat}
  /\ w \in WBeats \cup {NoBeat}
  /\ bready \in BOOLEAN /\ rready \in BOOLEAN
  /\ aw_owed \in 0 .. 1 /\ w_owed \in 0 .. 1 /\ ar_owed \in 0 .. 1

-----------------------------------------------------------------------------
(***************************************************************************)
(* Combinational logic.                                                    *)
(***************************************************************************)
AWVALID == aw # NoBeat
WVALID  == w # NoBeat
ARVALID == ar # NoBeat

\* Mutant of takes_write: a write in flight does not hold back the next one.
TakesWriteAlways == AWVALID /\ WVALID

\* A new write is taken up when address and data are both offered.
takes_write == AWVALID /\ WVALID /\ aw_en

\* Mutant of slv_reg_wren: the ready registers are not consulted.
WrenUnacknowledged == WVALID /\ AWVALID

slv_reg_wren == axi_wready /\ WVALID /\ axi_awready /\ AWVALID
slv_reg_rden == axi_arready /\ ARVALID /\ ~axi_rvalid

\* The decoders see as many bits of the address as the locations need: an
\* address past the span aliases to one within it, and an index past the last
\* location selects nothing.
WriteLoc(addr) ==
  LET i == addr % WriteSpan
  IN  CASE i \in Csrs -> <<"csr", i>>
        [] i - NumCsrs \in Ins -> <<"ps_to_pl", i - NumCsrs>>
        [] OTHER -> <<"none", 0>>

ReadLoc(addr) ==
  LET i == addr % ReadSpan
      o == NumCsrs
      oc == o + NumOuts
      ic == oc + NumOuts
      s == ic + NumIns
  IN  CASE i \in Csrs -> <<"csr", i>>
        [] i - o \in Outs -> <<"pl_to_ps", i - o>>
        [] i - oc \in Outs -> <<"pl_to_ps_count", i - oc>>
        [] i - ic \in Ins -> <<"ps_to_pl_count", i - ic>>
        [] i - s \in Stats -> <<"csr_i", i - s>>
        [] OTHER -> <<"none", 0>>

slv_wr_sel(kind, k) == slv_reg_wren /\ WriteLoc(axi_awaddr) = <<kind, k>>
slv_rd_sel(kind, k) == slv_reg_rden /\ ReadLoc(axi_araddr) = <<kind, k>>

in_ready(k)  == Len(ps_to_pl[k]) < Els
in_valid(k)  == ps_to_pl[k] # << >>
out_ready(k) == Len(pl_to_ps[k]) < Els
out_valid(k) == pl_to_ps[k] # << >>

\* Mutant of in_push: a write to a full FIFO is not dropped.
PushUnguarded(k) == slv_wr_sel("ps_to_pl", k)

\* Words enter and leave the FIFOs at this edge.
in_push(k)  == in_ready(k) /\ slv_wr_sel("ps_to_pl", k)
out_pull(k) == out_valid(k) /\ slv_rd_sel("pl_to_ps", k)

\* Mutant of reg_data_out: the two counter fields of the mux are swapped.
MuxCountersSwapped(csr_data_i) ==
  LET loc == ReadLoc(axi_araddr)
      k == loc[2]
  IN  CASE loc[1] = "csr" -> {slv_r[k]}
        [] loc[1] = "pl_to_ps" ->
             IF out_valid(k) THEN {Head(pl_to_ps[k])} ELSE Words
        [] loc[1] = "pl_to_ps_count" -> {ps_to_pl_free[k]}
        [] loc[1] = "ps_to_pl_count" -> {pl_to_ps_used[k \div 2]}
        [] loc[1] = "csr_i" -> {csr_data_i[k]}
        [] loc[1] = "none" -> {0}

\* The one-hot mux: zero when nothing is selected; the head of an empty FIFO
\* is whatever its memory holds.
reg_data_out(csr_data_i) ==
  LET loc == ReadLoc(axi_araddr)
      k == loc[2]
  IN  CASE loc[1] = "csr" -> {slv_r[k]}
        [] loc[1] = "pl_to_ps" ->
             IF out_valid(k) THEN {Head(pl_to_ps[k])} ELSE Words
        [] loc[1] = "pl_to_ps_count" -> {pl_to_ps_used[k]}
        [] loc[1] = "ps_to_pl_count" -> {ps_to_pl_free[k]}
        [] loc[1] = "csr_i" -> {csr_data_i[k]}
        [] loc[1] = "none" -> {0}

-----------------------------------------------------------------------------
(***************************************************************************)
(* The clocked blocks.                                                     *)
(***************************************************************************)
\* Mutant of Awready: the response does not enable the next write.
AwreadyStuck ==
  IF ~axi_awready /\ takes_write
  THEN axi_awready' = TRUE /\ aw_en' = FALSE
  ELSE axi_awready' = FALSE /\ UNCHANGED aw_en

Awready ==
  IF ~axi_awready /\ takes_write
  THEN axi_awready' = TRUE /\ aw_en' = FALSE
  ELSE /\ axi_awready' = FALSE
       /\ aw_en' = (aw_en \/ (bready /\ axi_bvalid))

\* Mutant of Awaddr: the address is latched an edge late.
AwaddrLate ==
  axi_awaddr' = IF axi_awready /\ AWVALID THEN aw ELSE axi_awaddr

Awaddr ==
  axi_awaddr' = IF ~axi_awready /\ takes_write THEN aw ELSE axi_awaddr

Wready == axi_wready' = (~axi_wready /\ takes_write)

Bvalid ==
  axi_bvalid' = IF slv_reg_wren /\ ~axi_bvalid THEN TRUE
                ELSE axi_bvalid /\ ~bready

Arready ==
  IF ~axi_arready /\ ARVALID
  THEN axi_arready' = TRUE /\ axi_araddr' = ar
  ELSE axi_arready' = FALSE /\ UNCHANGED axi_araddr

\* Mutant of Rvalid: the answer is not held until it is taken.
RvalidPulse == axi_rvalid' = slv_reg_rden

Rvalid ==
  axi_rvalid' = IF slv_reg_rden THEN TRUE ELSE axi_rvalid /\ ~rready

Rdata(csr_data_i) ==
  IF slv_reg_rden THEN axi_rdata' \in reg_data_out(csr_data_i)
                  ELSE UNCHANGED axi_rdata

SlvReg ==
  /\ slv_r' = [k \in Csrs |-> IF slv_wr_sel("csr", k) THEN w.data ELSE slv_r[k]]
  /\ csr_data_new_r' = {k \in Csrs : slv_wr_sel("csr", k)}

\* bsg_fifo_1r1w_small: the words held after an edge that may take the head
\* and may append a word.
FifoAfter(q, pull, push, word) ==
  LET rest == IF pull THEN Tail(q) ELSE q
  IN  IF push THEN Append(rest, word) ELSE rest

\* Mutant of CountAfter: up together with down counts as up.
CountUpWins(n, up, down) ==
  CASE up -> n + 1
    [] down /\ ~up -> n - 1
    [] OTHER -> n

\* bsg_flow_counter: one up, one down.
CountAfter(n, up, down) ==
  CASE up /\ ~down -> n + 1
    [] down /\ ~up -> n - 1
    [] OTHER -> n

\* yumi: the FIFOs whose head the user logic takes.
PsToPl(yumi) ==
  /\ ps_to_pl' = [k \in Ins |->
       FifoAfter(ps_to_pl[k], k \in yumi, in_push(k), IF WVALID THEN w.data ELSE 0)]
  /\ ps_to_pl_free' = [k \in Ins |->
       CountAfter(ps_to_pl_free[k], k \in yumi, in_push(k))]

\* v_i, data_i: what the user logic offers to each FIFO.
PlToPs(v_i, data_i) ==
  /\ pl_to_ps' = [k \in Outs |->
       FifoAfter(pl_to_ps[k], out_pull(k), k \in v_i /\ out_ready(k), data_i[k])]
  /\ pl_to_ps_used' = [k \in Outs |->
       CountAfter(pl_to_ps_used[k], k \in v_i /\ out_ready(k), out_pull(k))]

ShellEdge(yumi, v_i, data_i, csr_data_i) ==
  /\ Awready /\ Awaddr /\ Wready /\ Bvalid
  /\ Arready /\ Rvalid /\ Rdata(csr_data_i)
  /\ SlvReg /\ PsToPl(yumi) /\ PlToPs(v_i, data_i)

-----------------------------------------------------------------------------
(***************************************************************************)
(* The master and the user logic.                                          *)
(***************************************************************************)
\* The master's accounts of this edge's handshakes.
Handshakes ==
  LET b == IF axi_bvalid /\ bready THEN 1 ELSE 0
      r == IF axi_rvalid /\ rready THEN 1 ELSE 0
  IN  /\ aw_owed' = aw_owed + (IF AWVALID /\ axi_awready THEN 1 ELSE 0) - b
      /\ w_owed' = w_owed + (IF WVALID /\ axi_wready THEN 1 ELSE 0) - b
      /\ ar_owed' = ar_owed + (IF ARVALID /\ axi_arready THEN 1 ELSE 0) - r

\* An offered beat stays until it is accepted; a new read waits for the
\* answer to the last one.  Writes may be offered at any time.
LegalMaster ==
  /\ aw' \in IF AWVALID /\ ~axi_awready THEN {aw} ELSE Addresses \cup {NoBeat}
  /\ w' \in IF WVALID /\ ~axi_wready THEN {w} ELSE WBeats \cup {NoBeat}
  /\ ar' \in IF ARVALID /\ ~axi_arready THEN {ar}
             ELSE IF ar_owed' = 0 THEN Addresses \cup {NoBeat} ELSE {NoBeat}
  /\ bready' \in BOOLEAN /\ rready' \in BOOLEAN

AnyUser ==
  \E yumi \in SUBSET {k \in Ins : in_valid(k)}, v_i \in SUBSET Outs,
     data_i \in [Outs -> Payload], csr_data_i \in [Stats -> Payload] :
    ShellEdge(yumi, v_i, data_i, csr_data_i)

\* The reset branches: the write engine, the locations, the answers.
WriteReset ==
  /\ axi_awready = FALSE /\ aw_en = TRUE /\ axi_awaddr = 0 /\ axi_wready = FALSE

LocationsReset ==
  /\ slv_r = [k \in Csrs |-> 0] /\ csr_data_new_r = {}
  /\ ps_to_pl = [k \in Ins |-> << >>] /\ ps_to_pl_free = [k \in Ins |-> Els]
  /\ pl_to_ps = [k \in Outs |-> << >>] /\ pl_to_ps_used = [k \in Outs |-> 0]

AnswersReset ==
  /\ axi_bvalid = FALSE
  /\ axi_arready = FALSE /\ axi_araddr = 0 /\ axi_rvalid = FALSE /\ axi_rdata = 0

\* Nothing is offered yet.
MasterReset ==
  /\ aw = NoBeat /\ w = NoBeat /\ ar = NoBeat
  /\ bready = FALSE /\ rready = FALSE
  /\ aw_owed = 0 /\ w_owed = 0 /\ ar_owed = 0

ShellInit == WriteReset /\ LocationsReset /\ AnswersReset /\ MasterReset

ShellNext == AnyUser /\ Handshakes /\ LegalMaster

ShellSpec == ShellInit /\ [][ShellNext]_shellVars

-----------------------------------------------------------------------------
(***************************************************************************)
(* Correctness.                                                            *)
(***************************************************************************)

(***************************************************************************)
(* The write engine never loses track of a transaction: the address and    *)
(* the data of a write are accepted together, each accepted write owes one *)
(* response and has it raised at once, and a new write is taken up only    *)
(* when none is in flight.  Were aw_en set too early a second write would  *)
(* overwrite the address of the first; too late, the shell would never     *)
(* accept a write again.                                                   *)
(***************************************************************************)
WriteEngineConsistent ==
  /\ axi_awready = axi_wready
  /\ aw_owed = w_owed
  /\ aw_owed = IF axi_bvalid THEN 1 ELSE 0
  /\ aw_en = ~(axi_awready \/ axi_bvalid)

(***************************************************************************)
(* Every read address accepted is answered: the shell raises ARREADY       *)
(* without looking at its answer register and drops the request when that  *)
(* is occupied (slv_reg_rden), so this rests on the master waiting.        *)
(***************************************************************************)
EveryReadAnswered == ar_owed = IF axi_rvalid THEN 1 ELSE 0

(***************************************************************************)
(* A beat is accepted under the address latched one edge before: the beat  *)
(* on the pins is still the one whose address selects the location.        *)
(***************************************************************************)
LatchedAddressIsAccepted ==
  /\ axi_awready => AWVALID /\ WVALID /\ axi_awaddr = aw
  /\ axi_arready => ARVALID /\ axi_araddr = ar

(***************************************************************************)
(* The flow counters that the PS reads are the free space and the fill of  *)
(* the FIFOs after every edge, whatever is pushed, dropped and pulled at   *)
(* the same edge on both sides.                                            *)
(***************************************************************************)
FlowCountersExact ==
  /\ \A k \in Ins : ps_to_pl_free[k] = Els - Len(ps_to_pl[k])
  /\ \A k \in Outs : pl_to_ps_used[k] = Len(pl_to_ps[k])
=============================================================================
