---------------------------- MODULE TraceEncoder ----------------------------
(***************************************************************************)
(* The trace path: rtl/bp_trace_encoder.sv with its FIFO, and the offline  *)
(* decoder of decode.cpp and decode.py that rebuilds the program counter   *)
(* from the packets that leave it.                                         *)
(*                                                                         *)
(* The core commits an instruction at a clock edge by driving commit_valid *)
(* and its pc; nothing tells it to wait.  The encoder reports a commit     *)
(* only when the pc is neither the last one nor the next one, as a delta   *)
(* to the LAST COMMITTED pc when the delta is short, as the full pc        *)
(* otherwise.  The decoder adds a short delta to the LAST REPORTED pc.     *)
(*                                                                         *)
(* The 64-bit, 4-byte and 8-bit quantities of the code are the constants   *)
(* PcCount = 2^64, Step = 4, ShortSpan = 256 and TimerMax = 255.           *)
(***************************************************************************)
EXTENDS SimpleFifo

CONSTANTS
  PcCount,        \* program counters are 0 .. PcCount - 1
  Step,           \* the distance of two sequential instructions
  ShortSpan,      \* deltas below it have their upper 56 bits zero
  TimerMax,       \* where the cycle counter saturates
  SinkMayStall    \* whether trace_ready_i is ever low (tb_encoder.sv: never)

ASSUME PcAssumption ==
  /\ PcCount \in Nat \ {0}
  /\ Step \in Nat /\ ShortSpan \in Nat
ASSUME TimerAssumption == TimerMax \in Nat
ASSUME SinkAssumption == SinkMayStall \in BOOLEAN

Pcs == 0 .. PcCount - 1

\* nexus_trace_pkt_s without src_id, which is constant.
Packets == [mcode : {"DIRECT_BRANCH", "COMPRESSED"}, timestamp : 0 .. TimerMax,
            addr : Pcs]

\* simple_fifo #(.WIDTH($bits(nexus_trace_pkt_s)), .DEPTH(4))
ASSUME WidthAssumption == Data = Packets

VARIABLES
  last_pc_r,      \* the pc of the last commit
  timer_r,        \* cycles since a packet was last put in the FIFO, saturating
  current_pc,     \* the decoder's program counter
  skew,           \* history: how far last_pc_r is ahead of what the decoder
                  \* will show once it has read every packet in the FIFO
  origins,        \* history: for each packet in the FIFO the pc of its commit
                  \* and the skew it left
  decoded         \* history: the origin of the last packet decoded

encoderVars == <<last_pc_r, timer_r>>
historyVars == <<skew, origins, decoded>>
vars == <<encoderVars, fifoVars, current_pc, historyVars>>

Origins == [pc : Pcs, skew : Pcs]

TypeOK ==
  /\ last_pc_r \in Pcs
  /\ timer_r \in 0 .. TimerMax
  /\ FifoTypeOK
  /\ current_pc \in Pcs
  /\ skew \in Pcs
  /\ origins \in Seq(Origins)
  /\ decoded \in Origins

-----------------------------------------------------------------------------
(***************************************************************************)
(* Combinational logic.                                                    *)
(***************************************************************************)
\* Addition and subtraction on the pc bus.
Plus(a, b)  == (a + b) % PcCount
Minus(a, b) == (a - b) % PcCount

delta(pc) == Minus(pc, last_pc_r)

is_discontinuity(pc) == delta(pc) # Step /\ delta(pc) # 0
is_compressed(pc)    == delta(pc) < ShortSpan

\* Mutant of next_packet: the compressed packet carries the pc.
NextPacketSwapped(pc) ==
  [mcode |-> IF is_compressed(pc) THEN "COMPRESSED" ELSE "DIRECT_BRANCH",
   timestamp |-> timer_r, addr |-> pc]

next_packet(pc) ==
  IF is_compressed(pc)
  THEN [mcode |-> "COMPRESSED", timestamp |-> timer_r, addr |-> delta(pc)]
  ELSE [mcode |-> "DIRECT_BRANCH", timestamp |-> timer_r, addr |-> pc]

fifo_v_li(commit_valid, pc) == commit_valid /\ is_discontinuity(pc)

\* A packet enters the FIFO at this edge.
Accepts(commit_valid, pc) == fifo_v_li(commit_valid, pc) /\ ready_o

\* A packet leaves at this edge: yumi_i of the FIFO.
Emits(trace_ready) == trace_ready /\ v_o

\* decode.cpp and decode.py: the pc after one packet.
Decode(pc, pkt) ==
  IF pkt.mcode = "DIRECT_BRANCH" THEN pkt.addr ELSE Plus(pc, pkt.addr)

-----------------------------------------------------------------------------
(***************************************************************************)
(* History.  A commit that is not reported moves the core ahead of the     *)
(* decoder by its delta; a full packet puts the decoder back on the core;  *)
(* a short packet moves both by the same delta.                            *)
(***************************************************************************)
SkewAfter(commit_valid, pc) ==
  CASE ~commit_valid -> skew
    [] commit_valid /\ ~Accepts(commit_valid, pc) -> Plus(skew, delta(pc))
    [] OTHER -> IF is_compressed(pc) THEN skew ELSE 0

RecordHistory(commit_valid, pc, trace_ready) ==
  LET kept == IF Emits(trace_ready) THEN Tail(origins) ELSE origins
      new  == [pc |-> pc, skew |-> SkewAfter(commit_valid, pc)]
  IN  /\ skew' = SkewAfter(commit_valid, pc)
      /\ origins' = IF Accepts(commit_valid, pc) THEN Append(kept, new) ELSE kept
      /\ decoded' = IF Emits(trace_ready) THEN Head(origins) ELSE decoded

-----------------------------------------------------------------------------
Init ==
  /\ last_pc_r = 0
  /\ timer_r = 0
  /\ FifoInit
  /\ current_pc = 0
  /\ skew = 0
  /\ origins = <<>>
  /\ decoded = [pc |-> 0, skew |-> 0]

\* Mutants of Encode: the counter wraps, or last_pc_r follows only the commits
\* that are reported.
EncodeNoSaturation(commit_valid, pc) ==
  /\ last_pc_r' = IF commit_valid THEN pc ELSE last_pc_r
  /\ timer_r' = IF Accepts(commit_valid, pc) THEN 0 ELSE timer_r + 1
EncodeReportedOnly(commit_valid, pc) ==
  /\ last_pc_r' = IF Accepts(commit_valid, pc) THEN pc ELSE last_pc_r
  /\ timer_r' = CASE Accepts(commit_valid, pc) -> 0
                  [] ~Accepts(commit_valid, pc) /\ timer_r # TimerMax -> timer_r + 1
                  [] OTHER -> timer_r

\* The encoder's registers: last_pc_r follows every commit, reported or not.
Encode(commit_valid, pc) ==
  /\ last_pc_r' = IF commit_valid THEN pc ELSE last_pc_r
  /\ timer_r' = CASE Accepts(commit_valid, pc) -> 0
                  [] ~Accepts(commit_valid, pc) /\ timer_r # TimerMax -> timer_r + 1
                  [] OTHER -> timer_r

\* One clock edge out of reset.
Clock(commit_valid, pc, trace_ready) ==
  /\ Encode(commit_valid, pc)
  /\ FifoClock(fifo_v_li(commit_valid, pc), next_packet(pc), Emits(trace_ready))
  /\ current_pc' = IF Emits(trace_ready) THEN Decode(current_pc, data_o)
                                         ELSE current_pc
  /\ RecordHistory(commit_valid, pc, trace_ready)

\* Reset empties the FIFO and forgets the last pc; the decoder reads one file
\* for the whole run and keeps its own.
Reset ==
  /\ last_pc_r' = 0
  /\ timer_r' = 0
  /\ FifoReset
  /\ skew' = Minus(0, current_pc)
  /\ origins' = <<>>
  /\ UNCHANGED <<current_pc, decoded>>

SinkReady == IF SinkMayStall THEN BOOLEAN ELSE {TRUE}

Next ==
  \/ \E commit_valid \in BOOLEAN, pc \in Pcs, trace_ready \in SinkReady :
        Clock(commit_valid, pc, trace_ready)
  \/ Reset

Spec == Init /\ [][Next]_vars

-----------------------------------------------------------------------------
(***************************************************************************)
(* Correctness.                                                            *)
(***************************************************************************)

(***************************************************************************)
(* The decoder is wrong by exactly what was not reported: after it has     *)
(* decoded the packet of a commit it shows that commit's pc minus the      *)
(* deltas of the sequential and dropped commits since the last full        *)
(* packet.  In particular a full packet always puts it back on the core,   *)
(* and short packets are exact as long as nothing went unreported.         *)
(***************************************************************************)
DecoderOffBySkew == current_pc = Minus(decoded.pc, decoded.skew)

\* The packet FIFO inside the encoder still is the bounded queue, and the
\* history lines up with it: one origin per packet held.
PacketsQueued ==
  /\ PointersAgree
  /\ Len(origins) = count_r

(***************************************************************************)
(* Over a chain of packets: the decoder, run over the packets in the FIFO, *)
(* reaches after each one the pc its origin announces, and at the end the  *)
(* core's last pc less the skew.  This is the invariant that makes         *)
(* DecoderOffBySkew inductive.                                             *)
(***************************************************************************)
Shown(origin) == Minus(origin.pc, origin.skew)

\* The decoder at pc having read the packets of the first i - 1 origins.
DecoderBefore(pc, os, i) == IF i = 1 THEN pc ELSE Shown(os[i - 1])

Chained(pc, pkts, os) ==
  \A i \in 1 .. Len(os) :
     Decode(DecoderBefore(pc, os, i), pkts[i]) = Shown(os[i])

PacketsChain ==
  /\ Chained(current_pc, Contents, origins)
  /\ DecoderBefore(current_pc, origins, Len(origins) + 1) = Minus(last_pc_r, skew)

\* A sink that never stalls, as in tb_encoder.sv, never lets the FIFO hold
\* two packets, so no commit finds it full (TraceEncoderProofs.tla).
NeverHoldsTwo == count_r <= 1

(***************************************************************************)
(* What the documents say.                                                 *)
(***************************************************************************)

\* README.md:29: the FIFO prevents trace data loss when the receiver stalls:
\* a commit that is a discontinuity finds room.
NoDiscontinuityLost ==
  [][\A pc \in Pcs, trace_ready \in SinkReady :
        Clock(TRUE, pc, trace_ready) /\ is_discontinuity(pc) => ready_o]_vars

\* progress_log.md:86: the decoder reconstructs the execution path: after it
\* decoded a packet its pc is the pc of the commit that caused the packet.
PathReconstructed == current_pc = decoded.pc
=============================================================================
