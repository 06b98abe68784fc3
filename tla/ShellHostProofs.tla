--------------------------- MODULE ShellHostProofs ---------------------------
(***************************************************************************)
(* The invariants of the shell hold for every number of CSRs and FIFOs,    *)
(* every FIFO size, every legal master and every user logic.  The          *)
(* simulator's coroutines and the loopback implement the shell under a     *)
(* legal master, so all of that holds for them, and the atomic device.     *)
(***************************************************************************)
EXTENDS ShellHost, SequenceTheorems, TLAPS

(***************************************************************************)
(* What the invariants lack to be inductive: the ready pulse never meets a *)
(* pending response, no read is offered while an answer waits (that is the *)
(* master's part), and the FIFOs never hold more than they can.            *)
(***************************************************************************)
ShellInv ==
  /\ ShellTypeOK
  /\ WriteEngineConsistent
  /\ EveryReadAnswered
  /\ LatchedAddressIsAccepted
  /\ FlowCountersExact
  /\ ~(axi_awready /\ axi_bvalid)
  /\ ARVALID => ~axi_rvalid
  /\ \A k \in Ins : Len(ps_to_pl[k]) <= Els
  /\ \A k \in Outs : Len(pl_to_ps[k]) <= Els

-----------------------------------------------------------------------------
\* What an edge does to a FIFO.
LEMMA FifoAfterFacts ==
  ASSUME NEW q \in Seq(Words), NEW pull \in BOOLEAN, NEW push \in BOOLEAN,
         NEW word \in Words, pull => q # << >>
  PROVE  /\ FifoAfter(q, pull, push, word) \in Seq(Words)
         /\ Len(FifoAfter(q, pull, push, word))
              = Len(q) + (IF push THEN 1 ELSE 0) - (IF pull THEN 1 ELSE 0)
<1>1. CASE pull
  <2>1. Tail(q) \in Seq(Words) /\ Len(Tail(q)) = Len(q) - 1
    BY <1>1
  <2>2. Append(Tail(q), word) \in Seq(Words)
        /\ Len(Append(Tail(q), word)) = Len(q)
    BY <2>1
  <2> QED BY <1>1, <2>1, <2>2 DEF FifoAfter
<1>2. CASE ~pull
  BY <1>2 DEF FifoAfter
<1> QED BY <1>1, <1>2

LEMMA CountAfterFacts ==
  ASSUME NEW n \in Int, NEW up \in BOOLEAN, NEW down \in BOOLEAN
  PROVE  CountAfter(n, up, down)
           = n + (IF up THEN 1 ELSE 0) - (IF down THEN 1 ELSE 0)
BY DEF CountAfter

\* A FIFO and its flow counter move together, within the bounds.
LEMMA FifoWithCounter ==
  ASSUME NEW q \in Seq(Words), Len(q) <= Els,
         NEW pull \in BOOLEAN, NEW push \in BOOLEAN, NEW word \in Words,
         pull => q # << >>, push => Len(q) < Els
  PROVE  /\ FifoAfter(q, pull, push, word) \in Seq(Words)
         /\ Len(FifoAfter(q, pull, push, word)) \in 0 .. Els
         /\ CountAfter(Els - Len(q), pull, push)
              = Els - Len(FifoAfter(q, pull, push, word))
         /\ CountAfter(Len(q), push, pull) = Len(FifoAfter(q, pull, push, word))
<1> DEFINE next == FifoAfter(q, pull, push, word)
           in == IF push THEN 1 ELSE 0
           out == IF pull THEN 1 ELSE 0
<1>1. /\ Els \in Nat /\ Len(q) \in Nat
      /\ Len(q) \in Int /\ Els - Len(q) \in Int
  BY SizeAssumption
<1>2. next \in Seq(Words) /\ Len(next) = Len(q) + in - out
  BY FifoAfterFacts
<1>3. CountAfter(Els - Len(q), pull, push) = Els - Len(q) + out - in
  BY <1>1, CountAfterFacts
<1>4. CountAfter(Len(q), push, pull) = Len(q) + in - out
  BY <1>1, CountAfterFacts
<1>5. in \in 0 .. 1 /\ out \in 0 .. 1
  OBVIOUS
<1>6. out <= Len(q) /\ Len(q) + in <= Els
  BY <1>1
<1> HIDE DEF next, in, out
<1>7. Len(next) \in 0 .. Els
  BY <1>1, <1>2, <1>5, <1>6
<1>8. Els - Len(next) = Els - Len(q) + out - in
  BY <1>1, <1>2, <1>5
<1> QED BY <1>2, <1>3, <1>4, <1>7, <1>8 DEF next

\* The decoders select an existing location or none.
LEMMA ReadLocFacts ==
  ASSUME NEW addr \in Addresses
  PROVE  ReadLoc(addr) \in ({"csr"} \X Csrs) \cup ({"pl_to_ps"} \X Outs)
           \cup ({"pl_to_ps_count"} \X Outs) \cup ({"ps_to_pl_count"} \X Ins)
           \cup ({"csr_i"} \X Stats) \cup {<<"none", 0>>}
BY DEF ReadLoc

\* The read mux delivers a word.
LEMMA ReadDataIsWord ==
  ASSUME ShellTypeOK, NEW csr_data_i \in [Stats -> Words]
  PROVE  reg_data_out(csr_data_i) \subseteq Words
<1> DEFINE loc == ReadLoc(axi_araddr)
<1>1. loc \in ({"csr"} \X Csrs) \cup ({"pl_to_ps"} \X Outs)
           \cup ({"pl_to_ps_count"} \X Outs) \cup ({"ps_to_pl_count"} \X Ins)
           \cup ({"csr_i"} \X Stats) \cup {<<"none", 0>>}
  BY ReadLocFacts DEF ShellTypeOK
<1> HIDE DEF loc
<1>2. CASE loc \in {"csr"} \X Csrs
  BY <1>2 DEF loc, reg_data_out, ShellTypeOK
<1>3. CASE loc \in {"pl_to_ps"} \X Outs
  <2>1. PICK k \in Outs : loc = <<"pl_to_ps", k>>
    BY <1>3
  <2>2. pl_to_ps[k] \in Seq(Words)
    BY DEF ShellTypeOK
  <2>3. pl_to_ps[k] # << >> => Head(pl_to_ps[k]) \in Words
    BY <2>2
  <2> QED BY <2>1, <2>3 DEF loc, reg_data_out, out_valid
<1>4. CASE loc \in {"pl_to_ps_count"} \X Outs
  BY <1>4, WordAssumption DEF loc, reg_data_out, ShellTypeOK
<1>5. CASE loc \in {"ps_to_pl_count"} \X Ins
  BY <1>5, WordAssumption DEF loc, reg_data_out, ShellTypeOK
<1>6. CASE loc \in {"csr_i"} \X Stats
  BY <1>6 DEF loc, reg_data_out
<1>7. CASE loc = <<"none", 0>>
  BY <1>7, WordAssumption, SizeAssumption DEF loc, reg_data_out
<1> QED BY <1>1, <1>2, <1>3, <1>4, <1>5, <1>6, <1>7

-----------------------------------------------------------------------------
\* The write engine and the accounts of writes.
LEMMA WriteStep ==
  ASSUME ShellInv, Awready, Awaddr, Wready, Bvalid, Handshakes, LegalMaster
  PROVE  /\ WriteEngineConsistent'
         /\ ~(axi_awready /\ axi_bvalid)'
         /\ axi_awready' => AWVALID' /\ WVALID' /\ axi_awaddr' = aw'
         /\ axi_awready' \in BOOLEAN /\ aw_en' \in BOOLEAN
         /\ axi_wready' \in BOOLEAN /\ axi_bvalid' \in BOOLEAN
         /\ axi_awaddr' \in Addresses
         /\ aw' \in Addresses \cup {NoBeat} /\ w' \in WBeats \cup {NoBeat}
         /\ bready' \in BOOLEAN
         /\ aw_owed' \in 0 .. 1 /\ w_owed' \in 0 .. 1
<1>1. /\ axi_awready \in BOOLEAN /\ axi_wready \in BOOLEAN /\ aw_en \in BOOLEAN
      /\ axi_bvalid \in BOOLEAN /\ bready \in BOOLEAN
      /\ axi_awaddr \in Addresses
      /\ aw \in Addresses \cup {NoBeat} /\ w \in WBeats \cup {NoBeat}
  BY DEF ShellInv, ShellTypeOK
<1>2. /\ axi_awready = axi_wready
      /\ aw_owed = w_owed /\ aw_owed = IF axi_bvalid THEN 1 ELSE 0
      /\ aw_en = ~(axi_awready \/ axi_bvalid)
      /\ ~(axi_awready /\ axi_bvalid)
      /\ axi_awready => AWVALID /\ WVALID /\ axi_awaddr = aw
  BY DEF ShellInv, WriteEngineConsistent, LatchedAddressIsAccepted
<1>3. /\ aw' \in Addresses \cup {NoBeat} /\ w' \in WBeats \cup {NoBeat}
      /\ bready' \in BOOLEAN
  BY <1>1 DEF LegalMaster
<1>4. CASE takes_write /\ ~axi_awready
  <2>1. AWVALID /\ WVALID /\ aw_en /\ ~axi_awready /\ ~axi_wready /\ ~axi_bvalid
    BY <1>1, <1>2, <1>4, Zenon DEF takes_write
  <2>2. axi_awready' = TRUE /\ aw_en' = FALSE /\ axi_wready' = TRUE
    BY <1>4, <2>1, Zenon DEF Awready, Wready
  <2>3. axi_bvalid' = FALSE
    BY <2>1, Zenon DEF Bvalid, slv_reg_wren
  <2>4. axi_awaddr' = aw /\ aw' = aw /\ w' = w
    BY <1>4, <2>1 DEF Awaddr, LegalMaster
  <2>5. aw_owed' = 0 /\ w_owed' = 0
    BY <1>2, <2>1 DEF Handshakes
  <2>6. AWVALID' /\ WVALID' /\ axi_awaddr' \in Addresses
    BY <1>1, <2>1, <2>4 DEF AWVALID, WVALID
  <2>7. /\ axi_awready' = axi_wready'
        /\ aw_en' = ~(axi_awready' \/ axi_bvalid')
        /\ ~(axi_awready /\ axi_bvalid)'
        /\ axi_awready' \in BOOLEAN /\ aw_en' \in BOOLEAN
        /\ axi_wready' \in BOOLEAN /\ axi_bvalid' \in BOOLEAN
    BY <2>2, <2>3, Zenon
  <2>8. aw_owed' = w_owed' /\ aw_owed' = IF axi_bvalid' THEN 1 ELSE 0
    BY <2>3, <2>5
  <2>9. aw_owed' \in 0 .. 1 /\ w_owed' \in 0 .. 1
    BY <2>5
  <2> QED BY <1>3, <2>4, <2>6, <2>7, <2>8, <2>9, Zenon DEF WriteEngineConsistent
<1>5. CASE axi_awready
  <2>1. AWVALID /\ WVALID /\ aw_en = FALSE /\ axi_wready /\ axi_bvalid = FALSE
    BY <1>1, <1>2, <1>5, Zenon
  <2>2. axi_awready' = FALSE /\ aw_en' = FALSE /\ axi_wready' = FALSE
    BY <1>1, <1>5, <2>1, Zenon DEF Awready, Wready
  <2>3. axi_bvalid' = TRUE
    BY <1>5, <2>1, Zenon DEF Bvalid, slv_reg_wren
  <2>4. axi_awaddr' \in Addresses
    BY <1>1, <1>5 DEF Awaddr
  <2>5. aw_owed' = 1 /\ w_owed' = 1
    BY <1>2, <1>5, <2>1 DEF Handshakes
  <2>6. /\ axi_awready' = axi_wready'
        /\ aw_en' = ~(axi_awready' \/ axi_bvalid')
        /\ ~(axi_awready /\ axi_bvalid)' /\ ~axi_awready'
        /\ axi_awready' \in BOOLEAN /\ aw_en' \in BOOLEAN
        /\ axi_wready' \in BOOLEAN /\ axi_bvalid' \in BOOLEAN
    BY <2>2, <2>3, Zenon
  <2>7. aw_owed' = w_owed' /\ aw_owed' = IF axi_bvalid' THEN 1 ELSE 0
    BY <2>3, <2>5
  <2>8. aw_owed' \in 0 .. 1 /\ w_owed' \in 0 .. 1
    BY <2>5
  <2> QED BY <1>3, <2>4, <2>6, <2>7, <2>8, Zenon DEF WriteEngineConsistent
<1>6. CASE ~takes_write /\ ~axi_awready
  <2>1. axi_awready = FALSE /\ axi_wready = FALSE
    BY <1>1, <1>2, <1>6, Zenon
  <2>2. axi_awready' = FALSE /\ axi_wready' = FALSE
        /\ aw_en' = (aw_en \/ (bready /\ axi_bvalid))
    BY <1>6, <2>1, Zenon DEF Awready, Wready
  <2>3. axi_bvalid' = (axi_bvalid /\ ~bready)
    BY <2>1, Zenon DEF Bvalid, slv_reg_wren
  <2>4. axi_awaddr' \in Addresses
    BY <1>1, <1>6 DEF Awaddr
  <2>5. axi_bvalid' <=> axi_bvalid /\ ~bready
    BY <2>3
  <2>6. aw_owed' = w_owed' /\ aw_owed' = IF axi_bvalid' THEN 1 ELSE 0
    BY <1>2, <2>1, <2>5 DEF Handshakes
  <2>7. /\ axi_awready' = axi_wready'
        /\ aw_en' = ~(axi_awready' \/ axi_bvalid')
        /\ ~(axi_awready /\ axi_bvalid)' /\ ~axi_awready'
        /\ axi_awready' \in BOOLEAN /\ aw_en' \in BOOLEAN
        /\ axi_wready' \in BOOLEAN /\ axi_bvalid' \in BOOLEAN
    BY <1>1, <1>2, <2>1, <2>2, <2>3, Zenon
  <2>8. aw_owed' \in 0 .. 1 /\ w_owed' \in 0 .. 1
    BY <2>6
  <2> QED BY <1>3, <2>4, <2>6, <2>7, <2>8, Zenon DEF WriteEngineConsistent
<1> QED BY <1>4, <1>5, <1>6

\* The read engine and the account of reads.
LEMMA ReadStep ==
  ASSUME ShellInv, Arready, Rvalid, Handshakes, LegalMaster
  PROVE  /\ EveryReadAnswered'
         /\ ARVALID' => ~axi_rvalid'
         /\ axi_arready' => ARVALID' /\ axi_araddr' = ar'
         /\ axi_arready' \in BOOLEAN /\ axi_rvalid' \in BOOLEAN
         /\ axi_araddr' \in Addresses
         /\ ar' \in Addresses \cup {NoBeat} /\ rready' \in BOOLEAN
         /\ ar_owed' \in 0 .. 1
<1>1. /\ axi_arready \in BOOLEAN /\ axi_rvalid \in BOOLEAN /\ rready \in BOOLEAN
      /\ axi_araddr \in Addresses /\ ar \in Addresses \cup {NoBeat}
  BY DEF ShellInv, ShellTypeOK
<1>2. /\ ar_owed = IF axi_rvalid THEN 1 ELSE 0
      /\ ARVALID => ~axi_rvalid
      /\ axi_arready => ARVALID /\ axi_araddr = ar
  BY DEF ShellInv, EveryReadAnswered, LatchedAddressIsAccepted
<1>3. rready' \in BOOLEAN /\ ar' \in Addresses \cup {NoBeat}
  BY <1>1 DEF LegalMaster
<1>4. CASE ARVALID /\ ~axi_arready
  <2>1. axi_arready' = TRUE /\ axi_araddr' = ar /\ ar' = ar
    BY <1>4 DEF Arready, LegalMaster
  <2>2. axi_rvalid = FALSE
    BY <1>1, <1>2, <1>4, Zenon
  <2>3. axi_rvalid' = FALSE
    BY <1>4, <2>2, Zenon DEF Rvalid, slv_reg_rden
  <2>4. ar_owed' = 0
    BY <1>2, <1>4, <2>2 DEF Handshakes
  <2>5. ARVALID' /\ axi_araddr' \in Addresses
    BY <1>1, <1>4, <2>1 DEF ARVALID
  <2>6. EveryReadAnswered' /\ ar_owed' \in 0 .. 1
    BY <2>3, <2>4 DEF EveryReadAnswered
  <2>7. axi_arready' \in BOOLEAN /\ axi_rvalid' \in BOOLEAN /\ ~axi_rvalid'
    BY <2>1, <2>3, Zenon
  <2> QED BY <1>3, <2>1, <2>5, <2>6, <2>7, Zenon
<1>5. CASE axi_arready
  <2>1. ARVALID /\ axi_rvalid = FALSE
    BY <1>1, <1>2, <1>5, Zenon
  <2>2. axi_arready' = FALSE /\ axi_araddr' = axi_araddr
    BY <1>5 DEF Arready
  <2>3. axi_rvalid' = TRUE
    BY <1>5, <2>1, Zenon DEF Rvalid, slv_reg_rden
  <2>4. ar_owed' = 1
    BY <1>2, <1>5, <2>1 DEF Handshakes
  <2>5. ar' = NoBeat
    BY <1>5, <2>4 DEF LegalMaster
  <2>6. ~ARVALID'
    BY <2>5 DEF ARVALID
  <2>7. EveryReadAnswered' /\ ar_owed' \in 0 .. 1
    BY <2>3, <2>4 DEF EveryReadAnswered
  <2>8. axi_arready' \in BOOLEAN /\ axi_rvalid' \in BOOLEAN /\ ~axi_arready'
    BY <2>2, <2>3, Zenon
  <2> QED BY <1>1, <1>3, <2>2, <2>6, <2>7, <2>8, Zenon
<1>6. CASE ~ARVALID
  <2>1. axi_arready = FALSE
    BY <1>1, <1>2, <1>6, Zenon
  <2>2. axi_arready' = FALSE /\ axi_araddr' = axi_araddr
    BY <1>6 DEF Arready
  <2>3. axi_rvalid' = (axi_rvalid /\ ~rready)
    BY <1>6, Zenon DEF Rvalid, slv_reg_rden
  <2>4. axi_rvalid' <=> axi_rvalid /\ ~rready
    BY <2>3
  <2>5. ar_owed' = IF axi_rvalid' THEN 1 ELSE 0
    BY <1>2, <2>1, <2>4 DEF Handshakes
  <2>6. axi_rvalid' => ar' = NoBeat
    BY <1>6, <2>5 DEF LegalMaster
  <2>7. ARVALID' => ~axi_rvalid'
    BY <2>6 DEF ARVALID
  <2>8. EveryReadAnswered' /\ ar_owed' \in 0 .. 1
    BY <2>5 DEF EveryReadAnswered
  <2>9. axi_arready' \in BOOLEAN /\ axi_rvalid' \in BOOLEAN /\ ~axi_arready'
    BY <2>2, <2>3, Zenon
  <2> QED BY <1>1, <1>3, <2>2, <2>7, <2>8, <2>9, Zenon
<1> QED BY <1>4, <1>5, <1>6

\* The FIFOs and the flow counters.
LEMMA FifoStep ==
  ASSUME ShellInv, NEW yumi \in SUBSET {k \in Ins : in_valid(k)},
         NEW v_i \in SUBSET Outs, NEW data_i \in [Outs -> Words],
         PsToPl(yumi), PlToPs(v_i, data_i)
  PROVE  /\ FlowCountersExact'
         /\ ps_to_pl' \in [Ins -> Seq(Words)]
         /\ ps_to_pl_free' \in [Ins -> 0 .. Els]
         /\ pl_to_ps' \in [Outs -> Seq(Words)]
         /\ pl_to_ps_used' \in [Outs -> 0 .. Els]
         /\ \A k \in Ins : Len(ps_to_pl'[k]) <= Els
         /\ \A k \in Outs : Len(pl_to_ps'[k]) <= Els
<1> USE SizeAssumption
<1> DEFINE word == IF WVALID THEN w.data ELSE 0
<1>1. word \in Words
  BY WordAssumption DEF ShellInv, ShellTypeOK, WBeats, WVALID
<1> HIDE DEF word
<1>2. ASSUME NEW k \in Ins
      PROVE  /\ ps_to_pl'[k] \in Seq(Words) /\ Len(ps_to_pl'[k]) \in 0 .. Els
             /\ ps_to_pl_free'[k] = Els - Len(ps_to_pl'[k])
  <2>1. /\ ps_to_pl[k] \in Seq(Words) /\ Len(ps_to_pl[k]) <= Els
        /\ ps_to_pl_free[k] = Els - Len(ps_to_pl[k])
    BY DEF ShellInv, ShellTypeOK, FlowCountersExact
  <2>2. PICK pull \in BOOLEAN, push \in BOOLEAN :
          /\ pull = (k \in yumi) /\ push = in_push(k)
          /\ pull => ps_to_pl[k] # << >>
          /\ push => Len(ps_to_pl[k]) < Els
    <3>1. k \in yumi => ps_to_pl[k] # << >>
      BY DEF in_valid
    <3>2. in_push(k) => Len(ps_to_pl[k]) < Els
      BY DEF in_push, in_ready
    <3>3. (k \in yumi) \in BOOLEAN /\ in_push(k) \in BOOLEAN
      BY DEF in_push, in_ready, slv_wr_sel
    <3> QED BY <3>1, <3>2, <3>3, Zenon
  <2>3. /\ ps_to_pl'[k] = FifoAfter(ps_to_pl[k], pull, push, word)
        /\ ps_to_pl_free'[k] = CountAfter(ps_to_pl_free[k], pull, push)
    BY <2>2, Zenon DEF PsToPl, word
  <2>4. /\ FifoAfter(ps_to_pl[k], pull, push, word) \in Seq(Words)
        /\ Len(FifoAfter(ps_to_pl[k], pull, push, word)) \in 0 .. Els
        /\ CountAfter(Els - Len(ps_to_pl[k]), pull, push)
             = Els - Len(FifoAfter(ps_to_pl[k], pull, push, word))
    <3>1. /\ ps_to_pl[k] \in Seq(Words) /\ Len(ps_to_pl[k]) <= Els
          /\ pull \in BOOLEAN /\ push \in BOOLEAN /\ word \in Words
          /\ pull => ps_to_pl[k] # << >>
          /\ push => Len(ps_to_pl[k]) < Els
      BY <1>1, <2>1, <2>2
    <3>2. PICK q \in Seq(Words), pl \in BOOLEAN, pu \in BOOLEAN, wd \in Words :
            q = ps_to_pl[k] /\ pl = pull /\ pu = push /\ wd = word
      BY <3>1, Zenon
    <3>3. Len(q) <= Els /\ (pl => q # << >>) /\ (pu => Len(q) < Els)
      BY <3>1, <3>2, Zenon
    <3>4. /\ FifoAfter(q, pl, pu, wd) \in Seq(Words)
          /\ Len(FifoAfter(q, pl, pu, wd)) \in 0 .. Els
          /\ CountAfter(Els - Len(q), pl, pu) = Els - Len(FifoAfter(q, pl, pu, wd))
      BY <3>3, FifoWithCounter
    <3> QED BY <3>2, <3>4, Zenon
  <2> QED BY <2>1, <2>3, <2>4, Zenon
<1>3. ASSUME NEW k \in Outs
      PROVE  /\ pl_to_ps'[k] \in Seq(Words) /\ Len(pl_to_ps'[k]) \in 0 .. Els
             /\ pl_to_ps_used'[k] = Len(pl_to_ps'[k])
  <2>1. /\ pl_to_ps[k] \in Seq(Words) /\ Len(pl_to_ps[k]) <= Els
        /\ pl_to_ps_used[k] = Len(pl_to_ps[k])
    BY DEF ShellInv, ShellTypeOK, FlowCountersExact
  <2>2. PICK pull \in BOOLEAN, push \in BOOLEAN :
          /\ pull = out_pull(k) /\ push = (k \in v_i /\ out_ready(k))
          /\ pull => pl_to_ps[k] # << >>
          /\ push => Len(pl_to_ps[k]) < Els
    <3>1. out_pull(k) => pl_to_ps[k] # << >>
      BY DEF out_pull, out_valid
    <3>2. k \in v_i /\ out_ready(k) => Len(pl_to_ps[k]) < Els
      BY DEF out_ready
    <3>3. out_pull(k) \in BOOLEAN /\ (k \in v_i /\ out_ready(k)) \in BOOLEAN
      BY DEF out_pull, out_valid, slv_rd_sel
    <3> QED BY <3>1, <3>2, <3>3, Zenon
  <2>3. /\ pl_to_ps'[k] = FifoAfter(pl_to_ps[k], pull, push, data_i[k])
        /\ pl_to_ps_used'[k] = CountAfter(pl_to_ps_used[k], push, pull)
    BY <2>2, Zenon DEF PlToPs
  <2>4. data_i[k] \in Words
    OBVIOUS
  <2>5. /\ FifoAfter(pl_to_ps[k], pull, push, data_i[k]) \in Seq(Words)
        /\ Len(FifoAfter(pl_to_ps[k], pull, push, data_i[k])) \in 0 .. Els
        /\ CountAfter(Len(pl_to_ps[k]), push, pull)
             = Len(FifoAfter(pl_to_ps[k], pull, push, data_i[k]))
    <3>1. /\ pl_to_ps[k] \in Seq(Words) /\ Len(pl_to_ps[k]) <= Els
          /\ pull \in BOOLEAN /\ push \in BOOLEAN /\ data_i[k] \in Words
          /\ pull => pl_to_ps[k] # << >>
          /\ push => Len(pl_to_ps[k]) < Els
      BY <2>1, <2>2, <2>4
    <3>2. PICK q \in Seq(Words), pl \in BOOLEAN, pu \in BOOLEAN, wd \in Words :
            q = pl_to_ps[k] /\ pl = pull /\ pu = push /\ wd = data_i[k]
      BY <3>1, Zenon
    <3>3. Len(q) <= Els /\ (pl => q # << >>) /\ (pu => Len(q) < Els)
      BY <3>1, <3>2, Zenon
    <3>4. /\ FifoAfter(q, pl, pu, wd) \in Seq(Words)
          /\ Len(FifoAfter(q, pl, pu, wd)) \in 0 .. Els
          /\ CountAfter(Len(q), pu, pl) = Len(FifoAfter(q, pl, pu, wd))
      BY <3>3, FifoWithCounter
    <3> QED BY <3>2, <3>4, Zenon
  <2> QED BY <2>1, <2>3, <2>5, Zenon
<1>4. /\ ps_to_pl' = [k \in Ins |-> ps_to_pl'[k]]
      /\ ps_to_pl_free' = [k \in Ins |-> ps_to_pl_free'[k]]
      /\ pl_to_ps' = [k \in Outs |-> pl_to_ps'[k]]
      /\ pl_to_ps_used' = [k \in Outs |-> pl_to_ps_used'[k]]
  BY DEF PsToPl, PlToPs
<1>5. FlowCountersExact'
  BY <1>2, <1>3 DEF FlowCountersExact
<1>6. ps_to_pl' \in [Ins -> Seq(Words)] /\ ps_to_pl_free' \in [Ins -> 0 .. Els]
  BY <1>2, <1>4
<1>7. pl_to_ps' \in [Outs -> Seq(Words)] /\ pl_to_ps_used' \in [Outs -> 0 .. Els]
  BY <1>3, <1>4
<1>8. /\ \A k \in Ins : Len(ps_to_pl'[k]) <= Els
      /\ \A k \in Outs : Len(pl_to_ps'[k]) <= Els
  BY <1>2, <1>3
<1> QED BY <1>5, <1>6, <1>7, <1>8

-----------------------------------------------------------------------------
LEMMA ShellInvInit == ShellInit => ShellInv
<1> SUFFICES ASSUME ShellInit PROVE ShellInv
  OBVIOUS
<1> USE SizeAssumption, WordAssumption
    DEF ShellInit, WriteReset, LocationsReset, AnswersReset, MasterReset
<1>1. ShellTypeOK
  <2>1. 0 \in Addresses /\ 0 \in Words /\ 0 \in 0 .. Els /\ Els \in 0 .. Els
    BY DEF Addresses
  <2>2. /\ slv_r \in [Csrs -> Words] /\ csr_data_new_r \in SUBSET Csrs
        /\ ps_to_pl \in [Ins -> Seq(Words)] /\ ps_to_pl_free \in [Ins -> 0 .. Els]
        /\ pl_to_ps \in [Outs -> Seq(Words)] /\ pl_to_ps_used \in [Outs -> 0 .. Els]
    BY <2>1
  <2>3. aw_owed \in 0 .. 1 /\ w_owed \in 0 .. 1 /\ ar_owed \in 0 .. 1
    OBVIOUS
  <2>4. /\ axi_awready \in BOOLEAN /\ aw_en \in BOOLEAN /\ axi_wready \in BOOLEAN
        /\ axi_bvalid \in BOOLEAN /\ axi_arready \in BOOLEAN /\ axi_rvalid \in BOOLEAN
        /\ bready \in BOOLEAN /\ rready \in BOOLEAN
    BY Zenon
  <2> QED BY <2>1, <2>2, <2>3, <2>4, Zenon DEF ShellTypeOK
<1>2. WriteEngineConsistent /\ EveryReadAnswered /\ LatchedAddressIsAccepted
  BY DEF WriteEngineConsistent, EveryReadAnswered, LatchedAddressIsAccepted
<1>3. /\ FlowCountersExact
      /\ \A k \in Ins : Len(ps_to_pl[k]) <= Els
      /\ \A k \in Outs : Len(pl_to_ps[k]) <= Els
  BY DEF FlowCountersExact
<1> QED BY <1>1, <1>2, <1>3 DEF ShellInv, ARVALID

LEMMA ShellInvStep ==
  ASSUME ShellInv, ShellNext
  PROVE  ShellInv'
<1>1. PICK yumi \in SUBSET {k \in Ins : in_valid(k)}, v_i \in SUBSET Outs,
           data_i \in [Outs -> Payload], csr_data_i \in [Stats -> Payload] :
        ShellEdge(yumi, v_i, data_i, csr_data_i)
  BY DEF ShellNext, AnyUser
<1>2. Handshakes /\ LegalMaster
  BY DEF ShellNext
<1>3. data_i \in [Outs -> Words] /\ csr_data_i \in [Stats -> Words]
  BY WordAssumption
<1>4. /\ Awready /\ Awaddr /\ Wready /\ Bvalid
      /\ Arready /\ Rvalid /\ Rdata(csr_data_i)
      /\ SlvReg /\ PsToPl(yumi) /\ PlToPs(v_i, data_i)
  BY <1>1 DEF ShellEdge
<1>5. ShellTypeOK
  BY DEF ShellInv
<1>6. slv_r' \in [Csrs -> Words] /\ csr_data_new_r' \in SUBSET Csrs
  <2>1. slv_reg_wren => w.data \in Words
    BY <1>5, WordAssumption DEF slv_reg_wren, WVALID, ShellTypeOK, WBeats
  <2> QED BY <1>4, <1>5, <2>1 DEF SlvReg, slv_wr_sel, ShellTypeOK
<1>7. axi_rdata' \in Words
  BY <1>3, <1>4, <1>5, ReadDataIsWord DEF Rdata, ShellTypeOK
<1>8. /\ WriteEngineConsistent'
      /\ ~(axi_awready /\ axi_bvalid)'
      /\ axi_awready' => AWVALID' /\ WVALID' /\ axi_awaddr' = aw'
      /\ axi_awready' \in BOOLEAN /\ aw_en' \in BOOLEAN
      /\ axi_wready' \in BOOLEAN /\ axi_bvalid' \in BOOLEAN
      /\ axi_awaddr' \in Addresses
      /\ aw' \in Addresses \cup {NoBeat} /\ w' \in WBeats \cup {NoBeat}
      /\ bready' \in BOOLEAN
      /\ aw_owed' \in 0 .. 1 /\ w_owed' \in 0 .. 1
  BY <1>2, <1>4, WriteStep
<1>9. /\ EveryReadAnswered'
      /\ ARVALID' => ~axi_rvalid'
      /\ axi_arready' => ARVALID' /\ axi_araddr' = ar'
      /\ axi_arready' \in BOOLEAN /\ axi_rvalid' \in BOOLEAN
      /\ axi_araddr' \in Addresses
      /\ ar' \in Addresses \cup {NoBeat} /\ rready' \in BOOLEAN
      /\ ar_owed' \in 0 .. 1
  BY <1>2, <1>4, ReadStep
<1>10. /\ FlowCountersExact'
       /\ ps_to_pl' \in [Ins -> Seq(Words)]
       /\ ps_to_pl_free' \in [Ins -> 0 .. Els]
       /\ pl_to_ps' \in [Outs -> Seq(Words)]
       /\ pl_to_ps_used' \in [Outs -> 0 .. Els]
       /\ \A k \in Ins : Len(ps_to_pl'[k]) <= Els
       /\ \A k \in Outs : Len(pl_to_ps'[k]) <= Els
  BY <1>3, <1>4, FifoStep
<1>11. ShellTypeOK'
  BY <1>6, <1>7, <1>8, <1>9, <1>10 DEF ShellTypeOK
<1>12. LatchedAddressIsAccepted'
  BY <1>8, <1>9 DEF LatchedAddressIsAccepted
<1> QED BY <1>8, <1>9, <1>10, <1>11, <1>12 DEF ShellInv

LEMMA ShellInvStutter ==
  ASSUME ShellInv, UNCHANGED shellVars
  PROVE  ShellInv'
BY DEF ShellInv, shellVars, writeRegs, readRegs, userRegs, pins, accounts,
       ShellTypeOK, WriteEngineConsistent, EveryReadAnswered,
       LatchedAddressIsAccepted, FlowCountersExact, AWVALID, WVALID, ARVALID

(***************************************************************************)
(* Whatever the sizes, the master within its rules and the user logic, the *)
(* invariants above hold together after every edge.                        *)
(***************************************************************************)
THEOREM ShellInvariant == ShellSpec => []ShellInv
<1>1. ShellInv /\ [ShellNext]_shellVars => ShellInv'
  BY ShellInvStep, ShellInvStutter
<1> QED BY ShellInvInit, <1>1, PTL DEF ShellSpec

(***************************************************************************)
(* Every write accepted by the shell is answered exactly once and a new    *)
(* one is taken up exactly when none is in flight.                         *)
(***************************************************************************)
THEOREM WritesAnswered == ShellSpec => []WriteEngineConsistent
<1>1. ShellInv => WriteEngineConsistent
  BY DEF ShellInv
<1> QED BY ShellInvariant, <1>1, PTL

\* Every read address accepted by the shell is answered exactly once.
THEOREM ReadsAnswered == ShellSpec => []EveryReadAnswered
<1>1. ShellInv => EveryReadAnswered
  BY DEF ShellInv
<1> QED BY ShellInvariant, <1>1, PTL

(***************************************************************************)
(* The address with which a beat is carried out is the one that is offered *)
(* at the pins at that edge, although the shell latched it an edge before. *)
(***************************************************************************)
THEOREM LatchedAddressAccepted == ShellSpec => []LatchedAddressIsAccepted
<1>1. ShellInv => LatchedAddressIsAccepted
  BY DEF ShellInv
<1> QED BY ShellInvariant, <1>1, PTL

\* The flow counters are the room and the fill of the FIFOs.
THEOREM CountersExact == ShellSpec => []FlowCountersExact
<1>1. ShellInv => FlowCountersExact
  BY DEF ShellInv
<1> QED BY ShellInvariant, <1>1, PTL

-----------------------------------------------------------------------------

(***************************************************************************)
(* Where the coroutine waits tells which pins it drives and what the shell *)
(* is doing: a done flag means that the handshake it has seen happens at   *)
(* the coming edge, and outside a read no answer is pending.               *)
(***************************************************************************)
HostInv ==
  /\ ShellInv
  /\ pc \in {"idle", "aw", "bsetup", "b", "ar", "rsetup", "r", "unlock"}
  /\ last_write_addr_r \in Addresses
  /\ pc = "aw" => ("aw" \in done <=> axi_awready) /\ ("w" \in done <=> axi_wready)
  /\ pc # "aw" => aw = NoBeat /\ w = NoBeat
  /\ pc = "ar" => ("ar" \in done <=> axi_arready) /\ "r" \notin done
  /\ pc # "ar" => ar = NoBeat
  /\ pc = "rsetup" => "r" \notin done
  /\ pc = "r" => rready /\ ("r" \in done => axi_rvalid)
  /\ pc \notin {"ar", "rsetup", "r"} => ~axi_rvalid

-----------------------------------------------------------------------------
\* The loopback is one of the user logics that the shell allows.
LEMMA LoopbackIsUser ==
  ASSUME HostInv, Loopback
  PROVE  AnyUser
<1> DEFINE yumi == {i \in Ins : pair_valid(i \div 2) /\ out_ready(i \div 2)}
           v_i == {k \in Outs : pair_valid(k)}
           data_i == [k \in Outs |-> pair_sum(k)]
           csr_data_i == [s \in Stats |-> last_write_addr_r]
<1>1. yumi \in SUBSET {k \in Ins : in_valid(k)}
  <2> SUFFICES ASSUME NEW i \in Ins, pair_valid(i \div 2)
               PROVE  in_valid(i)
    OBVIOUS
  <2>1. i = 2 * (i \div 2) \/ i = 2 * (i \div 2) + 1
    BY SizeAssumption DEF Ins
  <2> QED BY <2>1 DEF pair_valid
<1>2. v_i \in SUBSET Outs
  OBVIOUS
<1>3. data_i \in [Outs -> Payload]
  <2> SUFFICES ASSUME NEW k \in Outs
               PROVE  pair_sum(k) \in Words
    BY HostAssumption
  <2>1. CASE pair_valid(k)
    <3>1. 2 * k \in Ins /\ 2 * k + 1 \in Ins
      BY HostAssumption, SizeAssumption DEF Ins, Outs
    <3>2. ps_to_pl[2 * k] \in Seq(Words) /\ ps_to_pl[2 * k + 1] \in Seq(Words)
      BY <3>1 DEF HostInv, ShellInv, ShellTypeOK
    <3>3. ps_to_pl[2 * k] # << >> /\ ps_to_pl[2 * k + 1] # << >>
      BY <2>1 DEF pair_valid, in_valid
    <3>4. PICK a \in Words, b \in Words :
            a = Head(ps_to_pl[2 * k]) /\ b = Head(ps_to_pl[2 * k + 1])
      BY <3>2, <3>3
    <3>5. pair_sum(k) = (a + b) % WordCount
      BY <2>1, <3>4 DEF pair_sum
    <3>6. a \in Nat /\ b \in Nat /\ WordCount \in Nat \ {0}
      BY HostAssumption
    <3>7. (a + b) % WordCount \in 0 .. WordCount - 1
      BY <3>6
    <3> QED BY <3>5, <3>7, HostAssumption
  <2>2. CASE ~pair_valid(k)
    BY <2>2, WordAssumption, SizeAssumption DEF pair_sum
  <2> QED BY <2>1, <2>2
<1>4. csr_data_i \in [Stats -> Payload]
  BY HostAssumption DEF HostInv
<1>5. ShellEdge(yumi, v_i, data_i, csr_data_i)
  BY DEF Loopback
<1> HIDE DEF yumi, v_i, data_i, csr_data_i
<1> QED BY <1>1, <1>2, <1>3, <1>4, <1>5 DEF AnyUser

-----------------------------------------------------------------------------
\* What the coroutine does to the write channels.
LEMMA WriteChannels ==
  ASSUME HostInv, Coroutine
  PROVE  /\ aw' \in IF AWVALID /\ ~axi_awready THEN {aw} ELSE Addresses \cup {NoBeat}
         /\ w' \in IF WVALID /\ ~axi_wready THEN {w} ELSE WBeats \cup {NoBeat}
<1>1. aw \in Addresses \cup {NoBeat} /\ w \in WBeats \cup {NoBeat}
  BY DEF HostInv, ShellInv, ShellTypeOK
<1>2. ASSUME NEW addr \in Addresses, NEW data \in WriteData, ShellWrite(addr, data)
      PROVE  /\ ~AWVALID /\ ~WVALID
             /\ aw' \in Addresses /\ w' \in WBeats
  BY <1>2, HostAssumption DEF ShellWrite, HostInv, AWVALID, WVALID, WBeats
<1>3. ASSUME WriteLoop
      PROVE  /\ aw' = aw \/ (axi_awready /\ aw' = NoBeat)
             /\ w' = w \/ (axi_wready /\ w' = NoBeat)
  BY <1>3 DEF WriteLoop, HostInv
<1>4. ASSUME ~WriteLoop,
             \A addr \in Addresses, data \in WriteData : ~ShellWrite(addr, data)
      PROVE  aw' = aw /\ w' = w
  BY <1>4 DEF Coroutine, BSetup, BLoop, ShellRead, ReadLoop, RSetup, RLoop, Return,
              Between, pins
<1> QED BY <1>1, <1>2, <1>3, <1>4

\* What the coroutine does to the read address channel.
LEMMA ReadChannel ==
  ASSUME HostInv, Coroutine, Handshakes
  PROVE  ar' \in IF ARVALID /\ ~axi_arready THEN {ar}
                 ELSE IF ar_owed' = 0 THEN Addresses \cup {NoBeat} ELSE {NoBeat}
<1>1. ASSUME NEW addr \in Addresses, ShellRead(addr)
      PROVE  ~ARVALID /\ ar' \in Addresses /\ ar_owed' = 0
  <2>1. ar = NoBeat /\ ~axi_rvalid
    BY <1>1 DEF ShellRead, HostInv
  <2>2. ~ARVALID /\ ar_owed = 0
    BY <2>1 DEF HostInv, ShellInv, EveryReadAnswered, ARVALID
  <2>3. ar_owed' = 0
    BY <2>1, <2>2 DEF Handshakes
  <2> QED BY <1>1, <2>2, <2>3 DEF ShellRead
<1>2. ASSUME ReadLoop
      PROVE  (~axi_arready /\ ar' = ar) \/ (axi_arready /\ ar' = NoBeat)
  BY <1>2 DEF ReadLoop, HostInv
<1>3. ASSUME ~ReadLoop, \A addr \in Addresses : ~ShellRead(addr)
      PROVE  ar = NoBeat /\ ar' = NoBeat
  BY <1>3 DEF Coroutine, ShellWrite, WriteLoop, BSetup, BLoop, RSetup, RLoop,
              Return, Between, pins, HostInv
<1> QED BY <1>1, <1>2, <1>3 DEF ARVALID

LEMMA CoroutineIsMaster ==
  ASSUME HostInv, Coroutine, Handshakes
  PROVE  LegalMaster
<1>1. bready \in BOOLEAN /\ rready \in BOOLEAN
  BY DEF HostInv, ShellInv, ShellTypeOK
<1>2. bready' \in BOOLEAN /\ rready' \in BOOLEAN
  BY <1>1, Zenon DEF Coroutine, ShellWrite, WriteLoop, BSetup, BLoop, ShellRead,
     ReadLoop, RSetup, RLoop, Return, Between, pins
<1> QED BY <1>2, WriteChannels, ReadChannel DEF LegalMaster

LEMMA HostStepIsShellStep ==
  ASSUME HostInv, HostNext
  PROVE  ShellNext
BY LoopbackIsUser, CoroutineIsMaster DEF HostNext, ShellNext

-----------------------------------------------------------------------------
LEMMA HostInvInit == HostInit => HostInv
BY ShellInvInit, SizeAssumption DEF HostInit, ShellInit, WriteReset, LocationsReset,
   AnswersReset, MasterReset, HostInv, Addresses

\* What the coroutine sees on the pins.
LEMMA SeenFacts ==
  /\ "aw" \in Seen({"aw", "w"}) <=> axi_awready'
  /\ "w" \in Seen({"aw", "w"}) <=> axi_wready'
  /\ "r" \notin Seen({"aw", "w"}) /\ "r" \notin Seen({"b"}) /\ "r" \notin Seen({"ar"})
  /\ "ar" \in Seen({"ar"}) <=> axi_arready'
  /\ "r" \in Seen({"r"}) <=> axi_rvalid'
BY DEF Seen

LEMMA HostInvStep ==
  ASSUME HostInv, HostNext
  PROVE  HostInv'
<1>1. ShellInv'
  BY HostStepIsShellStep, ShellInvStep DEF HostInv
<1>2. last_write_addr_r' \in Addresses
  BY DEF HostNext, Loopback, HostInv, ShellInv, ShellTypeOK, AWVALID
<1>3. Coroutine
  BY DEF HostNext
<1>4. ar = NoBeat => (axi_rvalid' <=> axi_rvalid /\ ~rready)
  BY DEF HostNext, Loopback, ShellEdge, Rvalid, slv_reg_rden, ARVALID
<1> DEFINE Waits ==
      /\ pc \in {"idle", "aw", "bsetup", "b", "ar", "rsetup", "r", "unlock"}
      /\ pc = "aw" => ("aw" \in done <=> axi_awready) /\ ("w" \in done <=> axi_wready)
      /\ pc # "aw" => aw = NoBeat /\ w = NoBeat
      /\ pc = "ar" => ("ar" \in done <=> axi_arready) /\ "r" \notin done
      /\ pc # "ar" => ar = NoBeat
      /\ pc = "rsetup" => "r" \notin done
      /\ pc = "r" => rready /\ ("r" \in done => axi_rvalid)
      /\ pc \notin {"ar", "rsetup", "r"} => ~axi_rvalid
<1>5. Waits
  BY Zenon DEF HostInv
<1>6. axi_awready <=> axi_wready
  BY DEF HostInv, ShellInv, WriteEngineConsistent
<1>7. Waits'
  <2>1. CASE \E addr \in Addresses, data \in WriteData : ShellWrite(addr, data)
    BY <1>4, <1>5, <2>1, SeenFacts DEF ShellWrite
  <2>2. CASE WriteLoop
    BY <1>4, <1>5, <1>6, <2>2, SeenFacts DEF WriteLoop
  <2>3. CASE BSetup
    BY <1>4, <1>5, <2>3, SeenFacts DEF BSetup
  <2>4. CASE BLoop
    BY <1>4, <1>5, <2>4, SeenFacts DEF BLoop
  <2>5. CASE \E addr \in Addresses : ShellRead(addr)
    BY <1>5, <2>5, SeenFacts DEF ShellRead
  <2>6. CASE ReadLoop
    BY <1>5, <2>6, SeenFacts DEF ReadLoop
  <2>7. CASE RSetup
    BY <1>5, <2>7, SeenFacts DEF RSetup, Capture
  <2>8. CASE RLoop
    BY <1>4, <1>5, <2>8, SeenFacts DEF RLoop, Capture
  <2>9. CASE Return
    BY <1>4, <1>5, <2>9 DEF Return, pins
  <2>10. CASE Between
    BY <1>4, <1>5, <2>10 DEF Between, pins, coroutine
  <2> QED BY <1>3, <2>1, <2>2, <2>3, <2>4, <2>5, <2>6, <2>7, <2>8, <2>9, <2>10
       DEF Coroutine
<1> QED BY <1>1, <1>2, <1>7, Zenon DEF HostInv

LEMMA HostInvStutter ==
  ASSUME HostInv, UNCHANGED hostVars
  PROVE  HostInv'
<1>1. ShellInv'
  BY ShellInvStutter DEF HostInv, hostVars
<1> QED BY <1>1 DEF HostInv, hostVars, shellVars, writeRegs, readRegs, pins, coroutine

(***************************************************************************)
(* The wait points of the coroutines agree with the handshakes.            *)
(***************************************************************************)
THEOREM HostInvariant == HostSpec => []HostInv
<1>1. HostInv /\ [HostNext]_hostVars => HostInv'
  BY HostInvStep, HostInvStutter
<1> QED BY HostInvInit, <1>1, PTL DEF HostSpec

(***************************************************************************)
(* The coroutines drive the pins as an AXI4-Lite master must: what is      *)
(* offered is held until it is accepted and a read waits for the answer to *)
(* the one before.                                                         *)
(***************************************************************************)
THEOREM CoroutinesAreLegal == HostSpec => HostIsLegalMaster
<1>1. HostInv /\ [HostNext]_hostVars => [LegalMaster]_shellVars
  BY CoroutineIsMaster DEF HostNext, hostVars
<1> QED BY HostInvariant, <1>1, PTL DEF HostSpec, HostIsLegalMaster

(***************************************************************************)
(* The simulator with the loopback behaves as the shell under some legal   *)
(* master and some user logic: what is proved of the shell holds for it.   *)
(***************************************************************************)
THEOREM HostImplementsShell == HostSpec => ShellSpec
<1>1. HostInit => ShellInit
  BY DEF HostInit
<1>2. HostInv /\ [HostNext]_hostVars => [ShellNext]_shellVars
  BY HostStepIsShellStep DEF hostVars
<1> QED BY HostInvariant, <1>1, <1>2, PTL DEF HostSpec, ShellSpec

(***************************************************************************)
(* In the simulator the counts that the program reads are exact.           *)
(***************************************************************************)
THEOREM HostCountersExact == HostSpec => []FlowCountersExact
BY HostImplementsShell, CountersExact, PTL

-----------------------------------------------------------------------------
(***************************************************************************)
(* The credit of the program.                                              *)
(***************************************************************************)
Room(k) == Els - Len(ps_to_pl[k])
Fill(k) == Len(pl_to_ps[k])

\* The word is not more than the count at the address of the call is now.
WithinCount(word) ==
  /\ \A k \in Ins : ReadLoc(call.addr) = <<"ps_to_pl_count", k>> => word <= Room(k)
  /\ \A k \in Outs : ReadLoc(call.addr) = <<"pl_to_ps_count", k>> => word <= Fill(k)

\* The call that each yield belongs to, and what the pins still show of it.
CallPhase ==
  /\ pc = "idle" => call = NoCall
  /\ pc \in {"aw", "bsetup", "b"} => call.kind = "write"
  /\ pc \in {"ar", "rsetup", "r"} => call.kind = "read"
  /\ pc = "unlock" /\ call.kind = "read" => "r" \in done
  /\ pc = "aw" => aw \in {call.addr, NoBeat}
  /\ pc = "ar" => ar \in {call.addr, NoBeat}
  /\ pc \in {"aw", "bsetup"} => "b" \notin done
  /\ pc = "b" => bready /\ ("b" \in done <=> axi_bvalid)
  /\ axi_bvalid => pc \in {"bsetup", "b"}
  /\ axi_rvalid => pc \in {"rsetup", "r"}

CallInv ==
  /\ call \in Calls /\ done \subseteq {"aw", "w", "b", "ar", "r"}
  /\ rdata \in Words /\ returned \in Words
  /\ CallPhase

\* The word of a covered call that has not taken effect.
InFlight(k) ==
  IF covered /\ pc = "aw" /\ WriteLoc(call.addr) = <<"ps_to_pl", k>> THEN 1 ELSE 0
OutFlight(k) ==
  IF covered /\ pc = "ar" /\ ReadLoc(call.addr) = <<"pl_to_ps", k>> THEN 1 ELSE 0

(***************************************************************************)
(* A count that is on its way to the program is still covered by the FIFO, *)
(* and a write or read of a FIFO that is not covered found no credit.      *)
(***************************************************************************)
InCredit ==
  /\ in_credit \in [Ins -> Nat]
  /\ \A k \in Ins : in_credit[k] + InFlight(k) <= Room(k)
  /\ ~covered /\ pc = "aw" =>
       \A k \in Ins : WriteLoc(call.addr) = <<"ps_to_pl", k>> => in_credit[k] = 0

OutCredit ==
  /\ out_credit \in [Outs -> Nat]
  /\ \A k \in Outs : out_credit[k] + OutFlight(k) <= Fill(k)
  /\ ~covered /\ pc = "ar" =>
       \A k \in Outs : ReadLoc(call.addr) = <<"pl_to_ps", k>> => out_credit[k] = 0

CountsInv ==
  /\ axi_rvalid => WithinCount(axi_rdata)
  /\ pc = "r" /\ "r" \in done => WithinCount(rdata)
  /\ pc = "unlock" /\ call.kind = "read" => WithinCount(rdata)

CreditInv ==
  HostInv /\ CallInv /\ InCredit /\ OutCredit /\ CountsInv /\ covered \in BOOLEAN

\* The FIFOs at an edge: a word more only by a push, a word less only by a pull.
LEMMA FifoLengths ==
  ASSUME ShellInv, ShellNext
  PROVE  /\ \A k \in Ins : Len(ps_to_pl'[k]) <= Len(ps_to_pl[k])
                                               + (IF in_push(k) THEN 1 ELSE 0)
         /\ \A k \in Outs : Len(pl_to_ps'[k]) >= Len(pl_to_ps[k])
                                                - (IF out_pull(k) THEN 1 ELSE 0)
<1>1. PICK yumi \in SUBSET {k \in Ins : in_valid(k)}, v_i \in SUBSET Outs,
           data_i \in [Outs -> Payload], csr_data_i \in [Stats -> Payload] :
        ShellEdge(yumi, v_i, data_i, csr_data_i)
  BY DEF ShellNext, AnyUser
<1> DEFINE word == IF WVALID THEN w.data ELSE 0
<1>2. word \in Words
  BY WordAssumption, SizeAssumption DEF ShellInv, ShellTypeOK, WBeats, WVALID
<1> HIDE DEF word
<1>3. ASSUME NEW k \in Ins
      PROVE  Len(ps_to_pl'[k]) <= Len(ps_to_pl[k]) + (IF in_push(k) THEN 1 ELSE 0)
  <2>1. PICK q \in Seq(Words), pull \in BOOLEAN, push \in BOOLEAN, wd \in Words :
          q = ps_to_pl[k] /\ pull = (k \in yumi) /\ push = in_push(k) /\ wd = word
    <3>1. (k \in yumi) \in BOOLEAN /\ in_push(k) \in BOOLEAN
      BY DEF in_push, in_ready, slv_wr_sel
    <3>2. ps_to_pl[k] \in Seq(Words)
      BY DEF ShellInv, ShellTypeOK
    <3> QED BY <1>2, <3>1, <3>2, Zenon
  <2>2. ps_to_pl'[k] = FifoAfter(q, pull, push, wd)
    BY <1>1, <2>1, Zenon DEF ShellEdge, PsToPl, word
  <2>3. pull => q # << >>
    BY <1>1, <2>1 DEF in_valid
  <2>4. Len(FifoAfter(q, pull, push, wd))
          = Len(q) + (IF push THEN 1 ELSE 0) - (IF pull THEN 1 ELSE 0)
    BY <2>3, FifoAfterFacts
  <2>5. push <=> in_push(k)
    BY <2>1, Zenon
  <2>6. PICK n \in Int, i \in 0 .. 1, o \in 0 .. 1 :
          /\ n = Len(q) /\ i = (IF push THEN 1 ELSE 0) /\ o = (IF pull THEN 1 ELSE 0)
    BY <2>1
  <2>7. Len(ps_to_pl'[k]) = n + i - o /\ n = Len(ps_to_pl[k])
    BY <2>1, <2>2, <2>4, <2>6
  <2>8. i = IF in_push(k) THEN 1 ELSE 0
    BY <2>5, <2>6
  <2>9. n + i - o <= n + i
    <3>1. n \in Int /\ i \in Int /\ o \in Int /\ o >= 0
      BY <2>6
    <3> QED BY <3>1
  <2> QED BY <2>7, <2>8, <2>9, Zenon
<1>4. ASSUME NEW k \in Outs
      PROVE  Len(pl_to_ps'[k]) >= Len(pl_to_ps[k]) - (IF out_pull(k) THEN 1 ELSE 0)
  <2>1. PICK q \in Seq(Words), pull \in BOOLEAN, push \in BOOLEAN, wd \in Words :
          /\ q = pl_to_ps[k] /\ pull = out_pull(k)
          /\ push = (k \in v_i /\ out_ready(k)) /\ wd = data_i[k]
    <3>1. (k \in v_i /\ out_ready(k)) \in BOOLEAN /\ out_pull(k) \in BOOLEAN
      BY DEF out_pull, out_valid, slv_rd_sel
    <3>2. pl_to_ps[k] \in Seq(Words) /\ data_i[k] \in Words
      BY WordAssumption DEF ShellInv, ShellTypeOK
    <3> QED BY <3>1, <3>2, Zenon
  <2>2. pl_to_ps'[k] = FifoAfter(q, pull, push, wd)
    BY <1>1, <2>1, Zenon DEF ShellEdge, PlToPs
  <2>3. pull <=> out_pull(k)
    BY <2>1, Zenon
  <2>4. pull => q # << >>
    BY <2>1, <2>3 DEF out_pull, out_valid
  <2>5. Len(FifoAfter(q, pull, push, wd))
          = Len(q) + (IF push THEN 1 ELSE 0) - (IF pull THEN 1 ELSE 0)
    BY <2>4, FifoAfterFacts
  <2>6. PICK n \in Int, i \in 0 .. 1, o \in 0 .. 1 :
          /\ n = Len(q) /\ i = (IF push THEN 1 ELSE 0) /\ o = (IF pull THEN 1 ELSE 0)
    BY <2>1
  <2>7. Len(pl_to_ps'[k]) = n + i - o /\ n = Len(pl_to_ps[k])
    BY <2>1, <2>2, <2>5, <2>6
  <2>8. o = IF out_pull(k) THEN 1 ELSE 0
    BY <2>3, <2>6
  <2>9. n + i - o >= n - o
    <3>1. n \in Int /\ i \in Int /\ o \in Int /\ i >= 0
      BY <2>6
    <3> QED BY <3>1
  <2> QED BY <2>7, <2>8, <2>9, Zenon
<1> QED BY <1>3, <1>4

\* What an edge may do to the rooms and fills, and to a count that is read.
LEMMA EdgeRooms ==
  ASSUME HostInv, CallInv, HostNext
  PROVE  /\ \A k \in Ins : /\ Room(k) \in 0 .. Els /\ Room(k)' \in 0 .. Els
                           /\ Room(k)' >= Room(k) - 1
                           /\ Room(k)' >= Room(k) \/
                                /\ pc = "aw" /\ axi_awready
                                /\ WriteLoc(call.addr) = <<"ps_to_pl", k>>
         /\ \A k \in Outs : /\ Fill(k) \in 0 .. Els /\ Fill(k)' \in 0 .. Els
                            /\ Fill(k)' >= Fill(k) - 1
                            /\ Fill(k)' >= Fill(k) \/
                                 /\ pc = "ar" /\ axi_arready
                                 /\ ReadLoc(call.addr) = <<"pl_to_ps", k>>
<1>1. ShellInv /\ ShellNext /\ ShellInv'
  BY HostStepIsShellStep, ShellInvStep DEF HostInv
<1>2. \A k \in Ins : in_push(k) =>
        pc = "aw" /\ axi_awready /\ WriteLoc(call.addr) = <<"ps_to_pl", k>>
  <2> SUFFICES ASSUME NEW k \in Ins, in_push(k)
               PROVE  pc = "aw" /\ axi_awready /\ WriteLoc(call.addr) = <<"ps_to_pl", k>>
    OBVIOUS
  <2>1. axi_awready /\ aw # NoBeat /\ WriteLoc(axi_awaddr) = <<"ps_to_pl", k>>
    BY DEF in_push, slv_wr_sel, slv_reg_wren, AWVALID
  <2>2. pc = "aw" /\ axi_awaddr = aw /\ aw = call.addr
    BY <2>1 DEF HostInv, ShellInv, LatchedAddressIsAccepted, CallInv, CallPhase
  <2> QED BY <2>1, <2>2
<1>3. \A k \in Outs : out_pull(k) =>
        pc = "ar" /\ axi_arready /\ ReadLoc(call.addr) = <<"pl_to_ps", k>>
  <2> SUFFICES ASSUME NEW k \in Outs, out_pull(k)
               PROVE  pc = "ar" /\ axi_arready /\ ReadLoc(call.addr) = <<"pl_to_ps", k>>
    OBVIOUS
  <2>1. axi_arready /\ ar # NoBeat /\ ReadLoc(axi_araddr) = <<"pl_to_ps", k>>
    BY DEF out_pull, slv_rd_sel, slv_reg_rden, ARVALID
  <2>2. pc = "ar" /\ axi_araddr = ar /\ ar = call.addr
    BY <2>1 DEF HostInv, ShellInv, LatchedAddressIsAccepted, CallInv, CallPhase
  <2> QED BY <2>1, <2>2
<1>4. \A k \in Ins : /\ Len(ps_to_pl[k]) \in 0 .. Els /\ Len(ps_to_pl'[k]) \in 0 .. Els
                     /\ Len(ps_to_pl'[k]) <= Len(ps_to_pl[k])
                                             + (IF in_push(k) THEN 1 ELSE 0)
  <2> SUFFICES ASSUME NEW k \in Ins
               PROVE  /\ Len(ps_to_pl[k]) \in 0 .. Els /\ Len(ps_to_pl'[k]) \in 0 .. Els
                      /\ Len(ps_to_pl'[k]) <= Len(ps_to_pl[k])
                                              + (IF in_push(k) THEN 1 ELSE 0)
    OBVIOUS
  <2>1. /\ ps_to_pl[k] \in Seq(Words) /\ ps_to_pl'[k] \in Seq(Words)
        /\ Len(ps_to_pl[k]) <= Els /\ Len(ps_to_pl'[k]) <= Els
    BY <1>1 DEF ShellInv, ShellTypeOK
  <2>2. Len(ps_to_pl[k]) \in 0 .. Els /\ Len(ps_to_pl'[k]) \in 0 .. Els
    BY <2>1, SizeAssumption
  <2> QED BY <1>1, <2>2, FifoLengths
<1>5. \A k \in Outs : /\ Len(pl_to_ps[k]) \in 0 .. Els /\ Len(pl_to_ps'[k]) \in 0 .. Els
                      /\ Len(pl_to_ps'[k]) >= Len(pl_to_ps[k])
                                              - (IF out_pull(k) THEN 1 ELSE 0)
  <2> SUFFICES ASSUME NEW k \in Outs
               PROVE  /\ Len(pl_to_ps[k]) \in 0 .. Els /\ Len(pl_to_ps'[k]) \in 0 .. Els
                      /\ Len(pl_to_ps'[k]) >= Len(pl_to_ps[k])
                                              - (IF out_pull(k) THEN 1 ELSE 0)
    OBVIOUS
  <2>1. /\ pl_to_ps[k] \in Seq(Words) /\ pl_to_ps'[k] \in Seq(Words)
        /\ Len(pl_to_ps[k]) <= Els /\ Len(pl_to_ps'[k]) <= Els
    BY <1>1 DEF ShellInv, ShellTypeOK
  <2>2. Len(pl_to_ps[k]) \in 0 .. Els /\ Len(pl_to_ps'[k]) \in 0 .. Els
    BY <2>1, SizeAssumption
  <2> QED BY <1>1, <2>2, FifoLengths
<1>6. Els \in Nat
  BY SizeAssumption
<1>7. ASSUME NEW k \in Ins
      PROVE  /\ Room(k) \in 0 .. Els /\ Room(k)' \in 0 .. Els
             /\ Room(k)' >= Room(k) - 1
             /\ Room(k)' >= Room(k) \/ in_push(k)
  <2>1. PICK m \in 0 .. Els, n \in 0 .. Els :
          m = Len(ps_to_pl[k]) /\ n = Len(ps_to_pl'[k])
    BY <1>4
  <2>2. n <= m + (IF in_push(k) THEN 1 ELSE 0)
    BY <1>4, <2>1
  <2>3. n <= m + 1 /\ (n <= m \/ in_push(k))
    BY <2>2
  <2>4. Room(k) = Els - m /\ Room(k)' = Els - n
    BY <2>1 DEF Room
  <2> QED BY <1>6, <2>3, <2>4
<1>8. ASSUME NEW k \in Outs
      PROVE  /\ Fill(k) \in 0 .. Els /\ Fill(k)' \in 0 .. Els
             /\ Fill(k)' >= Fill(k) - 1
             /\ Fill(k)' >= Fill(k) \/ out_pull(k)
  <2>1. PICK m \in 0 .. Els, n \in 0 .. Els :
          m = Len(pl_to_ps[k]) /\ n = Len(pl_to_ps'[k])
    BY <1>5
  <2>2. n >= m - (IF out_pull(k) THEN 1 ELSE 0)
    BY <1>5, <2>1
  <2>3. n >= m - 1 /\ (n >= m \/ out_pull(k))
    BY <2>2
  <2>4. Fill(k) = m /\ Fill(k)' = n
    BY <2>1 DEF Fill
  <2> QED BY <1>6, <2>3, <2>4
<1> QED BY <1>2, <1>3, <1>7, <1>8

\* When an answer may be pending after an edge.
LEMMA EdgeAnswers ==
  ASSUME HostInv, HostNext
  PROVE  /\ axi_bvalid' => (pc = "aw" /\ axi_awready) \/ (axi_bvalid /\ ~bready)
         /\ axi_rvalid' => (pc = "ar" /\ axi_arready) \/ (axi_rvalid /\ ~rready)
<1>1. Bvalid /\ Rvalid
  BY DEF HostNext, Loopback, ShellEdge
<1>2. axi_bvalid' => slv_reg_wren \/ (axi_bvalid /\ ~bready)
  BY <1>1, Zenon DEF Bvalid
<1>3. axi_rvalid' => slv_reg_rden \/ (axi_rvalid /\ ~rready)
  BY <1>1, Zenon DEF Rvalid
<1>4. slv_reg_wren => pc = "aw" /\ axi_awready
  BY DEF slv_reg_wren, AWVALID, HostInv
<1>5. slv_reg_rden => pc = "ar" /\ axi_arready
  BY DEF slv_reg_rden, ARVALID, HostInv
<1> QED BY <1>2, <1>3, <1>4, <1>5

\* A yield goes with its kind of call, and the answers with the yields.
LEMMA CallPhaseStep ==
  ASSUME HostInv, CallInv, HostNext
  PROVE  CallPhase'
<1>1. Coroutine
  BY DEF HostNext
<1>2. /\ axi_bvalid' => (pc = "aw" /\ axi_awready) \/ (axi_bvalid /\ ~bready)
      /\ axi_rvalid' => (pc = "ar" /\ axi_arready) \/ (axi_rvalid /\ ~rready)
  BY EdgeAnswers
<1>3. CallPhase /\ call \in Calls
  BY DEF CallInv
<1>4. /\ pc = "aw" => ("aw" \in done <=> axi_awready) /\ ("w" \in done <=> axi_wready)
      /\ pc = "ar" => ("ar" \in done <=> axi_arready) /\ "r" \notin done
      /\ pc = "rsetup" => "r" \notin done
      /\ pc = "r" => rready /\ ("r" \in done => axi_rvalid)
      /\ axi_awready <=> axi_wready
  BY DEF HostInv, ShellInv, WriteEngineConsistent
<1>5. /\ "b" \in Seen({"b"}) <=> axi_bvalid'
      /\ "b" \notin Seen({"aw", "w"})
      /\ "r" \in Seen({"r"}) <=> axi_rvalid'
  BY DEF Seen
<1>6. CASE \E addr \in Addresses, data \in WriteData : ShellWrite(addr, data)
  <2>1. PICK addr \in Addresses, data \in WriteData : ShellWrite(addr, data)
    BY <1>6
  <2>2. /\ pc = "idle" /\ pc' = "aw" /\ aw' = addr /\ done' = Seen({"aw", "w"})
        /\ call' = [kind |-> "write", addr |-> addr, data |-> data]
    BY <2>1 DEF ShellWrite
  <2>3. call'.kind = "write" /\ call'.addr = addr
    BY <2>2
  <2>4. ~axi_bvalid' /\ ~axi_rvalid' /\ "b" \notin done'
    BY <1>2, <1>3, <1>5, <2>2 DEF CallPhase
  <2> QED BY <2>2, <2>3, <2>4 DEF CallPhase
<1>7. CASE WriteLoop
  <2>1. /\ pc = "aw" /\ pc' \in {"aw", "bsetup"} /\ call' = call
        /\ aw' \in {aw, NoBeat}
    BY <1>7 DEF WriteLoop
  <2>2. ~axi_rvalid'
    BY <1>2, <1>3, <2>1 DEF CallPhase
  <2>3. "b" \notin done'
    BY <1>3, <1>5, <1>7 DEF WriteLoop, CallPhase
  <2>4. axi_bvalid' => pc' = "bsetup"
    BY <1>2, <1>3, <1>4, <1>7, <2>1 DEF WriteLoop, CallPhase
  <2> QED BY <1>3, <2>1, <2>2, <2>3, <2>4 DEF CallPhase
<1>8. CASE BSetup
  <2>1. /\ pc = "bsetup" /\ pc' = "b" /\ bready' /\ done' = done \cup Seen({"b"})
        /\ UNCHANGED <<call, aw, ar>>
    BY <1>8, Zenon DEF BSetup
  <2> QED BY <1>2, <1>3, <1>5, <2>1 DEF CallPhase
<1>9. CASE BLoop
  <2>1. CASE "b" \in done
    <3>1. pc = "b" /\ pc' = "unlock" /\ call' = call
      BY <1>9, <2>1 DEF BLoop
    <3> QED BY <1>2, <1>3, <2>1, <3>1 DEF CallPhase
  <2>2. CASE "b" \notin done
    <3>1. pc = "b" /\ pc' = "b" /\ call' = call /\ done' = Seen({"b"}) \cup done
      BY <1>9, <2>2 DEF BLoop
    <3>2. bready' <=> bready
      BY <1>9, <2>2, Zenon DEF BLoop
    <3> QED BY <1>2, <1>3, <1>5, <2>2, <3>1, <3>2 DEF CallPhase
  <2> QED BY <2>1, <2>2
<1>10. CASE \E addr \in Addresses : ShellRead(addr)
  BY <1>2, <1>3, <1>5, <1>10 DEF ShellRead, CallPhase
<1>11. CASE ReadLoop
  BY <1>2, <1>3, <1>4, <1>11 DEF ReadLoop, CallPhase
<1>12. CASE RSetup
  BY <1>2, <1>3, <1>4, <1>12 DEF RSetup, CallPhase
<1>13. CASE RLoop
  BY <1>2, <1>3, <1>4, <1>13 DEF RLoop, CallPhase
<1>14. CASE Return
  BY <1>2, <1>3, <1>14 DEF Return, CallPhase
<1>15. CASE Between
  BY <1>2, <1>3, <1>15 DEF Between, CallPhase, coroutine
<1> QED BY <1>1, <1>6, <1>7, <1>8, <1>9, <1>10, <1>11, <1>12, <1>13, <1>14, <1>15
     DEF Coroutine

\* The locals of the coroutine keep their types.
LEMMA CallInvStep ==
  ASSUME HostInv, CallInv, HostNext
  PROVE  CallInv'
<1>1. Coroutine /\ CallPhase'
  BY CallPhaseStep DEF HostNext
<1>2. axi_rdata' \in Words
  BY HostStepIsShellStep, ShellInvStep DEF HostInv, ShellInv, ShellTypeOK
<1>3. call \in Calls /\ rdata \in Words /\ returned \in Words /\ 0 \in Words
  BY WordAssumption, SizeAssumption DEF CallInv
<1>4. call' \in Calls
  BY <1>1, <1>3 DEF Coroutine, ShellWrite, WriteLoop, BSetup, BLoop, ShellRead,
     ReadLoop, RSetup, RLoop, Return, Between, coroutine, Calls, NoCall
<1>5. rdata' \in Words /\ returned' \in Words
  BY <1>1, <1>2, <1>3 DEF Coroutine, ShellWrite, WriteLoop, BSetup, BLoop, ShellRead,
     ReadLoop, RSetup, RLoop, Capture, Return, Between, coroutine
<1>6. done' \subseteq {"aw", "w", "b", "ar", "r"}
  BY <1>1 DEF CallInv, Coroutine, ShellWrite, WriteLoop, BSetup, BLoop, ShellRead,
     ReadLoop, RSetup, RLoop, Capture, Return, Between, coroutine, Seen
<1> QED BY <1>1, <1>4, <1>5, <1>6 DEF CallInv

-----------------------------------------------------------------------------
\* A count within the room stays within it while no write can be applied.
LEMMA CountsStay ==
  ASSUME HostInv, CallInv, HostNext, pc \in {"rsetup", "r"}, call' = call,
         NEW word \in Words, WithinCount(word)
  PROVE  WithinCount(word)'
<1>1. /\ \A k \in Ins : Room(k) \in Int /\ Room(k)' \in Int /\ Room(k)' >= Room(k)
      /\ \A k \in Outs : Fill(k) \in Int /\ Fill(k)' \in Int /\ Fill(k)' >= Fill(k)
  BY EdgeRooms
<1>2. word \in Int
  BY HostAssumption
<1> QED BY <1>1, <1>2 DEF WithinCount

\* A count that the shell answers with is the one there is after the edge.
LEMMA CountRead ==
  ASSUME HostInv, CallInv, HostNext, slv_reg_rden, call' = call
  PROVE  WithinCount(axi_rdata)'
<1>1. PICK csr_data_i : Rdata(csr_data_i)
  BY DEF HostNext, Loopback, ShellEdge
<1>2. pc = "ar" /\ axi_araddr = call.addr
  <2>1. ar # NoBeat /\ axi_arready
    BY DEF slv_reg_rden, ARVALID
  <2> QED BY <2>1 DEF HostInv, ShellInv, LatchedAddressIsAccepted, CallInv, CallPhase
<1>3. axi_rdata' \in reg_data_out(csr_data_i)
  BY <1>1 DEF Rdata
<1>4. ASSUME NEW k \in Ins, ReadLoc(call.addr) = <<"ps_to_pl_count", k>>
      PROVE  axi_rdata' <= Room(k)'
  <2>1. axi_rdata' = ps_to_pl_free[k]
    BY <1>2, <1>3, <1>4 DEF reg_data_out
  <2>2. ps_to_pl_free[k] = Room(k)
    BY DEF HostInv, ShellInv, FlowCountersExact, Room
  <2>3. Room(k) \in Int /\ Room(k)' \in Int /\ Room(k)' >= Room(k)
    BY <1>2, EdgeRooms
  <2> QED BY <2>1, <2>2, <2>3
<1>5. ASSUME NEW k \in Outs, ReadLoc(call.addr) = <<"pl_to_ps_count", k>>
      PROVE  axi_rdata' <= Fill(k)'
  <2>1. axi_rdata' = pl_to_ps_used[k]
    BY <1>2, <1>3, <1>5 DEF reg_data_out
  <2>2. pl_to_ps_used[k] = Fill(k)
    BY DEF HostInv, ShellInv, FlowCountersExact, Fill
  <2>3. ReadLoc(call.addr) # <<"pl_to_ps", k>>
    BY <1>5
  <2>4. Fill(k) \in Int /\ Fill(k)' \in Int /\ Fill(k)' >= Fill(k)
    BY <2>3, EdgeRooms
  <2> QED BY <2>1, <2>2, <2>4
<1> QED BY <1>4, <1>5 DEF WithinCount

\* A count that is read stays within the FIFO on its way to the program.
LEMMA CountsInvStep ==
  ASSUME HostInv, CallInv, CountsInv, HostNext
  PROVE  CountsInv'
<1>1. Coroutine /\ CallPhase /\ CallPhase'
  BY CallPhaseStep DEF HostNext, CallInv
<1>2. axi_rdata \in Words /\ rdata \in Words
  BY DEF HostInv, ShellInv, ShellTypeOK, CallInv
<1>3. axi_rvalid' => pc \in {"ar", "rsetup", "r"} /\ pc' \in {"rsetup", "r"} /\ call' = call
  <2>1. axi_rvalid' => (pc = "ar" /\ axi_arready) \/ (axi_rvalid /\ ~rready)
    BY EdgeAnswers
  <2>2. pc \in {"ar", "rsetup", "r"} => call' = call
    BY <1>1 DEF Coroutine, ShellWrite, WriteLoop, BSetup, BLoop, ShellRead,
       ReadLoop, RSetup, RLoop, Return, Between
  <2> QED BY <1>1, <2>1, <2>2 DEF CallPhase
<1>4. axi_rvalid' => WithinCount(axi_rdata)'
  <2> SUFFICES ASSUME axi_rvalid'
               PROVE  WithinCount(axi_rdata)'
    OBVIOUS
  <2>1. CASE slv_reg_rden
    BY <1>3, <2>1, CountRead
  <2>2. CASE ~slv_reg_rden
    <3>1. axi_rdata' = axi_rdata
      BY <2>2 DEF HostNext, Loopback, ShellEdge, Rdata
    <3>2. axi_rvalid
      BY <2>2, Zenon DEF HostNext, Loopback, ShellEdge, Rvalid
    <3>3. pc \in {"rsetup", "r"} /\ WithinCount(axi_rdata)
      BY <1>1, <3>2 DEF CallPhase, CountsInv
    <3>4. PICK word \in Words : word = axi_rdata
      BY <1>2
    <3>5. WithinCount(word)
      BY <3>3, <3>4
    <3>6. WithinCount(word)'
      BY <1>3, <3>3, <3>5, CountsStay
    <3>7. word = axi_rdata'
      BY <3>1, <3>4
    <3> QED BY <3>6, <3>7 DEF WithinCount
  <2> QED BY <2>1, <2>2
<1>5. ASSUME rdata' = axi_rdata', axi_rvalid'
      PROVE  WithinCount(rdata)'
  BY <1>4, <1>5 DEF WithinCount
<1>6. ASSUME pc = "r", "r" \in done, rdata' = rdata, call' = call
      PROVE  WithinCount(rdata)'
  <2>1. PICK word \in Words : word = rdata
    BY <1>2
  <2>2. WithinCount(word)
    BY <1>6, <2>1 DEF CountsInv
  <2>3. WithinCount(word)'
    BY <1>6, <2>2, CountsStay
  <2>4. word = rdata'
    BY <1>6, <2>1
  <2> QED BY <2>3, <2>4 DEF WithinCount
<1>7. CASE RSetup
  <2>1. pc' = "r" /\ ("r" \in done' => axi_rvalid') /\ (axi_rvalid' => rdata' = axi_rdata')
    BY <1>7, SeenFacts DEF RSetup, Capture, HostInv
  <2> QED BY <1>4, <1>5, <2>1 DEF CountsInv
<1>8. CASE RLoop
  <2>1. CASE "r" \in done
    <3>1. pc = "r" /\ pc' = "unlock" /\ rdata' = rdata /\ call' = call
      BY <1>8, <2>1 DEF RLoop
    <3> QED BY <1>4, <1>6, <2>1, <3>1 DEF CountsInv
  <2>2. CASE "r" \notin done
    <3>1. pc' = "r" /\ ("r" \in done' => axi_rvalid') /\ (axi_rvalid' => rdata' = axi_rdata')
      BY <1>8, <2>2, SeenFacts DEF RLoop, Capture
    <3> QED BY <1>4, <1>5, <3>1 DEF CountsInv
  <2> QED BY <2>1, <2>2
<1>9. CASE ~RSetup /\ ~RLoop
  <2>1. pc' # "r" /\ (pc' = "unlock" => pc = "b" /\ call' = call)
    BY <1>1, <1>9 DEF Coroutine, ShellWrite, WriteLoop, BSetup, BLoop, ShellRead,
       ReadLoop, Return, Between, coroutine, HostInv
  <2>2. pc' = "unlock" => call'.kind = "write"
    BY <1>1, <2>1 DEF CallPhase
  <2> QED BY <1>4, <2>1, <2>2 DEF CountsInv
<1> QED BY <1>7, <1>8, <1>9

-----------------------------------------------------------------------------
\* The credit for writes: a count adds what it covers, a call spends a word of it,
\* and only a call's own push takes room away.
LEMMA InCreditStep ==
  ASSUME HostInv, CallInv, CountsInv, InCredit, HostNext
  PROVE  InCredit'
<1>1. Coroutine /\ CallPhase /\ CallPhase'
  BY CallPhaseStep DEF HostNext, CallInv
<1>2. /\ in_credit \in [Ins -> Nat]
      /\ \A k \in Ins :
           /\ Room(k) \in Int /\ Room(k)' \in Int
           /\ Room(k)' >= 0 /\ Room(k)' >= Room(k) - 1
           /\ \/ Room(k)' >= Room(k)
              \/ /\ pc = "aw" /\ axi_awready
                 /\ WriteLoc(call.addr) = <<"ps_to_pl", k>>
  BY EdgeRooms DEF InCredit
<1>3. \A k \in Ins : in_credit[k] + InFlight(k) <= Room(k)
  BY DEF InCredit
<1>4. \A k \in Ins : InFlight(k) \in 0 .. 1 /\ (pc # "aw" => InFlight(k) = 0)
  BY DEF InFlight
<1>5. \A k \in Ins : pc' # "aw" => InFlight(k)' = 0
  BY DEF InFlight
\* The numbers of a FIFO before the edge, and its room after it.
<1> DEFINE Numbers(k, c, f, room, next) ==
      /\ c = in_credit[k] /\ f = InFlight(k) /\ room = Room(k) /\ next = Room(k)'
<1>6. ASSUME NEW k \in Ins
      PROVE  \E c \in Nat, f \in 0 .. 1, room \in Int, next \in Int :
               Numbers(k, c, f, room, next)
  <2>1. in_credit[k] \in Nat
    BY <1>2
  <2>2. InFlight(k) \in 0 .. 1 /\ Room(k) \in Int /\ Room(k)' \in Int
    BY <1>2, <1>4, Zenon DEF Room
  <2> QED BY <2>1, <2>2, Zenon
<1>7. ASSUME NEW k \in Ins, NEW c \in Nat, NEW f \in 0 .. 1, NEW room \in Int,
             NEW next \in Int, Numbers(k, c, f, room, next)
      PROVE  /\ c + f <= room /\ next >= 0 /\ next >= room - 1
             /\ next >= room \/ /\ pc = "aw" /\ axi_awready
                                /\ WriteLoc(call.addr) = <<"ps_to_pl", k>>
             /\ pc # "aw" => f = 0
  <2>1. /\ in_credit[k] + InFlight(k) <= Room(k)
        /\ Room(k)' >= 0 /\ Room(k)' >= Room(k) - 1
        /\ \/ Room(k)' >= Room(k)
           \/ /\ pc = "aw" /\ axi_awready
              /\ WriteLoc(call.addr) = <<"ps_to_pl", k>>
        /\ pc # "aw" => InFlight(k) = 0
    BY <1>2, <1>3, <1>4, Zenon DEF Room
  <2> QED BY <1>7, <2>1
<1>8. ASSUME NEW k \in Ins, pc # "aw"
      PROVE  in_credit[k] <= Room(k)'
  <2>1. PICK c \in Nat, f \in 0 .. 1, room \in Int, next \in Int :
          Numbers(k, c, f, room, next)
    BY <1>6
  <2>2. c + f <= room /\ next >= room /\ f = 0
    BY <1>7, <1>8, <2>1
  <2>3. c <= next
    BY <2>2
  <2> QED BY <2>1, <2>3
<1> HIDE DEF Numbers
\* No call starts: the credit is as it was, and no push is applied.
<1>9. ASSUME pc # "aw", pc' # "aw", in_credit' = in_credit
      PROVE  InCredit'
  <2>1. \A k \in Ins : in_credit'[k] \in Nat /\ in_credit'[k] + InFlight(k)' <= Room(k)'
    <3> SUFFICES ASSUME NEW k \in Ins
                 PROVE  in_credit'[k] \in Nat /\ in_credit'[k] + InFlight(k)' <= Room(k)'
      OBVIOUS
    <3>1. in_credit'[k] \in Nat /\ in_credit'[k] <= Room(k)' /\ InFlight(k)' = 0
      BY <1>2, <1>5, <1>8, <1>9
    <3> QED BY <3>1
  <2> QED BY <1>2, <1>9, <2>1 DEF InCredit
<1>10. CASE \E addr \in Addresses, data \in WriteData : ShellWrite(addr, data)
  <2>1. PICK addr \in Addresses, data \in WriteData : ShellWrite(addr, data)
    BY <1>10
  <2>2. /\ pc = "idle" /\ pc' = "aw" /\ call'.addr = addr
        /\ covered' = (WriteLoc(addr)[1] = "ps_to_pl" /\ in_credit[WriteLoc(addr)[2]] > 0)
        /\ in_credit' = [k \in Ins |-> IF WriteLoc(addr) = <<"ps_to_pl", k>>
                                       THEN Less1(in_credit[k]) ELSE in_credit[k]]
    BY <2>1 DEF ShellWrite
  <2>3. covered' <=> (WriteLoc(addr)[1] = "ps_to_pl" /\ in_credit[WriteLoc(addr)[2]] > 0)
    BY <2>2, Zenon
  <2>4. ASSUME NEW k \in Ins
        PROVE  /\ in_credit'[k] \in Nat
               /\ in_credit'[k] + InFlight(k)' <= Room(k)'
               /\ ~covered' /\ WriteLoc(addr) = <<"ps_to_pl", k>> => in_credit'[k] = 0
    <3>1. PICK c \in Nat, f \in 0 .. 1, room \in Int, next \in Int :
            Numbers(k, c, f, room, next)
      BY <1>6
    <3>2. c = in_credit[k] /\ next = Room(k)'
      BY <3>1 DEF Numbers
    <3>3. c <= next
      BY <1>8, <2>2, <3>2
    <3>4. CASE WriteLoc(addr) = <<"ps_to_pl", k>>
      <4>1. (covered' <=> c > 0) /\ in_credit'[k] = Less1(c)
        BY <2>2, <2>3, <3>2, <3>4
      <4>2. InFlight(k)' = IF covered' THEN 1 ELSE 0
        BY <2>2, <3>4 DEF InFlight
      <4> QED BY <3>2, <3>3, <4>1, <4>2 DEF Less1
    <3>5. CASE WriteLoc(addr) # <<"ps_to_pl", k>>
      <4>1. in_credit'[k] = c /\ InFlight(k)' = 0
        BY <2>2, <3>2, <3>5 DEF InFlight
      <4> QED BY <3>2, <3>3, <3>5, <4>1
    <3> QED BY <3>4, <3>5
  <2> QED BY <2>2, <2>4 DEF InCredit
<1>11. CASE WriteLoop
  <2>1. pc = "aw" /\ UNCHANGED <<call, credits>>
    BY <1>11 DEF WriteLoop
  <2>2. in_credit' = in_credit /\ (covered' <=> covered)
    BY <2>1, Zenon DEF credits
  <2>3. CASE {"aw", "w"} \subseteq done
    <3>1. pc' # "aw"
      BY <1>11, <2>3 DEF WriteLoop
    <3>2. ASSUME NEW k \in Ins
          PROVE  in_credit'[k] \in Nat /\ in_credit'[k] + InFlight(k)' <= Room(k)'
      <4>1. PICK c \in Nat, f \in 0 .. 1, room \in Int, next \in Int :
              Numbers(k, c, f, room, next)
        BY <1>6
      <4>2. c = in_credit'[k] /\ f = InFlight(k) /\ next = Room(k)' /\ InFlight(k)' = 0
        BY <1>5, <2>2, <3>1, <4>1 DEF Numbers
      <4>3. /\ c + f <= room /\ next >= 0 /\ next >= room - 1
            /\ next >= room \/ WriteLoc(call.addr) = <<"ps_to_pl", k>>
        BY <1>7, <4>1
      <4>4. WriteLoc(call.addr) = <<"ps_to_pl", k>> => f = 1 \/ c = 0
        BY <2>1, <2>2, <4>2 DEF InFlight, InCredit
      <4>5. c <= next
        BY <4>3, <4>4
      <4> QED BY <4>2, <4>5
    <3> QED BY <1>2, <2>2, <3>1, <3>2 DEF InCredit
  <2>4. CASE ~({"aw", "w"} \subseteq done)
    <3>1. pc' = "aw" /\ ~axi_awready
      BY <1>11, <2>1, <2>4 DEF WriteLoop, HostInv, ShellInv, WriteEngineConsistent
    <3>2. \A k \in Ins : InFlight(k)' = InFlight(k)
      BY <2>1, <2>2, <3>1 DEF InFlight
    <3>3. ASSUME NEW k \in Ins
          PROVE  in_credit'[k] \in Nat /\ in_credit'[k] + InFlight(k)' <= Room(k)'
      <4>1. PICK c \in Nat, f \in 0 .. 1, room \in Int, next \in Int :
              Numbers(k, c, f, room, next)
        BY <1>6
      <4>2. c = in_credit'[k] /\ f = InFlight(k)' /\ next = Room(k)'
        BY <2>2, <3>2, <4>1 DEF Numbers
      <4>3. c + f <= room /\ next >= room
        BY <1>7, <3>1, <4>1
      <4>4. c + f <= next
        BY <4>3
      <4> QED BY <4>2, <4>4
    <3> QED BY <1>2, <2>1, <2>2, <3>1, <3>3 DEF InCredit
  <2> QED BY <2>3, <2>4
<1>12. CASE Return
  <2>1. /\ pc = "unlock" /\ pc' = "idle"
        /\ \A k \in Ins : in_credit'[k] = in_credit[k] \/
             /\ in_credit'[k] = rdata /\ call.kind = "read"
             /\ ReadLoc(call.addr) = <<"ps_to_pl_count", k>>
    BY <1>2, <1>12 DEF Return
  <2>2. in_credit' = [k \in Ins |-> in_credit'[k]]
    BY <1>12 DEF Return
  <2>3. ASSUME NEW k \in Ins
        PROVE  in_credit'[k] \in Nat /\ in_credit'[k] + InFlight(k)' <= Room(k)'
    <3>1. InFlight(k)' = 0
      BY <1>5, <2>1
    <3>2. CASE in_credit'[k] = in_credit[k]
      <4>1. in_credit'[k] \in Nat /\ in_credit'[k] <= Room(k)'
        BY <1>2, <1>8, <2>1, <3>2
      <4> QED BY <3>1, <4>1
    <3>3. CASE /\ in_credit'[k] = rdata /\ call.kind = "read"
               /\ ReadLoc(call.addr) = <<"ps_to_pl_count", k>>
      <4>1. rdata \in Nat
        BY HostAssumption DEF CallInv
      <4>2. PICK c \in Nat, f \in 0 .. 1, room \in Int, next \in Int :
              Numbers(k, c, f, room, next)
        BY <1>6
      <4>3. next >= room /\ room = Room(k) /\ next = Room(k)'
        BY <1>7, <2>1, <4>2 DEF Numbers
      <4>4. rdata <= room
        BY <2>1, <3>3, <4>3 DEF CountsInv, WithinCount
      <4>5. rdata <= next
        BY <4>1, <4>3, <4>4
      <4> QED BY <3>1, <3>3, <4>1, <4>3, <4>5
    <3> QED BY <2>1, <3>2, <3>3
  <2> QED BY <2>1, <2>2, <2>3 DEF InCredit
<1>13. ASSUME ~WriteLoop, ~Return, \A addr \in Addresses, data \in WriteData : ~ShellWrite(addr, data)
       PROVE  pc # "aw" /\ pc' # "aw" /\ in_credit' = in_credit
  BY <1>1, <1>13 DEF Coroutine, BSetup, BLoop, ShellRead, ReadLoop, RSetup, RLoop,
     Between, coroutine, credits
<1> QED BY <1>9, <1>10, <1>11, <1>12, <1>13

-----------------------------------------------------------------------------
\* The credit for reads, in the same way.
LEMMA OutCreditStep ==
  ASSUME HostInv, CallInv, CountsInv, OutCredit, HostNext
  PROVE  OutCredit'
<1>1. Coroutine /\ CallPhase /\ CallPhase'
  BY CallPhaseStep DEF HostNext, CallInv
<1>2. /\ out_credit \in [Outs -> Nat]
      /\ \A k \in Outs :
           /\ Fill(k) \in Int /\ Fill(k)' \in Int
           /\ Fill(k)' >= 0 /\ Fill(k)' >= Fill(k) - 1
           /\ \/ Fill(k)' >= Fill(k)
              \/ /\ pc = "ar" /\ axi_arready
                 /\ ReadLoc(call.addr) = <<"pl_to_ps", k>>
  BY EdgeRooms DEF OutCredit
<1>3. \A k \in Outs : out_credit[k] + OutFlight(k) <= Fill(k)
  BY DEF OutCredit
<1>4. \A k \in Outs : OutFlight(k) \in 0 .. 1 /\ (pc # "ar" => OutFlight(k) = 0)
  BY DEF OutFlight
<1>5. \A k \in Outs : pc' # "ar" => OutFlight(k)' = 0
  BY DEF OutFlight
\* The numbers of a FIFO before the edge, and its room after it.
<1> DEFINE Numbers(k, c, f, room, next) ==
      /\ c = out_credit[k] /\ f = OutFlight(k) /\ room = Fill(k) /\ next = Fill(k)'
<1>6. ASSUME NEW k \in Outs
      PROVE  \E c \in Nat, f \in 0 .. 1, room \in Int, next \in Int :
               Numbers(k, c, f, room, next)
  <2>1. out_credit[k] \in Nat
    BY <1>2
  <2>2. OutFlight(k) \in 0 .. 1 /\ Fill(k) \in Int /\ Fill(k)' \in Int
    BY <1>2, <1>4, Zenon DEF Fill
  <2> QED BY <2>1, <2>2, Zenon
<1>7. ASSUME NEW k \in Outs, NEW c \in Nat, NEW f \in 0 .. 1, NEW room \in Int,
             NEW next \in Int, Numbers(k, c, f, room, next)
      PROVE  /\ c + f <= room /\ next >= 0 /\ next >= room - 1
             /\ next >= room \/ /\ pc = "ar" /\ axi_arready
                                /\ ReadLoc(call.addr) = <<"pl_to_ps", k>>
             /\ pc # "ar" => f = 0
  <2>1. /\ out_credit[k] + OutFlight(k) <= Fill(k)
        /\ Fill(k)' >= 0 /\ Fill(k)' >= Fill(k) - 1
        /\ \/ Fill(k)' >= Fill(k)
           \/ /\ pc = "ar" /\ axi_arready
              /\ ReadLoc(call.addr) = <<"pl_to_ps", k>>
        /\ pc # "ar" => OutFlight(k) = 0
    BY <1>2, <1>3, <1>4, Zenon DEF Fill
  <2> QED BY <1>7, <2>1
<1>8. ASSUME NEW k \in Outs, pc # "ar"
      PROVE  out_credit[k] <= Fill(k)'
  <2>1. PICK c \in Nat, f \in 0 .. 1, room \in Int, next \in Int :
          Numbers(k, c, f, room, next)
    BY <1>6
  <2>2. c + f <= room /\ next >= room /\ f = 0
    BY <1>7, <1>8, <2>1
  <2>3. c <= next
    BY <2>2
  <2> QED BY <2>1, <2>3
<1> HIDE DEF Numbers
\* No call starts: the credit is as it was, and no push is applied.
<1>9. ASSUME pc # "ar", pc' # "ar", out_credit' = out_credit
      PROVE  OutCredit'
  <2>1. \A k \in Outs : out_credit'[k] \in Nat /\ out_credit'[k] + OutFlight(k)' <= Fill(k)'
    <3> SUFFICES ASSUME NEW k \in Outs
                 PROVE  out_credit'[k] \in Nat /\ out_credit'[k] + OutFlight(k)' <= Fill(k)'
      OBVIOUS
    <3>1. out_credit'[k] \in Nat /\ out_credit'[k] <= Fill(k)' /\ OutFlight(k)' = 0
      BY <1>2, <1>5, <1>8, <1>9
    <3> QED BY <3>1
  <2> QED BY <1>2, <1>9, <2>1 DEF OutCredit
<1>10. CASE \E addr \in Addresses : ShellRead(addr)
  <2>1. PICK addr \in Addresses : ShellRead(addr)
    BY <1>10
  <2>2. /\ pc = "idle" /\ pc' = "ar" /\ call'.addr = addr
        /\ covered' = (ReadLoc(addr)[1] = "pl_to_ps" /\ out_credit[ReadLoc(addr)[2]] > 0)
        /\ out_credit' = [k \in Outs |-> IF ReadLoc(addr) = <<"pl_to_ps", k>>
                                       THEN Less1(out_credit[k]) ELSE out_credit[k]]
    BY <2>1 DEF ShellRead
  <2>3. covered' <=> (ReadLoc(addr)[1] = "pl_to_ps" /\ out_credit[ReadLoc(addr)[2]] > 0)
    BY <2>2, Zenon
  <2>4. ASSUME NEW k \in Outs
        PROVE  /\ out_credit'[k] \in Nat
               /\ out_credit'[k] + OutFlight(k)' <= Fill(k)'
               /\ ~covered' /\ ReadLoc(addr) = <<"pl_to_ps", k>> => out_credit'[k] = 0
    <3>1. PICK c \in Nat, f \in 0 .. 1, room \in Int, next \in Int :
            Numbers(k, c, f, room, next)
      BY <1>6
    <3>2. c = out_credit[k] /\ next = Fill(k)'
      BY <3>1 DEF Numbers
    <3>3. c <= next
      BY <1>8, <2>2, <3>2
    <3>4. CASE ReadLoc(addr) = <<"pl_to_ps", k>>
      <4>1. (covered' <=> c > 0) /\ out_credit'[k] = Less1(c)
        BY <2>2, <2>3, <3>2, <3>4
      <4>2. OutFlight(k)' = IF covered' THEN 1 ELSE 0
        BY <2>2, <3>4 DEF OutFlight
      <4> QED BY <3>2, <3>3, <4>1, <4>2 DEF Less1
    <3>5. CASE ReadLoc(addr) # <<"pl_to_ps", k>>
      <4>1. out_credit'[k] = c /\ OutFlight(k)' = 0
        BY <2>2, <3>2, <3>5 DEF OutFlight
      <4> QED BY <3>2, <3>3, <3>5, <4>1
    <3> QED BY <3>4, <3>5
  <2> QED BY <2>2, <2>4 DEF OutCredit
<1>11. CASE ReadLoop
  <2>1. pc = "ar" /\ UNCHANGED <<call, credits>>
    BY <1>11 DEF ReadLoop
  <2>2. out_credit' = out_credit /\ (covered' <=> covered)
    BY <2>1, Zenon DEF credits
  <2>3. CASE "ar" \in done
    <3>1. pc' # "ar"
      BY <1>11, <2>3 DEF ReadLoop
    <3>2. ASSUME NEW k \in Outs
          PROVE  out_credit'[k] \in Nat /\ out_credit'[k] + OutFlight(k)' <= Fill(k)'
      <4>1. PICK c \in Nat, f \in 0 .. 1, room \in Int, next \in Int :
              Numbers(k, c, f, room, next)
        BY <1>6
      <4>2. c = out_credit'[k] /\ f = OutFlight(k) /\ next = Fill(k)' /\ OutFlight(k)' = 0
        BY <1>5, <2>2, <3>1, <4>1 DEF Numbers
      <4>3. /\ c + f <= room /\ next >= 0 /\ next >= room - 1
            /\ next >= room \/ ReadLoc(call.addr) = <<"pl_to_ps", k>>
        BY <1>7, <4>1
      <4>4. ReadLoc(call.addr) = <<"pl_to_ps", k>> => f = 1 \/ c = 0
        BY <2>1, <2>2, <4>2 DEF OutFlight, OutCredit
      <4>5. c <= next
        BY <4>3, <4>4
      <4> QED BY <4>2, <4>5
    <3> QED BY <1>2, <2>2, <3>1, <3>2 DEF OutCredit
  <2>4. CASE ~("ar" \in done)
    <3>1. pc' = "ar" /\ ~axi_arready
      BY <1>11, <2>1, <2>4 DEF ReadLoop, HostInv, ShellInv, WriteEngineConsistent
    <3>2. \A k \in Outs : OutFlight(k)' = OutFlight(k)
      BY <2>1, <2>2, <3>1 DEF OutFlight
    <3>3. ASSUME NEW k \in Outs
          PROVE  out_credit'[k] \in Nat /\ out_credit'[k] + OutFlight(k)' <= Fill(k)'
      <4>1. PICK c \in Nat, f \in 0 .. 1, room \in Int, next \in Int :
              Numbers(k, c, f, room, next)
        BY <1>6
      <4>2. c = out_credit'[k] /\ f = OutFlight(k)' /\ next = Fill(k)'
        BY <2>2, <3>2, <4>1 DEF Numbers
      <4>3. c + f <= room /\ next >= room
        BY <1>7, <3>1, <4>1
      <4>4. c + f <= next
        BY <4>3
      <4> QED BY <4>2, <4>4
    <3> QED BY <1>2, <2>1, <2>2, <3>1, <3>3 DEF OutCredit
  <2> QED BY <2>3, <2>4
<1>12. CASE Return
  <2>1. /\ pc = "unlock" /\ pc' = "idle"
        /\ \A k \in Outs : out_credit'[k] = out_credit[k] \/
             /\ out_credit'[k] = rdata /\ call.kind = "read"
             /\ ReadLoc(call.addr) = <<"pl_to_ps_count", k>>
    BY <1>2, <1>12 DEF Return
  <2>2. out_credit' = [k \in Outs |-> out_credit'[k]]
    BY <1>12 DEF Return
  <2>3. ASSUME NEW k \in Outs
        PROVE  out_credit'[k] \in Nat /\ out_credit'[k] + OutFlight(k)' <= Fill(k)'
    <3>1. OutFlight(k)' = 0
      BY <1>5, <2>1
    <3>2. CASE out_credit'[k] = out_credit[k]
      <4>1. out_credit'[k] \in Nat /\ out_credit'[k] <= Fill(k)'
        BY <1>2, <1>8, <2>1, <3>2
      <4> QED BY <3>1, <4>1
    <3>3. CASE /\ out_credit'[k] = rdata /\ call.kind = "read"
               /\ ReadLoc(call.addr) = <<"pl_to_ps_count", k>>
      <4>1. rdata \in Nat
        BY HostAssumption DEF CallInv
      <4>2. PICK c \in Nat, f \in 0 .. 1, room \in Int, next \in Int :
              Numbers(k, c, f, room, next)
        BY <1>6
      <4>3. next >= room /\ room = Fill(k) /\ next = Fill(k)'
        BY <1>7, <2>1, <4>2 DEF Numbers
      <4>4. rdata <= room
        BY <2>1, <3>3, <4>3 DEF CountsInv, WithinCount
      <4>5. rdata <= next
        BY <4>1, <4>3, <4>4
      <4> QED BY <3>1, <3>3, <4>1, <4>3, <4>5
    <3> QED BY <2>1, <3>2, <3>3
  <2> QED BY <2>1, <2>2, <2>3 DEF OutCredit
<1>13. ASSUME ~ReadLoop, ~Return, \A addr \in Addresses : ~ShellRead(addr)
       PROVE  pc # "ar" /\ pc' # "ar" /\ out_credit' = out_credit
  BY <1>1, <1>13 DEF Coroutine, ShellWrite, WriteLoop, BSetup, BLoop, RSetup, RLoop,
     Between, coroutine, credits
<1> QED BY <1>9, <1>10, <1>11, <1>12, <1>13

-----------------------------------------------------------------------------
\* At the start no credit is given and no count is on its way.
LEMMA CreditInvInit == HostInit => CreditInv
<1> SUFFICES ASSUME HostInit
             PROVE  CreditInv
  OBVIOUS
<1>1. HostInv
  BY HostInvInit
<1>2. pc = "idle" /\ call = NoCall /\ done = {} /\ rdata = 0 /\ returned = 0
  BY DEF HostInit
<1>3. ~axi_bvalid /\ ~axi_rvalid /\ covered \in BOOLEAN
  BY DEF HostInit, ShellInit, AnswersReset
<1>4. CallInv
  BY <1>2, <1>3, WordAssumption, SizeAssumption DEF CallInv, CallPhase, Calls
<1>5. InCredit
  <2>1. in_credit = [k \in Ins |-> 0]
    BY DEF HostInit
  <2>2. \A k \in Ins : InFlight(k) = 0
    BY <1>2 DEF InFlight
  <2>3. ASSUME NEW k \in Ins
        PROVE  Room(k) = Els /\ Els \in Nat
    <3>1. ps_to_pl[k] = << >>
      BY DEF HostInit, ShellInit, LocationsReset
    <3> QED BY <3>1, SizeAssumption DEF Room
  <2> QED BY <1>2, <2>1, <2>2, <2>3 DEF InCredit
<1>6. OutCredit
  <2>1. out_credit = [k \in Outs |-> 0]
    BY DEF HostInit
  <2>2. \A k \in Outs : OutFlight(k) = 0
    BY <1>2 DEF OutFlight
  <2>3. ASSUME NEW k \in Outs
        PROVE  Fill(k) = 0
    <3>1. pl_to_ps[k] = << >>
      BY DEF HostInit, ShellInit, LocationsReset
    <3> QED BY <3>1 DEF Fill
  <2> QED BY <1>2, <2>1, <2>2, <2>3 DEF OutCredit
<1>7. CountsInv
  BY <1>2, <1>3 DEF CountsInv
<1> QED BY <1>1, <1>3, <1>4, <1>5, <1>6, <1>7 DEF CreditInv

LEMMA CreditInvStep ==
  ASSUME CreditInv, HostNext
  PROVE  CreditInv'
<1>1. HostInv /\ CallInv /\ InCredit /\ OutCredit /\ CountsInv
  BY DEF CreditInv
<1>2. covered' \in BOOLEAN
  <2>1. covered \in BOOLEAN /\ Coroutine
    BY DEF CreditInv, HostNext
  <2> QED BY <2>1, Zenon DEF Coroutine, ShellWrite, WriteLoop, BSetup, BLoop, ShellRead,
          ReadLoop, RSetup, RLoop, Return, Between, credits
<1> QED BY <1>1, <1>2, HostInvStep, CallInvStep, InCreditStep, OutCreditStep,
        CountsInvStep DEF CreditInv

LEMMA CreditInvStutter ==
  ASSUME CreditInv, UNCHANGED hostVars
  PROVE  CreditInv'
<1>1. HostInv'
  BY HostInvStutter DEF CreditInv
<1>2. CallInv' /\ CountsInv'
  BY DEF CreditInv, CallInv, CallPhase, CountsInv, WithinCount, Room, Fill, hostVars,
     shellVars, readRegs, writeRegs, userRegs, pins, coroutine
<1>3. InCredit' /\ OutCredit' /\ covered' \in BOOLEAN
  BY DEF CreditInv, InCredit, OutCredit, InFlight, OutFlight, Room, Fill, hostVars,
     shellVars, userRegs, coroutine, credits
<1> QED BY <1>1, <1>2, <1>3 DEF CreditInv

LEMMA CreditInvariant == HostSpec => []CreditInv
<1>1. CreditInv /\ [HostNext]_hostVars => CreditInv'
  BY CreditInvStep, CreditInvStutter
<1> QED BY CreditInvInit, <1>1, PTL DEF HostSpec

\* What the program may still move is covered.
LEMMA CreditInvHolds ==
  ASSUME CreditInv
  PROVE  CreditsHold
<1>1. Unapplied /\ call.kind = "write" => pc = "aw"
  BY DEF Unapplied, CreditInv, CallInv, CallPhase
<1>2. Unapplied /\ call.kind = "read" => pc = "ar"
  BY DEF Unapplied, CreditInv, CallInv, CallPhase
<1>3. pc = "aw" => Unapplied /\ call.kind = "write"
  BY DEF Unapplied, CreditInv, CallInv, CallPhase
<1>4. pc = "ar" => Unapplied /\ call.kind = "read"
  BY DEF Unapplied, CreditInv, CallInv, CallPhase
<1>5. \A k \in Ins : in_credit[k] + InFlight(k) <= Els - Len(ps_to_pl[k])
  BY DEF CreditInv, InCredit, Room
<1>6. \A k \in Outs : out_credit[k] + OutFlight(k) <= Len(pl_to_ps[k])
  BY DEF CreditInv, OutCredit, Fill
<1> QED BY <1>1, <1>2, <1>3, <1>4, <1>5, <1>6 DEF CreditsHold, InFlight, OutFlight

(***************************************************************************)
(* "How many consecutive words you can read/write before checking the csr  *)
(* again": in every run, whatever the user logic moves meanwhile, what is  *)
(* left of a count that the program has read is covered by the FIFO.       *)
(***************************************************************************)
THEOREM CountsCoverTransfers == HostSpec => []CreditsHold
BY CreditInvariant, CreditInvHolds, PTL

\* Credits are bounded since they are covered.
LEMMA CreditInvTyped ==
  ASSUME CreditInv
  PROVE  HostTypeOK
<1>1. /\ ShellTypeOK /\ last_write_addr_r \in Addresses
      /\ pc \in {"idle", "aw", "bsetup", "b", "ar", "rsetup", "r", "unlock"}
  BY DEF CreditInv, HostInv, ShellInv
<1>2. /\ call \in Calls /\ done \subseteq {"aw", "w", "b", "ar", "r"}
      /\ rdata \in Words /\ returned \in Words
  BY DEF CreditInv, CallInv
<1>3. in_credit \in [Ins -> 0 .. Els]
  <2>1. in_credit \in [Ins -> Nat] /\ Els \in Nat
    BY SizeAssumption DEF CreditInv, InCredit
  <2>2. ASSUME NEW k \in Ins
        PROVE  in_credit[k] <= Els
    <3>1. ps_to_pl[k] \in Seq(Words)
      BY <1>1 DEF ShellTypeOK
    <3>2. in_credit[k] + InFlight(k) <= Els - Len(ps_to_pl[k])
      BY DEF CreditInv, InCredit, Room
    <3>3. PICK c \in Nat, f \in 0 .. 1, n \in Nat :
            c = in_credit[k] /\ f = InFlight(k) /\ n = Len(ps_to_pl[k])
      BY <2>1, <3>1 DEF InFlight
    <3>4. c + f <= Els - n
      BY <3>2, <3>3
    <3> QED BY <2>1, <3>3, <3>4
  <2> QED BY <2>1, <2>2
<1>4. out_credit \in [Outs -> 0 .. Els]
  <2>1. out_credit \in [Outs -> Nat] /\ Els \in Nat
    BY SizeAssumption DEF CreditInv, OutCredit
  <2>2. ASSUME NEW k \in Outs
        PROVE  out_credit[k] <= Els
    <3>1. pl_to_ps[k] \in Seq(Words) /\ Len(pl_to_ps[k]) <= Els
      BY DEF CreditInv, HostInv, ShellInv, ShellTypeOK
    <3>2. out_credit[k] + OutFlight(k) <= Len(pl_to_ps[k])
      BY DEF CreditInv, OutCredit, Fill
    <3>3. PICK c \in Nat, f \in 0 .. 1, n \in Nat :
            c = out_credit[k] /\ f = OutFlight(k) /\ n = Len(pl_to_ps[k])
      BY <2>1, <3>1 DEF OutFlight
    <3>4. c + f <= n /\ n <= Els
      BY <3>1, <3>2, <3>3
    <3> QED BY <2>1, <3>3, <3>4
  <2> QED BY <2>1, <2>2
<1> QED BY <1>1, <1>2, <1>3, <1>4, Zenon DEF HostTypeOK, CreditInv

(***************************************************************************)
(* The registers, the pins, the coroutine and the credits keep their types *)
(* and the FIFOs their size.                                               *)
(***************************************************************************)
THEOREM HostTyped == HostSpec => []HostTypeOK
BY CreditInvariant, CreditInvTyped, PTL
-----------------------------------------------------------------------------
(***************************************************************************)
(* The handshakes implement the atomic device.                             *)
(***************************************************************************)
Untaken == pc \in {"aw", "ar"}

\* What the coroutine holds of the call under way.
DeviceInv ==
  /\ CreditInv
  /\ pc # "idle" => call.kind \in {"read", "write"}
  /\ pc = "aw" => w \in {[data |-> call.data, strb |-> AllBytes], NoBeat}
  /\ pc = "r" /\ "r" \in done => rdata = axi_rdata
  /\ pc = "unlock" /\ call.kind = "read" => rdata = axi_rdata

\* An answer stays on the channel until the next read is applied.
LEMMA AnswerStays ==
  ASSUME HostInv, HostNext, pc # "ar"
  PROVE  axi_rdata' = axi_rdata
<1>1. ~slv_reg_rden
  BY DEF slv_reg_rden, ARVALID, HostInv
<1> QED BY <1>1 DEF HostNext, Loopback, ShellEdge, Rdata

LEMMA DeviceInvStep ==
  ASSUME DeviceInv, HostNext
  PROVE  DeviceInv'
<1>1. CreditInv' /\ HostInv /\ Coroutine
  BY CreditInvStep DEF DeviceInv, CreditInv, HostNext
<1>2. pc # "ar" => axi_rdata' = axi_rdata
  BY <1>1, AnswerStays
<1>3. pc' # "idle" => call'.kind \in {"read", "write"}
  BY <1>1 DEF DeviceInv, Coroutine, ShellWrite, WriteLoop, BSetup, BLoop, ShellRead,
     ReadLoop, RSetup, RLoop, Return, Between, coroutine
<1>4. pc' = "aw" => w' \in {[data |-> call'.data, strb |-> AllBytes], NoBeat}
  BY <1>1 DEF DeviceInv, Coroutine, ShellWrite, WriteLoop, BSetup, BLoop, ShellRead,
     ReadLoop, RSetup, RLoop, Return, Between, coroutine
<1>5. pc' = "r" /\ "r" \in done' => rdata' = axi_rdata'
  <2>1. CASE RSetup
    <3>1. axi_rvalid' => rdata' = axi_rdata'
      BY <2>1 DEF RSetup, Capture
    <3>2. "r" \in done' => axi_rvalid'
      BY <1>1, <2>1, SeenFacts DEF RSetup, Capture, HostInv
    <3> QED BY <3>1, <3>2
  <2>2. CASE RLoop
    <3>1. CASE "r" \in done
      BY <2>2, <3>1 DEF RLoop
    <3>2. CASE "r" \notin done
      <4>1. ("r" \in done' => axi_rvalid') /\ (axi_rvalid' => rdata' = axi_rdata')
        BY <2>2, <3>2, SeenFacts DEF RLoop, Capture
      <4> QED BY <4>1
    <3> QED BY <3>1, <3>2
  <2>3. CASE ~RSetup /\ ~RLoop
    BY <1>1, <2>3 DEF Coroutine, ShellWrite, WriteLoop, BSetup, BLoop, ShellRead,
       ReadLoop, Return, Between, coroutine
  <2> QED BY <2>1, <2>2, <2>3
<1>6. pc' = "unlock" /\ call'.kind = "read" => rdata' = axi_rdata'
  <2>1. CASE RLoop
    BY <1>2, <2>1 DEF RLoop, DeviceInv
  <2>2. CASE ~RLoop
    <3>1. pc' = "unlock" => pc = "b" /\ call' = call
      BY <1>1, <2>2 DEF Coroutine, ShellWrite, WriteLoop, BSetup, BLoop, ShellRead,
         ReadLoop, RSetup, Return, Between, coroutine
    <3>2. pc = "b" => call.kind = "write"
      BY DEF DeviceInv, CreditInv, CallInv, CallPhase
    <3> QED BY <3>1, <3>2
  <2> QED BY <2>1, <2>2
<1> QED BY <1>1, <1>3, <1>4, <1>5, <1>6, Zenon DEF DeviceInv

LEMMA DeviceInvariant == HostSpec => []DeviceInv
<1>1. HostInit => DeviceInv
  BY CreditInvInit DEF HostInit, DeviceInv
<1>2. DeviceInv /\ [HostNext]_hostVars => DeviceInv'
  <2>1. DeviceInv /\ UNCHANGED hostVars => DeviceInv'
    BY CreditInvStutter DEF DeviceInv, hostVars, shellVars, readRegs, pins, coroutine
  <2> QED BY <2>1, DeviceInvStep
<1> QED BY <1>1, <1>2, PTL DEF HostSpec

\* A FIFO after an edge, as a concatenation.
LEMMA FifoAsConcat ==
  ASSUME NEW q \in Seq(Words), NEW pull \in BOOLEAN, NEW push \in BOOLEAN,
         NEW word \in Words, pull => q # << >>
  PROVE  FifoAfter(q, pull, push, word)
           = (IF pull THEN Tail(q) ELSE q) \o (IF push THEN <<word>> ELSE << >>)
<1> DEFINE rest == IF pull THEN Tail(q) ELSE q
<1>1. rest \in Seq(Words)
  OBVIOUS
<1> HIDE DEF rest
<1>2. Append(rest, word) = rest \o <<word>> /\ rest \o << >> = rest
  BY <1>1, AppendIsConcat, ConcatEmptySeq
<1>3. FifoAfter(q, pull, push, word) = IF push THEN Append(rest, word) ELSE rest
  BY DEF FifoAfter, rest
<1> QED BY <1>2, <1>3 DEF rest

(***************************************************************************)
(* What an edge does to the memory of the device: it writes data at wloc   *)
(* and reads rloc, which name no place when nothing is written or read.    *)
(***************************************************************************)
LEMMA EdgeMemory ==
  ASSUME HostInv, HostNext, NEW wloc, NEW data, NEW rloc,
         wloc = IF slv_reg_wren THEN WriteLoc(axi_awaddr) ELSE <<"none", 0>>,
         slv_reg_wren => data = w.data,
         rloc = IF slv_reg_rden THEN ReadLoc(axi_araddr) ELSE <<"none", 0>>
  PROVE  Device!Memory(wloc, data, rloc)
<1>1. PICK yumi \in SUBSET {k \in Ins : in_valid(k)}, v_i \in SUBSET Outs,
           data_i \in [Outs -> Payload], csr_data_i \in [Stats -> Payload] :
        ShellEdge(yumi, v_i, data_i, csr_data_i)
  BY LoopbackIsUser DEF HostNext, AnyUser
<1> DEFINE offered == [k \in Outs |-> IF k \in v_i THEN <<data_i[k]>> ELSE << >>]
<1>2. \A k : /\ slv_wr_sel("csr", k) <=> wloc = <<"csr", k>>
             /\ slv_wr_sel("ps_to_pl", k) <=> wloc = <<"ps_to_pl", k>>
             /\ slv_rd_sel("pl_to_ps", k) <=> rloc = <<"pl_to_ps", k>>
  BY DEF slv_wr_sel, slv_rd_sel
<1>3. \A k : wloc = <<"csr", k>> \/ wloc = <<"ps_to_pl", k>> => WVALID /\ data = w.data
  BY DEF slv_reg_wren
<1>4. /\ csr_data_new_r' = {k \in Csrs : wloc = <<"csr", k>>}
      /\ slv_r' = [k \in Csrs |-> IF k \in csr_data_new_r' THEN data ELSE slv_r[k]]
  <2>1. /\ slv_r' = [k \in Csrs |-> IF slv_wr_sel("csr", k) THEN w.data ELSE slv_r[k]]
        /\ csr_data_new_r' = {k \in Csrs : slv_wr_sel("csr", k)}
    BY <1>1 DEF ShellEdge, SlvReg
  <2> QED BY <1>2, <1>3, <2>1
<1>5. yumi \in SUBSET {k \in Ins : ps_to_pl[k] # << >>}
  BY DEF in_valid
<1>6. offered \in [Outs -> {<< >>} \cup {<<x>> : x \in Words}]
  BY WordAssumption
<1>7. ps_to_pl' = [k \in Ins |->
        (IF k \in yumi THEN Tail(ps_to_pl[k]) ELSE ps_to_pl[k])
          \o (IF wloc = <<"ps_to_pl", k>> /\ Len(ps_to_pl[k]) < Els
              THEN <<data>> ELSE << >>)]
  <2> DEFINE word == IF WVALID THEN w.data ELSE 0
  <2>1. word \in Words
    BY WordAssumption, SizeAssumption DEF HostInv, ShellInv, ShellTypeOK, WBeats, WVALID
  <2>2. ps_to_pl' = [k \in Ins |-> FifoAfter(ps_to_pl[k], k \in yumi, in_push(k), word)]
    BY <1>1, Zenon DEF ShellEdge, PsToPl
  <2>3. \A k : wloc = <<"ps_to_pl", k>> => word = data
    BY <1>3
  <2> HIDE DEF word
  <2>4. ASSUME NEW k \in Ins
        PROVE  FifoAfter(ps_to_pl[k], k \in yumi, in_push(k), word)
                 = (IF k \in yumi THEN Tail(ps_to_pl[k]) ELSE ps_to_pl[k])
                     \o (IF wloc = <<"ps_to_pl", k>> /\ Len(ps_to_pl[k]) < Els
                         THEN <<data>> ELSE << >>)
    <3>1. /\ (k \in yumi) \in BOOLEAN /\ in_push(k) \in BOOLEAN
          /\ in_push(k) <=> (wloc = <<"ps_to_pl", k>> /\ Len(ps_to_pl[k]) < Els)
      BY <1>2 DEF in_push, in_ready, slv_wr_sel
    <3>2. ps_to_pl[k] \in Seq(Words)
      BY DEF HostInv, ShellInv, ShellTypeOK
    <3>3. PICK q \in Seq(Words), pull \in BOOLEAN, push \in BOOLEAN :
            q = ps_to_pl[k] /\ pull = (k \in yumi) /\ push = in_push(k)
      BY <3>1, <3>2, Zenon
    <3>4. pull => q # << >>
      BY <1>5, <3>3
    <3>5. FifoAfter(q, pull, push, word)
            = (IF pull THEN Tail(q) ELSE q) \o (IF push THEN <<word>> ELSE << >>)
      BY <2>1, <3>4, FifoAsConcat
    <3>6. (pull <=> k \in yumi)
          /\ (push <=> (wloc = <<"ps_to_pl", k>> /\ Len(ps_to_pl[k]) < Els))
      BY <3>1, <3>3, Zenon
    <3>7. FifoAfter(ps_to_pl[k], k \in yumi, in_push(k), word) = FifoAfter(q, pull, push, word)
      BY <3>3, Zenon
    <3>8. push => word = data
      BY <2>3, <3>6
    <3> QED BY <3>3, <3>5, <3>6, <3>7, <3>8
  <2> QED BY <2>2, <2>4
<1>8. pl_to_ps' = [k \in Outs |->
        (IF rloc = <<"pl_to_ps", k>> /\ pl_to_ps[k] # << >> THEN Tail(pl_to_ps[k])
                                                           ELSE pl_to_ps[k])
          \o (IF Len(pl_to_ps[k]) < Els THEN offered[k] ELSE << >>)]
  <2>1. pl_to_ps' = [k \in Outs |->
          FifoAfter(pl_to_ps[k], out_pull(k), k \in v_i /\ out_ready(k), data_i[k])]
    BY <1>1, Zenon DEF ShellEdge, PlToPs
  <2>2. ASSUME NEW k \in Outs
        PROVE  FifoAfter(pl_to_ps[k], out_pull(k), k \in v_i /\ out_ready(k), data_i[k])
                 = (IF rloc = <<"pl_to_ps", k>> /\ pl_to_ps[k] # << >>
                    THEN Tail(pl_to_ps[k]) ELSE pl_to_ps[k])
                     \o (IF Len(pl_to_ps[k]) < Els THEN offered[k] ELSE << >>)
    <3>1. /\ out_pull(k) \in BOOLEAN /\ (k \in v_i /\ out_ready(k)) \in BOOLEAN
          /\ out_pull(k) <=> (rloc = <<"pl_to_ps", k>> /\ pl_to_ps[k] # << >>)
      BY <1>2 DEF out_pull, out_valid, slv_rd_sel
    <3>2. pl_to_ps[k] \in Seq(Words) /\ data_i[k] \in Words
      BY WordAssumption DEF HostInv, ShellInv, ShellTypeOK
    <3>3. PICK q \in Seq(Words), pull \in BOOLEAN, push \in BOOLEAN, word \in Words :
            /\ q = pl_to_ps[k] /\ pull = out_pull(k)
            /\ push = (k \in v_i /\ out_ready(k)) /\ word = data_i[k]
      BY <3>1, <3>2, Zenon
    <3>4. pull => q # << >>
      BY <3>1, <3>3
    <3>5. FifoAfter(q, pull, push, word)
            = (IF pull THEN Tail(q) ELSE q) \o (IF push THEN <<word>> ELSE << >>)
      BY <3>4, FifoAsConcat
    <3>6. (pull <=> (rloc = <<"pl_to_ps", k>> /\ pl_to_ps[k] # << >>))
          /\ (push <=> k \in v_i /\ Len(pl_to_ps[k]) < Els)
      BY <3>1, <3>3, Zenon DEF out_ready
    <3>7. FifoAfter(pl_to_ps[k], out_pull(k), k \in v_i /\ out_ready(k), data_i[k])
            = FifoAfter(q, pull, push, word)
      BY <3>3, Zenon
    <3>8. offered[k] = IF k \in v_i THEN <<word>> ELSE << >>
      BY <3>3
    <3> HIDE DEF offered
    <3>9. (IF push THEN <<word>> ELSE << >>)
            = (IF Len(pl_to_ps[k]) < Els THEN offered[k] ELSE << >>)
      BY <3>6, <3>8
    <3> QED BY <3>3, <3>5, <3>6, <3>7, <3>9
  <2> HIDE DEF offered
  <2> QED BY <2>1, <2>2
<1> HIDE DEF offered
<1>9. Csrs = Device!Csrs /\ Ins = Device!Ins /\ Outs = Device!Outs
  BY DEF Csrs, Ins, Outs, Device!Csrs, Device!Ins, Device!Outs
<1> QED BY <1>4, <1>5, <1>6, <1>7, <1>8, <1>9, Zenon DEF Device!Memory

\* The operation of the device that the coroutine stands for.
HostOp ==
  IF call.kind = "none" THEN [kind |-> "none"]
  ELSE [kind |-> call.kind,
        loc |-> IF call.kind = "write" THEN WriteLoc(call.addr) ELSE ReadLoc(call.addr),
        data |-> IF call.kind = "write" THEN call.data
                 ELSE IF Unapplied THEN 0 ELSE axi_rdata,
        applied |-> ~Unapplied]

WriteOp(data, applied) ==
  [kind |-> "write", loc |-> WriteLoc(call.addr), data |-> data, applied |-> applied]
ReadOp(data, applied) ==
  [kind |-> "read", loc |-> ReadLoc(call.addr), data |-> data, applied |-> applied]

\* The operation is applied once the coroutine is past its address loop.
OpPhase ==
  /\ pc = "idle" => HostOp = [kind |-> "none"]
  /\ pc = "aw" => HostOp = WriteOp(call.data, FALSE)
  /\ pc = "ar" => HostOp = ReadOp(0, FALSE)
  /\ pc \notin {"idle", "aw", "ar"} /\ call.kind = "write" =>
       HostOp = WriteOp(call.data, TRUE)
  /\ pc \notin {"idle", "aw", "ar"} /\ call.kind = "read" =>
       HostOp = ReadOp(axi_rdata, TRUE)

LEMMA DeviceInvPhase == DeviceInv => OpPhase
<1> SUFFICES ASSUME DeviceInv PROVE OpPhase
  OBVIOUS
<1>1. CallPhase
  BY DEF DeviceInv, CreditInv, CallInv
<1>2. (Unapplied => Untaken) /\ (Untaken => Unapplied)
  BY <1>1 DEF Unapplied, Untaken, CallPhase
<1>3. pc = "idle" => HostOp = [kind |-> "none"]
  BY <1>1 DEF CallPhase, HostOp, NoCall
<1>4. pc = "aw" => HostOp = WriteOp(call.data, FALSE)
  <2> HAVE pc = "aw"
  <2>1. call.kind = "write" /\ Unapplied
    BY <1>1, <1>2 DEF CallPhase, Untaken
  <2>2. (~Unapplied) = FALSE
    BY <2>1, Zenon
  <2> QED BY <2>1, <2>2, Zenon DEF HostOp, WriteOp
<1>5. pc = "ar" => HostOp = ReadOp(0, FALSE)
  <2> HAVE pc = "ar"
  <2>1. call.kind = "read" /\ Unapplied /\ "read" # "write" /\ "read" # "none"
    BY <1>1, <1>2 DEF CallPhase, Untaken
  <2>2. (~Unapplied) = FALSE
    BY <2>1, Zenon
  <2> QED BY <2>1, <2>2, Zenon DEF HostOp, ReadOp
<1>6. pc \notin {"idle", "aw", "ar"} => (~Unapplied) = TRUE
  BY <1>2, Zenon DEF Untaken
<1>7. pc \notin {"idle", "aw", "ar"} /\ call.kind = "write" =>
        HostOp = WriteOp(call.data, TRUE)
  BY <1>6, Zenon DEF HostOp, WriteOp
<1>8. pc \notin {"idle", "aw", "ar"} /\ call.kind = "read" =>
        HostOp = ReadOp(axi_rdata, TRUE)
  <2>1. ~Unapplied => (Unapplied <=> FALSE)
    OBVIOUS
  <2>2. "read" # "write" /\ "read" # "none"
    OBVIOUS
  <2> QED BY <1>6, <2>1, <2>2, Zenon DEF HostOp, ReadOp
<1> QED BY <1>3, <1>4, <1>5, <1>7, <1>8 DEF OpPhase

\* The locations of the shell are those of the device.
LEMMA DeviceLocs ==
  ASSUME NEW addr \in Addresses
  PROVE  WriteLoc(addr) \in Device!WriteLocs /\ ReadLoc(addr) \in Device!ReadLocs
<1>1. Csrs = Device!Csrs /\ Ins = Device!Ins /\ Outs = Device!Outs /\ Stats = {0}
  BY HostAssumption DEF Csrs, Ins, Outs, Stats, Device!Csrs, Device!Ins, Device!Outs
<1>2. WriteLoc(addr) \in ({"csr"} \X Csrs) \cup ({"ps_to_pl"} \X Ins) \cup {<<"none", 0>>}
  BY DEF WriteLoc
<1>3. ReadLoc(addr) \in ({"csr"} \X Csrs) \cup ({"pl_to_ps"} \X Outs) \cup {<<"none", 0>>}
              \cup ({"pl_to_ps_count"} \X Outs) \cup ({"ps_to_pl_count"} \X Ins)
              \cup ({"csr_i"} \X Stats)
  BY DEF ReadLoc
<1>4. ({"csr_i"} \X Stats) = {<<"csr_i", 0>>}
  BY <1>1
<1> QED BY <1>1, <1>2, <1>3, <1>4 DEF Device!WriteLocs, Device!ReadLocs

\* An edge at which nothing is written or read leaves the device alone.
LEMMA EdgeUntouched ==
  ASSUME HostInv, HostNext, ~slv_reg_wren, ~slv_reg_rden
  PROVE  Device!Untouched
<1>1. PICK wloc, data, rloc :
        wloc = <<"none", 0>> /\ data = 0 /\ rloc = <<"none", 0>>
  OBVIOUS
<1>2. Device!Memory(wloc, data, rloc)
  BY <1>1, EdgeMemory
<1> QED BY <1>1, <1>2, Zenon DEF Device!Untouched

\* When a beat is accepted it is the beat of the call under way.
LEMMA AcceptedCall ==
  ASSUME DeviceInv
  PROVE  /\ slv_reg_wren <=> (pc = "aw" /\ axi_awready)
         /\ slv_reg_wren => axi_awaddr = call.addr /\ w.data = call.data
         /\ slv_reg_rden <=> (pc = "ar" /\ axi_arready)
         /\ slv_reg_rden => axi_araddr = call.addr
<1>1. HostInv /\ ShellInv /\ CallPhase
  BY DEF DeviceInv, CreditInv, CallInv, HostInv
<1>2. axi_awready => AWVALID /\ WVALID /\ axi_awaddr = aw /\ axi_wready
  BY <1>1 DEF ShellInv, LatchedAddressIsAccepted, WriteEngineConsistent
<1>3. axi_arready => ARVALID /\ axi_araddr = ar
  BY <1>1 DEF ShellInv, LatchedAddressIsAccepted
<1>4. slv_reg_wren <=> (pc = "aw" /\ axi_awready)
  BY <1>1, <1>2 DEF HostInv, slv_reg_wren, AWVALID
<1>5. slv_reg_wren => axi_awaddr = call.addr
  BY <1>1, <1>2, <1>4 DEF CallPhase, AWVALID
<1>6. slv_reg_wren => w.data = call.data
  <2> HAVE slv_reg_wren
  <2>1. w = [data |-> call.data, strb |-> AllBytes]
    BY <1>2, <1>4 DEF DeviceInv, WVALID
  <2> QED BY <2>1
<1>7. slv_reg_rden <=> (pc = "ar" /\ axi_arready)
  BY <1>1, <1>3 DEF HostInv, slv_reg_rden, ARVALID, CallPhase
<1>8. slv_reg_rden => axi_araddr = call.addr
  BY <1>1, <1>3, <1>7 DEF CallPhase, ARVALID
<1> QED BY <1>4, <1>5, <1>6, <1>7, <1>8

\* The word put on the channel is the value of the location at that moment.
LEMMA AnswerIsValue ==
  ASSUME DeviceInv, HostNext, slv_reg_rden
  PROVE  axi_rdata' \in Device!Value(ReadLoc(call.addr))
<1>1. axi_rdata' \in reg_data_out([s \in Stats |-> last_write_addr_r])
  BY DEF HostNext, Loopback, ShellEdge, Rdata
<1>2. PICK loc : loc = ReadLoc(call.addr)
  OBVIOUS
<1>3. ReadLoc(axi_araddr) = loc
  BY <1>2, AcceptedCall
<1>4. FlowCountersExact /\ last_write_addr_r \in Words
  BY HostAssumption DEF DeviceInv, CreditInv, HostInv, ShellInv
<1>5. PICK addr : addr = axi_araddr /\ addr \in Addresses
  BY DEF DeviceInv, CreditInv, HostInv, ShellInv, ShellTypeOK
<1>6. /\ loc[1] \in {"csr", "pl_to_ps", "pl_to_ps_count", "ps_to_pl_count", "csr_i", "none"}
      /\ loc[1] = "pl_to_ps_count" => loc[2] \in Outs
      /\ loc[1] = "ps_to_pl_count" => loc[2] \in Ins
      /\ loc[1] = "csr_i" => loc[2] \in Stats
  BY <1>3, <1>5 DEF ReadLoc
<1> DEFINE k == loc[2]
<1>7. CASE loc[1] = "csr"
  BY <1>1, <1>2, <1>3, <1>7 DEF reg_data_out, Device!Value
<1>8. CASE loc[1] = "pl_to_ps"
  <2>1. axi_rdata' \in IF pl_to_ps[k] # << >> THEN {Head(pl_to_ps[k])} ELSE Words
    BY <1>1, <1>3, <1>8 DEF reg_data_out, out_valid
  <2>2. Device!Value(loc) = IF pl_to_ps[k] = << >> THEN Words ELSE {Head(pl_to_ps[k])}
    BY <1>8 DEF Device!Value
  <2> QED BY <1>2, <2>1, <2>2
<1>9. CASE loc[1] = "pl_to_ps_count"
  <2>1. axi_rdata' = pl_to_ps_used[k] /\ k \in Outs
    BY <1>1, <1>3, <1>6, <1>9 DEF reg_data_out
  <2>2. Device!Value(loc) = {Len(pl_to_ps[k])}
    BY <1>9 DEF Device!Value
  <2> QED BY <1>2, <1>4, <2>1, <2>2 DEF FlowCountersExact
<1>10. CASE loc[1] = "ps_to_pl_count"
  <2>1. axi_rdata' = ps_to_pl_free[k] /\ k \in Ins
    BY <1>1, <1>3, <1>6, <1>10 DEF reg_data_out
  <2>2. Device!Value(loc) = {Els - Len(ps_to_pl[k])}
    BY <1>10 DEF Device!Value
  <2> QED BY <1>2, <1>4, <2>1, <2>2 DEF FlowCountersExact
<1>11. CASE loc[1] = "csr_i"
  <2>1. axi_rdata' = last_write_addr_r
    BY <1>1, <1>3, <1>6, <1>11 DEF reg_data_out
  <2>2. Device!Value(loc) = Words
    BY <1>11 DEF Device!Value
  <2> QED BY <1>2, <1>4, <2>1, <2>2
<1>12. CASE loc[1] = "none"
  <2>1. axi_rdata' = 0
    BY <1>1, <1>3, <1>12 DEF reg_data_out
  <2>2. Device!Value(loc) = {0}
    BY <1>12 DEF Device!Value
  <2> QED BY <1>2, <2>1, <2>2
<1> QED BY <1>6, <1>7, <1>8, <1>9, <1>10, <1>11, <1>12

LEMMA CallStarts ==
  ASSUME DeviceInv, DeviceInv', HostNext,
         \/ \E addr \in Addresses, data \in WriteData : ShellWrite(addr, data)
         \/ \E addr \in Addresses : ShellRead(addr)
  PROVE  Device!Call
<1>1. pc = "idle" /\ returned' = 0
  BY DEF ShellWrite, ShellRead
<1>2. HostOp = Device!NoOp
  BY <1>1, DeviceInvPhase DEF OpPhase, Device!NoOp
<1>3. Device!Untouched
  BY <1>1, AcceptedCall, EdgeUntouched DEF DeviceInv, CreditInv
<1>4. OpPhase'
  BY DeviceInvPhase, PTL
<1>5. CASE \E addr \in Addresses, data \in WriteData : ShellWrite(addr, data)
  <2>1. PICK addr \in Addresses, data \in WriteData : ShellWrite(addr, data)
    BY <1>5
  <2>2. /\ pc' = "aw" /\ call'.data = data
        /\ WriteLoc(call.addr)' = WriteLoc(addr)
    BY <2>1 DEF ShellWrite, WriteLoc
  <2>3. HostOp' = [kind |-> "write", loc |-> WriteLoc(addr), data |-> data,
                   applied |-> FALSE]
    BY <1>4, <2>2, Zenon DEF OpPhase, WriteOp
  <2>4. WriteLoc(addr) \in Device!WriteLocs /\ data \in Words
    BY DeviceLocs, HostAssumption
  <2> QED BY <1>1, <1>2, <1>3, <2>3, <2>4, Zenon DEF Device!Call, HostOp
<1>6. CASE \E addr \in Addresses : ShellRead(addr)
  <2>1. PICK addr \in Addresses : ShellRead(addr)
    BY <1>6
  <2>2. /\ pc' = "ar"
        /\ ReadLoc(call.addr)' = ReadLoc(addr)
    BY <2>1 DEF ShellRead, ReadLoc
  <2>3. HostOp' = [kind |-> "read", loc |-> ReadLoc(addr), data |-> 0, applied |-> FALSE]
    BY <1>4, <2>2, Zenon DEF OpPhase, ReadOp
  <2>4. ReadLoc(addr) \in Device!ReadLocs
    BY DeviceLocs
  <2> QED BY <1>1, <1>2, <1>3, <2>3, <2>4, Zenon DEF Device!Call, HostOp
<1> QED BY <1>5, <1>6

\* The record of a write before and after it takes effect.
LEMMA WriteOpApplied ==
  ASSUME NEW o, NEW p, NEW loc, NEW d,
         o = [kind |-> "write", loc |-> loc, data |-> d, applied |-> FALSE],
         p = [kind |-> "write", loc |-> loc, data |-> d, applied |-> TRUE]
  PROVE  /\ o.kind = "write" /\ ~o.applied /\ o.loc = loc /\ o.data = d
         /\ p = [o EXCEPT !.applied = TRUE]
<1>1. o.kind = "write" /\ o.loc = loc /\ o.data = d
  OBVIOUS
<1>2. ~o.applied
  OBVIOUS
<1>3. PICK q : q = [o EXCEPT !.applied = TRUE]
  OBVIOUS
<1>4. DOMAIN o = {"kind", "loc", "data", "applied"}
  OBVIOUS
<1>5. q = [f \in {"kind", "loc", "data", "applied"} |->
             IF f = "applied" THEN TRUE ELSE o[f]]
  BY <1>3, <1>4
<1>6. q = [kind |-> "write", loc |-> loc, data |-> d, applied |-> TRUE]
  BY <1>5
<1> QED BY <1>1, <1>2, <1>3, <1>6

LEMMA WriteApplied ==
  ASSUME DeviceInv, DeviceInv', HostNext, WriteLoop, axi_awready
  PROVE  Device!ApplyWrite
<1>1. pc = "aw" /\ pc' = "bsetup" /\ call' = call /\ returned' = returned
  <2>1. pc = "aw" => axi_wready /\ "aw" \in done /\ "w" \in done
    BY DEF DeviceInv, CreditInv, HostInv, ShellInv, WriteEngineConsistent
  <2> QED BY <2>1 DEF WriteLoop
<1>2. OpPhase'
  BY DeviceInvPhase, PTL
<1>3. call'.kind = "write" /\ call'.data = call.data
      /\ WriteLoc(call.addr)' = WriteLoc(call.addr)
  BY <1>1 DEF DeviceInv, CreditInv, CallInv, CallPhase, WriteLoc
<1>4. HostOp = WriteOp(call.data, FALSE)
  BY <1>1, DeviceInvPhase DEF OpPhase
<1>5. HostOp' = WriteOp(call.data, TRUE)
  <2>1. pc' \notin {"idle", "aw", "ar"}
    BY <1>1
  <2> QED BY <1>2, <1>3, <2>1, Zenon DEF OpPhase, WriteOp
<1>6. PICK o, p, d, loc :
        /\ o = HostOp /\ p = HostOp' /\ d = call.data /\ loc = WriteLoc(call.addr)
  OBVIOUS
<1>7. /\ o = [kind |-> "write", loc |-> loc, data |-> d, applied |-> FALSE]
      /\ p = [kind |-> "write", loc |-> loc, data |-> d, applied |-> TRUE]
  BY <1>4, <1>5, <1>6, Zenon DEF WriteOp
<1>8. /\ o.kind = "write" /\ ~o.applied /\ p = [o EXCEPT !.applied = TRUE]
      /\ o.loc = loc /\ o.data = d
  BY <1>7, WriteOpApplied, Zenon
<1>9. Device!Memory(loc, d, <<"none", 0>>)
  <2>1. slv_reg_wren /\ ~slv_reg_rden /\ axi_awaddr = call.addr /\ w.data = call.data
    BY <1>1, AcceptedCall
  <2>2. PICK rloc : rloc = <<"none", 0>>
    OBVIOUS
  <2>3. loc = IF slv_reg_wren THEN WriteLoc(axi_awaddr) ELSE <<"none", 0>>
    BY <1>6, <2>1
  <2>4. slv_reg_wren => d = w.data
    BY <1>6, <2>1
  <2>5. rloc = IF slv_reg_rden THEN ReadLoc(axi_araddr) ELSE <<"none", 0>>
    BY <2>1, <2>2
  <2>6. Device!Memory(loc, d, rloc)
    BY <2>3, <2>4, <2>5, EdgeMemory DEF DeviceInv, CreditInv
  <2> QED BY <2>2, <2>6, Zenon
<1>10. /\ HostOp.kind = "write" /\ ~HostOp.applied /\ HostOp' = [HostOp EXCEPT !.applied = TRUE]
       /\ Device!Memory(HostOp.loc, HostOp.data, <<"none", 0>>)
  BY <1>6, <1>8, <1>9, Zenon
<1> QED BY <1>1, <1>10, Zenon DEF Device!ApplyWrite, HostOp

LEMMA ReadApplied ==
  ASSUME DeviceInv, DeviceInv', HostNext, ReadLoop, axi_arready
  PROVE  Device!ApplyRead
<1>1. pc = "ar" /\ pc' = "rsetup" /\ call' = call /\ returned' = returned
  <2>1. pc = "ar" => "ar" \in done
    BY DEF DeviceInv, CreditInv, HostInv
  <2> QED BY <2>1 DEF ReadLoop
<1>2. OpPhase'
  BY DeviceInvPhase, PTL
<1>3. call'.kind = "read" /\ ReadLoc(call.addr)' = ReadLoc(call.addr)
  BY <1>1 DEF DeviceInv, CreditInv, CallInv, CallPhase, ReadLoc
<1>4. HostOp = ReadOp(0, FALSE)
  BY <1>1, DeviceInvPhase DEF OpPhase
<1>5. HostOp' = [kind |-> "read", loc |-> ReadLoc(call.addr), data |-> axi_rdata',
                 applied |-> TRUE]
  <2>1. pc' \notin {"idle", "aw", "ar"}
    BY <1>1
  <2> QED BY <1>2, <1>3, <2>1, Zenon DEF OpPhase, ReadOp
<1>6. PICK o, p, value, loc :
        /\ o = HostOp /\ p = HostOp' /\ value = axi_rdata' /\ loc = ReadLoc(call.addr)
  OBVIOUS
<1>7. /\ o = [kind |-> "read", loc |-> loc, data |-> 0, applied |-> FALSE]
      /\ p = [kind |-> "read", loc |-> loc, data |-> value, applied |-> TRUE]
  BY <1>4, <1>5, <1>6, Zenon DEF ReadOp
<1>8. /\ o.kind = "read" /\ ~o.applied
      /\ p = [o EXCEPT !.applied = TRUE, !.data = value]
      /\ o.loc = loc
  <2>1. o.kind = "read" /\ ~o.applied /\ o.loc = loc
    BY <1>7
  <2>2. PICK q : q = [o EXCEPT !.applied = TRUE, !.data = value]
    OBVIOUS
  <2>3. DOMAIN o = {"kind", "loc", "data", "applied"}
    BY <1>7
  <2>4. q = [f \in {"kind", "loc", "data", "applied"} |->
               IF f = "applied" THEN TRUE ELSE IF f = "data" THEN value ELSE o[f]]
    BY <2>2, <2>3
  <2>5. q = [kind |-> "read", loc |-> loc, data |-> value, applied |-> TRUE]
    BY <1>7, <2>4
  <2> QED BY <1>7, <2>1, <2>2, <2>5, Zenon
<1>9. ~slv_reg_wren /\ slv_reg_rden /\ axi_araddr = call.addr
  BY <1>1, AcceptedCall
<1>10. Device!Memory(<<"none", 0>>, 0, loc)
  <2>1. PICK wloc, data : wloc = <<"none", 0>> /\ data = 0
    OBVIOUS
  <2>2. loc = IF slv_reg_rden THEN ReadLoc(axi_araddr) ELSE <<"none", 0>>
    BY <1>6, <1>9
  <2>3. wloc = IF slv_reg_wren THEN WriteLoc(axi_awaddr) ELSE <<"none", 0>>
    BY <1>9, <2>1
  <2>4. Device!Memory(wloc, data, loc)
    BY <1>9, <2>2, <2>3, EdgeMemory DEF DeviceInv, CreditInv
  <2> QED BY <2>1, <2>4, Zenon
<1>11. value \in Device!Value(loc)
  BY <1>6, <1>9, AnswerIsValue
<1>12. /\ HostOp.kind = "read" /\ ~HostOp.applied
       /\ HostOp' = [HostOp EXCEPT !.applied = TRUE, !.data = value]
       /\ value \in Device!Value(HostOp.loc)
       /\ Device!Memory(<<"none", 0>>, 0, HostOp.loc)
  BY <1>6, <1>8, <1>10, <1>11, Zenon
<1> QED BY <1>1, <1>12, Zenon DEF Device!ApplyRead, HostOp

LEMMA CallReturns ==
  ASSUME DeviceInv, DeviceInv', HostNext, Return
  PROVE  Device!Return
<1>1. /\ pc = "unlock" /\ pc' = "idle"
      /\ returned' = IF call.kind = "read" THEN rdata ELSE returned
  BY DEF Return
<1>2. OpPhase'
  BY DeviceInvPhase, PTL
<1>3. HostOp' = Device!NoOp
  BY <1>1, <1>2 DEF OpPhase, Device!NoOp
<1>4. Device!Untouched
  BY <1>1, AcceptedCall, EdgeUntouched DEF DeviceInv, CreditInv
<1>5. /\ call.kind = "write" => HostOp = WriteOp(call.data, TRUE)
      /\ call.kind = "read" => HostOp = ReadOp(axi_rdata, TRUE) /\ rdata = axi_rdata
      /\ call.kind \in {"read", "write"}
  BY <1>1, DeviceInvPhase DEF OpPhase, DeviceInv
<1>6. PICK o : o = HostOp
  OBVIOUS
<1>7. /\ o # [kind |-> "none"] /\ o.applied
      /\ returned' = IF o.kind = "read" THEN o.data ELSE returned
  <2>1. CASE call.kind = "write"
    BY <1>1, <1>5, <1>6, <2>1 DEF WriteOp
  <2>2. CASE call.kind = "read"
    BY <1>1, <1>5, <1>6, <2>2 DEF ReadOp
  <2> QED BY <1>5, <2>1, <2>2
<1>8. /\ HostOp # Device!NoOp /\ HostOp.applied
      /\ returned' = IF HostOp.kind = "read" THEN HostOp.data ELSE returned
  BY <1>6, <1>7, Zenon DEF Device!NoOp
<1> QED BY <1>3, <1>4, <1>8, Zenon DEF Device!Return, HostOp

LEMMA CallGoesOn ==
  ASSUME DeviceInv, DeviceInv', HostNext, call' = call, returned' = returned,
         Untaken' <=> Untaken, (pc' = "idle") <=> (pc = "idle"),
         ~slv_reg_wren, ~slv_reg_rden
  PROVE  Device!User
<1>1. Device!Untouched
  BY EdgeUntouched DEF DeviceInv, CreditInv
<1>2. OpPhase /\ OpPhase'
  BY DeviceInvPhase, PTL
<1>3. pc # "idle" /\ ~Untaken => axi_rdata' = axi_rdata
  BY AnswerStays DEF DeviceInv, CreditInv, Untaken
<1>4. WriteLoc(call.addr)' = WriteLoc(call.addr)
      /\ ReadLoc(call.addr)' = ReadLoc(call.addr)
  BY DEF WriteLoc, ReadLoc
<1>5. HostOp' = HostOp
  <2>1. CASE pc = "idle"
    BY <1>2, <2>1 DEF OpPhase
  <2>2. CASE pc = "aw"
    <3>1. pc' = "aw"
      BY <2>2 DEF Untaken, DeviceInv, CreditInv, CallInv, CallPhase
    <3> QED BY <1>2, <1>4, <2>2, <3>1, Zenon DEF OpPhase, WriteOp
  <2>3. CASE pc = "ar"
    <3>1. pc' = "ar"
      BY <2>3 DEF Untaken, DeviceInv, CreditInv, CallInv, CallPhase
    <3> QED BY <1>2, <1>4, <2>3, <3>1, Zenon DEF OpPhase, ReadOp
  <2>4. CASE pc \notin {"idle", "aw", "ar"}
    <3>1. pc' \notin {"idle", "aw", "ar"} /\ axi_rdata' = axi_rdata
          /\ call.kind \in {"read", "write"}
      BY <1>3, <2>4 DEF Untaken, DeviceInv
    <3>2. CASE call.kind = "write"
      BY <1>2, <1>4, <2>4, <3>1, <3>2, Zenon DEF OpPhase, WriteOp
    <3>3. CASE call.kind = "read"
      BY <1>2, <1>4, <2>4, <3>1, <3>3, Zenon DEF OpPhase, ReadOp
    <3> QED BY <3>1, <3>2, <3>3
  <2> QED BY <2>1, <2>2, <2>3, <2>4
<1> QED BY <1>1, <1>5, Zenon DEF Device!User, HostOp

LEMMA HostStepIsDeviceStep ==
  ASSUME DeviceInv, DeviceInv', HostNext
  PROVE  Device!Next
<1>1. Coroutine
  BY DEF HostNext
<1>2. CASE \/ \E addr \in Addresses, data \in WriteData : ShellWrite(addr, data)
           \/ \E addr \in Addresses : ShellRead(addr)
  BY <1>2, CallStarts DEF Device!Next
<1>3. CASE WriteLoop /\ axi_awready
  BY <1>3, WriteApplied DEF Device!Next
<1>4. CASE ReadLoop /\ axi_arready
  BY <1>4, ReadApplied DEF Device!Next
<1>5. CASE Return
  BY <1>5, CallReturns DEF Device!Next
<1>6. CASE \/ WriteLoop /\ ~axi_awready
           \/ ReadLoop /\ ~axi_arready
           \/ BSetup \/ BLoop \/ RSetup \/ RLoop \/ Between
  <2>1. ~slv_reg_wren /\ ~slv_reg_rden
    BY <1>6, AcceptedCall DEF WriteLoop, ReadLoop, BSetup, BLoop, RSetup, RLoop, Between
  <2>2. /\ call' = call /\ returned' = returned
        /\ Untaken' <=> Untaken
        /\ (pc' = "idle") <=> (pc = "idle")
    BY <1>6 DEF WriteLoop, ReadLoop, BSetup, BLoop, RSetup, RLoop, Between, coroutine,
       Untaken, DeviceInv, CreditInv, HostInv
  <2>3. Device!User
    BY <2>1, <2>2, CallGoesOn
  <2> QED BY <2>3, Zenon DEF Device!Next
<1>7. \/ \E addr \in Addresses, data \in WriteData : ShellWrite(addr, data)
      \/ \E addr \in Addresses : ShellRead(addr)
      \/ WriteLoop \/ ReadLoop \/ Return
      \/ BSetup \/ BLoop \/ RSetup \/ RLoop \/ Between
  BY <1>1, Zenon DEF Coroutine
<1> QED BY <1>2, <1>3, <1>4, <1>5, <1>6, <1>7, Zenon

(***************************************************************************)
(* The handshakes of the coroutines with the shell implement the atomic    *)
(* device: each shell_read and shell_write takes effect exactly once, at   *)
(* the location of its address, between its start and its return, and a    *)
(* read returns what was there at that moment.                             *)
(***************************************************************************)
THEOREM HostImplementsDevice == HostSpec => ImplementsDevice
<1>1. HostInit => Device!Init
  <2> SUFFICES ASSUME HostInit PROVE Device!Init
    OBVIOUS
  <2>1. HostOp = Device!NoOp
    BY DEF HostInit, HostOp, NoCall, Device!NoOp
  <2>2. Csrs = Device!Csrs /\ Ins = Device!Ins /\ Outs = Device!Outs
    BY DEF Csrs, Ins, Outs, Device!Csrs, Device!Ins, Device!Outs
  <2> QED BY <2>1, <2>2, Zenon DEF HostInit, ShellInit, LocationsReset,
              Device!Init, HostOp
<1>2. DeviceInv /\ DeviceInv' /\ [HostNext]_hostVars => [Device!Next]_(Device!vars)
  <2> SUFFICES ASSUME DeviceInv, DeviceInv', UNCHANGED hostVars
               PROVE  UNCHANGED Device!vars
    BY HostStepIsDeviceStep
  <2>1. UNCHANGED <<slv_r, csr_data_new_r, ps_to_pl, pl_to_ps, returned>>
    BY DEF hostVars, shellVars, userRegs, coroutine
  <2>2. HostOp' = HostOp
    BY DEF HostOp, Unapplied, WriteLoc, ReadLoc, hostVars, shellVars, readRegs, writeRegs,
       coroutine
  <2> QED BY <2>1, <2>2, Zenon DEF Device!vars, HostOp
<1> QED BY DeviceInvariant, <1>1, <1>2, PTL DEF HostSpec, ImplementsDevice, Device!Spec
=============================================================================
