-------------------------- MODULE BlackParrotProofs --------------------------
(***************************************************************************)
(* The core of black-parrot-example gets the answer to each of its reads,  *)
(* and runs only once its file is loaded; and the counters that the        *)
(* program reads, word by word, it reads untorn.                           *)
(***************************************************************************)
EXTENDS BlackParrot, Counter64, SequenceTheorems, WellFoundedInduction, TLAPS

(* The host *)

(***************************************************************************)
(* A read is in one place at most: the FIFO, the hands of the host, or, as *)
(* its answer, the FIFO the other way.  The core asks for nothing while it *)
(* waits, so that the read in the FIFO is the last word there, and no      *)
(* write passes it.                                                        *)
(***************************************************************************)
Demand == [write : BOOLEAN, addr : Nat]

Answer == {AnswerTo(d.addr) : d \in Demand}

HostTyped ==
  /\ pl2ps \in Seq(Demand) /\ reads \in Seq(Demand)
  /\ packet = << >> \/ \E d \in Demand : packet = <<d>>
  /\ regs = [r \in DOMAIN regs |-> regs[r]] /\ BOOTROM_ADDR \in DOMAIN regs
  /\ answers \in Seq(Answer) /\ looked \in BOOLEAN

ReadInHand == packet # << >> /\ ~packet[1].write

LastRead == reads[Len(reads)]

InFifo ==
  \A i \in 1 .. Len(pl2ps) : ~pl2ps[i].write =>
    Waits /\ i = Len(pl2ps) /\ pl2ps[i] = LastRead /\ ~ReadInHand /\ ps2pl = << >>

InHand == ReadInHand => Waits /\ packet[1] = LastRead /\ ps2pl = << >>

OnItsWay == ps2pl # << >> => Waits /\ ps2pl = <<AnswerTo(LastRead.addr)>>

\* The boot ROM has the address of the packet when its word is read.
LookedUp ==
  /\ looked => /\ instr.do = "host" /\ ReadInHand /\ In("brom")
               /\ regs[BOOTROM_ADDR] = RomAddress
  /\ finished => packet = << >>

HostInv ==
  /\ HostTyped /\ AnswersMatch /\ Len(reads) <= Len(answers) + 1
  /\ InFifo /\ InHand /\ OnItsWay /\ LookedUp

-----------------------------------------------------------------------------
(* Facts of arithmetic, and the windows *)

\* The remainder is the only one.
LEMMA ModUnique ==
  ASSUME NEW R \in Nat \ {0}, NEW d \in Int, NEW e \in Int,
         NEW r \in 0 .. R - 1, NEW s \in 0 .. R - 1, e * R + s = d * R + r
  PROVE  r = s
BY SMT

LEMMA DivMod ==
  ASSUME NEW x \in Int, NEW R \in Nat \ {0}
  PROVE  \E d \in Int, r \in 0 .. R - 1 : r = x % R /\ x = d * R + r
<1>1. /\ x \div R \in Int /\ x % R \in 0 .. R - 1 /\ x = (x \div R) * R + (x % R)
  BY SMT
<1> QED BY <1>1, Zenon

LEMMA ModOfMod ==
  ASSUME NEW x \in Nat, NEW R \in Nat \ {0}, NEW q \in Int, NEW N \in Nat \ {0},
         N = q * R
  PROVE  (x % N) % R = x % R
<1>0. x \in Int
  OBVIOUS
<1>1. PICK c \in Int, y \in 0 .. N - 1 : y = x % N /\ x = c * N + y
  BY <1>0, DivMod, Zenon
<1>2. PICK d \in Int, r \in 0 .. R - 1 : r = x % R /\ x = d * R + r
  BY <1>0, DivMod, Zenon
<1>3. y \in Int
  OBVIOUS
<1>4. PICK e \in Int, s \in 0 .. R - 1 : s = y % R /\ y = e * R + s
  BY <1>3, DivMod, Zenon
<1>5. PICK f \in Int : f = c * q + e
  OBVIOUS
<1>6. f * R + s = d * R + r
  <2>1. c * N = (c * q) * R
    BY SMT
  <2>2. (c * q + e) * R = (c * q) * R + e * R
    BY SMT
  <2>3. f * R = c * N + e * R
    BY <1>5, <2>1, <2>2
  <2>4. /\ f * R \in Int /\ c * N \in Int /\ e * R \in Int /\ d * R \in Int
        /\ s \in Int /\ r \in Int /\ y \in Int
    BY <1>1, <1>2, <1>4, <1>5
  <2>5. PICK A \in Int, B \in Int, D \in Int, F \in Int :
          A = c * N /\ B = e * R /\ D = d * R /\ F = f * R
    BY <2>4, Zenon
  <2>6. F = A + B /\ y = B + s /\ x = A + y /\ x = D + r
    BY <1>1, <1>2, <1>4, <2>3, <2>5, Zenon
  <2>7. F + s = D + r
    BY <2>4, <2>6, SMT
  <2> QED BY <2>5, <2>7, Zenon
<1>7. r = s
  BY <1>6, ModUnique, SMT
<1> QED BY <1>1, <1>2, <1>4, <1>7, Zenon

\* The windows that the answers tell apart.
LEMMA WindowsApart ==
  ASSUME NEW addr \in Nat
  PROVE  /\ Within(addr, "getc") => /\ ~Within(addr, "brom")
                                    /\ addr # CC_X_DIM /\ addr # CC_Y_DIM
         /\ Within(addr, "brom") => addr # CC_X_DIM /\ addr # CC_Y_DIM
BY SMT DEF Within, Windows, CC_X_DIM, CC_Y_DIM

-----------------------------------------------------------------------------
(* The steps *)

\* The program is where it was when its place and its file are the same.
LEMMA SameInstr ==
  ASSUME UNCHANGED <<file, pc>>
  PROVE  instr' = instr
BY DEF instr, text

\* What else the program does: the host holds nothing then that the registers
\* or the place in the program could spoil.
LEMMA Elsewhere ==
  ASSUME HostInv,
         packet' = packet, pl2ps' = pl2ps, ps2pl' = ps2pl, reads' = reads,
         answers' = answers, finished' = finished, looked' = looked,
         looked => regs' = regs /\ instr' = instr,
         regs' = [r \in DOMAIN regs' |-> regs'[r]], BOOTROM_ADDR \in DOMAIN regs'
  PROVE  HostInv'
<1>1. HostTyped' /\ AnswersMatch' /\ Len(reads') <= Len(answers') + 1
  BY DEF HostInv, HostTyped, AnswersMatch
<1>2. (Waits' <=> Waits) /\ (ReadInHand' <=> ReadInHand) /\ LastRead' = LastRead
  BY Zenon DEF Waits, ReadInHand, LastRead
<1>3. InFifo' /\ InHand' /\ OnItsWay'
  <2>1. InFifo'
    BY <1>2, Zenon DEF HostInv, InFifo
  <2>2. InHand' /\ OnItsWay'
    BY <1>2, Zenon DEF HostInv, InHand, OnItsWay
  <2> QED BY <2>1, <2>2
<1>4. LookedUp'
  <2>1. (looked' <=> looked) /\ (finished' <=> finished)
    BY Zenon
  <2>2. looked => /\ instr'.do = instr.do /\ (In("brom")' <=> In("brom"))
                  /\ regs'[BOOTROM_ADDR] = regs[BOOTROM_ADDR] /\ RomAddress' = RomAddress
    BY Zenon DEF In, RomAddress
  <2> QED BY <1>2, <2>1, <2>2, Zenon DEF HostInv, LookedUp
<1> QED BY <1>1, <1>3, <1>4 DEF HostInv

LEMMA ProgramKeeps ==
  ASSUME HostInv,
         \/ StoreWord \/ ExpectWord \/ PeekWord \/ ClipWord \/ TestMtimecmp
         \/ WriteBit \/ TakeArguments \/ Done \/ LeaveLoop
  PROVE  HostInv'
<1>1. UNCHANGED <<packet, pl2ps, ps2pl, reads, answers, finished, looked>>
  BY DEF StoreWord, ExpectWord, PeekWord, ClipWord, TestMtimecmp, WriteBit,
         TakeArguments, Done, LeaveLoop, Step, core
<1>2. /\ regs' = [r \in DOMAIN regs' |-> regs'[r]] /\ BOOTROM_ADDR \in DOMAIN regs'
  <2>1. regs = [r \in DOMAIN regs |-> regs[r]] /\ BOOTROM_ADDR \in DOMAIN regs
    BY DEF HostInv, HostTyped
  <2>2. regs' = regs \/ \E a, v : regs' = [regs EXCEPT ![a] = v]
    BY Zenon DEF StoreWord, ExpectWord, PeekWord, ClipWord, TestMtimecmp, WriteBit,
           TakeArguments, Done, LeaveLoop, shell_write
  <2> QED BY <2>1, <2>2
<1>3. looked => regs' = regs /\ instr' = instr
  <2>1. ASSUME looked PROVE Done
    <3>1. instr.do = "host" /\ packet # << >> /\ ~finished
      BY <2>1, Zenon DEF HostInv, LookedUp, ReadInHand
    <3>2. /\ ~StoreWord /\ ~ExpectWord /\ ~PeekWord /\ ~ClipWord /\ ~TestMtimecmp
          /\ ~WriteBit /\ ~TakeArguments /\ ~LeaveLoop
      BY <3>1, SMT DEF StoreWord, ExpectWord, PeekWord, ClipWord, TestMtimecmp, WriteBit,
             TakeArguments, LeaveLoop, At
    <3> QED BY <3>2, Zenon
  <2>2. ASSUME Done PROVE regs' = regs /\ instr' = instr
    <3>1. UNCHANGED <<file, pc, regs>>
      BY <2>2 DEF Done
    <3> QED BY <3>1, SameInstr, Zenon
  <2> QED BY <2>1, <2>2, Zenon
<1> QED BY <1>1, <1>2, <1>3, Elsewhere, Zenon

LEMMA GetPacketKeeps ==
  ASSUME HostInv, get_next_packet
  PROVE  HostInv'
<1>1. /\ packet = << >> /\ pl2ps # << >> /\ packet' = <<Head(pl2ps)>>
      /\ pl2ps' = Tail(pl2ps) /\ instr' = instr
      /\ UNCHANGED <<looked, finished, regs, ps2pl, reads, answers>> /\ ~finished
  BY SameInstr, Zenon DEF get_next_packet, core
<1>2. pl2ps \in Seq(Demand) /\ Len(pl2ps) \in Nat
  BY DEF HostInv, HostTyped
<1>3. /\ Head(pl2ps) \in Demand /\ Head(pl2ps) = pl2ps[1]
      /\ Tail(pl2ps) \in Seq(Demand) /\ Len(Tail(pl2ps)) = Len(pl2ps) - 1
      /\ \A i \in 1 .. Len(pl2ps) - 1 : Tail(pl2ps)[i] = pl2ps[i + 1]
      /\ Len(pl2ps) >= 1
  BY <1>1, <1>2
<1>4. HostTyped'
  BY <1>1, <1>3 DEF HostInv, HostTyped
<1>5. ~ReadInHand /\ ~looked
  BY <1>1, Zenon DEF HostInv, LookedUp, ReadInHand
<1>6. packet'[1] = pl2ps[1]
  BY <1>1, <1>3
<1>7. (Waits' <=> Waits) /\ LastRead' = LastRead /\ (ReadInHand' <=> ~pl2ps[1].write)
  <2>1. packet' # << >>
    BY <1>1
  <2> QED BY <1>1, <1>6, <2>1, Zenon DEF Waits, ReadInHand, LastRead
<1>8. InFifo'
  <2>1. ASSUME NEW i \in 1 .. Len(pl2ps'), ~pl2ps'[i].write
        PROVE  /\ Waits' /\ i = Len(pl2ps') /\ pl2ps'[i] = LastRead' /\ ~ReadInHand'
               /\ ps2pl' = << >>
    <3>1. /\ Len(pl2ps') = Len(pl2ps) - 1 /\ i \in 1 .. Len(pl2ps) - 1
          /\ i + 1 \in 1 .. Len(pl2ps) /\ 1 \in 1 .. Len(pl2ps) /\ 1 # Len(pl2ps)
      BY <1>1, <1>2, <1>3, <2>1
    <3>2. pl2ps'[i] = pl2ps[i + 1]
      BY <1>1, <1>3, <3>1
    <3>3. /\ Waits /\ i + 1 = Len(pl2ps) /\ pl2ps[i + 1] = LastRead /\ ps2pl = << >>
      BY <2>1, <3>1, <3>2 DEF HostInv, InFifo
    <3>4. pl2ps[1].write
      BY <3>1 DEF HostInv, InFifo
    <3>5. i = Len(pl2ps')
      BY <1>2, <3>1, <3>3
    <3> QED BY <1>1, <1>7, <3>2, <3>3, <3>4, <3>5, Zenon
  <2> QED BY <2>1, Zenon DEF InFifo
<1>9. InHand'
  <2>1. ASSUME ~pl2ps[1].write PROVE Waits /\ pl2ps[1] = LastRead /\ ps2pl = << >>
    <3>1. 1 \in 1 .. Len(pl2ps)
      BY <1>3, <1>2
    <3> QED BY <2>1, <3>1 DEF HostInv, InFifo
  <2> QED BY <1>1, <1>6, <1>7, <2>1, Zenon DEF InHand
<1>10. OnItsWay'
  BY <1>1, <1>7, Zenon DEF HostInv, OnItsWay
<1>11. LookedUp'
  BY <1>1, <1>5, Zenon DEF LookedUp
<1>12. AnswersMatch' /\ Len(reads') <= Len(answers') + 1
  BY <1>1 DEF HostInv, AnswersMatch
<1> QED BY <1>4, <1>8, <1>9, <1>10, <1>11, <1>12 DEF HostInv

\* The packet leaves the hands of the host, with an answer if there is one.
LEMMA HandsEmptied ==
  ASSUME HostInv, packet # << >>, packet' = << >>, looked' = FALSE,
         UNCHANGED <<regs, pl2ps, reads, answers>>,
         \/ ps2pl' = ps2pl
         \/ ReadInHand /\ ps2pl' = Append(ps2pl, AnswerTo(packet[1].addr))
  PROVE  HostInv'
<1>1. HostTyped' /\ AnswersMatch' /\ Len(reads') <= Len(answers') + 1
  BY DEF HostInv, HostTyped, AnswersMatch
<1>2. (Waits' <=> Waits) /\ ~ReadInHand' /\ LastRead' = LastRead
  BY Zenon DEF Waits, ReadInHand, LastRead
<1>3. InFifo'
  <2>1. ASSUME NEW i \in 1 .. Len(pl2ps'), ~pl2ps'[i].write
        PROVE  /\ Waits' /\ i = Len(pl2ps') /\ pl2ps'[i] = LastRead' /\ ~ReadInHand'
               /\ ps2pl' = << >>
    <3>1. pl2ps' = pl2ps
      OBVIOUS
    <3>2. Waits /\ i = Len(pl2ps) /\ pl2ps[i] = LastRead /\ ~ReadInHand /\ ps2pl = << >>
      BY <2>1, <3>1, Zenon DEF HostInv, InFifo
    <3> QED BY <1>2, <3>1, <3>2, Zenon
  <2> QED BY <2>1, Zenon DEF InFifo
<1>4. InHand'
  BY <1>2, Zenon DEF InHand
<1>5. OnItsWay'
  <2>1. CASE ps2pl' = ps2pl
    BY <1>2, <2>1, Zenon DEF HostInv, OnItsWay
  <2>2. CASE ReadInHand /\ ps2pl' = Append(ps2pl, AnswerTo(packet[1].addr))
    <3>1. Waits /\ packet[1] = LastRead /\ ps2pl = << >>
      BY <2>2, Zenon DEF HostInv, InHand
    <3>2. ps2pl' = <<AnswerTo(LastRead.addr)>>
      BY <2>2, <3>1
    <3> QED BY <1>2, <3>1, <3>2, Zenon DEF OnItsWay
  <2> QED BY <2>1, <2>2
<1>6. LookedUp'
  BY Zenon DEF LookedUp
<1> QED BY <1>1, <1>3, <1>4, <1>5, <1>6 DEF HostInv

LEMMA ProcessWriteKeeps ==
  ASSUME HostInv, ProcessWrite
  PROVE  HostInv'
<1>1. /\ packet # << >> /\ packet[1].write /\ packet' = << >>
      /\ UNCHANGED <<looked, regs, pl2ps, ps2pl, reads, answers>>
  BY Zenon DEF ProcessWrite, Processing, core
<1>2. ~looked
  BY <1>1, Zenon DEF HostInv, LookedUp, ReadInHand
<1>3. looked' = FALSE
  <2>1. looked' = looked /\ looked \in BOOLEAN
    BY <1>1 DEF HostInv, HostTyped
  <2> QED BY <1>2, <2>1, Zenon
<1> QED BY <1>1, <1>3, HandsEmptied, Zenon

LEMMA LookUpKeeps ==
  ASSUME HostInv, LookUp
  PROVE  HostInv'
<1>1. /\ ReadInHand /\ In("brom") /\ At("host") /\ looked'
      /\ regs' = [regs EXCEPT ![BOOTROM_ADDR] = RomAddress] /\ instr' = instr
      /\ UNCHANGED <<packet, finished, pl2ps, ps2pl, reads, answers>>
  BY SameInstr, Zenon DEF LookUp, Processing, ReadInHand, core
<1>2. HostTyped' /\ AnswersMatch' /\ Len(reads') <= Len(answers') + 1
  BY <1>1 DEF HostInv, HostTyped, AnswersMatch
<1>3. (Waits' <=> Waits) /\ (ReadInHand' <=> ReadInHand) /\ LastRead' = LastRead
  BY <1>1, Zenon DEF Waits, ReadInHand, LastRead
<1>4. InFifo'
  BY <1>1, <1>3, Zenon DEF HostInv, InFifo
<1>5. InHand' /\ OnItsWay'
  BY <1>1, <1>3, Zenon DEF HostInv, InHand, OnItsWay
<1>6. LookedUp'
  <2>1. regs'[BOOTROM_ADDR] = RomAddress /\ RomAddress' = RomAddress
    BY <1>1 DEF HostInv, HostTyped, RomAddress
  <2>2. In("brom")' /\ instr'.do = "host"
    BY <1>1, Zenon DEF In, At
  <2>3. finished' => packet' = << >>
    BY <1>1, Zenon DEF HostInv, LookedUp
  <2> QED BY <1>1, <1>3, <2>1, <2>2, <2>3, Zenon DEF LookedUp
<1> QED BY <1>2, <1>4, <1>5, <1>6 DEF HostInv

\* The register holds twelve bits of the address, of which the ROM takes the low ones.
LEMMA ReplyRomKeeps ==
  ASSUME HostInv, ReplyRom
  PROVE  HostInv'
<1>1. /\ ReadInHand /\ In("brom") /\ looked /\ Reply(RomData)
      /\ packet' = << >> /\ looked' = FALSE /\ packet # << >>
      /\ UNCHANGED <<regs, pl2ps, reads, answers>>
  BY Zenon DEF ReplyRom, Processing, ReadInHand, core
<1>2. PICK d \in Demand : packet = <<d>>
  BY <1>1 DEF HostInv, HostTyped
<1>3. packet[1] = d /\ d.addr \in Nat
  BY <1>2 DEF Demand
<1>4. RomData = AnswerTo(packet[1].addr)
  <2>1. regs[BOOTROM_ADDR] = bootrom_addr(d.addr)
    BY <1>1, <1>3, Zenon DEF HostInv, LookedUp, RomAddress
  <2>2. PICK x \in Nat : x = d.addr \div 4
    BY <1>3, SMT
  <2>3. PICK n \in Nat \ {0} : n = 4096 /\ n % RomWords = 0
    BY BlackParrotAssumption, SMT
  <2>4. RomWords \in Nat \ {0}
    BY BlackParrotAssumption, SMT
  <2>5. (x % n) % RomWords = x % RomWords
    <3>1. n \in Int
      OBVIOUS
    <3>2. PICK q \in Int, m \in 0 .. RomWords - 1 : m = n % RomWords /\ n = q * RomWords + m
      BY <2>4, <3>1, DivMod, Zenon
    <3>3. n = q * RomWords
      BY <2>3, <2>4, <3>2, SMT
    <3>4. \A k \in Nat \ {0} : n = q * k /\ k = RomWords => (x % n) % k = x % k
      BY ModOfMod
    <3> QED BY <2>4, <3>3, <3>4, Zenon
  <2>6. RomData = <<"rom", (d.addr \div 4) % RomWords>>
    BY <2>1, <2>2, <2>3, <2>5, SMT DEF RomData, bootrom_addr
  <2>7. Within(d.addr, "brom") /\ ~Within(d.addr, "getc") /\ d.addr # CC_X_DIM
    BY <1>1, <1>3, WindowsApart, Zenon DEF In
  <2>8. AnswerTo(d.addr) = <<"rom", (d.addr \div 4) % RomWords>>
    BY <2>7 DEF AnswerTo
  <2> QED BY <1>3, <2>6, <2>8, Zenon
<1> QED BY <1>1, <1>4, HandsEmptied, Zenon DEF Reply

LEMMA ProcessReadKeeps ==
  ASSUME HostInv, ProcessRead
  PROVE  HostInv'
<1>1. /\ ReadInHand /\ ~In("brom") /\ packet # << >> /\ packet' = << >>
      /\ UNCHANGED <<looked, regs, pl2ps, reads, answers>>
  BY Zenon DEF ProcessRead, Processing, ReadInHand, core
<1>2. looked' = FALSE
  <2>1. looked' = looked /\ looked \in BOOLEAN
    BY <1>1 DEF HostInv, HostTyped
  <2>2. ~looked
    BY <1>1, Zenon DEF HostInv, LookedUp
  <2> QED BY <2>1, <2>2, Zenon
<1>3. PICK d \in Demand : packet = <<d>>
  BY <1>1 DEF HostInv, HostTyped
<1>4. packet[1] = d /\ d.addr \in Nat
  BY <1>3 DEF Demand
<1>5. \/ In("getc") /\ Reply(<<"char", 0>>)
      \/ ~In("getc") /\ packet[1].addr = CC_X_DIM /\ Reply(<<"number", NCPUS>>)
      \/ /\ ~In("getc") /\ packet[1].addr # CC_X_DIM /\ packet[1].addr = CC_Y_DIM
         /\ Reply(<<"number", 1>>)
      \/ ps2pl' = ps2pl
  <2>1. CC_X_DIM # CC_Y_DIM
    BY SMT DEF CC_X_DIM, CC_Y_DIM
  <2>2. packet[1].addr \in {CC_X_DIM, CC_Y_DIM} => ~In("getc")
    BY <1>4, WindowsApart, Zenon DEF In
  <2> QED BY <2>1, <2>2 DEF ProcessRead
<1>6. \/ Reply(AnswerTo(packet[1].addr)) \/ ps2pl' = ps2pl
  <2>1. CASE In("getc") /\ Reply(<<"char", 0>>)
    <3>1. ~In("brom") /\ packet[1].addr # CC_X_DIM
      BY <1>4, <2>1, WindowsApart, Zenon DEF In
    <3>2. AnswerTo(packet[1].addr) = <<"char", 0>>
      BY <2>1, <3>1 DEF AnswerTo, In
    <3> QED BY <2>1, <3>2, Zenon
  <2>2. CASE ~In("getc") /\ packet[1].addr = CC_X_DIM /\ Reply(<<"number", NCPUS>>)
    <3>1. AnswerTo(packet[1].addr) = <<"number", NCPUS>>
      BY <1>1, <2>2 DEF AnswerTo, In
    <3> QED BY <2>2, <3>1, Zenon
  <2>3. CASE /\ ~In("getc") /\ packet[1].addr # CC_X_DIM /\ packet[1].addr = CC_Y_DIM
             /\ Reply(<<"number", 1>>)
    <3>1. AnswerTo(packet[1].addr) = <<"number", 1>>
      BY <1>1, <2>3 DEF AnswerTo, In
    <3> QED BY <2>3, <3>1, Zenon
  <2> QED BY <1>5, <2>1, <2>2, <2>3, Zenon
<1> QED BY <1>1, <1>2, <1>6, HandsEmptied, Zenon DEF Reply

LEMMA AskKeeps ==
  ASSUME HostInv, NEW demand \in Demands, Ask(demand)
  PROVE  HostInv'
<1>1. /\ ~Waits /\ pl2ps' = Append(pl2ps, demand)
      /\ \/ demand.write /\ reads' = reads
         \/ ~demand.write /\ reads' = Append(reads, demand)
      /\ UNCHANGED <<file, pc, packet, looked, finished, regs, ps2pl, answers>>
  BY Zenon DEF Ask, ps
<1>2. demand \in Demand
  BY BlackParrotAssumption DEF Demand
<1>3. /\ pl2ps \in Seq(Demand) /\ Len(pl2ps) \in Nat
      /\ reads \in Seq(Demand) /\ Len(reads) \in Nat /\ Len(answers) \in Nat
      /\ DOMAIN answers = 1 .. Len(answers)
  BY DEF HostInv, HostTyped
<1>4. /\ pl2ps' \in Seq(Demand) /\ Len(pl2ps') = Len(pl2ps) + 1
      /\ \A i \in 1 .. Len(pl2ps) : pl2ps'[i] = pl2ps[i]
      /\ pl2ps'[Len(pl2ps) + 1] = demand
  BY <1>1, <1>2, <1>3
<1>5. Len(answers) = Len(reads)
  BY <1>1, <1>3 DEF HostInv, AnswersMatch, Waits
<1>6. ~ReadInHand /\ ps2pl = << >> /\ ~looked /\ \A i \in 1 .. Len(pl2ps) : pl2ps[i].write
  BY <1>1, Zenon DEF HostInv, InFifo, InHand, OnItsWay, LookedUp
<1>7. ~ReadInHand' /\ ps2pl' = << >> /\ ~looked'
  BY <1>1, <1>6, Zenon DEF ReadInHand
<1>8. /\ reads' \in Seq(Demand)
      /\ Len(reads') = Len(reads) \/ Len(reads') = Len(reads) + 1
      /\ \A i \in 1 .. Len(reads) : reads'[i] = reads[i]
      /\ ~demand.write => /\ Len(reads') = Len(reads) + 1
                          /\ reads'[Len(reads) + 1] = demand
  <2>1. CASE demand.write /\ reads' = reads
    BY <1>3, <2>1
  <2>2. CASE ~demand.write /\ reads' = Append(reads, demand)
    BY <1>2, <1>3, <2>2
  <2> QED BY <1>1, <2>1, <2>2
<1>9. Len(reads) <= Len(reads') /\ Len(reads') <= Len(answers') + 1
  BY <1>1, <1>3, <1>5, <1>8
<1>14. HostTyped'
  <2>1. packet' = << >> \/ \E d \in Demand : packet' = <<d>>
    BY <1>1 DEF HostInv, HostTyped
  <2>2. /\ regs' = [r \in DOMAIN regs' |-> regs'[r]] /\ BOOTROM_ADDR \in DOMAIN regs'
        /\ answers' \in Seq(Answer) /\ looked' \in BOOLEAN
    BY <1>1 DEF HostInv, HostTyped
  <2> QED BY <1>4, <1>8, <2>1, <2>2 DEF HostTyped
<1>10. AnswersMatch'
  <2>1. Len(answers') <= Len(reads')
    BY <1>1, <1>3, <1>5, <1>9
  <2>2. ASSUME NEW i \in DOMAIN answers' PROVE answers'[i] = AnswerTo(reads'[i].addr)
    <3>1. i \in DOMAIN answers /\ i \in 1 .. Len(reads)
      BY <1>1, <1>3, <1>5
    <3>2. answers[i] = AnswerTo(reads[i].addr) /\ reads'[i] = reads[i]
      BY <1>8, <3>1 DEF HostInv, AnswersMatch
    <3> QED BY <1>1, <3>2
  <2> QED BY <2>1, <2>2, Zenon DEF AnswersMatch
<1>11. InFifo'
  <2>1. ASSUME NEW i \in 1 .. Len(pl2ps'), ~pl2ps'[i].write
        PROVE  /\ Waits' /\ i = Len(pl2ps') /\ pl2ps'[i] = LastRead'
    <3>1. i = Len(pl2ps) + 1
      <4>1. i \in 1 .. Len(pl2ps) \/ i = Len(pl2ps) + 1
        BY <1>3, <1>4
      <4>2. i \notin 1 .. Len(pl2ps)
        BY <1>4, <1>6, <2>1, Zenon
      <4> QED BY <4>1, <4>2
    <3>2. ~demand.write /\ pl2ps'[i] = demand
      BY <1>4, <2>1, <3>1, Zenon
    <3>3. Len(reads') = Len(reads) + 1 /\ reads'[Len(reads')] = demand
      BY <1>8, <3>2, Zenon
    <3>4. Waits'
      BY <1>1, <1>3, <1>5, <3>3 DEF Waits
    <3>5. i = Len(pl2ps')
      BY <1>4, <3>1
    <3> QED BY <3>2, <3>3, <3>4, <3>5, Zenon DEF LastRead
  <2> QED BY <1>7, <2>1, Zenon DEF InFifo
<1>12. InHand' /\ OnItsWay'
  BY <1>7, Zenon DEF InHand, OnItsWay
<1>13. LookedUp'
  BY <1>1, <1>7, Zenon DEF HostInv, LookedUp
<1> QED BY <1>9, <1>10, <1>11, <1>12, <1>13, <1>14 DEF HostInv

LEMMA GetAnswerKeeps ==
  ASSUME HostInv, GetAnswer
  PROVE  HostInv'
<1>1. /\ Waits /\ ps2pl # << >> /\ answers' = Append(answers, Head(ps2pl))
      /\ ps2pl' = Tail(ps2pl)
      /\ UNCHANGED <<file, pc, packet, looked, finished, regs, pl2ps, reads>>
  BY Zenon DEF GetAnswer, ps
<1>2. /\ reads \in Seq(Demand) /\ Len(reads) \in Nat /\ Len(answers) \in Nat
      /\ DOMAIN answers = 1 .. Len(answers) /\ pl2ps' \in Seq(Demand)
  BY <1>1 DEF HostInv, HostTyped
<1>3. ps2pl = <<AnswerTo(LastRead.addr)>>
  BY <1>1, Zenon DEF HostInv, OnItsWay
<1>4. Len(reads) = Len(answers) + 1
  BY <1>1, <1>2 DEF HostInv, Waits
<1>5. ps2pl' = << >> /\ Head(ps2pl) = AnswerTo(LastRead.addr)
  BY <1>1, <1>3
<1>6. LastRead \in Demand /\ Head(ps2pl) \in Answer
  <2>1. LastRead \in Demand
    BY <1>2, <1>4 DEF LastRead
  <2> QED BY <1>5, <2>1, Zenon DEF Answer
<1>7. /\ answers' \in Seq(Answer) /\ Len(answers') = Len(answers) + 1
      /\ DOMAIN answers' = 1 .. Len(answers) + 1
      /\ \A i \in 1 .. Len(answers) : answers'[i] = answers[i]
      /\ answers'[Len(answers) + 1] = Head(ps2pl)
  <2>1. answers \in Seq(Answer)
    BY DEF HostInv, HostTyped
  <2> QED BY <1>1, <1>6, <2>1
<1>8. HostTyped'
  BY <1>1, <1>7 DEF HostInv, HostTyped
<1>9. AnswersMatch'
  <2>1. Len(answers') <= Len(reads')
    BY <1>1, <1>2, <1>4, <1>7
  <2>2. ASSUME NEW i \in DOMAIN answers' PROVE answers'[i] = AnswerTo(reads[i].addr)
    <3>1. CASE i \in 1 .. Len(answers)
      <4>1. i \in DOMAIN answers
        BY <1>2, <3>1
      <4> QED BY <1>7, <3>1, <4>1, Zenon DEF HostInv, AnswersMatch
    <3>2. CASE i = Len(answers) + 1
      BY <1>4, <1>5, <1>7, <3>2, Zenon DEF LastRead
    <3> QED BY <1>2, <1>7, <3>1, <3>2
  <2> QED BY <1>1, <2>1, <2>2, Zenon DEF AnswersMatch
<1>10. InFifo'
  <2>1. \A i \in 1 .. Len(pl2ps) : pl2ps[i].write
    BY <1>1, Zenon DEF HostInv, InFifo
  <2> QED BY <1>1, <2>1, Zenon DEF InFifo
<1>11. ~ReadInHand'
  BY <1>1, Zenon DEF HostInv, InHand, ReadInHand
<1>12. InHand' /\ OnItsWay'
  BY <1>5, <1>11, Zenon DEF InHand, OnItsWay
<1>13. LookedUp'
  <2>1. ~ReadInHand
    BY <1>1, Zenon DEF HostInv, InHand
  <2> QED BY <1>1, <2>1, Zenon DEF HostInv, LookedUp
<1>14. Len(reads') <= Len(answers') + 1
  BY <1>1, <1>2, <1>4, <1>7
<1> QED BY <1>8, <1>9, <1>10, <1>12, <1>13, <1>14 DEF HostInv

-----------------------------------------------------------------------------
LEMMA HostInvInit ==
  ASSUME Init
  PROVE  HostInv
<1>1. /\ packet = << >> /\ looked = FALSE /\ finished = FALSE /\ pl2ps = << >>
      /\ ps2pl = << >> /\ reads = << >> /\ answers = << >>
  BY DEF Init
<1>2. regs = [r \in DOMAIN regs |-> regs[r]] /\ BOOTROM_ADDR \in DOMAIN regs
  <2>1. GP0 \in Int
    BY SMT DEF GP0
  <2>2. regs = [r \in GP0 .. GP0 + 4 |-> 0]
    BY DEF Init
  <2> QED BY <2>1, <2>2 DEF BOOTROM_ADDR
<1>3. HostTyped
  <2>1. pl2ps \in Seq(Demand) /\ reads \in Seq(Demand) /\ answers \in Seq(Answer)
    BY <1>1
  <2>2. looked \in BOOLEAN
    BY <1>1, Zenon
  <2> QED BY <1>1, <1>2, <2>1, <2>2, Zenon DEF HostTyped
<1>4. AnswersMatch /\ Len(reads) <= Len(answers) + 1 /\ InFifo
  BY <1>1 DEF AnswersMatch, InFifo
<1>5. InHand /\ OnItsWay /\ LookedUp
  BY <1>1, Zenon DEF InHand, OnItsWay, LookedUp, ReadInHand
<1> QED BY <1>3, <1>4, <1>5 DEF HostInv

LEMMA HostInvStep ==
  ASSUME HostInv, [Next]_vars
  PROVE  HostInv'
<1>1. CASE ProgramStep
  <2>1. CASE \/ StoreWord \/ ExpectWord \/ PeekWord \/ ClipWord \/ TestMtimecmp
             \/ WriteBit \/ TakeArguments \/ Done \/ LeaveLoop
    BY <2>1, ProgramKeeps, Zenon
  <2>2. CASE get_next_packet
    BY <2>2, GetPacketKeeps, Zenon
  <2>3. CASE ProcessWrite
    BY <2>3, ProcessWriteKeeps, Zenon
  <2>4. CASE LookUp
    BY <2>4, LookUpKeeps, Zenon
  <2>5. CASE ReplyRom
    BY <2>5, ReplyRomKeeps, Zenon
  <2>6. CASE ProcessRead
    BY <2>6, ProcessReadKeeps, Zenon
  <2> QED BY <1>1, <2>1, <2>2, <2>3, <2>4, <2>5, <2>6, Zenon DEF ProgramStep
<1>2. CASE GetAnswer
  BY <1>2, GetAnswerKeeps, Zenon
<1>3. CASE \E demand \in Demands : Ask(demand)
  BY <1>3, AskKeeps, Zenon
<1>4. CASE UNCHANGED vars
  <2>1. /\ UNCHANGED <<packet, pl2ps, ps2pl, reads, answers, finished, looked, regs>>
        /\ instr' = instr
    BY <1>4, SameInstr, Zenon DEF vars, ps, core
  <2>2. regs' = [r \in DOMAIN regs' |-> regs'[r]] /\ BOOTROM_ADDR \in DOMAIN regs'
    BY <2>1 DEF HostInv, HostTyped
  <2> QED BY <2>1, <2>2, Elsewhere, Zenon
<1> QED BY <1>1, <1>2, <1>3, <1>4, Zenon DEF Next

\* process_spack: the core gets the answer to each of its reads, in order, whatever
\* it asks of the host and however its writes come in between.
THEOREM CoreGetsItsAnswers == Spec => []AnswersMatch
<1>1. Init => HostInv
  BY HostInvInit
<1>2. HostInv /\ [Next]_vars => HostInv'
  BY HostInvStep
<1>3. HostInv => AnswersMatch
  BY DEF HostInv
<1> QED BY <1>1, <1>2, <1>3, PTL DEF Spec

-----------------------------------------------------------------------------
(* The loader *)

(***************************************************************************)
(* Sequences of any elements.                                              *)
(***************************************************************************)
IsSeq(s) == \E S : s \in Seq(S)

LEMMA SeqOver ==
  ASSUME NEW s, NEW t, IsSeq(s), IsSeq(t), NEW x
  PROVE  \E S : s \in Seq(S) /\ t \in Seq(S) /\ x \in S
<1>1. PICK S : s \in Seq(S)
  BY DEF IsSeq
<1>2. PICK T : t \in Seq(T)
  BY DEF IsSeq
<1>3. PICK U : U = S \cup T \cup {x}
  OBVIOUS
<1>4. s \in Seq(U)
  BY <1>1, <1>3
<1>5. t \in Seq(U)
  BY <1>2, <1>3
<1> QED BY <1>3, <1>4, <1>5

LEMMA SeqFacts ==
  ASSUME NEW s, IsSeq(s)
  PROVE  /\ Len(s) \in Nat /\ (Len(s) = 0 <=> s = << >>)
         /\ s = [j \in 1 .. Len(s) |-> s[j]]
<1>1. PICK S : s \in Seq(S)
  BY DEF IsSeq
<1> QED BY <1>1, EmptySeq

LEMMA EmptyIsSeq == IsSeq(<< >>) /\ Len(<< >>) = 0
<1>1. << >> \in Seq({})
  BY EmptySeq
<1> QED BY <1>1, EmptySeq DEF IsSeq

LEMMA Concatenated ==
  ASSUME NEW first, NEW second, IsSeq(first), IsSeq(second)
  PROVE  /\ IsSeq(first \o second) /\ Len(first) \in Nat /\ Len(second) \in Nat
         /\ Len(first \o second) = Len(first) + Len(second)
         /\ \A j \in 1 .. Len(first) : (first \o second)[j] = first[j]
         /\ \A j \in 1 .. Len(second) : (first \o second)[Len(first) + j] = second[j]
<1>1. PICK S : first \in Seq(S) /\ second \in Seq(S)
  BY SeqOver
<1>2. PICK c \in Seq(S), d \in Seq(S) : c = first /\ d = second
  BY <1>1
<1>3. /\ c \o d \in Seq(S) /\ Len(c \o d) = Len(c) + Len(d)
      /\ \A i \in 1 .. Len(c) + Len(d) :
           (c \o d)[i] = IF i <= Len(c) THEN c[i] ELSE d[i - Len(c)]
  BY ConcatProperties, Zenon
<1>4. PICK r, m, n : /\ r = c \o d /\ m = Len(c) /\ n = Len(d)
                     /\ m \in Nat /\ n \in Nat
  <2>1. Len(c) \in Nat /\ Len(d) \in Nat
    OBVIOUS
  <2> QED BY <2>1, Zenon
<1>5. \A i \in 1 .. m + n : r[i] = IF i <= m THEN c[i] ELSE d[i - m]
  BY <1>3, <1>4, Zenon
<1>6. /\ \A j \in 1 .. m : r[j] = c[j]
      /\ \A j \in 1 .. n : r[m + j] = d[j]
  <2>1. \A j \in 1 .. m : j \in 1 .. m + n /\ j <= m
    BY <1>4
  <2>2. ASSUME NEW j \in 1 .. n
        PROVE  r[m + j] = d[j]
    <3>1. PICK i : i = m + j
      OBVIOUS
    <3>2. i \in 1 .. m + n /\ ~(i <= m) /\ i - m = j
      BY <1>4, <3>1
    <3>3. r[i] = d[i - m]
      BY <1>5, <3>2
    <3> QED BY <3>1, <3>2, <3>3
  <2> QED BY <1>5, <2>1, <2>2
<1>7. IsSeq(r) /\ Len(r) = m + n
  BY <1>3, <1>4, Zenon DEF IsSeq
<1> QED BY <1>2, <1>4, <1>6, <1>7, Zenon

LEMMA Induct ==
  ASSUME NEW S, 0 \in S, \A n \in Nat : n \in S => n + 1 \in S
  PROVE  \A n \in Nat : n \in S
<1> DEFINE T == Nat \ S
<1> SUFFICES ASSUME T # {}
             PROVE  FALSE
  OBVIOUS
<1>1. PICK R : R = OpToRel(<, Nat)
  OBVIOUS
<1>2. IsWellFoundedOn(R, Nat)
  BY <1>1, NatLessThanWellFounded
<1>3. PICK m \in T : \A k \in T : ~(<<k, m>> \in R)
  BY <1>2, WFMin
<1>4. m - 1 \in Nat /\ m - 1 < m
  OBVIOUS
<1>5. m - 1 \in T
  BY <1>4
<1>6. <<m - 1, m>> \in R
  BY <1>1, <1>4 DEF OpToRel
<1> QED BY <1>3, <1>5, <1>6

\* The partial concatenations of n sequences.
Partial(seqs, n, f) ==
  f = [i \in 1 .. n |-> IF i = 1 THEN seqs[i] ELSE f[i - 1] \o seqs[i]]

LEMMA PartialExists ==
  ASSUME NEW seqs
  PROVE  \A n \in Nat : \E f : Partial(seqs, n, f)
<1> DEFINE S == {n \in Nat : \E f : Partial(seqs, n, f)}
<1>1. 0 \in S
  <2>1. Partial(seqs, 0, [i \in 1 .. 0 |-> 0])
    BY DEF Partial
  <2> QED BY <2>1
<1>2. ASSUME NEW n \in Nat, n \in S
      PROVE  n + 1 \in S
  <2>1. PICK f : Partial(seqs, n, f)
    BY <1>2
  <2> DEFINE g == [i \in 1 .. n + 1 |-> IF i = 1 THEN seqs[i] ELSE f[i - 1] \o seqs[i]]
  <2>2. \A i \in 1 .. n : g[i] = f[i]
    <3> TAKE i \in 1 .. n
    <3>1. f[i] = IF i = 1 THEN seqs[i] ELSE f[i - 1] \o seqs[i]
      BY <2>1, Zenon DEF Partial
    <3>2. i \in 1 .. n + 1
      OBVIOUS
    <3>3. g[i] = IF i = 1 THEN seqs[i] ELSE f[i - 1] \o seqs[i]
      BY <3>2
    <3> QED BY <3>1, <3>3
  <2>3. \A i \in 1 .. n + 1 : i # 1 => i - 1 \in 1 .. n
    OBVIOUS
  <2>4. g = [i \in 1 .. n + 1 |-> IF i = 1 THEN seqs[i] ELSE g[i - 1] \o seqs[i]]
    BY <2>2, <2>3
  <2> HIDE DEF g
  <2>5. Partial(seqs, n + 1, g)
    BY <2>4 DEF Partial
  <2> QED BY <2>5
<1> HIDE DEF S
<1>3. \A n \in Nat : n \in S
  BY <1>1, <1>2, Induct
<1> QED BY <1>3 DEF S

LEMMA FlattenIsPartial ==
  ASSUME NEW seqs, Len(seqs) \in Nat \ {0}
  PROVE  \E f : Partial(seqs, Len(seqs), f) /\ FlattenSeq(seqs) = f[Len(seqs)]
<1>1. \E f : Partial(seqs, Len(seqs), f)
  BY PartialExists
<1>2. PICK h : h = CHOOSE f : f = [i \in 1 .. Len(seqs) |->
                                     IF i = 1 THEN seqs[i] ELSE f[i - 1] \o seqs[i]]
  OBVIOUS
<1>3. Partial(seqs, Len(seqs), h)
  BY <1>1, <1>2 DEF Partial
<1>4. FlattenSeq(seqs) = h[Len(seqs)]
  BY <1>2 DEF FlattenSeq
<1> QED BY <1>3, <1>4

Joins(a, b, r) ==
  /\ IsSeq(r) /\ Len(a) \in Nat /\ Len(b) \in Nat /\ Len(r) = Len(a) + Len(b)
  /\ \A j \in 1 .. Len(a) : r[j] = a[j]
  /\ \A j \in 1 .. Len(b) : r[Len(a) + j] = b[j]

LEMMA Joined ==
  ASSUME NEW a, NEW b, IsSeq(a), IsSeq(b)
  PROVE  Joins(a, b, a \o b)
BY Concatenated DEF Joins

\* In r the first n sequences lie one behind the other, number k behind at[k].
Laid(seqs, n, at, r) ==
  /\ IsSeq(r) /\ at \in [1 .. n + 1 -> Nat] /\ at[1] = 0 /\ at[n + 1] = Len(r)
  /\ \A k \in 1 .. n :
       /\ Len(seqs[k]) \in Nat /\ at[k + 1] = at[k] + Len(seqs[k])
       /\ \A i \in 1 .. Len(seqs[k]) : r[at[k] + i] = seqs[k][i]
  /\ \A k, m \in 1 .. n + 1 : k <= m => at[k] <= at[m]
  /\ \A j \in 1 .. Len(r) : \E k \in 1 .. n : \E i \in 1 .. Len(seqs[k]) : j = at[k] + i

LEMMA LaidNone ==
  ASSUME NEW seqs
  PROVE  \E at : Laid(seqs, 0, at, << >>)
<1>1. PICK r : r = << >> /\ IsSeq(r) /\ Len(r) = 0
  BY EmptyIsSeq
<1>2. PICK at : at = [k \in 1 .. 0 + 1 |-> 0]
  OBVIOUS
<1>3. Laid(seqs, 0, at, r)
  BY <1>1, <1>2 DEF Laid
<1> QED BY <1>1, <1>3

LEMMA LaidOneMore ==
  ASSUME NEW seqs, NEW n \in Nat, NEW at, NEW r, NEW q,
         Laid(seqs, n, at, r), Joins(r, seqs[n + 1], q)
  PROVE  \E new : Laid(seqs, n + 1, new, q)
<1>1. PICK s, l, m : s = seqs[n + 1] /\ l = Len(r) /\ m = Len(s)
  OBVIOUS
<1>2. /\ l \in Nat /\ m \in Nat /\ Len(q) = l + m /\ IsSeq(q)
      /\ \A j \in 1 .. l : q[j] = r[j]
      /\ \A j \in 1 .. m : q[l + j] = s[j]
  BY <1>1 DEF Joins
<1>3. PICK new : new = [k \in 1 .. (n + 1) + 1 |-> IF k = n + 2 THEN l + m ELSE at[k]]
  OBVIOUS
<1>4. /\ at \in [1 .. n + 1 -> Nat] /\ at[1] = 0 /\ at[n + 1] = l
      /\ \A k, i \in 1 .. n + 1 : k <= i => at[k] <= at[i]
  BY <1>1 DEF Laid
<1>5. /\ \A k \in 1 .. n + 1 : new[k] = at[k] /\ new[k] \in Nat /\ at[k] <= l
      /\ new[n + 2] = l + m
  <2>1. \A k \in 1 .. n + 1 : k \in 1 .. (n + 1) + 1 /\ k # n + 2 /\ k <= n + 1
    OBVIOUS
  <2>2. n + 1 \in 1 .. n + 1 /\ n + 2 \in 1 .. (n + 1) + 1
    OBVIOUS
  <2> QED BY <1>3, <1>4, <2>1, <2>2
<1>6. /\ new \in [1 .. (n + 1) + 1 -> Nat] /\ new[1] = 0 /\ new[(n + 1) + 1] = Len(q)
  <2>1. \A k \in 1 .. (n + 1) + 1 : k \in 1 .. n + 1 \/ k = n + 2
    OBVIOUS
  <2>2. 1 \in 1 .. n + 1 /\ (n + 1) + 1 = n + 2
    OBVIOUS
  <2> QED BY <1>2, <1>3, <1>4, <1>5, <2>1, <2>2
<1>7. ASSUME NEW k \in 1 .. n + 1
      PROVE  /\ Len(seqs[k]) \in Nat /\ new[k + 1] = new[k] + Len(seqs[k])
             /\ \A i \in 1 .. Len(seqs[k]) : q[new[k] + i] = seqs[k][i]
  <2>1. CASE k = n + 1
    <3>1. new[k] = l /\ new[k + 1] = l + m /\ seqs[k] = s
      <4>1. k + 1 = n + 2
        BY <2>1
      <4> QED BY <1>1, <1>4, <1>5, <2>1, <4>1
    <3> QED BY <1>1, <1>2, <3>1
  <2>2. CASE k # n + 1
    <3>1. k \in 1 .. n /\ k \in 1 .. n + 1 /\ k + 1 \in 1 .. n + 1
      BY <2>2
    <3>2. /\ Len(seqs[k]) \in Nat /\ at[k + 1] = at[k] + Len(seqs[k])
          /\ \A i \in 1 .. Len(seqs[k]) : r[at[k] + i] = seqs[k][i]
      BY <3>1 DEF Laid
    <3>3. new[k] = at[k] /\ new[k + 1] = at[k + 1] /\ at[k] \in Nat /\ at[k + 1] <= l
          /\ at[k + 1] \in Nat
      BY <1>5, <3>1
    <3>4. ASSUME NEW i \in 1 .. Len(seqs[k])
          PROVE  q[new[k] + i] = seqs[k][i]
      <4>1. PICK b : b = Len(seqs[k])
        OBVIOUS
      <4>2. at[k] + i \in 1 .. l
        BY <1>2, <3>2, <3>3, <4>1
      <4> QED BY <1>2, <3>2, <3>3, <4>2
    <3> QED BY <3>2, <3>3, <3>4
  <2> QED BY <2>1, <2>2
<1>8. ASSUME NEW k \in 1 .. (n + 1) + 1, NEW i \in 1 .. (n + 1) + 1, k <= i
      PROVE  new[k] <= new[i]
  <2>1. CASE i = n + 2
    <3>1. k \in 1 .. n + 1 \/ k = n + 2
      OBVIOUS
    <3> QED BY <1>2, <1>4, <1>5, <2>1, <3>1
  <2>2. CASE i # n + 2
    <3>1. k \in 1 .. n + 1 /\ i \in 1 .. n + 1
      BY <1>8, <2>2
    <3> QED BY <1>4, <1>5, <1>8, <3>1
  <2> QED BY <2>1, <2>2
<1>9. ASSUME NEW j \in 1 .. Len(q)
      PROVE  \E k \in 1 .. n + 1 : \E i \in 1 .. Len(seqs[k]) : j = new[k] + i
  <2>1. CASE j <= l
    <3>1. j \in 1 .. l
      BY <1>2, <2>1
    <3>2. PICK k \in 1 .. n : \E i \in 1 .. Len(seqs[k]) : j = at[k] + i
      BY <1>1, <3>1 DEF Laid
    <3>3. k \in 1 .. n + 1
      OBVIOUS
    <3> QED BY <1>5, <3>2, <3>3
  <2>2. CASE ~(j <= l)
    <3>1. PICK i : i = j - l
      OBVIOUS
    <3>2. i \in 1 .. m /\ j = l + i /\ n + 1 \in 1 .. n + 1
      BY <1>2, <2>2, <3>1
    <3>3. new[n + 1] = l
      BY <1>4, <1>5, <3>2
    <3> QED BY <1>1, <3>2, <3>3
  <2> QED BY <2>1, <2>2
<1>10. Laid(seqs, n + 1, new, q)
  BY <1>2, <1>6, <1>7, <1>8, <1>9 DEF Laid
<1> QED BY <1>10

LEMMA Flattened ==
  ASSUME NEW seqs, IsSeq(seqs), \A k \in 1 .. Len(seqs) : IsSeq(seqs[k])
  PROVE  \E at : Laid(seqs, Len(seqs), at, FlattenSeq(seqs))
<1>1. PICK n \in Nat : n = Len(seqs)
  BY SeqFacts
<1>2. CASE n = 0
  <2>1. FlattenSeq(seqs) = << >>
    <3>1. seqs = << >>
      BY <1>1, <1>2, SeqFacts
    <3> QED BY <1>1, <1>2, <3>1 DEF FlattenSeq
  <2> QED BY <1>1, <1>2, <2>1, LaidNone
<1>3. CASE n # 0
  <2>1. PICK f : Partial(seqs, n, f) /\ FlattenSeq(seqs) = f[n]
    BY <1>1, <1>3, FlattenIsPartial
  <2> DEFINE S == {m \in Nat : m \in 1 .. n => \E at : Laid(seqs, m, at, f[m])}
  <2>2. 0 \in S
    OBVIOUS
  <2>3. ASSUME NEW m \in Nat, m \in S
        PROVE  m + 1 \in S
    <3> SUFFICES ASSUME m + 1 \in 1 .. n
                 PROVE  \E at : Laid(seqs, m + 1, at, f[m + 1])
      OBVIOUS
    <3>1. f[m + 1] = IF m + 1 = 1 THEN seqs[m + 1] ELSE f[(m + 1) - 1] \o seqs[m + 1]
      BY <2>1, Zenon DEF Partial
    <3>2. IsSeq(seqs[m + 1])
      BY <1>1
    <3>3. CASE m = 0
      <4>1. PICK r, q : r = << >> /\ q = seqs[m + 1]
        OBVIOUS
      <4>2. IsSeq(r) /\ Len(r) = 0 /\ IsSeq(q) /\ Len(q) \in Nat
        BY <3>2, <4>1, EmptyIsSeq, SeqFacts
      <4>3. Joins(r, q, q)
        BY <4>2 DEF Joins
      <4>4. \E at : Laid(seqs, m, at, r)
        BY <3>3, <4>1, LaidNone
      <4>5. f[m + 1] = q
        BY <3>1, <3>3, <4>1
      <4> QED BY <4>1, <4>3, <4>4, <4>5, LaidOneMore
    <3>4. CASE m # 0
      <4>1. m \in 1 .. n /\ (m + 1) - 1 = m /\ m + 1 # 1
        BY <3>4
      <4>2. PICK at : Laid(seqs, m, at, f[m])
        BY <2>3, <4>1
      <4>3. f[m + 1] = f[m] \o seqs[m + 1]
        BY <3>1, <4>1
      <4>4. Joins(f[m], seqs[m + 1], f[m + 1])
        BY <3>2, <4>2, <4>3, Joined DEF Laid
      <4> QED BY <4>2, <4>4, LaidOneMore
    <3> QED BY <3>3, <3>4
  <2> HIDE DEF S
  <2>4. \A m \in Nat : m \in S
    BY <2>2, <2>3, Induct
  <2>5. n \in S /\ n \in 1 .. n
    BY <1>3, <2>4
  <2> QED BY <1>1, <2>1, <2>5 DEF S
<1> QED BY <1>2, <1>3

-----------------------------------------------------------------------------
(* The words of the map, and the text of the program *)

(***************************************************************************)
(* What a word of the map holds is what the last instruction that wrote it *)
(* stored there, whatever the text is.  The rest is about the text.        *)
(***************************************************************************)
Touched(x) ==
  IF x.do \in {"store", "clip"} /\ Port(x.addr) = 1 THEN {Translated(x.addr)}
  ELSE IF x.do = "write timer" THEN {mtimecmp_csr} ELSE {}

\* A sequence of instructions that write to no other words.
Only(s, K) == IsSeq(s) /\ \A j \in 1 .. Len(s) : Touched(s[j]) \subseteq K

LEMMA OnlyOne ==
  ASSUME NEW x, NEW K, Touched(x) \subseteq K
  PROVE  Only(<<x>>, K)
<1>1. PICK s : s = <<x>>
  OBVIOUS
<1>2. s \in Seq({x}) /\ Len(s) = 1 /\ s[1] = x
  BY <1>1
<1>3. Only(s, K)
  BY <1>2 DEF Only, IsSeq
<1> QED BY <1>1, <1>3

LEMMA OnlyBoth ==
  ASSUME NEW K, NEW a, NEW b, Only(a, K), Only(b, K)
  PROVE  Only(a \o b, K)
<1>1. PICK r : r = a \o b /\ Joins(a, b, r)
  BY Joined DEF Only
<1>2. \A j \in 1 .. Len(r) : \/ j \in 1 .. Len(a)
                             \/ \E i \in 1 .. Len(b) : j = Len(a) + i
  <2>1. PICK m \in Nat, n \in Nat : m = Len(a) /\ n = Len(b) /\ Len(r) = m + n
    BY <1>1 DEF Joins
  <2>2. ASSUME NEW j \in 1 .. m + n, j \notin 1 .. m
        PROVE  \E i \in 1 .. n : j = m + i
    <3>1. j - m \in 1 .. n /\ j = m + (j - m)
      BY <2>2
    <3> QED BY <3>1
  <2> QED BY <2>1, <2>2
<1>3. Only(r, K)
  BY <1>1, <1>2 DEF Only, Joins
<1> QED BY <1>1, <1>3

LEMMA OnlyFlat ==
  ASSUME NEW K, NEW seqs, IsSeq(seqs), \A k \in 1 .. Len(seqs) : Only(seqs[k], K)
  PROVE  Only(FlattenSeq(seqs), K)
<1>1. PICK at, r : r = FlattenSeq(seqs) /\ Laid(seqs, Len(seqs), at, r)
  BY Flattened DEF Only
<1>2. ASSUME NEW j \in 1 .. Len(r)
      PROVE  Touched(r[j]) \subseteq K
  <2>1. PICK k \in 1 .. Len(seqs) : \E i \in 1 .. Len(seqs[k]) : j = at[k] + i
    BY <1>1 DEF Laid
  <2>2. PICK i \in 1 .. Len(seqs[k]) : j = at[k] + i
    BY <2>1
  <2>3. r[j] = seqs[k][i]
    BY <1>1, <2>2 DEF Laid
  <2> QED BY <2>3 DEF Only
<1> QED BY <1>1, <1>2 DEF Only, Laid

\* A function on the first n numbers is a sequence.
LEMMA FunIsSeq ==
  ASSUME NEW n \in Nat, NEW s, s = [j \in 1 .. n |-> s[j]]
  PROVE  IsSeq(s) /\ Len(s) = n
<1>1. PICK S : \A j \in 1 .. n : s[j] \in S
  <2>1. \A j \in 1 .. n : s[j] \in {s[i] : i \in 1 .. n}
    OBVIOUS
  <2> QED BY <2>1, Zenon
<1>2. s \in [1 .. n -> S] /\ Len(s) = n
  BY <1>1
<1>3. s \in Seq(S)
  BY <1>2
<1> QED BY <1>2, <1>3 DEF IsSeq

-----------------------------------------------------------------------------
(* The bits of the tags write no word. *)

LEMMA Pow2Positive == \A k \in 0 .. 30 : Pow2[k] \in Nat \ {0}
<1>1. /\ Pow2[0] \in Nat \ {0} /\ Pow2[1] \in Nat \ {0} /\ Pow2[2] \in Nat \ {0} /\ Pow2[3] \in Nat \ {0}
      /\ Pow2[4] \in Nat \ {0} /\ Pow2[5] \in Nat \ {0} /\ Pow2[6] \in Nat \ {0} /\ Pow2[7] \in Nat \ {0}
      /\ Pow2[8] \in Nat \ {0} /\ Pow2[9] \in Nat \ {0} /\ Pow2[10] \in Nat \ {0} /\ Pow2[11] \in Nat \ {0}
      /\ Pow2[12] \in Nat \ {0} /\ Pow2[13] \in Nat \ {0} /\ Pow2[14] \in Nat \ {0} /\ Pow2[15] \in Nat \ {0}
      /\ Pow2[16] \in Nat \ {0} /\ Pow2[17] \in Nat \ {0} /\ Pow2[18] \in Nat \ {0} /\ Pow2[19] \in Nat \ {0}
      /\ Pow2[20] \in Nat \ {0} /\ Pow2[21] \in Nat \ {0} /\ Pow2[22] \in Nat \ {0} /\ Pow2[23] \in Nat \ {0}
      /\ Pow2[24] \in Nat \ {0} /\ Pow2[25] \in Nat \ {0} /\ Pow2[26] \in Nat \ {0} /\ Pow2[27] \in Nat \ {0}
      /\ Pow2[28] \in Nat \ {0} /\ Pow2[29] \in Nat \ {0} /\ Pow2[30] \in Nat \ {0}
  BY SMT DEF Pow2
<1>2. \A k \in 0 .. 30 : k \in 0 .. 15 \/ k \in 16 .. 30
  OBVIOUS
<1>3. \A k \in 0 .. 15 : Pow2[k] \in Nat \ {0}
  BY <1>1
<1>4. \A k \in 16 .. 30 : Pow2[k] \in Nat \ {0}
  BY <1>1
<1> QED BY <1>2, <1>3, <1>4

LEMMA IdLen == id_len \in Nat
<1> DEFINE quotient(k) == (2 * NumClients - 1) \div Pow2[k]
           Q(k) == quotient(k) <= 1 /\ \A j \in 1 .. k - 1 : quotient(j) > 1
<1>1. \A k \in 1 .. 30 : quotient(k) \in Int
  <2>1. \A p \in Nat \ {0} : (2 * NumClients - 1) \div p \in Int
    BY TagLinkAssumption, SMT
  <2> QED BY <2>1, Pow2Positive
<1>2. quotient(30) <= 1
  <2>1. PICK c \in Nat \ {0} : c = Pow2[30]
    BY Pow2Positive
  <2>2. \A n \in Nat : n < 2 * c => n \div c <= 1
    OBVIOUS
  <2>3. 2 * NumClients - 1 \in Nat /\ 2 * NumClients - 1 < 2 * c
    BY <2>1, TagLinkAssumption
  <2> QED BY <2>1, <2>2, <2>3
<1> HIDE DEF quotient
<1>3. \E k \in 1 .. 30 : Q(k)
  <2> SUFFICES ASSUME \A k \in 1 .. 30 : ~Q(k)
               PROVE  FALSE
    OBVIOUS
  <2> DEFINE S == {n \in Nat : \A j \in 1 .. n : j <= 30 => quotient(j) > 1}
  <2>1. 0 \in S
    OBVIOUS
  <2>2. ASSUME NEW n \in Nat, n \in S
        PROVE  n + 1 \in S
    <3> SUFFICES ASSUME NEW j \in 1 .. n + 1, j <= 30
                 PROVE  quotient(j) > 1
      OBVIOUS
    <3>1. CASE j \in 1 .. n
      BY <2>2, <3>1
    <3>2. CASE j = n + 1
      <4>1. j \in 1 .. 30 /\ \A i \in 1 .. j - 1 : i \in 1 .. n /\ i <= 30
        BY <3>2
      <4>2. \A i \in 1 .. j - 1 : quotient(i) > 1
        BY <2>2, <4>1
      <4>3. ~(quotient(j) <= 1)
        BY <4>1, <4>2
      <4> QED BY <1>1, <4>1, <4>3
    <3> QED BY <3>1, <3>2
  <2> HIDE DEF S
  <2>3. 30 \in S
    BY <2>1, <2>2, Induct
  <2>4. quotient(30) > 1
    BY <2>3 DEF S
  <2> QED BY <1>1, <1>2, <2>4
<1>4. \E k \in 1 .. 30 : /\ (2 * NumClients - 1) \div Pow2[k] <= 1
                         /\ \A j \in 1 .. k - 1 : (2 * NumClients - 1) \div Pow2[j] > 1
  BY <1>3 DEF quotient
<1>5. PICK k \in 1 .. 30 : k = id_len
  BY <1>4 DEF id_len, safe_clog2
<1> QED BY <1>5

LEMMA JoinIsSeq ==
  ASSUME NEW a, NEW b, IsSeq(a), IsSeq(b)
  PROVE  IsSeq(a \o b)
BY Joined DEF Joins

LEMMA OneIsSeq ==
  ASSUME NEW x
  PROVE  IsSeq(<<x>>)
<1>1. <<x>> \in Seq({x})
  OBVIOUS
<1> QED BY <1>1 DEF IsSeq

LEMMA ZerosIsSeq ==
  ASSUME NEW n \in Nat
  PROVE  IsSeq(Zeros(n))
<1>1. PICK s : s = Zeros(n)
  OBVIOUS
<1>2. s = [j \in 1 .. n |-> s[j]]
  BY <1>1 DEF Zeros
<1> QED BY <1>1, <1>2, FunIsSeq

LEMMA BitsIsSeq ==
  ASSUME NEW value, NEW n \in Nat
  PROVE  IsSeq(Bits(value, n))
<1>1. PICK s : s = Bits(value, n)
  OBVIOUS
<1>2. s = [j \in 1 .. n |-> s[j]]
  BY <1>1 DEF Bits
<1> QED BY <1>1, <1>2, FunIsSeq

LEMMA WriteClientIsSeq ==
  ASSUME NEW client, client.width \in Nat, NEW data_not_reset, NEW payload
  PROVE  IsSeq(write_client(client, data_not_reset, payload))
<1>1. PICK a, b, c, d, e, f :
        /\ a = <<1>> /\ b = Bits(client.width, MaxLen) /\ c = <<data_not_reset>>
        /\ d = Bits(client.id, id_len) /\ e = Bits(payload, client.width) /\ f = <<0>>
  OBVIOUS
<1>2. IsSeq(a) /\ IsSeq(b) /\ IsSeq(c) /\ IsSeq(d) /\ IsSeq(e) /\ IsSeq(f)
  <2>1. MaxLen \in Nat /\ id_len \in Nat
    BY TagLinkAssumption, IdLen
  <2> QED BY <1>1, <2>1, OneIsSeq, BitsIsSeq
<1>3. IsSeq(((((a \o b) \o c) \o d) \o e) \o f)
  BY <1>2, JoinIsSeq
<1>4. write_client(client, data_not_reset, payload) = ((((a \o b) \o c) \o d) \o e) \o f
  BY <1>1, Zenon DEF write_client
<1> QED BY <1>3, <1>4

LEMMA OnlyBang ==
  ASSUME NEW bits, IsSeq(bits), NEW synced, NEW lands, NEW K
  PROVE  Only(Bang(bits, synced, lands), K)
<1>1. PICK n, s : n \in Nat /\ n = Len(bits) /\ s = Bang(bits, synced, lands)
  BY SeqFacts
<1>2. s = [j \in 1 .. n |-> s[j]] /\ \A j \in 1 .. n : s[j].do = "bit"
  BY <1>1 DEF Bang
<1>3. IsSeq(s) /\ Len(s) = n
  BY <1>1, <1>2, FunIsSeq
<1>4. \A j \in 1 .. n : Touched(s[j]) = {}
  BY <1>2 DEF Touched
<1> QED BY <1>1, <1>3, <1>4 DEF Only

LEMMA OnlyTags ==
  ASSUME NEW K
  PROVE  /\ Only(ResetMaster, K) /\ Only(Idle, K)
         /\ Only(ResetClient(pl_reset_client), K) /\ Only(ResetClient(wd_reset_client), K)
         /\ \A bit : /\ Only(SetClient(pl_reset_client, bit), K)
                     /\ Only(SetClient(wd_reset_client, bit), K)
<1>1. IsSeq(reset_master)
  BY OneIsSeq, ZerosIsSeq, JoinIsSeq DEF reset_master
<1>2. IsSeq(idle(50))
  BY ZerosIsSeq DEF idle
<1>3. \A client \in {pl_reset_client, wd_reset_client} : \A bit :
        IsSeq(reset_client(client)) /\ IsSeq(set_client(client, bit))
  <2>1. \A client \in {pl_reset_client, wd_reset_client} : client.width \in Nat
    BY DEF pl_reset_client, wd_reset_client
  <2> QED BY <2>1, WriteClientIsSeq, Zenon DEF reset_client, set_client
<1>4. Only(ResetMaster, K) /\ Only(Idle, K)
  BY <1>1, <1>2, OnlyBang DEF ResetMaster, Idle
<1>5. /\ Only(ResetClient(pl_reset_client), K) /\ Only(ResetClient(wd_reset_client), K)
  BY <1>3, OnlyBang, Zenon DEF ResetClient
<1>6. \A bit : /\ Only(SetClient(pl_reset_client, bit), K)
               /\ Only(SetClient(wd_reset_client, bit), K)
  BY <1>3, OnlyBang, Zenon DEF SetClient
<1> QED BY <1>4, <1>5, <1>6

\* The other instructions that write no word of the map: a store to a port of its own
\* registers, or to none, is one.
LEMMA OnlyQuiet ==
  ASSUME NEW K
  PROVE  /\ \A addr : Only(Peek(addr), K)
         /\ \A addr, value : Only(Expect(addr, value), K)
         /\ \A what : what \notin {"store", "clip", "write timer"} => Only(Do(what), K)
         /\ \A value : /\ Only(Store(DRAM_BASE, value), K) /\ Only(Store(freeze, value), K)
                       /\ Only(Store(DRAM_INITED, value), K)
                       /\ Only(Store(SYS_RESETN, value), K)
<1>1. \A addr : Only(Peek(addr), K)
  <2> TAKE addr
  <2>1. PICK x : x = [do |-> "peek", addr |-> addr]
    OBVIOUS
  <2>2. Touched(x) = {}
    BY <2>1 DEF Touched
  <2> QED BY <2>1, <2>2, OnlyOne DEF Peek
<1>2. \A addr, value : Only(Expect(addr, value), K)
  <2> TAKE addr, value
  <2>1. PICK x : x = [do |-> "expect", addr |-> addr, value |-> value]
    OBVIOUS
  <2>2. Touched(x) = {}
    BY <2>1 DEF Touched
  <2> QED BY <2>1, <2>2, OnlyOne DEF Expect
<1>3. ASSUME NEW what, what \notin {"store", "clip", "write timer"}
      PROVE  Only(Do(what), K)
  <2>1. PICK x : x = [do |-> what]
    OBVIOUS
  <2>2. Touched(x) = {}
    BY <1>3, <2>1 DEF Touched
  <2> QED BY <2>1, <2>2, OnlyOne DEF Do
<1>4. \A addr, value : Port(addr) # 1 => Only(Store(addr, value), K)
  <2> TAKE addr, value
  <2> SUFFICES ASSUME Port(addr) # 1
               PROVE  Only(Store(addr, value), K)
    OBVIOUS
  <2>1. PICK x : x = [do |-> "store", addr |-> addr, value |-> value]
    OBVIOUS
  <2>2. Touched(x) = {}
    BY <2>1 DEF Touched
  <2> QED BY <2>1, <2>2, OnlyOne DEF Store
<1>5. Port(DRAM_BASE) # 1 /\ Port(DRAM_INITED) # 1 /\ Port(SYS_RESETN) # 1 /\ Port(freeze) # 1
  BY SMT DEF Port, DRAM_BASE, DRAM_INITED, SYS_RESETN, freeze, GP0, GP0Words, GP1, GP1Words
<1> QED BY <1>1, <1>2, <1>3, <1>4, <1>5

LEMMA OnlyCounter ==
  ASSUME NEW K, NEW addr
  PROVE  Only(Counter(addr), K)
BY OnlyQuiet, OnlyBoth DEF Counter

LEMMA OnlyParts ==
  ASSUME NEW K
  PROVE  /\ Only(TestRegister, K) /\ Only(ResetByTags, K) /\ Only(AllocateDram, K)
         /\ Only(Do("args"), K) /\ Only(Run, K) /\ Only(Report, K)
         /\ Only(TestClint, {mtimecmp_csr})
<1>1. Only(TestRegister, K)
  BY OnlyQuiet, OnlyBoth DEF TestRegister
<1>2. Only(ResetByTags, K)
  BY OnlyTags, OnlyQuiet, OnlyBoth DEF ResetByTags
<1>3. Only(AllocateDram, K) /\ Only(Do("args"), K)
  BY OnlyQuiet, OnlyBoth DEF AllocateDram
<1>4. Only(Run, K)
  BY OnlyTags, OnlyCounter, OnlyQuiet, OnlyBoth DEF Run
<1>5. \A n \in Nat : \A s :
        s = [j \in 1 .. n |-> s[j]] /\ (\A j \in 1 .. n : Only(s[j], K))
          => Only(FlattenSeq(s), K)
  BY FunIsSeq, OnlyFlat
<1>6. Only(Report, K)
  <2>1. PICK s : s = [i \in 1 .. 4 |-> Peek(MEM_PROF + 4 - i)]
    OBVIOUS
  <2>2. Only(FlattenSeq(s), K)
    <3>1. \A j \in 1 .. 4 : Only(s[j], K)
      BY <2>1, OnlyQuiet
    <3> QED BY <1>5, <2>1, <3>1
  <2>3. Report = ((Counter(MINSTRET) \o Counter(CSR_BASE + mtime)) \o Counter(MINSTRET))
                   \o FlattenSeq(s)
    BY <2>1, Zenon DEF Report
  <2> QED BY <2>2, <2>3, OnlyCounter, OnlyBoth
<1>7. Only(TestClint, {mtimecmp_csr})
  <2>1. PICK s : s = [q \in 1 .. 10 |-> Counter(CSR_BASE + mtime)]
    OBVIOUS
  <2>2. PICK L : L = {mtimecmp_csr}
    OBVIOUS
  <2>3. Only(FlattenSeq(s), L)
    <3>1. \A j \in 1 .. 10 : Only(s[j], L)
      BY <2>1, OnlyCounter
    <3>2. IsSeq(s) /\ Len(s) = 10
      BY <2>1, FunIsSeq
    <3> QED BY <3>1, <3>2, OnlyFlat
  <2>4. Only(Do("read timer"), L) /\ Only(Do("check timer"), L)
    BY OnlyQuiet
  <2>5. Only(Do("write timer"), L)
    <3>1. PICK x : x = [do |-> "write timer"]
      OBVIOUS
    <3>2. Touched(x) \subseteq L
      BY <2>2, <3>1 DEF Touched
    <3> QED BY <3>1, <3>2, OnlyOne DEF Do
  <2>6. TestClint = ((FlattenSeq(s) \o Do("read timer")) \o Do("write timer"))
                      \o Do("check timer")
    BY <2>1, Zenon DEF TestClint
  <2> QED BY <2>2, <2>3, <2>4, <2>5, <2>6, OnlyBoth
<1> QED BY <1>1, <1>2, <1>3, <1>4, <1>6, <1>7

\* The base, the window and the translation take a word to its own address.
LEMMA CsrAddress ==
  ASSUME NEW x \in Nat, Expressible(x), x < DRAM
  PROVE  Port(CSR_BASE + x) = 1 /\ Translated(CSR_BASE + x) = x
BY SMT DEF Expressible, DRAM, Port, Translated, CSR_BASE, GP1, GP1Words, GP0, GP0Words

LEMMA DramAddress ==
  ASSUME NEW x \in Nat, Expressible(x), x >= DRAM
  PROVE  Port((GP1 - DRAM) + x) = 1 /\ Translated((GP1 - DRAM) + x) = x
BY SMT DEF Expressible, DRAM, Port, Translated, CSR_BASE, GP1, GP1Words, GP0, GP0Words

LEMMA OwnAddress ==
  ASSUME NEW line, Expressible(line.addr)
  PROVE  /\ Port(base(line) + line.addr) = 1
         /\ Translated(base(line) + line.addr) = line.addr
         /\ Expressible(line.addr + 1) =>
              /\ Port((base(line) + line.addr) + 1) = 1
              /\ Translated((base(line) + line.addr) + 1) = line.addr + 1
<1>1. PICK x : x = line.addr /\ Expressible(x)
  OBVIOUS
<1>2. x \in Nat /\ x + 1 \in Nat /\ DRAM \in Nat
  BY <1>1, SMT DEF Expressible, DRAM
<1>3. CASE x < DRAM
  <2>1. PICK b : b = base(line) /\ b = CSR_BASE /\ b \in Nat
    BY <1>1, <1>2, <1>3, SMT DEF base, CSR_BASE, GP1
  <2>2. Port(b + x) = 1 /\ Translated(b + x) = x
    BY <1>1, <1>2, <1>3, <2>1, CsrAddress
  <2>3. Expressible(x + 1) => x + 1 < DRAM
    BY <1>1, <1>2, <1>3, SMT DEF Expressible, DRAM
  <2>4. Expressible(x + 1) => Port(b + (x + 1)) = 1 /\ Translated(b + (x + 1)) = x + 1
    BY <1>2, <2>1, <2>3, CsrAddress
  <2>5. (b + x) + 1 = b + (x + 1)
    BY <1>2, <2>1
  <2> QED BY <1>1, <2>1, <2>2, <2>4, <2>5
<1>4. CASE x >= DRAM
  <2>1. PICK b : b = base(line) /\ b = GP1 - DRAM /\ b \in Int
    BY <1>1, <1>2, <1>4, SMT DEF base, GP1
  <2>2. Port(b + x) = 1 /\ Translated(b + x) = x
    BY <1>1, <1>2, <1>4, <2>1, DramAddress
  <2>3. x + 1 >= DRAM
    BY <1>2, <1>4
  <2>4. Expressible(x + 1) => Port(b + (x + 1)) = 1 /\ Translated(b + (x + 1)) = x + 1
    BY <1>2, <2>1, <2>3, DramAddress
  <2>5. (b + x) + 1 = b + (x + 1)
    BY <1>2, <2>1
  <2> QED BY <1>1, <2>1, <2>2, <2>4, <2>5
<1> QED BY <1>2, <1>3, <1>4

\* What an instruction stores where.
Stores(x, a, value) == x.do = "store" /\ x.value = value /\ Touched(x) = {a}

LEMMA StoreOne ==
  ASSUME NEW addr, NEW a, NEW value, Port(addr) = 1, Translated(addr) = a
  PROVE  \E x : Store(addr, value) = <<x>> /\ Stores(x, a, value)
<1>1. PICK x : x = [do |-> "store", addr |-> addr, value |-> value]
  OBVIOUS
<1>2. Stores(x, a, value)
  BY <1>1 DEF Stores, Touched
<1> QED BY <1>1, <1>2 DEF Store

\* The instructions of s store these words.
Writing(s, words) ==
  /\ IsSeq(s)
  /\ \A i \in 1 .. Len(s) : \E w \in words : Stores(s[i], w[1], w[2])
  /\ \A w \in words : \E i \in 1 .. Len(s) : Stores(s[i], w[1], w[2])

LEMMA WritingOne ==
  ASSUME NEW addr, NEW a, NEW value, Port(addr) = 1, Translated(addr) = a
  PROVE  Writing(Store(addr, value), {<<a, value>>})
<1>1. PICK x, s, w : /\ s = Store(addr, value) /\ s = <<x>> /\ Stores(x, a, value)
                     /\ w = <<a, value>>
  BY StoreOne
<1>2. s \in Seq({x}) /\ Len(s) = 1 /\ s[1] = x /\ w[1] = a /\ w[2] = value
  BY <1>1
<1>3. IsSeq(s)
  BY <1>2 DEF IsSeq
<1>4. \A u \in {w} : Stores(s[1], u[1], u[2])
  BY <1>1, <1>2
<1>5. Writing(s, {w})
  BY <1>2, <1>3, <1>4 DEF Writing
<1> QED BY <1>1, <1>5

LEMMA WritingNone == Writing(<< >>, {})
<1>1. PICK e : e = << >> /\ IsSeq(e) /\ Len(e) = 0
  BY EmptyIsSeq
<1>2. Writing(e, {})
  BY <1>1 DEF Writing
<1> QED BY <1>1, <1>2

LEMMA WritingBoth ==
  ASSUME NEW s, NEW t, NEW v, NEW w, Writing(s, v), Writing(t, w)
  PROVE  Writing(s \o t, v \cup w)
<1>1. PICK r : r = s \o t /\ Joins(s, t, r)
  BY Joined DEF Writing
<1>2. PICK m \in Nat, n \in Nat : m = Len(s) /\ n = Len(t) /\ Len(r) = m + n
  BY <1>1 DEF Joins
<1>3. /\ \A j \in 1 .. m : r[j] = s[j] /\ j \in 1 .. m + n
      /\ \A j \in 1 .. n : r[m + j] = t[j] /\ m + j \in 1 .. m + n
  BY <1>1, <1>2 DEF Joins
<1>4. ASSUME NEW j \in 1 .. m + n
      PROVE  \E u \in v \cup w : Stores(r[j], u[1], u[2])
  <2>1. CASE j \in 1 .. m
    BY <1>2, <1>3, <2>1 DEF Writing
  <2>2. CASE j \notin 1 .. m
    <3>1. PICK i : i = j - m
      OBVIOUS
    <3>2. i \in 1 .. n /\ j = m + i
      BY <2>2, <3>1
    <3> QED BY <1>2, <1>3, <3>2 DEF Writing
  <2> QED BY <2>1, <2>2
<1>5. ASSUME NEW u \in v \cup w
      PROVE  \E j \in 1 .. m + n : Stores(r[j], u[1], u[2])
  <2>1. CASE u \in v
    BY <1>2, <1>3, <2>1 DEF Writing
  <2>2. CASE u \in w
    <3>1. PICK i \in 1 .. n : Stores(t[i], u[1], u[2])
      BY <1>2, <2>2 DEF Writing
    <3> QED BY <1>3, <3>1
  <2> QED BY <2>1, <2>2
<1>6. Writing(r, v \cup w)
  BY <1>1, <1>2, <1>4, <1>5 DEF Writing, Joins
<1> QED BY <1>1, <1>6

LEMMA ConfigureWrites ==
  /\ Writing(Configure, {<<c, 1>> : c \in Config}) /\ Len(Configure) \in Nat
<1>1. \A c \in Config : Port(CSR_BASE + c) = 1 /\ Translated(CSR_BASE + c) = c
  BY SMT DEF Config, freeze, npc, icache_mode, dcache_mode, cce_mode, DRAM, Port,
             Translated, CSR_BASE, GP1, GP1Words, GP0, GP0Words
<1>2. \A c \in Config : Writing(Store(CSR_BASE + c, 1), {<<c, 1>>})
  BY <1>1, WritingOne
<1>3. Writing(Configure, (((({<<freeze, 1>>} \cup {<<npc, 1>>}) \cup {<<icache_mode, 1>>})
                               \cup {<<dcache_mode, 1>>}) \cup {<<cce_mode, 1>>}))
  <2>1. {freeze, npc, icache_mode, dcache_mode, cce_mode} \subseteq Config
    BY DEF Config
  <2> QED BY <1>2, <2>1, WritingBoth DEF Configure
<1>4. (((({<<freeze, 1>>} \cup {<<npc, 1>>}) \cup {<<icache_mode, 1>>})
           \cup {<<dcache_mode, 1>>}) \cup {<<cce_mode, 1>>})
        = {<<c, 1>> : c \in Config}
  BY DEF Config
<1>5. Writing(Configure, {<<c, 1>> : c \in Config})
  BY <1>3, <1>4
<1> QED BY <1>5, SeqFacts DEF Writing

\* The words of a line.
WordsOf(k) == {<<a, Word(k, a)>> : a \in {b \in {file[k].addr, file[k].addr + 1} : Writes(k, b)}}

LEMMA LineWrites ==
  ASSUME OnlyWords, NEW k \in DOMAIN file
  PROVE  Writing(Command(file[k]), WordsOf(k))
<1>1. PICK line, x : line = file[k] /\ x = line.addr
  OBVIOUS
<1>2. /\ line.op \in {"2", "3", "fe", "ff"}
      /\ Writes(k, x) => Expressible(x)
      /\ Writes(k, x + 1) => Expressible(x + 1)
  BY <1>1 DEF OnlyWords
<1>3. CASE line.op = "3"
  <2>1. Expressible(x) /\ Expressible(x + 1) /\ x \in Nat /\ x # x + 1
    <3>1. Expressible(x) /\ Expressible(x + 1)
      BY <1>1, <1>2, <1>3 DEF Writes
    <3>2. x \in Nat
      BY <3>1, SMT DEF Expressible, DRAM
    <3> QED BY <3>1, <3>2
  <2>2. PICK addr : addr = base(line) + line.addr
    OBVIOUS
  <2>3. /\ Port(addr) = 1 /\ Translated(addr) = x
        /\ Port(addr + 1) = 1 /\ Translated(addr + 1) = x + 1
    BY <1>1, <2>1, <2>2, OwnAddress
  <2>4. Command(line) = Store(addr, line.low) \o Store(addr + 1, line.high)
    BY <1>3, <2>2 DEF Command
  <2>5. WordsOf(k) = {<<x, line.low>>} \cup {<<x + 1, line.high>>}
    <3>1. {b \in {x, x + 1} : Writes(k, b)} = {x, x + 1}
      BY <1>1, <1>3 DEF Writes
    <3>2. Word(k, x) = line.low /\ Word(k, x + 1) = line.high
      BY <1>1, <2>1 DEF Word
    <3> QED BY <1>1, <3>1, <3>2 DEF WordsOf
  <2>6. /\ Writing(Store(addr, line.low), {<<x, line.low>>})
        /\ Writing(Store(addr + 1, line.high), {<<x + 1, line.high>>})
    BY <2>3, WritingOne
  <2>7. Writing(Store(addr, line.low) \o Store(addr + 1, line.high),
                {<<x, line.low>>} \cup {<<x + 1, line.high>>})
    BY <2>6, WritingBoth
  <2> QED BY <1>1, <2>4, <2>5, <2>7
<1>4. CASE line.op = "2"
  <2>1. Expressible(x) /\ x \in Nat /\ x # x + 1
    <3>1. Expressible(x)
      BY <1>1, <1>2, <1>4 DEF Writes
    <3>2. x \in Nat
      BY <3>1, SMT DEF Expressible, DRAM
    <3> QED BY <3>1, <3>2
  <2>2. PICK addr : addr = base(line) + line.addr
    OBVIOUS
  <2>3. Port(addr) = 1 /\ Translated(addr) = x
    BY <1>1, <2>1, <2>2, OwnAddress
  <2>4. Command(line) = Store(addr, line.low)
    BY <1>4, <2>2 DEF Command
  <2>5. WordsOf(k) = {<<x, line.low>>}
    <3>1. {b \in {x, x + 1} : Writes(k, b)} = {x}
      BY <1>1, <1>4, <2>1 DEF Writes
    <3>2. Word(k, x) = line.low
      BY <1>1 DEF Word
    <3> QED BY <1>1, <3>1, <3>2 DEF WordsOf
  <2> QED BY <1>1, <2>3, <2>4, <2>5, WritingOne
<1>5. CASE line.op \in {"fe", "ff"}
  <2>1. Command(line) = << >>
    BY <1>5 DEF Command
  <2>2. WordsOf(k) = {}
    BY <1>1, <1>5 DEF WordsOf, Writes
  <2> QED BY <1>1, <2>1, <2>2, WritingNone
<1> QED BY <1>2, <1>3, <1>4, <1>5

\* The places of two sequences in their concatenation, of lengths m and n.
Places(a, b, r, m, n) ==
  /\ m \in Nat /\ n \in Nat /\ Len(a) = m /\ Len(b) = n /\ Len(r) = m + n
  /\ \A j \in 1 .. m : j \in 1 .. m + n /\ r[j] = a[j]
  /\ \A i \in 1 .. n : m + i \in 1 .. m + n /\ r[m + i] = b[i]
  /\ \A j \in 1 .. m + n : j \in 1 .. m \/ \E i \in 1 .. n : j = m + i

LEMMA JoinedPlaces ==
  ASSUME NEW a, NEW b, NEW r, Joins(a, b, r)
  PROVE  Places(a, b, r, Len(a), Len(b))
<1>1. PICK m \in Nat, n \in Nat : m = Len(a) /\ n = Len(b) /\ Len(r) = m + n
  BY DEF Joins
<1>2. ASSUME NEW j \in 1 .. m + n, j \notin 1 .. m
      PROVE  \E i \in 1 .. n : j = m + i
  <2>1. j - m \in 1 .. n /\ j = m + (j - m)
    BY <1>2
  <2> QED BY <2>1
<1>3. /\ \A j \in 1 .. m : j \in 1 .. m + n
      /\ \A i \in 1 .. n : m + i \in 1 .. m + n
  OBVIOUS
<1>4. /\ \A j \in 1 .. m : r[j] = a[j]
      /\ \A i \in 1 .. n : r[m + i] = b[i]
  BY <1>1 DEF Joins
<1>5. Places(a, b, r, m, n)
  BY <1>1, <1>2, <1>3, <1>4 DEF Places
<1> QED BY <1>1, <1>5

\* What comes behind s in r writes nothing.
Leads(s, r) ==
  /\ IsSeq(r) /\ \A j \in 1 .. Len(s) : j \in 1 .. Len(r) /\ r[j] = s[j]
  /\ \A j \in 1 .. Len(r) : j \in 1 .. Len(s) \/ Touched(r[j]) = {}

LEMMA QuietTail ==
  ASSUME NEW s, NEW t, IsSeq(s), Only(t, {})
  PROVE  Leads(s, s \o t)
<1>1. PICK r : r = s \o t /\ Joins(s, t, r)
  BY Joined DEF Only
<1>2. PICK m, n : Places(s, t, r, m, n)
  BY <1>1, JoinedPlaces
<1>3. ASSUME NEW j \in 1 .. Len(r), j \notin 1 .. Len(s)
      PROVE  Touched(r[j]) = {}
  <2>1. PICK i \in 1 .. n : j = m + i
    BY <1>2, <1>3 DEF Places
  <2>2. r[j] = t[i]
    BY <1>2, <2>1 DEF Places
  <2>3. Touched(t[i]) \subseteq {}
    BY <1>2 DEF Only, Places
  <2> QED BY <2>2, <2>3
<1>4. Leads(s, r)
  BY <1>1, <1>2, <1>3 DEF Leads, Places, Joins
<1> QED BY <1>1, <1>4

(***************************************************************************)
(* Where the text writes what: up to b the word of the timer at most, from *)
(* there to c the configuration, and behind c and at[k] line k.            *)
(***************************************************************************)
Chart(T, b, c, at) ==
  /\ IsSeq(T) /\ b \in Nat /\ c \in Nat /\ b <= c
  /\ at \in [1 .. Len(file) + 1 -> Nat]
  /\ \A k, m \in 1 .. Len(file) + 1 : k <= m => at[k] <= at[m]
  /\ \A j \in 1 .. Len(T) : \A a \in Touched(T[j]) :
       \/ j <= b /\ a = mtimecmp_csr
       \/ j \in b + 1 .. c /\ a \in Config /\ Stores(T[j], a, 1)
       \/ \E k \in 1 .. Len(file) :
            /\ j \in c + at[k] + 1 .. c + at[k + 1]
            /\ Writes(k, a) /\ Stores(T[j], a, Word(k, a))
  /\ \A a \in Config : \E j \in b + 1 .. c : j \in 1 .. Len(T) /\ Stores(T[j], a, 1)
  /\ \A k \in 1 .. Len(file) : \A a : Writes(k, a) =>
       \E j \in c + at[k] + 1 .. c + at[k + 1] :
          j \in 1 .. Len(T) /\ Stores(T[j], a, Word(k, a))

\* Nothing of the file is beyond what the loader knows.
LEMMA LoadedWhole ==
  ASSUME file \in Files, OnlyWords
  PROVE  /\ Len(file) \in Nat /\ DOMAIN file = 1 .. Len(file)
         /\ \E seqs : /\ IsSeq(seqs) /\ Len(seqs) = Len(file)
                      /\ \A k \in 1 .. Len(file) : Writing(seqs[k], WordsOf(k))
                      /\ nbf_load(file) = FlattenSeq(seqs)
<1>1. Len(file) \in Nat /\ DOMAIN file = 1 .. Len(file)
  BY BlackParrotAssumption
<1>2. Known(file) = file
  <2>1. ~(\E k \in DOMAIN file : file[k].op = "unknown")
    BY DEF OnlyWords
  <2> QED BY <2>1 DEF Known
<1>3. PICK seqs : seqs = [k \in 1 .. Len(file) |-> Command(file[k])]
  OBVIOUS
<1>4. IsSeq(seqs) /\ Len(seqs) = Len(file)
  BY <1>1, <1>3, FunIsSeq
<1>5. \A k \in 1 .. Len(file) : Writing(seqs[k], WordsOf(k))
  BY <1>1, <1>3, LineWrites
<1>6. nbf_load(file) = FlattenSeq(seqs)
  BY <1>2, <1>3, Zenon DEF nbf_load
<1> QED BY <1>1, <1>4, <1>5, <1>6

LEMMA TextIs ==
  ASSUME file \in Files
  PROVE  text = ps_main(file)
<1>1. <<file, ps_main(file)>> \in Texts
  BY Zenon DEF Texts
<1>2. \A t \in Texts : t[1] = file => t[2] = ps_main(file)
  <2> TAKE t \in Texts
  <2>1. PICK f \in Files : t = <<f, ps_main(f)>>
    BY Zenon DEF Texts
  <2>2. t[1] = f /\ t[2] = ps_main(f)
    BY <2>1
  <2> QED BY <2>2
<1>3. \E t \in Texts : t[1] = file
  BY <1>1
<1> QED BY <1>2, <1>3 DEF text

\* The parts of the text ahead of the configuration.
Opening ==
  (((TestRegister \o ResetByTags) \o AllocateDram) \o Do("args")) \o TestClint

LEMMA OpeningOnly == Only(Opening, {mtimecmp_csr})
BY OnlyParts, OnlyBoth DEF Opening

LEMMA WordsOfLine ==
  ASSUME NEW k, NEW w
  PROVE  /\ w \in WordsOf(k) => Writes(k, w[1]) /\ w[2] = Word(k, w[1])
         /\ \A a : Writes(k, a) => <<a, Word(k, a)>> \in WordsOf(k)
<1>1. ASSUME w \in WordsOf(k)
      PROVE  Writes(k, w[1]) /\ w[2] = Word(k, w[1])
  <2>1. PICK a : Writes(k, a) /\ w = <<a, Word(k, a)>>
    BY <1>1 DEF WordsOf
  <2>2. w[1] = a /\ w[2] = Word(k, a)
    BY <2>1
  <2> QED BY <2>1, <2>2
<1>2. \A a : Writes(k, a) => <<a, Word(k, a)>> \in WordsOf(k)
  BY DEF WordsOf, Writes
<1> QED BY <1>1, <1>2

LEMMA TextCharted ==
  ASSUME file \in Files, OnlyWords
  PROVE  \E b, c, at : Chart(text, b, c, at)
<1>1. PICK n \in Nat : n = Len(file)
  BY LoadedWhole
<1>2. PICK seqs : /\ IsSeq(seqs) /\ Len(seqs) = n
                  /\ \A k \in 1 .. n : Writing(seqs[k], WordsOf(k))
                  /\ nbf_load(file) = FlattenSeq(seqs)
  BY <1>1, LoadedWhole
<1>3. PICK P, C, F : P = Opening /\ C = Configure /\ F = nbf_load(file)
  OBVIOUS
<1>4. PICK at : Laid(seqs, n, at, F)
  BY <1>2, <1>3, Flattened DEF Writing
<1>5. IsSeq(P) /\ IsSeq(C) /\ IsSeq(F)
  BY <1>3, <1>4, OpeningOnly, ConfigureWrites DEF Only, Writing, Laid
<1>6. PICK R : R = P \o C /\ Joins(P, C, R)
  BY <1>5, Joined
<1>7. PICK S : S = R \o F /\ Joins(R, F, S)
  <2>1. IsSeq(R)
    BY <1>6 DEF Joins
  <2> QED BY <1>5, <2>1, Joined
<1>8. PICK T : T = text /\ T = (S \o Run) \o Report
  <2>1. ps_main(file) = (((Opening \o Configure) \o nbf_load(file)) \o Run) \o Report
    BY Zenon DEF ps_main, Opening
  <2> QED BY <1>3, <1>6, <1>7, <2>1, TextIs
<1>9. /\ IsSeq(T)
      /\ \A j \in 1 .. Len(S) : j \in 1 .. Len(T) /\ T[j] = S[j]
      /\ \A j \in 1 .. Len(T) : j \in 1 .. Len(S) \/ Touched(T[j]) = {}
  <2>1. Only(Run, {}) /\ Only(Report, {}) /\ IsSeq(S)
    BY <1>7, OnlyParts DEF Joins
  <2>2. PICK U : U = S \o Run /\ Leads(S, U)
    BY <2>1, QuietTail
  <2>3. Leads(U, T)
    <3>1. IsSeq(U)
      BY <2>2 DEF Leads
    <3> QED BY <1>8, <2>1, <2>2, <3>1, QuietTail
  <2> QED BY <2>2, <2>3 DEF Leads
<1>10. PICK b, l : Places(P, C, R, b, l)
  BY <1>6, JoinedPlaces
<1>11. PICK c, f : Places(R, F, S, c, f)
  BY <1>7, JoinedPlaces
<1>12. /\ b \in Nat /\ l \in Nat /\ c \in Nat /\ f \in Nat /\ c = b + l
       /\ Len(P) = b /\ Len(C) = l /\ Len(F) = f
  BY <1>10, <1>11 DEF Places
<1>13. /\ \A j \in 1 .. b : T[j] = P[j]
       /\ \A i \in 1 .. l : b + i \in 1 .. Len(T) /\ T[b + i] = C[i]
       /\ \A i \in 1 .. f : c + i \in 1 .. Len(T) /\ T[c + i] = F[i]
       /\ \A j \in 1 .. Len(T) : \/ j \in 1 .. b
                                 \/ \E i \in 1 .. l : j = b + i
                                 \/ \E i \in 1 .. f : j = c + i
                                 \/ Touched(T[j]) = {}
  <2>1. /\ \A j \in 1 .. b : j \in 1 .. c /\ R[j] = P[j]
        /\ \A i \in 1 .. l : b + i \in 1 .. c /\ R[b + i] = C[i]
        /\ \A j \in 1 .. c : j \in 1 .. b \/ \E i \in 1 .. l : j = b + i
    BY <1>10, <1>12 DEF Places
  <2>2. /\ \A j \in 1 .. c : j \in 1 .. Len(S) /\ S[j] = R[j]
        /\ \A i \in 1 .. f : c + i \in 1 .. Len(S) /\ S[c + i] = F[i]
        /\ \A j \in 1 .. Len(S) : j \in 1 .. c \/ \E i \in 1 .. f : j = c + i
    BY <1>11 DEF Places
  <2> QED BY <1>9, <2>1, <2>2
<1>14. /\ at \in [1 .. n + 1 -> Nat] /\ at[1] = 0 /\ at[n + 1] = f
       /\ \A k, m \in 1 .. n + 1 : k <= m => at[k] <= at[m]
       /\ \A k \in 1 .. n :
            /\ Len(seqs[k]) \in Nat /\ at[k + 1] = at[k] + Len(seqs[k])
            /\ \A i \in 1 .. Len(seqs[k]) : F[at[k] + i] = seqs[k][i]
       /\ \A j \in 1 .. f : \E k \in 1 .. n : \E i \in 1 .. Len(seqs[k]) : j = at[k] + i
  BY <1>4, <1>12 DEF Laid
<1>15. ASSUME NEW k \in 1 .. n, NEW i \in 1 .. Len(seqs[k])
       PROVE  /\ at[k] + i \in 1 .. f
              /\ c + (at[k] + i) \in c + at[k] + 1 .. c + at[k + 1]
  <2>1. PICK y \in Nat, z \in Nat, s \in Nat : y = at[k] /\ z = at[k + 1] /\ s = Len(seqs[k])
    <3>1. k \in 1 .. n + 1 /\ k + 1 \in 1 .. n + 1
      OBVIOUS
    <3> QED BY <1>14, <3>1
  <2>2. z <= f
    <3>1. k + 1 \in 1 .. n + 1 /\ n + 1 \in 1 .. n + 1 /\ k + 1 <= n + 1
      OBVIOUS
    <3> QED BY <1>14, <2>1, <3>1
  <2>3. z = y + s
    BY <1>14, <2>1
  <2>4. i \in 1 .. s
    BY <2>1
  <2>5. y + i \in 1 .. f /\ c + (y + i) \in c + y + 1 .. c + z
    BY <1>12, <2>2, <2>3, <2>4
  <2> QED BY <2>1, <2>5
<1>16. ASSUME NEW j \in 1 .. Len(T), NEW a \in Touched(T[j])
       PROVE  \/ j <= b /\ a = mtimecmp_csr
              \/ j \in b + 1 .. c /\ a \in Config /\ Stores(T[j], a, 1)
              \/ \E k \in 1 .. n :
                   /\ j \in c + at[k] + 1 .. c + at[k + 1]
                   /\ Writes(k, a) /\ Stores(T[j], a, Word(k, a))
  <2>1. CASE j \in 1 .. b
    <3>1. a \in {mtimecmp_csr}
      BY <1>3, <1>12, <1>13, <1>16, <2>1, OpeningOnly DEF Only
    <3> QED BY <2>1, <3>1
  <2>2. CASE \E i \in 1 .. l : j = b + i
    <3>1. PICK i \in 1 .. l : j = b + i /\ T[j] = C[i]
      BY <1>13, <2>2
    <3>2. PICK w \in {<<d, 1>> : d \in Config} : Stores(C[i], w[1], w[2])
      BY <1>3, <1>12, ConfigureWrites DEF Writing
    <3>3. PICK d \in Config : w[1] = d /\ w[2] = 1
      BY <3>2
    <3>4. a = d /\ Stores(T[j], a, 1)
      BY <3>1, <3>2, <3>3 DEF Stores
    <3>5. j \in b + 1 .. c
      BY <1>12, <3>1
    <3> QED BY <3>3, <3>4, <3>5
  <2>3. CASE \E i \in 1 .. f : j = c + i
    <3>1. PICK h \in 1 .. f : j = c + h /\ T[j] = F[h]
      BY <1>13, <2>3
    <3>2. PICK k \in 1 .. n : \E i \in 1 .. Len(seqs[k]) : h = at[k] + i
      BY <1>14
    <3>3. PICK i \in 1 .. Len(seqs[k]) : h = at[k] + i
      BY <3>2
    <3>4. T[j] = seqs[k][i]
      BY <1>14, <3>1, <3>3
    <3>5. PICK w \in WordsOf(k) : Stores(T[j], w[1], w[2])
      BY <1>2, <3>4 DEF Writing
    <3>6. a = w[1] /\ Writes(k, a) /\ Stores(T[j], a, Word(k, a))
      BY <3>5, WordsOfLine DEF Stores
    <3>7. j \in c + at[k] + 1 .. c + at[k + 1]
      BY <1>15, <3>1, <3>3
    <3> QED BY <3>6, <3>7
  <2> QED BY <1>13, <2>1, <2>2, <2>3
<1>17. ASSUME NEW a \in Config
       PROVE  \E j \in b + 1 .. c : j \in 1 .. Len(T) /\ Stores(T[j], a, 1)
  <2>1. PICK w : w = <<a, 1>>
    OBVIOUS
  <2>2. w \in {<<d, 1>> : d \in Config} /\ w[1] = a /\ w[2] = 1
    BY <2>1
  <2>3. PICK i \in 1 .. l : Stores(C[i], a, 1)
    BY <1>3, <1>12, <2>2, ConfigureWrites DEF Writing
  <2>4. b + i \in b + 1 .. c
    BY <1>12
  <2> QED BY <1>13, <2>3, <2>4
<1>18. ASSUME NEW k \in 1 .. n, NEW a, Writes(k, a)
       PROVE  \E j \in c + at[k] + 1 .. c + at[k + 1] :
                 j \in 1 .. Len(T) /\ Stores(T[j], a, Word(k, a))
  <2>1. PICK w : w = <<a, Word(k, a)>>
    OBVIOUS
  <2>2. w[1] = a /\ w[2] = Word(k, a) /\ w \in WordsOf(k)
    BY <1>18, <2>1, WordsOfLine
  <2>3. PICK i \in 1 .. Len(seqs[k]) : Stores(seqs[k][i], a, Word(k, a))
    BY <1>2, <2>2 DEF Writing
  <2>4. F[at[k] + i] = seqs[k][i] /\ at[k] + i \in 1 .. f
    BY <1>14, <1>15
  <2>5. T[c + (at[k] + i)] = seqs[k][i] /\ c + (at[k] + i) \in 1 .. Len(T)
    BY <1>13, <2>4
  <2> QED BY <1>15, <2>3, <2>5
<1>19. Chart(T, b, c, at)
  <2>1. b \in Nat /\ c \in Nat /\ b <= c
    BY <1>12
  <2> QED BY <1>1, <1>9, <1>14, <1>16, <1>17, <1>18, <2>1 DEF Chart
<1> QED BY <1>8, <1>19

\* The last of the first n instructions to write a word has left its value there.
Traced(T, n, M) ==
  /\ \A j \in 1 .. n : Touched(T[j]) \subseteq DOMAIN M
  /\ \A a \in DOMAIN M : \E j \in 1 .. n :
       /\ a \in Touched(T[j]) /\ \A m \in j + 1 .. n : a \notin Touched(T[m])
       /\ T[j].do = "store" => M[a] = T[j].value

MemInv ==
  /\ pc \in Nat \ {0} /\ \A j \in 1 .. pc - 1 : j <= Len(text)
  /\ file \in Files /\ Traced(text, pc - 1, mem)

LEMMA MemGoesOn ==
  ASSUME MemInv, file' = file, pc <= Len(text), pc' = pc + 1,
         \/ Touched(instr) = {} /\ mem' = mem
         \/ \E a, v : /\ Touched(instr) = {a} /\ Put(a, v)
                      /\ instr.do = "store" => v = instr.value
  PROVE  MemInv'
<1>1. text' = text /\ instr = text[pc]
  BY Zenon DEF text, instr
<1>2. PICK n \in Nat \ {0} : n = pc /\ pc' = n + 1
  BY DEF MemInv
<1>3. PICK T, D, M : T = text /\ D = DOMAIN mem /\ M = mem'
  OBVIOUS
<1>4. PICK x : x = T[n] /\ x = instr
  BY <1>1, <1>2, <1>3
<1>5. /\ (n + 1) - 1 = n /\ \A j \in 1 .. n : j \in 1 .. n - 1 \/ j = n
      /\ \A j \in 1 .. n - 1 : j \in 1 .. n /\ n \in j + 1 .. n
      /\ \A j \in 1 .. n - 1 : \A m \in j + 1 .. n : m \in j + 1 .. n - 1 \/ m = n
      /\ n \in 1 .. n /\ n + 1 .. n = {}
  OBVIOUS
<1>6. /\ \A j \in 1 .. n - 1 : Touched(T[j]) \subseteq D
      /\ \A a \in D : \E j \in 1 .. n - 1 :
           /\ a \in Touched(T[j]) /\ \A m \in j + 1 .. n - 1 : a \notin Touched(T[m])
           /\ T[j].do = "store" => mem[a] = T[j].value
  BY <1>2, <1>3, Zenon DEF MemInv, Traced
<1>7. /\ DOMAIN M = D \cup Touched(x)
      /\ \A a \in D : a \notin Touched(x) => M[a] = mem[a]
      /\ \A a \in Touched(x) : x.do = "store" => M[a] = x.value
  <2>1. CASE Touched(instr) = {} /\ mem' = mem
    BY <1>3, <1>4, <2>1
  <2>2. CASE \E a, v : /\ Touched(instr) = {a} /\ Put(a, v)
                       /\ instr.do = "store" => v = instr.value
    <3>1. PICK a, v : /\ Touched(x) = {a} /\ Put(a, v)
                      /\ x.do = "store" => v = x.value
      BY <1>4, <2>2
    <3>2. DOMAIN M = D \cup {a} /\ M[a] = v /\ \A b \in D : b # a => M[b] = mem[b]
      BY <1>3, <3>1 DEF Put
    <3> QED BY <3>1, <3>2
  <2> QED BY <2>1, <2>2
<1>8. \A j \in 1 .. n : Touched(T[j]) \subseteq DOMAIN M
  BY <1>4, <1>5, <1>6, <1>7, Zenon
<1>9. ASSUME NEW a \in DOMAIN M
      PROVE  \E j \in 1 .. n :
               /\ a \in Touched(T[j]) /\ \A m \in j + 1 .. n : a \notin Touched(T[m])
               /\ T[j].do = "store" => M[a] = T[j].value
  <2>1. CASE a \in Touched(x)
    <3>1. \A m \in n + 1 .. n : a \notin Touched(T[m])
      BY <1>5
    <3> QED BY <1>4, <1>5, <1>7, <2>1, <3>1
  <2>2. CASE a \notin Touched(x)
    <3>1. a \in D /\ M[a] = mem[a]
      BY <1>7, <2>2
    <3>2. PICK j \in 1 .. n - 1 :
            /\ a \in Touched(T[j]) /\ \A m \in j + 1 .. n - 1 : a \notin Touched(T[m])
            /\ T[j].do = "store" => mem[a] = T[j].value
      BY <1>6, <3>1
    <3>3. \A m \in j + 1 .. n : a \notin Touched(T[m])
      BY <1>4, <1>5, <2>2, <3>2, Zenon
    <3> QED BY <1>5, <3>1, <3>2, <3>3, Zenon
  <2> QED BY <2>1, <2>2
<1>10. pc' \in Nat \ {0} /\ n = pc' - 1 /\ file' \in Files
  BY <1>2, <1>5 DEF MemInv
<1>11. Traced(T, n, M)
  BY <1>8, <1>9, Zenon DEF Traced
<1>12. T = text' /\ M = mem'
  BY <1>1, <1>3
<1>13. \A j \in 1 .. n : j <= Len(T)
  <2>1. \A j \in 1 .. n - 1 : j <= Len(T)
    BY <1>2, <1>3 DEF MemInv
  <2>2. n <= Len(T)
    BY <1>2, <1>3
  <2> QED BY <1>5, <2>1, <2>2
<1> QED BY <1>10, <1>11, <1>12, <1>13, Zenon DEF MemInv

LEMMA MemStays ==
  ASSUME MemInv, UNCHANGED <<file, pc, mem>>
  PROVE  MemInv'
<1>1. text' = text
  BY Zenon DEF text
<1> QED BY <1>1, Zenon DEF MemInv

\* The shell hands on what goes to its second port.
LEMMA WriteTouches ==
  ASSUME NEW addr, NEW value, shell_write(addr, value)
  PROVE  /\ Port(addr) = 1 => Put(Translated(addr), value)
         /\ Port(addr) # 1 => mem' = mem
BY DEF shell_write

LEMMA MemStep ==
  ASSUME MemInv, [Next]_vars
  PROVE  MemInv'
<1>1. CASE StoreWord
  <2>1. /\ instr.do = "store" /\ shell_write(instr.addr, instr.value)
        /\ file' = file /\ pc' = pc + 1 /\ pc <= Len(text)
    BY <1>1 DEF StoreWord, At, Step
  <2>2. CASE Port(instr.addr) = 1
    <3>1. Touched(instr) = {Translated(instr.addr)}
      BY <2>1, <2>2 DEF Touched
    <3>2. Put(Translated(instr.addr), instr.value)
      BY <2>1, <2>2, WriteTouches, Zenon
    <3> QED BY <2>1, <3>1, <3>2, MemGoesOn
  <2>3. CASE Port(instr.addr) # 1
    <3>1. Touched(instr) = {}
      BY <2>1, <2>3 DEF Touched
    <3>2. mem' = mem
      BY <2>1, <2>3, WriteTouches, Zenon
    <3> QED BY <2>1, <3>1, <3>2, MemGoesOn
  <2> QED BY <2>2, <2>3
<1>2. CASE ClipWord
  <2>1. PICK kept : /\ instr.do = "clip" /\ shell_write(instr.addr, kept)
                    /\ file' = file /\ pc' = pc + 1 /\ pc <= Len(text)
    BY <1>2 DEF ClipWord, At, Step
  <2>2. CASE Port(instr.addr) = 1
    <3>1. Touched(instr) = {Translated(instr.addr)} /\ instr.do # "store"
      BY <2>1, <2>2 DEF Touched
    <3>2. Put(Translated(instr.addr), kept)
      BY <2>1, <2>2, WriteTouches, Zenon
    <3> QED BY <2>1, <3>1, <3>2, MemGoesOn
  <2>3. CASE Port(instr.addr) # 1
    <3>1. Touched(instr) = {}
      BY <2>1, <2>3 DEF Touched
    <3>2. mem' = mem
      BY <2>1, <2>3, WriteTouches, Zenon
    <3> QED BY <2>1, <3>1, <3>2, MemGoesOn
  <2> QED BY <2>2, <2>3
<1>3. CASE TestMtimecmp
  <2>1. file' = file /\ pc' = pc + 1 /\ pc <= Len(text)
    BY <1>3 DEF TestMtimecmp, At, Step
  <2>2. CASE instr.do = "write timer"
    <3>1. Touched(instr) = {mtimecmp_csr} /\ instr.do # "store"
      BY <2>2 DEF Touched
    <3>2. At("write timer")
      BY <1>3, <2>2, Zenon DEF TestMtimecmp, At
    <3>3. Put(mtimecmp_csr, mtimecmp + 1)
      BY <1>3, <3>2, Zenon DEF TestMtimecmp
    <3> QED BY <2>1, <3>1, <3>3, MemGoesOn
  <2>3. CASE instr.do # "write timer"
    <3>1. instr.do \in {"read timer", "check timer"} /\ ~At("write timer")
      BY <1>3, <2>3 DEF TestMtimecmp, At
    <3>2. Touched(instr) = {}
      BY <3>1 DEF Touched
    <3>3. mem' = mem
      BY <1>3, <3>1, Zenon DEF TestMtimecmp
    <3> QED BY <2>1, <3>2, <3>3, MemGoesOn
  <2> QED BY <2>2, <2>3
<1>4. CASE PeekWord \/ ExpectWord \/ WriteBit \/ TakeArguments \/ LeaveLoop
  <2>1. /\ instr.do \in {"peek", "expect", "bit", "args", "host"} /\ mem' = mem
        /\ file' = file /\ (pc' = pc + 1 \/ pc' = pc) /\ pc <= Len(text)
    BY <1>4 DEF PeekWord, ExpectWord, WriteBit, TakeArguments, LeaveLoop, At, Step
  <2>2. Touched(instr) = {}
    BY <2>1 DEF Touched
  <2>3. CASE pc' = pc + 1
    BY <2>1, <2>2, <2>3, MemGoesOn
  <2>4. CASE pc' = pc
    BY <2>1, <2>4, MemStays
  <2> QED BY <2>1, <2>3, <2>4
<1>5. CASE \/ Done \/ get_next_packet \/ ProcessWrite \/ LookUp \/ ReplyRom \/ ProcessRead
           \/ GetAnswer \/ (\E demand \in Demands : Ask(demand)) \/ UNCHANGED vars
  <2>1. UNCHANGED <<file, pc, mem>>
    BY <1>5, Zenon DEF Done, get_next_packet, ProcessWrite, LookUp, ReplyRom, ProcessRead,
                       GetAnswer, Ask, ps, vars
  <2> QED BY <2>1, MemStays, Zenon
<1> QED BY <1>1, <1>2, <1>3, <1>4, <1>5, Zenon DEF Next, ProgramStep

LEMMA MemInit ==
  ASSUME Init
  PROVE  MemInv
<1>1. pc = 1 /\ file \in Files /\ mem = << >>
  BY DEF Init
<1>2. pc - 1 = 0 /\ 1 .. 0 = {}
  BY <1>1
<1>3. PICK M : M = mem /\ DOMAIN M = {}
  BY <1>1
<1> QED BY <1>1, <1>2, <1>3 DEF MemInv, Traced

\* The words of line k are in place when the core may go behind a later line.
LEMMA LoadedBefore ==
  ASSUME MemInv, NEW b, NEW c, NEW at, Chart(text, b, c, at),
         NEW go \in 1 .. Len(file), NEW j \in 1 .. pc - 1, j > c + at[go],
         Len(file) \in Nat, NEW k \in 1 .. go - 1, NEW a, Writes(k, a),
         \A m \in k + 1 .. Len(file) : ~Writes(m, a)
  PROVE  Held(a) = Word(k, a)
<1>1. PICK n, p, T : /\ n = Len(file) /\ p = pc - 1 /\ T = text
                     /\ n \in Nat /\ p \in Nat
  BY DEF MemInv
<1>2. /\ b \in Nat /\ c \in Nat /\ b <= c /\ at \in [1 .. n + 1 -> Nat]
      /\ \A l, m \in 1 .. n + 1 : l <= m => at[l] <= at[m]
  BY <1>1 DEF Chart
<1>3. k \in 1 .. n /\ k \in 1 .. n + 1 /\ k + 1 \in 1 .. n + 1 /\ go \in 1 .. n + 1 /\ k + 1 <= go
  BY <1>1
<1>4. at[k] \in Nat /\ at[k + 1] \in Nat /\ at[go] \in Nat /\ at[k + 1] <= at[go]
  BY <1>2, <1>3
<1>5. PICK i \in c + at[k] + 1 .. c + at[k + 1] :
        i \in 1 .. Len(T) /\ Stores(T[i], a, Word(k, a))
  BY <1>1, <1>3 DEF Chart
<1>6. i \in 1 .. p /\ i > c + at[k] /\ i \in Nat
  BY <1>1, <1>2, <1>4, <1>5
<1>7. a \in DOMAIN mem /\ a \in Touched(T[i])
  <2>1. a \in Touched(T[i])
    BY <1>5 DEF Stores
  <2> QED BY <1>1, <1>6, <2>1 DEF MemInv, Traced
<1>8. PICK h \in 1 .. p :
        /\ a \in Touched(T[h]) /\ \A m \in h + 1 .. p : a \notin Touched(T[m])
        /\ T[h].do = "store" => mem[a] = T[h].value
  BY <1>1, <1>7 DEF MemInv, Traced
<1>9. h >= i
  <2>1. ASSUME h < i PROVE FALSE
    <3>1. i \in h + 1 .. p
      BY <1>6, <2>1
    <3> QED BY <1>7, <1>8, <3>1
  <2> QED BY <1>6, <2>1
<1>10. h \in 1 .. Len(T)
  <2>1. Len(T) \in Int
    BY <1>1, SeqFacts DEF Chart
  <2>2. h <= Len(T)
    BY <1>1, <1>8 DEF MemInv
  <2> QED BY <2>1, <2>2
<1>11. PICK m \in 1 .. n : /\ h \in c + at[m] + 1 .. c + at[m + 1]
                           /\ Writes(m, a) /\ Stores(T[h], a, Word(m, a))
  <2>1. \/ h <= b \/ h \in b + 1 .. c
        \/ \E m \in 1 .. n : /\ h \in c + at[m] + 1 .. c + at[m + 1]
                             /\ Writes(m, a) /\ Stores(T[h], a, Word(m, a))
    BY <1>1, <1>8, <1>10 DEF Chart
  <2>2. h > c
    BY <1>2, <1>4, <1>6, <1>9
  <2> QED BY <1>2, <2>1, <2>2
<1>12. m = k
  <2>1. ~(m > k)
    <3>1. m > k => m \in k + 1 .. n
      OBVIOUS
    <3> QED BY <1>1, <1>11, <3>1
  <2>2. ASSUME m < k PROVE FALSE
    <3>1. m + 1 \in 1 .. n + 1 /\ m + 1 <= k
      BY <1>1, <1>3, <2>2
    <3>2. at[m + 1] \in Nat /\ at[m + 1] <= at[k]
      BY <1>2, <1>3, <3>1
    <3>3. h <= c + at[m + 1]
      BY <1>11
    <3>4. h \in Nat
      BY <1>1, <1>8
    <3>5. PICK x, y \in Nat : x = at[m + 1] /\ y = at[k]
      BY <1>4, <3>2
    <3>6. /\ x \in Nat /\ y \in Nat /\ c \in Nat /\ i \in Nat
          /\ x <= y /\ h <= c + x /\ i > c + y /\ h >= i
      BY <1>2, <1>6, <1>9, <3>2, <3>3, <3>5
    <3> QED BY ONLY <3>4, <3>6
  <2> QED BY <2>1, <2>2
<1>13. mem[a] = Word(k, a)
  BY <1>8, <1>11, <1>12 DEF Stores
<1> QED BY <1>7, <1>13 DEF Held

\* So is the configuration, but for what lines of the file overwrite.
LEMMA ConfiguredBefore ==
  ASSUME MemInv, NEW b, NEW c, NEW at, Chart(text, b, c, at), Len(file) \in Nat,
         NEW j \in 1 .. pc - 1, j > c,
         NEW a \in Config, \A k \in 1 .. Len(file) : ~Writes(k, a)
  PROVE  Held(a) = 1
<1>1. PICK p, T : p = pc - 1 /\ T = text /\ p \in Nat
  BY DEF MemInv
<1>2. b \in Nat /\ c \in Nat /\ b <= c
  BY DEF Chart
<1>3. PICK i \in b + 1 .. c : i \in 1 .. Len(T) /\ Stores(T[i], a, 1)
  BY <1>1 DEF Chart
<1>4. i \in 1 .. p /\ i > b /\ i \in Nat
  BY <1>1, <1>2, <1>3
<1>5. a \in DOMAIN mem /\ a \in Touched(T[i])
  <2>1. a \in Touched(T[i])
    BY <1>3 DEF Stores
  <2> QED BY <1>1, <1>4, <2>1 DEF MemInv, Traced
<1>6. PICK h \in 1 .. p :
        /\ a \in Touched(T[h]) /\ \A m \in h + 1 .. p : a \notin Touched(T[m])
        /\ T[h].do = "store" => mem[a] = T[h].value
  BY <1>1, <1>5 DEF MemInv, Traced
<1>7. h >= i
  <2>1. ASSUME h < i PROVE FALSE
    <3>1. i \in h + 1 .. p
      BY <1>4, <2>1
    <3> QED BY <1>5, <1>6, <3>1
  <2> QED BY <1>4, <2>1
<1>8. h \in 1 .. Len(T)
  <2>1. Len(T) \in Int
    BY <1>1, SeqFacts DEF Chart
  <2>2. h <= Len(T)
    BY <1>1, <1>6 DEF MemInv
  <2> QED BY <2>1, <2>2
<1>9. Stores(T[h], a, 1)
  <2>1. \/ h <= b \/ Stores(T[h], a, 1) \/ \E k \in 1 .. Len(file) : Writes(k, a)
    BY <1>1, <1>6, <1>8 DEF Chart
  <2> QED BY <1>2, <1>4, <1>7, <2>1
<1>10. mem[a] = 1
  BY <1>6, <1>9 DEF Stores
<1> QED BY <1>5, <1>10 DEF Held

\* It is a line of the file that lets the core go.
LEMMA LineLetsGo ==
  ASSUME MemInv, NEW b, NEW c, NEW at, Chart(text, b, c, at), Len(file) \in Nat,
         Held(freeze) = 0
  PROVE  \E go \in 1 .. Len(file), j \in 1 .. pc - 1 :
           j > c /\ j > c + at[go] /\ Writes(go, freeze) /\ Word(go, freeze) = 0
<1>1. PICK n, p, T, a : /\ n = Len(file) /\ p = pc - 1 /\ T = text /\ a = freeze
                        /\ n \in Nat /\ p \in Nat
  BY DEF MemInv
<1>2. a \in DOMAIN mem /\ mem[a] = 0
  BY <1>1 DEF Held
<1>3. PICK j \in 1 .. p :
        a \in Touched(T[j]) /\ (T[j].do = "store" => mem[a] = T[j].value)
  BY <1>1, <1>2 DEF MemInv, Traced
<1>4. a # mtimecmp_csr
  BY <1>1, SMT DEF freeze, mtimecmp_csr
<1>5. \/ Stores(T[j], a, 1)
      \/ \E k \in 1 .. n : /\ j \in c + at[k] + 1 .. c + at[k + 1]
                           /\ Writes(k, a) /\ Stores(T[j], a, Word(k, a))
  <2>1. \A l \in 1 .. Len(T) : l = j => \/ Stores(T[j], a, 1)
              \/ \E k \in 1 .. n : /\ j \in c + at[k] + 1 .. c + at[k + 1]
                                   /\ Writes(k, a) /\ Stores(T[j], a, Word(k, a))
    BY <1>1, <1>3, <1>4 DEF Chart
  <2>2. j <= Len(T)
    BY <1>1, <1>3 DEF MemInv
  <2>3. Len(T) \in Int
    BY <1>1, SeqFacts DEF Chart
  <2> QED BY <2>1, <2>2, <2>3
<1>6. PICK k \in 1 .. n : /\ j \in c + at[k] + 1 .. c + at[k + 1]
                          /\ Writes(k, a) /\ Stores(T[j], a, Word(k, a))
  BY <1>2, <1>3, <1>5 DEF Stores
<1>7. Word(k, a) = 0
  BY <1>2, <1>3, <1>6 DEF Stores
<1>8. j > c /\ j > c + at[k]
  <2>1. c \in Nat /\ at[k] \in Nat
    BY <1>1 DEF Chart
  <2> QED BY <1>6, <2>1
<1> QED BY <1>1, <1>6, <1>7, <1>8

\* nbf_load: whatever the file, if it has words for addresses that the port can express
\* and nothing else, every word ahead of the line that lets the core go is in place
\* before the core runs, and so is the configuration.
THEOREM FileIsLoaded == Spec => []CoreStartsLoaded
<1>1. MemInv => CoreStartsLoaded
  <2> SUFFICES ASSUME MemInv, CoreRuns, OnlyWords
               PROVE  CoreStartsLoaded
    BY DEF CoreStartsLoaded
  <2>1. file \in Files /\ Held(freeze) = 0
    BY DEF MemInv, CoreRuns
  <2>2. Len(file) \in Nat /\ DOMAIN file = 1 .. Len(file)
    BY <2>1, LoadedWhole
  <2>3. PICK b, c, at : Chart(text, b, c, at)
    BY <2>1, TextCharted
  <2>4. PICK go \in 1 .. Len(file), j \in 1 .. pc - 1 :
          j > c /\ j > c + at[go] /\ Writes(go, freeze) /\ Word(go, freeze) = 0
    BY <2>1, <2>2, <2>3, LineLetsGo
  <2>5. \A k \in 1 .. go - 1 : \A a :
          Writes(k, a) /\ (\A m \in k + 1 .. Len(file) : ~Writes(m, a))
            => Held(a) = Word(k, a)
    BY <2>2, <2>3, <2>4, LoadedBefore
  <2>6. \A a \in Config : (\A k \in 1 .. Len(file) : ~Writes(k, a)) => Held(a) = 1
    BY <2>2, <2>3, <2>4, ConfiguredBefore
  <2> QED BY <2>2, <2>4, <2>5, <2>6 DEF CoreStartsLoaded
<1>2. Init => MemInv
  BY MemInit
<1>3. MemInv /\ [Next]_vars => MemInv'
  BY MemStep
<1> QED BY <1>1, <1>2, <1>3, PTL DEF Spec

-----------------------------------------------------------------------------
(* The reads of a counter (Counter64.tla), for every size of the words. *)


(***************************************************************************)
(* What the reads have established at each point of a pass.  The second    *)
(* conjunct of HighBounds pays for the pass that fails: the high word must *)
(* then have passed val_hi.  LowBounds says nothing once it has.           *)
(***************************************************************************)
HighBounds ==
  reading \in {"lo", "hi2"} =>
    /\ began.hi <= val_hi /\ val_hi <= count.hi
    /\ retries <= val_hi - began.hi

LowBounds ==
  reading = "hi2" /\ count.hi = val_hi =>
    /\ val_lo <= count.lo
    /\ began.hi < val_hi \/ (began.hi = val_hi /\ began.lo <= val_lo)

CounterInv ==
  /\ CounterTypeOK
  /\ NotAfter(began, count)
  /\ HighBounds /\ LowBounds
  /\ RetriesPaid /\ Untorn

(***************************************************************************)
(* The counter never goes back.                                            *)
(***************************************************************************)
LEMMA AdvanceOrders ==
  ASSUME CounterTypeOK, Advance
  PROVE  /\ count' \in Counts
         /\ count.hi <= count'.hi
         /\ count'.hi = count.hi => count.lo <= count'.lo
<1>1. CASE count.lo < Half - 1 /\ count' = [count EXCEPT !.lo = count.lo + 1]
  BY <1>1, CounterAssumption DEF CounterTypeOK, Counts
<1>2. CASE /\ count.lo = Half - 1 /\ count.hi < MaxHigh
           /\ count' = [hi |-> count.hi + 1, lo |-> 0]
  BY <1>2, CounterAssumption DEF CounterTypeOK, Counts
<1> QED BY <1>1, <1>2 DEF Advance

\* Every step of the call and every count keeps what each reading knows of the words.
LEMMA CounterInvStep ==
  ASSUME CounterInv, [CounterNext]_counterVars
  PROVE  CounterInv'
<1> USE CounterAssumption DEF CounterInv, CounterTypeOK, Counts
<1>1. CASE Advance
  <2>1. /\ count' \in Counts
        /\ count.hi <= count'.hi
        /\ count'.hi = count.hi => count.lo <= count'.lo
    BY <1>1, AdvanceOrders
  <2>2. UNCHANGED <<reading, val_hi, val_lo, val, began, retries>>
    BY <1>1 DEF Advance
  <2>3. CounterTypeOK'
    BY <2>1, <2>2
  <2>4. NotAfter(began, count)'
    BY <2>1, <2>2 DEF NotAfter
  <2>5. HighBounds' /\ RetriesPaid'
    BY <2>1, <2>2 DEF HighBounds, RetriesPaid
  <2>6. LowBounds'
    BY <2>1, <2>2 DEF LowBounds, HighBounds
  <2>7. Untorn'
    BY <2>1, <2>2 DEF Untorn, NotAfter
  <2> QED BY <2>3, <2>4, <2>5, <2>6, <2>7
<1>2. CASE Start
  BY <1>2 DEF Start, NotAfter, HighBounds, LowBounds, RetriesPaid, Untorn
<1>3. CASE ReadHi
  <2>1. began.hi <= count.hi
    BY DEF NotAfter
  <2> QED
    BY <1>3, <2>1 DEF ReadHi, NotAfter, HighBounds, LowBounds, RetriesPaid, Untorn
<1>4. CASE ReadLo
  BY <1>4 DEF ReadLo, NotAfter, HighBounds, LowBounds, RetriesPaid, Untorn
<1>5. CASE ReadHi2
  <2>1. CASE count.hi = val_hi
    <3>1. val' \in Int
      BY <1>5, <2>1 DEF ReadHi2, Widened
    <3> QED
      BY <1>5, <2>1, <3>1 DEF ReadHi2, NotAfter, HighBounds, LowBounds, RetriesPaid, Untorn
  <2>2. CASE count.hi # val_hi
    BY <1>5, <2>2 DEF ReadHi2, NotAfter, HighBounds, LowBounds, RetriesPaid, Untorn
  <2> QED BY <2>1, <2>2
<1>6. CASE UNCHANGED counterVars
  BY <1>6 DEF counterVars, NotAfter, HighBounds, LowBounds, RetriesPaid, Untorn
<1> QED BY <1>1, <1>2, <1>3, <1>4, <1>5, <1>6 DEF CounterNext

LEMMA CounterInvariant == CounterSpec => []CounterInv
<1>1. CounterInit => CounterInv
  BY CounterAssumption
     DEF CounterInit, CounterInv, CounterTypeOK, Counts, NotAfter, HighBounds,
         LowBounds, RetriesPaid, Untorn
<1> QED BY <1>1, CounterInvStep, PTL DEF CounterSpec

(***************************************************************************)
(* A call returns the two halves of one value of the counter: the repeated *)
(* read of the high word is enough, whatever happens between the reads     *)
(* (get_counter_64, shell_read64b).                                        *)
(***************************************************************************)
THEOREM CounterReadsUntorn == CounterSpec => []Untorn
<1>1. CounterInv => Untorn
  BY DEF CounterInv
<1> QED BY <1>1, CounterInvariant, PTL

(***************************************************************************)
(* A call makes no more passes than there are carries into the high word   *)
(* while it runs, and one: the loop of get_counter_64 cannot spin.         *)
(***************************************************************************)
THEOREM CounterRetriesPaid == CounterSpec => []RetriesPaid
<1>1. CounterInv => RetriesPaid
  BY DEF CounterInv
<1> QED BY <1>1, CounterInvariant, PTL
=============================================================================
