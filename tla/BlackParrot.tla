------------------------------ MODULE BlackParrot ------------------------------
(***************************************************************************)
(* cosim/black-parrot-example: its program ps.cpp with the tag driver and  *)
(* the host, against the shell's registers, the tag master, the memory map *)
(* of the processor and a core that asks the host for things.              *)
(*                                                                         *)
(* The program is the sequence of instructions it performs.  A call of the *)
(* shell is one step (ShellHost implements MmioDevice), and so is each bit *)
(* of a tag message.  Addresses are word addresses: bytes divided by four. *)
(***************************************************************************)
EXTENDS TagLink, SequencesExt

CONSTANTS
  Files,         \* the nbf files, sequences of lines
  Demands,       \* what the core may ask of the host
  FifoEls,       \* words in the FIFOs of the shell
  MaxDemands,    \* bound: demands before the core finishes
  NCPUS, RomWords

\* The port of the boot ROM has some of the twelve bits that the host writes.
ASSUME BlackParrotAssumption ==
  /\ \A f \in Files : f \in Seq(Range(f))
  /\ Demands \subseteq [write : BOOLEAN, addr : Nat]
  /\ RomWords \in Nat \ {0} /\ 4096 % RomWords = 0

VARIABLES
  file,              \* the nbf file
  pc, status,        \* the next instruction; running, done, or why it stopped
  packet,            \* the packet in the host's hands, or none
  looked,            \* the address of the boot ROM is written
  finished,          \* the host has seen the end
  regs,              \* CSRs that the program has written
  master, clients,   \* the tag master, the bit of each of its clients
  mem,               \* words of the processor's map that have been written
  mtimecmp,          \* what the program read from this register
  pl2ps, ps2pl,      \* the FIFOs
  reads, answers,    \* what the core has asked to read, what it got, in order
  writes, ended      \* how often it has written, and whether it has finished

ps == <<file, pc, status, packet, looked, finished, mtimecmp>>
tags == <<master, clients>>
core == <<reads, answers, writes, ended>>
vars == <<ps, regs, tags, mem, pl2ps, ps2pl, core>>

-----------------------------------------------------------------------------
(* The address map *)

GP0 == \h10000000
GP0Words == 2 ^ 8
GP1 == \h20000000
GP1Words == 2 ^ 28
DRAM == \h20000000            \* DRAM_BASE_ADDR, in the map of the processor
CSR_BASE == GP1 + \h8000000   \* GP1_CSR_BASE_ADDR

SYS_RESETN == GP0
TAG_BITBANG == GP0 + 1
DRAM_INITED == GP0 + 2
DRAM_BASE == GP0 + 3
BOOTROM_ADDR == GP0 + 4
MINSTRET == GP0 + 8
MEM_PROF == GP0 + 10

freeze == \h80002             \* 0x200008
mtime == \hC2FFE              \* 0x30bff8
mtimecmp_csr == \hC1000       \* 0x304000

npc == \h80004               \* 0x200010
icache_mode == \h80082       \* 0x200208
dcache_mode == \h80102       \* 0x200408
cce_mode == \h80182          \* 0x200608
Config == {freeze, npc, icache_mode, dcache_mode, cce_mode}

\* The port to which the shell sends an address, the ends of the windows
\* included; 2 is no port, where a call does nothing but complain.
Port(addr) ==
  CASE addr \in GP0 .. GP0 + GP0Words -> 0
    [] addr \in GP1 .. GP1 + GP1Words -> 1
    [] OTHER -> 2

\* Where an address of the second port is in the map of the processor.
Translated(addr) ==
  LET offset == addr - GP1
  IN (IF (offset \div 2 ^ 27) % 2 = 0 THEN DRAM ELSE 0) + (offset % 2 ^ 26)

Held(addr) == IF addr \in DOMAIN mem THEN mem[addr]
              ELSE IF addr = freeze THEN 1 ELSE 0

-----------------------------------------------------------------------------
(* The text of ps_main.  No bit of a word but the low one of TAG_BITBANG   *)
(* and SYS_RESETN is looked at, so a word is a small number.               *)

Store(addr, value) == <<[do |-> "store", addr |-> addr, value |-> value]>>
Expect(addr, value) == <<[do |-> "expect", addr |-> addr, value |-> value]>>
Peek(addr) == <<[do |-> "peek", addr |-> addr]>>
Clip(addr) == <<[do |-> "clip", addr |-> addr]>>
Do(what) == <<[do |-> what]>>

\* The bits of a tag operation.  synced says that the master is expected to
\* follow, lands which message it is to have taken in with the bit.
Bang(bits, synced, lands) ==
  [i \in 1 .. Len(bits) |->
     [do |-> "bit", value |-> bits[i], synced |-> synced,
      lands |-> IF i = Len(bits) - 1 THEN lands ELSE {}]]

pl_reset_client == [id |-> 0, width |-> 1]
wd_reset_client == [id |-> 1, width |-> 1]

ResetMaster == Bang(reset_master, FALSE, {})
ResetClient(client) == Bang(reset_client(client), TRUE, {<<client.id, 0, 1>>})
SetClient(client, bit) == Bang(set_client(client, bit), TRUE, {<<client.id, 1, bit>>})
Idle == Bang(idle(50), TRUE, {})

DeadBeef == 7
Phys == 5

TestRegister ==
  Peek(SYS_RESETN) \o Peek(TAG_BITBANG) \o Peek(DRAM_INITED) \o Peek(DRAM_BASE)
    \o Store(DRAM_BASE, DeadBeef) \o Expect(DRAM_BASE, DeadBeef)
    \o Store(DRAM_BASE, 0) \o Expect(DRAM_BASE, 0)

\* Mutant of ResetByTags: the system leaves reset with the processor held.
ResetByTagsHeld ==
  ResetMaster \o ResetClient(pl_reset_client) \o ResetClient(wd_reset_client)
    \o SetClient(pl_reset_client, 1) \o SetClient(wd_reset_client, 1)
    \o Idle \o Store(SYS_RESETN, 1)

ResetByTags ==
  ResetMaster \o ResetClient(pl_reset_client) \o ResetClient(wd_reset_client)
    \o SetClient(pl_reset_client, 1) \o SetClient(wd_reset_client, 1)
    \o SetClient(pl_reset_client, 0) \o Idle \o Store(SYS_RESETN, 1)

\* The bitstream is loaded anew by every run, so DRAM_INITED reads zero.
AllocateDram ==
  Expect(DRAM_INITED, 0)
    \o Store(DRAM_BASE, Phys) \o Expect(DRAM_BASE, Phys)
    \o Store(DRAM_INITED, 1) \o Expect(DRAM_INITED, 1)

Counter(addr) == Peek(addr + 1) \o Peek(addr) \o Peek(addr + 1)

TestClint ==
  FlattenSeq([q \in 1 .. 10 |-> Counter(CSR_BASE + mtime)])
    \o Do("read timer") \o Do("write timer") \o Do("check timer")

Configure ==
  Store(CSR_BASE + freeze, 1) \o Store(CSR_BASE + npc, 1)
    \o Store(CSR_BASE + icache_mode, 1) \o Store(CSR_BASE + dcache_mode, 1)
    \o Store(CSR_BASE + cce_mode, 1)

\* Mutant of base: the first word of the DRAM goes to the CSRs.
base_exclusive(line) == IF line.addr > DRAM THEN GP1 - DRAM ELSE CSR_BASE
base(line) == IF line.addr >= DRAM THEN GP1 - DRAM ELSE CSR_BASE

\* A byte or a halfword is put into the word read: + binds tighter than &, so
\* what is written has some of the bits of the old word and no others.
Command(line) ==
  LET addr == base(line) + line.addr
  IN CASE line.op = "3" -> Store(addr, line.low) \o Store(addr + 1, line.high)
       [] line.op = "2" -> Store(addr, line.low)
       [] line.op \in {"0", "1"} -> Clip(addr)
       [] OTHER -> << >>

\* Lines up to one with a command that the loader does not know.
Known(f) ==
  IF \E k \in DOMAIN f : f[k].op = "unknown"
  THEN SubSeq(f, 1, SelectInSeq(f, LAMBDA line : line.op = "unknown") - 1)
  ELSE f

nbf_load(f) == FlattenSeq([k \in 1 .. Len(Known(f)) |-> Command(Known(f)[k])])

\* The address that is to unfreeze the core lacks the base of the port.
Run ==
  Store(freeze, 0) \o Counter(MINSTRET) \o Counter(CSR_BASE + mtime)
    \o SetClient(wd_reset_client, 1) \o Idle
    \o Do("host")
    \o SetClient(wd_reset_client, 1) \o Idle

Report ==
  Counter(MINSTRET) \o Counter(CSR_BASE + mtime) \o Counter(MINSTRET)
    \o FlattenSeq([i \in 1 .. 4 |-> Peek(MEM_PROF + 4 - i)])

ps_main(f) ==
  TestRegister \o ResetByTags \o AllocateDram \o Do("args") \o TestClint
    \o Configure \o nbf_load(f) \o Run \o Report

\* The text for each file, evaluated once.
Texts == {<<f, ps_main(f)>> : f \in Files}

-----------------------------------------------------------------------------
text == (CHOOSE t \in Texts : t[1] = file)[2]
instr == text[pc]

At(do) == status = "running" /\ pc <= Len(text) /\ instr.do = do

\* A CSR of the processor answers only when the processor is out of reset.
BpReset == regs[SYS_RESETN] = 0 \/ clients[0] = 1
Reachable(addr) == Port(addr) = 1 => ~BpReset

\* Until it is reset the tag master is anywhere in any message.  The zeros that it
\* has counted do not matter: the first bit that it gets is a one.
LostMasters ==
  LET strings(n) == [1 .. n -> {0, 1}]
      within == {bits \in UNION {strings(HeaderLen + n) : n \in 0 .. Pow2[MaxLen] - 2} :
                   Len(bits) < HeaderLen + Width(bits)}
  IN {[mode |-> m, bits |-> << >>, zeros |-> 0] : m \in {"lost", "idle"}} \cup
     {[mode |-> "header", bits |-> b, zeros |-> 0] :
        b \in UNION {strings(n) : n \in 0 .. HeaderLen - 1}} \cup
     {[mode |-> "payload", bits |-> b, zeros |-> 0] : b \in within}

Init ==
  /\ file \in Files
  /\ pc = 1 /\ status = "running" /\ finished = FALSE
  /\ packet = << >> /\ looked = FALSE /\ mtimecmp = 0
  /\ regs = [r \in GP0 .. GP0 + 4 |-> 0]
  /\ master \in LostMasters /\ clients \in [0 .. 1 -> {0, 1}]
  /\ mem = << >>
  /\ pl2ps = << >> /\ ps2pl = << >>
  /\ reads = << >> /\ answers = << >> /\ writes = 0 /\ ended = FALSE

Step == pc' = pc + 1 /\ UNCHANGED <<file, packet, looked, finished>>

-----------------------------------------------------------------------------
(* The program up to the host loop and after it *)

Put(addr, value) ==
  mem' = [a \in DOMAIN mem \cup {addr} |-> IF a = addr THEN value ELSE mem[a]]

shell_write(addr, value) ==
  /\ Reachable(addr)
  /\ CASE Port(addr) = 0 -> regs' = [regs EXCEPT ![addr] = value] /\ UNCHANGED mem
       [] Port(addr) = 1 -> Put(Translated(addr), value) /\ UNCHANGED regs
       [] OTHER -> UNCHANGED <<regs, mem>>

StoreWord ==
  /\ At("store") /\ shell_write(instr.addr, instr.value)
  /\ Step /\ UNCHANGED <<status, mtimecmp, tags, pl2ps, ps2pl, core>>

ExpectWord ==
  /\ At("expect")
  /\ IF regs[instr.addr] = instr.value THEN Step /\ UNCHANGED status
     ELSE status' = "aborted" /\ UNCHANGED <<file, pc, packet, looked, finished>>
  /\ UNCHANGED <<mtimecmp, regs, tags, mem, pl2ps, ps2pl, core>>

PeekWord ==
  /\ At("peek") /\ Reachable(instr.addr)
  /\ Step /\ UNCHANGED <<status, mtimecmp, regs, tags, mem, pl2ps, ps2pl, core>>

ClipWord ==
  /\ At("clip")
  /\ \E kept \in {0, Held(Translated(instr.addr))} : shell_write(instr.addr, kept)
  /\ Step /\ UNCHANGED <<status, mtimecmp, tags, pl2ps, ps2pl, core>>

TestMtimecmp ==
  /\ At("read timer") \/ At("write timer") \/ At("check timer")
  /\ ~BpReset
  /\ mtimecmp' = IF At("read timer") THEN Held(mtimecmp_csr) ELSE mtimecmp
  /\ IF At("write timer") THEN Put(mtimecmp_csr, mtimecmp + 1) ELSE UNCHANGED mem
  /\ status' = IF At("check timer") /\ Held(mtimecmp_csr) # mtimecmp + 1
               THEN "aborted" ELSE status
  /\ Step /\ UNCHANGED <<regs, tags, pl2ps, ps2pl, core>>

\* One bit for the tag master, and the message that it completes.
WriteBit ==
  /\ At("bit")
  /\ regs' = [regs EXCEPT ![TAG_BITBANG] = instr.value]
  /\ master' = Shifted(master, instr.value)
  /\ LET bits == Append(master.bits, instr.value)
         lands == Delivers(master, instr.value) /\ Client(bits) \in DOMAIN clients
     IN IF ~lands \/ Width(bits) = 0 THEN UNCHANGED clients
        ELSE \E bit \in {0, 1} :
               /\ DataNotReset(bits) = 1 => bit = Payload(bits)
               /\ clients' = [clients EXCEPT ![Client(bits)] = bit]
  /\ Step /\ UNCHANGED <<status, mtimecmp, mem, pl2ps, ps2pl, core>>

TakeArguments ==
  /\ At("args")
  /\ \/ Step /\ UNCHANGED status
     \/ status' = "no file" /\ UNCHANGED <<file, pc, packet, looked, finished>>
  /\ UNCHANGED <<mtimecmp, regs, tags, mem, pl2ps, ps2pl, core>>

Done ==
  /\ status = "running" /\ pc > Len(text)
  /\ status' = "done"
  /\ UNCHANGED <<file, pc, packet, looked, finished, mtimecmp, regs, tags, mem,
                 pl2ps, ps2pl, core>>

-----------------------------------------------------------------------------
(* The host *)

\* Where each of them begins, and where it ends.
Windows ==
  [getc |-> <<\h100000, \h101000>>, putc |-> <<\h101000, \h102000>>,
   fini |-> <<\h102000, \h103000>>, putch |-> <<\h103000, \h104000>>,
   putint |-> <<\h105000, \h106000>>, brom |-> <<\h110000, \h120000>>,
   prom |-> <<\h120000, \h130000>>]

Within(addr, window) == Windows[window][1] <= addr /\ addr < Windows[window][2]

\* The parameters that it has: the number of cores in each direction.
CC_X_DIM == \h120000
CC_Y_DIM == \h120004

In(window) == Within(packet[1].addr, window)

get_next_packet ==
  /\ At("host") /\ packet = << >> /\ ~finished /\ pl2ps # << >>
  /\ packet' = <<Head(pl2ps)>> /\ pl2ps' = Tail(pl2ps)
  /\ UNCHANGED <<file, pc, status, looked, finished, mtimecmp, regs, tags, mem, ps2pl,
                 core>>

Processing(write) == At("host") /\ packet # << >> /\ packet[1].write = write

\* What the host does not know ends the program.
ProcessWrite ==
  /\ Processing(TRUE)
  /\ finished' = ~(In("putc") \/ In("putch") \/ In("putint"))
  /\ packet' = << >>
  /\ UNCHANGED <<file, pc, status, looked, mtimecmp, regs, tags, mem, pl2ps, ps2pl,
                 core>>

\* A word is written to the FIFO full or not, where the shell drops it.
Reply(word) == ps2pl' = IF Len(ps2pl) < FifoEls THEN Append(ps2pl, word) ELSE ps2pl

bootrom_addr(addr) == (addr \div 4) % 4096
RomAddress == bootrom_addr(packet[1].addr)

\* The ROM has a port of its own, to the low bits of the register.
RomData == <<"rom", regs[BOOTROM_ADDR] % RomWords>>

LookUp ==
  /\ Processing(FALSE) /\ In("brom") /\ ~looked
  /\ regs' = [regs EXCEPT ![BOOTROM_ADDR] = RomAddress]
  /\ looked' = TRUE
  /\ UNCHANGED <<file, pc, status, packet, finished, mtimecmp, tags, mem, pl2ps, ps2pl,
                 core>>

\* Mutant of ReplyRom: the data register is read ahead of the write of the address.
ReplyRomEarly ==
  /\ Processing(FALSE) /\ In("brom") /\ ~looked
  /\ Reply(RomData)
  /\ regs' = [regs EXCEPT ![BOOTROM_ADDR] = RomAddress]
  /\ packet' = << >>
  /\ UNCHANGED <<file, pc, status, looked, finished, mtimecmp, tags, mem, pl2ps, core>>

ReplyRom ==
  /\ Processing(FALSE) /\ In("brom") /\ looked
  /\ Reply(RomData)
  /\ packet' = << >> /\ looked' = FALSE
  /\ UNCHANGED <<file, pc, status, finished, mtimecmp, regs, tags, mem, pl2ps, core>>

\* A character, the number of cores, or 1; nothing for the rest of the parameter
\* ROM, and an errant read ends the program.
ProcessRead ==
  /\ Processing(FALSE) /\ ~In("brom")
  /\ CASE In("getc") -> Reply(<<"char", 0>>)
       [] packet[1].addr = CC_X_DIM -> Reply(<<"number", NCPUS>>)
       [] packet[1].addr = CC_Y_DIM -> Reply(<<"number", 1>>)
       [] OTHER -> UNCHANGED ps2pl
  /\ finished' = ~(In("getc") \/ In("prom"))
  /\ packet' = << >>
  /\ UNCHANGED <<file, pc, status, looked, mtimecmp, regs, tags, mem, pl2ps, core>>

LeaveLoop ==
  /\ At("host") /\ finished
  /\ Step /\ UNCHANGED <<status, mtimecmp, regs, tags, mem, pl2ps, ps2pl, core>>

-----------------------------------------------------------------------------
(* The core.  It waits for the answer of a read before it goes on. *)

CoreRuns == ~BpReset /\ Held(freeze) = 0

Waits == Len(answers) < Len(reads)
Ends(demand) == demand.write /\ Within(demand.addr, "fini")

Ask(demand) ==
  /\ CoreRuns /\ ~Waits /\ ~ended /\ Len(pl2ps) < FifoEls
  /\ Ends(demand) \/ Len(reads) + writes < MaxDemands
  /\ pl2ps' = Append(pl2ps, demand)
  /\ IF demand.write THEN writes' = writes + 1 /\ UNCHANGED reads
                     ELSE reads' = Append(reads, demand) /\ UNCHANGED writes
  /\ ended' = Ends(demand)
  /\ UNCHANGED <<ps, regs, tags, mem, ps2pl, answers>>

GetAnswer ==
  /\ Waits /\ ps2pl # << >>
  /\ answers' = Append(answers, Head(ps2pl)) /\ ps2pl' = Tail(ps2pl)
  /\ UNCHANGED <<ps, regs, tags, mem, pl2ps, reads, writes, ended>>

-----------------------------------------------------------------------------
ProgramStep ==
  \/ StoreWord \/ ExpectWord \/ PeekWord \/ ClipWord \/ TestMtimecmp \/ WriteBit
  \/ TakeArguments \/ Done
  \/ get_next_packet \/ ProcessWrite \/ LookUp \/ ReplyRom \/ ProcessRead \/ LeaveLoop

Finish == \E demand \in Demands : Ends(demand) /\ Ask(demand)

Next ==
  \/ ProgramStep \/ GetAnswer
  \/ \E demand \in Demands : Ask(demand)

Spec == Init /\ [][Next]_vars

\* The program runs, the bridge hands over answers, the software of the core ends.
FairSpec == Spec /\ WF_vars(ProgramStep) /\ WF_vars(GetAnswer) /\ WF_vars(Finish)

-----------------------------------------------------------------------------
\* bsg_tag_bitbang: wherever the master was at power-up, from the reset of the
\* master on it takes in each message as it was meant, with the last bit of the
\* payload, and nothing in between.
TagOpsLand ==
  [][At("bit") /\ pc' # pc /\ instr.synced =>
       LET bits == Append(master.bits, instr.value)
       IN instr.lands =
            IF Delivers(master, instr.value)
            THEN {<<Client(bits), DataNotReset(bits), Payload(bits)>>} ELSE {}]_vars

\* Line k of the file has a word for the address, and this one.
Writes(k, addr) ==
  \/ file[k].op \in {"2", "3"} /\ addr = file[k].addr
  \/ file[k].op = "3" /\ addr = file[k].addr + 1

Word(k, addr) == IF addr = file[k].addr THEN file[k].low ELSE file[k].high

\* The file has words and nothing else, for addresses that the port can express:
\* of the CSRs and of the DRAM it drops all but these bits.
Expressible(addr) ==
  addr \in 0 .. 2 ^ 26 - 1 \/ addr \in DRAM .. DRAM + 2 ^ 26 - 1

OnlyWords ==
  \A k \in DOMAIN file :
    /\ file[k].op \in {"2", "3", "fe", "ff"}
    /\ \A addr \in {file[k].addr, file[k].addr + 1} :
         Writes(k, addr) => Expressible(addr)

\* nbf_load: the core starts only when a line of the file lets it go, and then every
\* word of the file ahead of that line is at its own address of the processor's
\* map, whatever the windows and the translation in between, and so is the
\* configuration, unless the file overwrites it.
CoreStartsLoaded ==
  CoreRuns /\ OnlyWords =>
    \E go \in DOMAIN file :
      /\ Writes(go, freeze) /\ Word(go, freeze) = 0
      /\ \A k \in 1 .. go - 1 : \A addr \in {file[k].addr, file[k].addr + 1} :
           Writes(k, addr) /\ (\A m \in k + 1 .. Len(file) : ~Writes(m, addr))
             => Held(addr) = Word(k, addr)
      /\ \A addr \in Config \ {freeze} :
           (\A k \in DOMAIN file : ~Writes(k, addr)) => Held(addr) = 1

\* What a read of an address is to find: a character of the terminal, the word of
\* the boot ROM, the number of cores.
AnswerTo(addr) ==
  CASE Within(addr, "getc") -> <<"char", 0>>
    [] Within(addr, "brom") -> <<"rom", (addr \div 4) % RomWords>>
    [] addr = CC_X_DIM -> <<"number", NCPUS>>
    [] OTHER -> <<"number", 1>>

\* process_spack: each read of the core gets the answer to that read, the word of
\* the boot ROM at its own address or its own parameter, and in order.
AnswersMatch ==
  /\ Len(answers) <= Len(reads)
  /\ \A i \in DOMAIN answers : answers[i] = AnswerTo(reads[i].addr)

\* ps_main ends, if the file lets the core go and the core reads no parameter that
\* the host does not know, to which it gets no answer.
LetsGo == \E k \in DOMAIN Known(file) :
  Known(file)[k].addr = freeze /\ Known(file)[k].op \in {"2", "3"}
                               /\ Known(file)[k].low = 0

NoSuchParameter == \E i \in DOMAIN reads :
  Within(reads[i].addr, "prom") /\ reads[i].addr \notin {CC_X_DIM, CC_Y_DIM}

Completes == LetsGo => <>(status # "running" \/ NoSuchParameter)
=============================================================================
