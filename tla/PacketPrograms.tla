--------------------------- MODULE PacketPrograms ---------------------------
(***************************************************************************)
(* The three programs of cosim that talk to the PL in packets of several   *)
(* words: black-parrot-minimal-example, manycore-example and               *)
(* hammerblade-example, each ps.cpp.  A program is the sequence of         *)
(* instructions it performs; PacketLink runs them.                         *)
(*                                                                         *)
(* Registers are named, a tag message is one write (BlackParrot has        *)
(* its bits), and prints, register reads whose value is only printed and   *)
(* the counters around the host loop are left out (Counter64).             *)
(***************************************************************************)
EXTENDS Integers, Sequences, SequencesExt

Write(reg, value) == <<[do |-> "write", reg |-> reg, value |-> value]>>
Check(reg, value) == <<[do |-> "check", reg |-> reg, value |-> value]>>
Tick == <<[do |-> "tick"]>>
Args == <<[do |-> "args"]>>
Load == <<[do |-> "load"]>>
Drain == <<[do |-> "drain"]>>
Await(value) == <<[do |-> "await", value |-> value]>>
Serve(understood, count) ==
  <<[do |-> "serve", understood |-> understood, count |-> count]>>

Request(kind, dst, reg, value) ==
  [kind |-> kind, dst |-> dst, reg |-> reg, value |-> value]
Send(request) == <<[do |-> "send", request |-> request]>>

\* A local variable that is never assigned: bits that fit in a register or not.
Uninitialised == {"word", "wide"}

TestRegister(val) ==
  Write("dram_base", "deadbeef") \o Check("dram_base", "deadbeef")
    \o Write("dram_base", val) \o Check("dram_base", val)

\* The loader: each line of a file becomes some instructions.
Loaded(file, Command(_, _)) ==
  FlattenSeq([k \in 1 .. Len(file) |-> Command(file[k], k)])

-----------------------------------------------------------------------------
(* black-parrot-minimal-example.  The core is held by the CSR FREEZEN: its *)
(* configuration bus is wired to it, and the packets to 0x200008 and the   *)
(* like go to the memory as all others do.                                 *)

\* The FIFO by which the program sends and receives each kind of packet, and the
\* one to which the endpoint is wired.  The comments over the wires name them the
\* other way round (MinimalLinkCommented, a mutant).
MinimalLinkCommented == [request |-> 1, answer |-> 1, demand |-> 0, reply |-> 0]
MinimalLink == [request |-> 0, answer |-> 0, demand |-> 1, reply |-> 1]
MinimalWires == [request |-> 0, answer |-> 0, demand |-> 1, reply |-> 1]

MinimalWrite(dst, reg, value) == Send(Request("write", dst, reg, value))

MinimalSetup ==
  TestRegister("found")
    \o Write("freezen", "1") \o Write("resetn", "1")
    \o Write("debug_irq", "1") \o Tick \o Write("debug_irq", "0")
    \o Write("dram_base", "phys") \o Check("dram_base", "phys")
    \o Write("dram_inited", "1") \o Check("dram_inited", "1")
    \o Args

MinimalConfig ==
  MinimalWrite("core", "freeze", 1) \o MinimalWrite("core", "npc", 1)
    \o MinimalWrite("core", "icache", 1) \o MinimalWrite("core", "dcache", 1)
    \o MinimalWrite("core", "cce", 1)

\* Mutant of MinimalLoad: no wait for the credits at the end of the file.
MinimalLoadAsync(file) ==
  Loaded(file, LAMBDA command, k :
           IF command.kind = "write" THEN MinimalWrite(command.dst, "data", k) ELSE << >>)

\* A byte or halfword is skipped without a word, and an unknown command ends
\* the load before the wait for the credits.
MinimalCommand(command, k) ==
  IF command.kind = "write" THEN MinimalWrite(command.dst, "data", k) ELSE << >>

MinimalLoad(file) ==
  IF \E k \in 1 .. Len(file) : file[k].kind = "unknown"
  THEN Loaded(SubSeq(file, 1, SelectInSeq(file, LAMBDA c : c.kind = "unknown") - 1),
              MinimalCommand)
  ELSE Loaded(file, MinimalCommand) \o Drain

MinimalRun ==
  MinimalWrite("core", "freeze", 0) \o Write("freezen", "0")
    \o Serve({"putc", "finish", "getc"}, 1)

MinimalEnd == Write("dram_inited", "0")

-----------------------------------------------------------------------------
(* manycore-example *)

ManycoreLink == [request |-> 0, answer |-> 1, demand |-> 0, reply |-> 1]
ManycoreWires == [request |-> 0, answer |-> 1, demand |-> 0, reply |-> 1]

ManycoreWrite(dst, reg, value) == Send(Request("write", dst, reg, value))

\* val is a uint32_t: whatever it holds is what the register gives back.
ManycoreSetup ==
  TestRegister("word")
    \o Write("mc_reset", "1") \o Write("mc_reset", "0") \o Write("resetn", "1")
    \o Write("dram_base", "phys") \o Check("dram_base", "phys")
    \o Args

ManycoreCommand(command, k) ==
  CASE command.kind = "fence" -> Drain
    [] command.kind = "finish" -> << >>
    [] OTHER -> ManycoreWrite(command.dst, "data", k)

ManycoreServe == Serve({"putc", "finish"}, 1)

-----------------------------------------------------------------------------
(* hammerblade-example *)

HammerbladeLink == [request |-> 0, answer |-> 1, demand |-> 0, reply |-> 1]
HammerbladeWires == [request |-> 0, answer |-> 1, demand |-> 0, reply |-> 1]

HammerbladeWrite(dst, reg, value) == Send(Request("write", dst, reg, value))

HammerbladeRead(dst, reg, value) ==
  Send(Request("read", dst, reg, 0)) \o Await(value)

\* val is a long that is never assigned.
HammerbladeSetup(val) ==
  TestRegister(val)
    \o Write("mc_reset", "1") \o Write("mc_reset", "0") \o Write("resetn", "1")
    \o Write("dram_base", "phys") \o Check("dram_base", "phys")
    \o Args

\* Mutant of HammerbladeCommand: the line is verified before it is written.
HammerbladeCommandEarly(verify, command, k) ==
  CASE command.kind = "fence" -> Drain
    [] command.kind = "finish" -> << >>
    [] OTHER -> (IF verify THEN HammerbladeRead(command.dst, "data", k) ELSE << >>)
                  \o HammerbladeWrite(command.dst, "data", k)

HammerbladeCommand(verify, command, k) ==
  CASE command.kind = "fence" -> Drain
    [] command.kind = "finish" -> << >>
    [] OTHER -> HammerbladeWrite(command.dst, "data", k)
                  \o (IF verify THEN HammerbladeRead(command.dst, "data", k)
                                ELSE << >>)

HammerbladeServeTiles == Serve({"putc", "finish"}, 1)

HammerbladeConfig ==
  LET set(reg, value) == HammerbladeWrite("core", reg, value)
  IN set("freeze", 1) \o set("npc", 1) \o set("hio_mask", 1)
       \o set("icache", 1) \o set("dcache", 1) \o set("dram_offset", 1)
       \o set("dram_pod", 1) \o set("my_cord", 0) \o set("host_cord", 1)
       \o set("freeze", 0)

HammerbladeServeCore == Serve({"core_putc", "core_finish", "rom"}, 1)

-----------------------------------------------------------------------------
Link(program) ==
  CASE program = "minimal" -> MinimalLink
    [] program = "manycore" -> ManycoreLink
    [] program = "hammerblade" -> HammerbladeLink

Wires(program) ==
  CASE program = "minimal" -> MinimalWires
    [] program = "manycore" -> ManycoreWires
    [] program = "hammerblade" -> HammerbladeWires

Setup(program, val) ==
  CASE program = "minimal" -> MinimalSetup \o MinimalConfig \o Load
    [] program = "manycore" -> ManycoreSetup \o Load
    [] program = "hammerblade" -> HammerbladeSetup(val) \o Load

LoadFile(program, verify, file) ==
  CASE program = "minimal" -> MinimalLoad(file)
    [] program = "manycore" -> Loaded(file, ManycoreCommand)
    [] program = "hammerblade" ->
         Loaded(file, LAMBDA command, k : HammerbladeCommand(verify, command, k))

Rest(program) ==
  CASE program = "minimal" -> MinimalRun \o MinimalEnd
    [] program = "manycore" -> ManycoreServe
    [] program = "hammerblade" ->
         HammerbladeServeTiles \o HammerbladeConfig \o HammerbladeServeCore
=============================================================================
