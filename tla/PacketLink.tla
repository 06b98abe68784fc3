------------------------------ MODULE PacketLink ------------------------------
(***************************************************************************)
(* A program of PacketPrograms on one side of the shell's four FIFOs and,  *)
(* on the other, the endpoint of the network of the design: it puts the    *)
(* words of a packet together, launches the request while it has credits,  *)
(* and brings the requests of the tiles and of the core the other way.     *)
(*                                                                         *)
(* A call of the shell is one step (ShellHost implements MmioDevice).  A   *)
(* read of a FIFO's counter and the access it allows are one step also:    *)
(* only the program moves the other way, so what the counter allowed stays *)
(* allowed.                                                                *)
(***************************************************************************)
EXTENDS PacketPrograms, FiniteSets

CONSTANTS
  Programs,      \* the programs to run
  Files,         \* the nbf files, sequences of commands
  Words,         \* words in a packet
  Els,           \* words in a FIFO
  Credits,       \* requests the endpoint may have under way
  Csrs,          \* destinations that are registers of a tile, not words of memory
  RomWords,      \* words of the ROM that the program can address
  MaxDemands     \* bound: demands of the tiles, and of the core, before they finish

ASSUME PacketLinkAssumption ==
  /\ Programs \subseteq {"minimal", "manycore", "hammerblade"}
  /\ \A file \in Files : file \in Seq(Range(file))
  /\ {Words, Els, Credits, RomWords} \subseteq Nat \ {0}
  /\ MaxDemands \in Nat

VARIABLES
  program, verify,  \* the program, and whether it is built with VERIFY_NBF
  text, pc,         \* its instructions, the next one
  status,           \* running, done, or why it stopped
  regs,             \* the registers it has written
  outbox,           \* words of a packet yet to be written to a FIFO
  inbox,            \* words of a packet read so far
  finished,         \* finish packets seen by the present loop
  unknown,          \* the file has a command that the loader does not know
  ps2pl, pl2ps,     \* the FIFOs
  gathered,         \* words from each ps2pl FIFO, less than a packet or one
  net,              \* requests launched and not yet performed
  serial,           \* words on their way to each pl2ps FIFO
  sent, launched, performed,   \* requests in the order of each
  fences,           \* what had been sent when the credits were seen drained
  demands, served,  \* what the tiles and the core asked for, what was handled
  replies,          \* what the core got back
  mismatches        \* destinations whose verifying read found something else

ps == <<program, verify, text, pc, status, regs, outbox, inbox, finished,
        unknown, sent, fences, served, mismatches>>
pl == <<gathered, net, serial, launched, performed, demands, replies>>
vars == <<ps, pl, ps2pl, pl2ps>>

Registers == {"resetn", "freezen", "mc_reset", "debug_irq", "dram_base", "dram_inited",
              "rom_addr"}

Init ==
  /\ program \in Programs
  /\ verify \in (IF program = "hammerblade" THEN BOOLEAN ELSE {FALSE})
  /\ \E val \in (IF program = "hammerblade" THEN Uninitialised ELSE {"word"}) :
       text = Setup(program, val)
  /\ pc = 1 /\ status = "running"
  /\ regs = [[r \in Registers |-> "0"] EXCEPT !["rom_addr"] = 0]
  /\ outbox = << >> /\ inbox = << >> /\ finished = 0 /\ unknown = FALSE
  /\ ps2pl = [k \in 0 .. 1 |-> << >>] /\ pl2ps = [k \in 0 .. 1 |-> << >>]
  /\ gathered = [k \in 0 .. 1 |-> << >>] /\ serial = [k \in 0 .. 1 |-> << >>]
  /\ net = << >> /\ sent = << >> /\ launched = << >> /\ performed = << >>
  /\ fences = {} /\ demands = << >> /\ served = << >> /\ replies = << >>
  /\ mismatches = {}

-----------------------------------------------------------------------------
(* Words and packets *)

InWords(packet) == [i \in 1 .. Words |-> [of |-> packet, part |-> i]]

Garbled == [kind |-> "garbled"]

Packet(words) == IF words = InWords(words[1].of) THEN words[1].of ELSE Garbled

Push(fifo, word) == IF Len(fifo) < Els THEN Append(fifo, word) ELSE fifo

\* A packet remembers which function sends it.
Numbered(request) == [by |-> "request", request |-> request, n |-> Len(sent) + 1]

-----------------------------------------------------------------------------
(* The program *)

instr == text[pc]

At(do) ==
  /\ status = "running" /\ outbox = << >>
  /\ pc <= Len(text) /\ instr.do = do

Word32(value) == IF value = "wide" THEN "word" ELSE value

WriteRegister ==
  /\ At("write")
  /\ regs' = [regs EXCEPT ![instr.reg] = Word32(instr.value)]
  /\ pc' = pc + 1
  /\ UNCHANGED <<program, verify, text, status, outbox, inbox, finished, unknown,
                 sent, fences, served, mismatches, pl, ps2pl, pl2ps>>

CheckRegister ==
  /\ At("check")
  /\ IF regs[instr.reg] = instr.value THEN pc' = pc + 1 /\ UNCHANGED status
                                      ELSE status' = "aborted" /\ UNCHANGED pc
  /\ UNCHANGED <<program, verify, text, regs, outbox, inbox, finished, unknown,
                 sent, fences, served, mismatches, pl, ps2pl, pl2ps>>

TickClock ==
  /\ At("tick") /\ pc' = pc + 1
  /\ UNCHANGED <<program, verify, text, status, regs, outbox, inbox, finished, unknown,
                 sent, fences, served, mismatches, pl, ps2pl, pl2ps>>

\* Without a file the program sleeps and ends.
TakeArguments ==
  /\ At("args")
  /\ \/ pc' = pc + 1 /\ UNCHANGED status
     \/ status' = "no file" /\ UNCHANGED pc
  /\ UNCHANGED <<program, verify, text, regs, outbox, inbox, finished, unknown,
                 sent, fences, served, mismatches, pl, ps2pl, pl2ps>>

\* A file that cannot be opened is loaded as if it were empty, except that
\* hammerblade deletes the object the program goes on to use.
OpenFile ==
  /\ At("load") /\ pc' = 1
  /\ \/ \E file \in Files :
          /\ text' = LoadFile(program, verify, file) \o Rest(program)
          /\ unknown' = (program = "minimal"
                           /\ \E k \in DOMAIN file : file[k].kind = "unknown")
          /\ UNCHANGED status
     \/ /\ text' = Rest(program) /\ UNCHANGED unknown
        /\ status' = IF program = "hammerblade" THEN "undefined" ELSE status
  /\ UNCHANGED <<program, verify, regs, outbox, inbox, finished,
                 sent, fences, served, mismatches, pl, ps2pl, pl2ps>>

StartSend ==
  /\ At("send")
  /\ outbox' = InWords(Numbered(instr.request))
  /\ sent' = Append(sent, Numbered(instr.request))
  /\ pc' = pc + 1
  /\ UNCHANGED <<program, verify, text, status, regs, inbox, finished, unknown,
                 fences, served, mismatches, pl, ps2pl, pl2ps>>

\* The FIFO for the packet in outbox.
OutFifo == Link(program)[outbox[1].of.by]

\* Mutant of SendWord: the counter is not polled, and a full FIFO drops the word.
SendWordBlindly ==
  /\ status = "running" /\ outbox # << >>
  /\ ps2pl' = [ps2pl EXCEPT ![OutFifo] = Push(@, outbox[1])]
  /\ outbox' = Tail(outbox)
  /\ UNCHANGED <<program, verify, text, pc, status, regs, inbox, finished, unknown,
                 sent, fences, served, mismatches, pl, pl2ps>>

SendWord ==
  /\ status = "running" /\ outbox # << >>
  /\ Len(ps2pl[OutFifo]) < Els
  /\ ps2pl' = [ps2pl EXCEPT ![OutFifo] = Push(@, outbox[1])]
  /\ outbox' = Tail(outbox)
  /\ UNCHANGED <<program, verify, text, pc, status, regs, inbox, finished, unknown,
                 sent, fences, served, mismatches, pl, pl2ps>>

InFifo == IF instr.do = "await" THEN Link(program).answer ELSE Link(program).demand

ReceiveWord ==
  /\ At("await") \/ At("serve")
  /\ Len(inbox) < Words /\ pl2ps[InFifo] # << >>
  /\ inbox' = Append(inbox, Head(pl2ps[InFifo]))
  /\ pl2ps' = [pl2ps EXCEPT ![InFifo] = Tail(@)]
  /\ UNCHANGED <<program, verify, text, pc, status, regs, outbox, finished, unknown,
                 sent, fences, served, mismatches, pl, ps2pl>>

VerifyAnswer ==
  /\ At("await") /\ Len(inbox) = Words
  /\ inbox' = << >> /\ pc' = pc + 1
  /\ mismatches' = IF Packet(inbox).request.value = instr.value THEN mismatches
                   ELSE mismatches \cup {Packet(inbox).request.dst}
  /\ UNCHANGED <<program, verify, text, status, regs, outbox, finished, unknown,
                 sent, fences, served, pl, ps2pl, pl2ps>>

\* The word of the ROM behind an address: its upper bits are masked off.
RomIndex(addr) == addr % RomWords

\* The packet with the ROM's word, read after the address has been written.
Reply(demand, word) ==
  [by |-> "reply", request |-> Request("rom data", "core", "rom", word), n |-> demand.n]
RomReplyEarly(demand) == Reply(demand, regs["rom_addr"])   \* mutant of RomReply
RomReply(demand) == Reply(demand, regs'["rom_addr"])

\* What the program answers to a demand: the manycore endpoint gets a packet,
\* but bsg_host writes one word to FIFO 0 of the minimal example, full or not.
HandleDemand ==
  /\ At("serve") /\ Len(inbox) = Words
  /\ LET demand == Packet(inbox)
         known == demand.kind \in instr.understood
         finish == known /\ demand.kind \in {"finish", "core_finish"}
     IN /\ served' = Append(served, demand)
        /\ finished' = IF finish /\ finished + 1 = instr.count THEN 0
                       ELSE IF finish THEN finished + 1 ELSE finished
        /\ pc' = IF finish /\ finished + 1 = instr.count THEN pc + 1 ELSE pc
        /\ IF known /\ demand.kind = "rom"
           THEN /\ regs' = [regs EXCEPT !["rom_addr"] = RomIndex(demand.n)]
                /\ outbox' = InWords(RomReply(demand))
           ELSE UNCHANGED <<regs, outbox>>
        /\ ps2pl' = IF known /\ demand.kind = "getc"
                    THEN [ps2pl EXCEPT ![0] = Push(@, [of |-> Garbled, part |-> 0])]
                    ELSE ps2pl
  /\ inbox' = << >>
  /\ UNCHANGED <<program, verify, text, status, unknown, sent, fences, mismatches,
                 pl, pl2ps>>

\* The program sees no credit in use.  The endpoint is assumed prompt: words
\* that left the program before this read are in a launched request by now,
\* unless they make no whole packet or no credit is left.
Settled ==
  LET k == Wires(program).request
  IN ps2pl[k] = << >> /\ Len(gathered[k]) < Words

\* Mutant of DrainCredits: the credits are read once, without a wait.
DrainOnce ==
  /\ At("drain") /\ Settled
  /\ fences' = fences \cup {Len(sent)} /\ pc' = pc + 1
  /\ UNCHANGED <<program, verify, text, status, regs, outbox, inbox, finished, unknown,
                 sent, served, mismatches, pl, ps2pl, pl2ps>>

DrainCredits ==
  /\ At("drain") /\ Settled /\ net = << >>
  /\ fences' = fences \cup {Len(sent)} /\ pc' = pc + 1
  /\ UNCHANGED <<program, verify, text, status, regs, outbox, inbox, finished, unknown,
                 sent, served, mismatches, pl, ps2pl, pl2ps>>

Done ==
  /\ status = "running" /\ outbox = << >> /\ pc > Len(text)
  /\ status' = "done"
  /\ UNCHANGED <<program, verify, text, pc, regs, outbox, inbox, finished, unknown,
                 sent, fences, served, mismatches, pl, ps2pl, pl2ps>>

-----------------------------------------------------------------------------
(* The endpoint, the network, the tiles and the core *)

OutOfReset == regs["resetn"] = "1"

Gather(k) ==
  /\ OutOfReset /\ ps2pl[k] # << >> /\ Len(gathered[k]) < Words
  /\ gathered' = [gathered EXCEPT ![k] = Append(@, Head(ps2pl[k]))]
  /\ ps2pl' = [ps2pl EXCEPT ![k] = Tail(@)]
  /\ UNCHANGED <<ps, pl2ps, net, serial, launched, performed, demands, replies>>

\* Mutant of Launch: the credits are not looked at.
LaunchFreely ==
  LET k == Wires(program).request
      request == Packet(gathered[k])
  IN /\ Len(gathered[k]) = Words
     /\ gathered' = [gathered EXCEPT ![k] = << >>]
     /\ net' = Append(net, request) /\ launched' = Append(launched, request)
     /\ UNCHANGED <<ps, ps2pl, pl2ps, serial, performed, demands, replies>>

Launch ==
  LET k == Wires(program).request
      request == Packet(gathered[k])
  IN /\ Len(gathered[k]) = Words /\ Len(net) < Credits
     /\ gathered' = [gathered EXCEPT ![k] = << >>]
     /\ net' = Append(net, request) /\ launched' = Append(launched, request)
     /\ UNCHANGED <<ps, ps2pl, pl2ps, serial, performed, demands, replies>>

GetReply ==
  LET k == Wires(program).reply
  IN /\ Len(gathered[k]) = Words
     /\ gathered' = [gathered EXCEPT ![k] = << >>]
     /\ replies' = Append(replies, Packet(gathered[k]))
     /\ UNCHANGED <<ps, ps2pl, pl2ps, net, serial, launched, performed, demands>>

\* A destination is one word or register, and requests to it stay in order; the
\* network may reorder all others.  All of minimal's requests go to the memory.
SameRoute(a, b) ==
  \/ program = "minimal" \/ Garbled \in {a, b}
  \/ a.request.dst = b.request.dst

Stored(dst, reg) ==
  LET writes == {j \in DOMAIN performed :
                   /\ performed[j] # Garbled
                   /\ performed[j].request.kind = "write"
                   /\ performed[j].request.dst = dst /\ performed[j].request.reg = reg}
  IN IF writes = {} THEN -1 ELSE performed[Max(writes)].request.value

\* What a read may find: a word of memory is what was written last, a register
\* of a tile may read as something else.
Found(dst, reg) == {Stored(dst, reg)} \cup (IF dst \in Csrs THEN {-1} ELSE {})

\* A request takes effect, and its credit and its answer come back.
Perform(i) ==
  /\ i \in 1 .. Len(net) /\ \A j \in 1 .. i - 1 : ~SameRoute(net[j], net[i])
  /\ net' = RemoveAt(net, i) /\ performed' = Append(performed, net[i])
  /\ IF net[i] # Garbled /\ net[i].request.kind = "read"
     THEN LET k == Wires(program).answer
              answer(found) == [net[i] EXCEPT !.request.value = found]
          IN /\ serial[k] = << >>
             /\ \E found \in Found(net[i].request.dst, net[i].request.reg) :
                  serial' = [serial EXCEPT ![k] = InWords(answer(found))]
     ELSE UNCHANGED serial
  /\ UNCHANGED <<ps, ps2pl, pl2ps, gathered, launched, demands, replies>>

Feed(k) ==
  /\ serial[k] # << >> /\ Len(pl2ps[k]) < Els
  /\ pl2ps' = [pl2ps EXCEPT ![k] = Push(@, serial[k][1])]
  /\ serial' = [serial EXCEPT ![k] = Tail(@)]
  /\ UNCHANGED <<ps, ps2pl, gathered, net, launched, performed, demands, replies>>

CoreRuns ==
  OutOfReset /\ IF program = "minimal" THEN regs["freezen"] = "0"
                                       ELSE Stored("core", "freeze") = 0

\* The kinds of demand, by who makes them.
TileKinds == {"putc", "finish", "stray"}
CoreKinds == IF program = "minimal" THEN {"putc", "finish", "getc"}
                                    ELSE {"core_putc", "core_finish", "rom"}

Asked(kinds) == SelectSeq(demands, LAMBDA d : d.kind \in kinds)

Demand(kind, kinds, finish) ==
  LET k == Wires(program).demand
      demand == [kind |-> kind, n |-> Len(demands) + 1]
  IN /\ kind \in kinds /\ serial[k] = << >>
     /\ \A i \in DOMAIN demands : demands[i].kind # finish
     /\ kind = finish \/ Len(Asked(kinds)) < MaxDemands
     /\ serial' = [serial EXCEPT ![k] = InWords(demand)]
     /\ demands' = Append(demands, demand)
     /\ UNCHANGED <<ps, ps2pl, pl2ps, gathered, net, launched, performed, replies>>

TileDemand(kind) ==
  /\ program # "minimal" /\ OutOfReset
  /\ Demand(kind, TileKinds, "finish")

CoreDemand(kind) ==
  /\ program # "manycore" /\ CoreRuns
  /\ Demand(kind, CoreKinds, IF program = "minimal" THEN "finish" ELSE "core_finish")

-----------------------------------------------------------------------------
ProgramStep ==
  \/ WriteRegister \/ CheckRegister \/ TickClock \/ TakeArguments \/ OpenFile
  \/ StartSend \/ SendWord \/ ReceiveWord \/ VerifyAnswer \/ HandleDemand
  \/ DrainCredits \/ Done

EndpointStep ==
  \/ \E k \in 0 .. 1 : Gather(k) \/ Feed(k)
  \/ Launch \/ GetReply

Network == \E i \in 1 .. Credits : Perform(i)

Next ==
  \/ ProgramStep \/ EndpointStep \/ Network
  \/ \E kind \in TileKinds : TileDemand(kind)
  \/ \E kind \in CoreKinds : CoreDemand(kind)

Spec == Init /\ [][Next]_vars

\* The program runs, the endpoint and the network serve every request, and the
\* software on the tiles and the core ends.
Fairness ==
  /\ WF_vars(ProgramStep) /\ WF_vars(Launch) /\ WF_vars(GetReply)
  /\ \A k \in 0 .. 1 : WF_vars(Gather(k)) /\ WF_vars(Feed(k))
  /\ WF_vars(Network)
  /\ WF_vars(TileDemand("finish"))
  /\ WF_vars(CoreDemand("finish") \/ CoreDemand("core_finish"))

FairSpec == Spec /\ Fairness

-----------------------------------------------------------------------------
\* Every variable keeps its type; no FIFO holds more than its words and no more
\* requests are under way than there are credits.
LinkTypeOK ==
  /\ status \in {"running", "done", "no file", "aborted", "undefined"}
  /\ pc \in 1 .. Len(text) + 1
  /\ Len(net) <= Credits
  /\ \A k \in 0 .. 1 : /\ Len(ps2pl[k]) <= Els /\ Len(pl2ps[k]) <= Els
                       /\ Len(gathered[k]) <= Words /\ Len(serial[k]) <= Words
  /\ Len(inbox) <= Words /\ Len(outbox) <= Words

\* The host of the minimal example has written a bare word to the FIFO of the
\* request packets, which are out of step from then on.
Bare == \E i \in DOMAIN served : served[i].kind = "getc"

\* send_mc_request_packet, send_bp_fwd_packet: what the endpoint launches is
\* what the program sent, packet by packet, and once the FIFO and the endpoint
\* hold no words nothing sent is missing.
RequestsWhole ==
  ~Bare =>
    /\ IsPrefix(launched, sent)
    /\ LET k == Wires(program).request
       IN outbox = << >> /\ ps2pl[k] = << >> /\ gathered[k] = << >>
            => Len(launched) = Len(sent)

\* The fence of nbf_load: a request sent after the wait for the credits takes
\* effect after every request sent before it, whatever their destinations.
FenceOrders ==
  \A f \in fences, i \in DOMAIN performed :
    (performed[i] # Garbled /\ performed[i].n > f)
      => \A n \in 1 .. f : \E j \in 1 .. i - 1 : performed[j].n = n

\* The core starts on a whole image: in the minimal example no instruction runs
\* before every write of the file has reached the memory (unless the loader gave
\* up at a line it does not know), in hammerblade none before the writes to its
\* configuration registers.
StartsOnWholeImage ==
  CoreRuns /\ ~unknown =>
    \A i \in DOMAIN sent :
      (IF program = "minimal" THEN sent[i].request.reg = "data"
                              ELSE sent[i].request.dst = "core")
        => \E j \in DOMAIN performed : performed[j] = sent[i]

\* VERIFY_NBF: the read sent behind the write of a line finds what it wrote, if
\* the line is of the memory.  The reads of CSRs are expected to fail.
VerifyAgrees == mismatches \subseteq Csrs

\* recv_mc_request_packet, send_mc_response_packet: the loops handle the demands
\* whole and in the order they were made, and each read of the ROM gets the word
\* at its own address, after all reads before it.
ServedInOrder ==
  /\ IsPrefix(served, demands)
  /\ \A i \in DOMAIN replies :
       LET n == replies[i].n
       IN /\ n \in DOMAIN served /\ served[n].kind = "rom"
          /\ replies[i].request.value = RomIndex(n)
          /\ {replies[j].n : j \in 1 .. i - 1} = {m \in 1 .. n - 1 : served[m].kind = "rom"}

\* The program comes to its end, unless the core of the minimal example reads a
\* character, whose answer never reaches it.
Completes ==
  <>(status # "running" \/ \E i \in DOMAIN demands : demands[i].kind = "getc")
=============================================================================
