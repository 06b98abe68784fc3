# Verification of zynq-parrot-trace-playground

TLA+ models of the parts of this repository that carry its own logic, TLC
configurations that check them, and TLAPS proofs of the properties that matter
for every size. Modules are translated from the code; `PROJECT.json` maps each
definition to the lines it stands for.

## 1. The system

The repository is ZynqParrot with a trace encoder added. A *processing system*
(PS: an ARM core, or on the simulator a C++ program) controls a *programmable
logic* (PL) through AXI4-Lite ports.

| component | state | operations | talks to |
|---|---|---|---|
| **Trace encoder** `rtl/bp_trace_encoder.sv` | last committed pc, cycle counter | one clock edge: a commit may become a packet, a packet may leave | core (no back-pressure), packet FIFO, trace sink |
| **Packet FIFO** `rtl/simple_fifo.sv` | memory, two pointers, count | push, pop, both, reset | encoder |
| **Decoders** `decode.cpp`, `decode.py` | current pc | one packet | the file that `tb_encoder.sv` writes |
| **P-Shell** `cosim/v/bsg_zynq_pl_shell.sv` | write engine, read engine, CSRs, two banks of FIFOs with flow counters | one clock edge | AXI4-Lite master, user logic |
| **Cosim AXI4-Lite ports** `bsg_axil.h` | pins, mutex, locals of the coroutines | read/write helpers of a master (`maxil`), has_read/has_write and helpers of a subordinate (`saxil`) | P-Shell; peripherals |
| **Cosim AXI-Stream ports** `bsg_axis.h` | pins, mutex | has_write, write helpers | stream buffer |
| **Scheduler** `bsg_zynq_pl_simulation.h` | list of coroutines | `next()`: resume every coroutine once, poll the peripherals, tick | all ports, all peripherals |
| **Peripherals** `bsg_peripherals.h` | scratchpad memory, UART FIFOs, watchdog count, stream buffer | read, write, pending_read, pending_write | scheduler |
| **Shell over UART** | none | 5-byte request, 4-byte answer (never bound, see §5) | UART peripheral |
| **PS programs** `*/ps.cpp`, `bsg_host.h`, `bsg_tag_bitbang.h`, `bsg_utils.h` | place in the program, packet in hand, registers of the design | register test, reset by tag bits or CSRs, NBF load, packet exchange under credits, host loop | `shell_read`, `shell_write`, raw `tick` |
| **User logic** `*/v/top_zynq.sv` | small: last address, counters, status | loopbacks, address translation, reset by tag | P-Shell; accelerator (git submodules, absent) |

Accelerators (BlackParrot, HammerBlade), the BaseJump STL and the Xilinx IP are
submodules or vendor code and are not in the tree; where modelled code uses
them (`bsg_fifo_1r1w_small`, `bsg_flow_counter`) they are modelled from their
use and marked external.

What is hard here:

* *ordering inside an edge*: registers computed from the values before the edge,
  with pushes and pulls on both sides of a FIFO at once;
* *latency between looking and acting*: the coroutines look at READY after one
  edge and act on it at the next; the PS acts on counts it read long ago;
* *a bounded FIFO before a sink that stalls* and a producer that does not wait;
* *cooperative scheduling*: coroutines share pins under a Boolean mutex, polls
  add more of them, and programs sometimes tick the clock without resuming them;
* *long sequences of calls*: a program resets, configures, loads and starts a
  design in hundreds of writes through windows, translations, FIFOs smaller
  than a packet and a network that reorders, and learns little of what arrived.

The list of hazards, each at its line, is in `PROJECT.json`.

What makes each component correct:

* packet FIFO: it is a bounded queue;
* trace path: the decoder's pc against the core's;
* P-Shell: each transaction accepted once, at its own address, answered once;
  the flow counters are exact;
* AXI4-Lite ports: the handshake rules; every call atomic; every call returns;
* scheduler: no request lost or served twice, no deadlock under the mutex;
* PS programs: packets stay whole, the core starts on the whole image, tag
  messages are taken in as meant, each demand of the accelerator gets its own
  answer, 64-bit reads are linearizable, the program ends.

## 2. The modules

| module | models | kind |
|---|---|---|
| `BoundedQueue` | what a FIFO promises | abstract specification |
| `SimpleFifo` | `simple_fifo.sv` | detailed, implements `BoundedQueue` |
| `TraceEncoder` | `bp_trace_encoder.sv`, its FIFO, the sink and the decoder | composition (EXTENDS `SimpleFifo`) |
| `PlShell` | `bsg_zynq_pl_shell.sv` under any legal master and any user logic | open component |
| `MmioDevice` | a device with atomic reads and writes | abstract specification |
| `ShellHost` | `PlShell` with the coroutines of `bsg_axil.h`, `next()`, and the user logic of shell-example | composition, implements `PlShell` and `MmioDevice` |
| `Scheduler` | `next()`: sweep, polls, tick, and what a coroutine may do to the list | shared part, extended by the next three |
| `AxisLoopback` | axis-example: its program, its user logic, `bsg_axis.h` and the stream buffer | composition (EXTENDS `Scheduler`) |
| `PeripheralPort` | `saxil` of `bsg_axil.h` with its polls and the scratchpad, under any legal master | open component (EXTENDS `Scheduler`) |
| `WatchdogPort` | the watchdog and the writes of `maxil` it queues up, under any legal subordinate | open component (EXTENDS `Scheduler`) |
| `Counter64` | `get_counter_64`, `shell_read64b` | algorithm against a counter that runs on |
| `TagLink` | `bsg_tag_bitbang.h` bit by bit, and the tag master on the other side | operators, extended by the next one |
| `BlackParrot` | black-parrot-example: the whole program, `bsg_host.h`, the windows of the shell, the design's translation, a core | composition (EXTENDS `TagLink`) |
| `PacketPrograms` | the text of black-parrot-minimal-, manycore- and hammerblade-example | operators, extended by the next one |
| `PacketLink` | those programs against the shell's FIFOs, the endpoint, its credits, the network, tiles and core | composition (EXTENDS `PacketPrograms`) |
| `TraceEncoderProofs` (with those of `SimpleFifo`), `ShellHostProofs` (with those of `PlShell`), `BlackParrotProofs` (with those of `Counter64`), `SchedulerProofs`, `WatchdogPortProofs`, `PeripheralPortProofs`, `AxisLoopbackProofs`, `PacketLinkProofs` | theorems | TLAPS |
| `MC*` | constants for TLC | |

A step is one rising clock edge in the modules of the PL and in `ShellHost`; in
those over `Scheduler` it is one resumption, one poll or one tick; in
`Counter64` one read of a word or one count; in `BlackParrot` and `PacketLink` one
call of the shell, which `ShellHost` shows to be atomic and to return.

**SimpleFifo.** The variables are the registers of the source. `Write`, `Read`
and `Count` are its three `if`s inside `always_ff`, conjoined in `FifoClock`.
Items are opaque. The pointers wrap by overflow, which `Wrap` writes as modulo
`Depth`: the module speaks of powers of two only (`PowerOfTwo`), as the source's
comment at lines 44-45 asks for.

**TraceEncoder.** Widths become constants: `PcCount` = 2^64, `Step` = 4,
`ShortSpan` = 256, `TimerMax` = 255. A packet is a record of code, timestamp and
address. The decoder reads each packet when it leaves the FIFO, which is what
the dump file of the testbench makes it do later. Three history variables
record what each packet was sent for.

**PlShell.** Each `always` block is an operator for the next value of its
registers, and `ShellEdge` is their conjunction. A channel of the master is one
variable: the beat it offers or `NoBeat`; its payload matters only under VALID.
An address is a word index, and the decoders reduce it modulo the next power of
two above the number of locations (`ReadSpan`, `WriteSpan`), as the code does, so
addresses past the end alias. A read from an empty FIFO returns any word (lines
15-16 call it bogus). The master is any that holds what it offers and has at
most one read outstanding (the comment of the read engine asks for it); writes
may be offered at any time. The user logic takes and gives any words. Reset is
the initial state. Response codes, always OKAY, and AxPROT are left out. The
three `owed` counters are the master's book-keeping.

**ShellHost.** `next()` resumes the coroutine to its next yield, then ticks. A
step is the tick followed by the stretch of coroutine code before the next
tick; `pc` names the yield where the coroutine waits. The first stretch runs
when the coroutine has taken the port's mutex, always free here since the
program has one call under way. `Return` is the resumption that ends the
coroutine and runs the callback. `Between` is a tick between calls. The
program is any sequence of reads and writes at any address.

**Scheduler.** One thread runs everything. `turn` says which part of `next()` is
under way, `pos` which coroutine is resumed next, `co_list` holds the
coroutines as records: the port they drive, the yield they wait at, and their
locals. A new coroutine runs at once to the first `yield` of `lock()`, before
its first look at the mutex, so it starts at pc `"lock"`. `Finish` is what
`erase_if` does to one that has ended. The modules that extend it name their
actions for the stretch of code between two yields.

**AxisLoopback.** The FIFOs, counters and status register of
axis-example's `top_zynq.sv` change at the tick (`Edge`); coroutines and polls
read pins between two ticks. The buffer's `pending_write` is part of the poll
(`PollM`), the uninitialized `last` of `pollm_helper` a choice. The program's
calls are those of `ShellHost`: each takes effect at one tick, and returns at
least `Latency` ticks later (a helper still has to take its answer, lower its
pins and unlock). `stage` and `i` are the place in `ps_main`.

**PeripheralPort.** `ar`, `aw` and `w` are the beats the master of the PL offers,
which it may change only when they have moved, `r` the answer of the port. The
history `seen` is the set of values that a word has had since its read was
offered. A request at an address that nothing claims stays where it is, as in
the code, where the poll prints an error each time. `RawTick` is the tick
outside `next()` of black-parrot-example/ps.cpp:229, the program that has this
port: the bus goes on while the coroutines stand still with VALID up. `surplus`
counts the answers that have moved with none owed, `raw` those ticks.

**WatchdogPort.** The count is kept modulo the period. The history counts the
beats that have moved on each channel. It has the same `RawTick`. `stop()` is
left out.

**Counter64.** A word has `Half` values. `val` is what the program gets, with the
sign extension of the `int32_t` that `shell_read` returns; `val_hi` and
`val_lo` are the words on the bus.

**TagLink, BlackParrot.** A program is the sequence of instructions that its
`ps_main` performs: `store`, `expect` (a read that `exit`s on another value),
`peek` (a read that is only printed), `bit`, and a few of its own. `ps_main(f)`
builds the sequence for a file from operators named after the functions; `pc`
goes through it, and every instruction is one action. A tag operation is its
bits, each a write of `TAG_BITBANG`; `Shifted` is the tag master, a submodule,
modelled from the message format that the driver writes: it follows messages bit
by bit and starts over after `ResetZeros` zeros. It powers up anywhere in
any message, in its header or its payload (`LostMasters`), and its clients with any bit. `Port` is the choice of the
shell between its ports, with the end of each window included, as in the code;
`Translated` is what `top_zynq.sv` does to the address. A word is a small number.
A register of the processor answers only out of reset, so a wrong reset is a
call that never returns. `ClipWord` is the byte and halfword write, whose
precedence slip leaves a word with some bits of the old one; the two extremes
stand for them. The bitstream is loaded anew for each run, so `DRAM_INITED`
reads zero, and the branch for a base pointer that is still there (ps.cpp:98-101) is
left out. The core (external) asks the host anything of `Demands` and waits
for the answer of a read (`reads` and `answers` are both in order); `get_next_packet`, `ProcessWrite`, `LookUp`, `ReplyRom`
and `ProcessRead` are the host, one action for each call of the shell.

**PacketPrograms, PacketLink.** The same for the programs that talk in packets.
Words of a packet are told apart by packet and place, so a word that is dropped
or comes twice garbles every packet behind it (`Packet`). A packet remembers which
function sends it (`by`), for that chooses the FIFO; a file is any sequence. `SendWord` and
`ReceiveWord` are the polls of the counters with the access that follows them.
The endpoint (external) collects words, launches a request when a credit is
left, and feeds answers and demands back word by word; the network delivers
requests to one destination in order and to different ones in any. A destination is a word of
memory, which reads as what was written last, or one of `Csrs`, a register of a
tile, which may read as something else (`Found`): the comment at
hammerblade-example/ps.cpp:340 expects such reads to fail. A read of the ROM is
answered by the word at its address less the upper bits (`RomIndex`). `Settled` is
the one assumption about time: by the time the program has read the credits, the
words it sent before have been taken out of the FIFO. `Uninitialised` is `val` of
hammerblade-example:136, a `long` that may not fit in the register it is compared
with. `MinimalLink` and `MinimalWires` are kept apart, one from the program, one
from `top_zynq.sv`, whose comments say the opposite of its code. `MinimalEnd` is
the FREE_DRAM end, which the board's build of that program has on
(zynq/Makefile:7).

## 3. The runs

| run | question | answer |
|---|---|---|
| `trace_path` | is the ring buffer a bounded queue, and how wrong can the decoder be? | yes; exactly by the deltas not reported since the last full packet |
| `trace_loss` | does the FIFO prevent loss when the receiver stalls (README.md)? | no: a discontinuity that finds it full is dropped |
| `trace_reconstruct` | does the decoder rebuild the path (progress_log.md)? | no: sequential steps before a short jump are lost to it |
| `pl_shell` | does the shell keep its engines, addresses and counters straight under every master and user logic? | yes |
| `shell_host` | are the coroutines a legal master, does going by the counts avoid overrun and bogus reads, is each call one atomic operation on the memory map, does it return? | yes |
| `axis_loopback` | do words get through ports, buffer and coroutines once and in order, do the program's assertions hold, does it end? | yes |
| `peripheral_port` | is a peripheral's access performed once, between request and answer, answered once, and always served? | performed once: yes; answered before the port is given back: yes; but each tick outside `next()` may move an answer once more, or take it unseen, and then the helper keeps the port until the master is ready again |
| `watchdog_port` | is the port handed on to one write at a time, does each write move one beat on each channel and end? | yes, except that each tick outside `next()` may move a beat once more or take an answer unseen, and then the write does not end |
| `counter_untorn` | are the words of a 64-bit read halves of one value? | yes |
| `bp_program` | from any state of the tag master, is the design reset, the file loaded to its addresses, each question of the core answered, and does the program end? | yes, unless the file never lets the core go or the core asks for a parameter that the host does not know |
| `packet_link` | do packets stay whole over FIFOs smaller than they are, do fences order, does the core start on its whole image, are demands answered in order, does a verifying read find what was written, does the program end? | yes, for reads of memory (those of CSRs may differ), unless the loader gives up at an unknown line or the core of the minimal example reads a character |
| `counter_monotonic` | does the counter read increase monotonically (message of the program)? | no: the low word is sign-extended |

Other disagreements met on the way have no run:

* the write strobes are unused although the shell's comment (lines 241-242)
  speaks of byte enables; black-parrot-example passes 0xff, which the board's
  library does not accept (`bsg_zynq_pl_hardware.h:153-154`);
* the timestamp restarts when a packet is enqueued, not transmitted
  (progress_log.md:61);
* black-parrot-example/ps.cpp:229 ticks the clock without `next()`, which one
  cycle a yield (bsg_axil.h:242) does not allow for: drop `+ raw` from
  `OneBeatAWrite` and TLC shows a beat that moves twice, drop `Missed` from
  `RequestsServed` and it shows a master that had its answer in such a tick,
  lowers READY, and whose next request waits for ever;
* `bsg_zynq_pl_simulation.h:333` reads `last` although only the final word of a
  packet sets it, and axis-example/ps.cpp:36 expects TLAST on that word alone;
  `axis_loopback` shows that the program's assertions do not depend on it;
* black-parrot-example/ps.cpp:217-218 announces the end of a reset and writes 1,
  :209 unfreezes an address without the base of its port, and :349-357 has `+`
  where `&` binds less tightly;
* hammerblade-example/ps.cpp:136 compares a variable never assigned, and :293
  deletes the object that the program goes on to use;
* an unknown command in a file ends the minimal example's load without the wait
  for the credits.

**What the properties leave out.** Some hazards do go wrong in the code; the models
have them, and a property that other behaviours should keep is stated without them:

* a missed answer after a raw tick (`RequestsServed`), any raw tick (`WoofsReturn`);
* the bare word that the minimal example's host writes to the FIFO of the request
  packets when the core reads a character (`RequestsWhole`, `Completes`);
* the load that gives up at a line it does not know, without the wait for the
  credits (`StartsOnWholeImage`);
* a read of a parameter that the host does not know, and a file that never lets the
  core go (`Completes` of `BlackParrot`);
* lines of the file other than words (`CoreStartsLoaded`), reads of CSRs
  (`VerifyAgrees`).

That the core of black-parrot-example has one read under way is an assumption about
a submodule, on which `AnswersMatch` rests.

**Bounds.** The packet FIFO has two slots in `trace_path` (full, empty and
wrap all occur within two; the theorems are for any power of two, the source's depth being 4), pcs modulo 4 with spans that make all three kinds of
delta occur, timer 0..1 so that it saturates. `pl_shell` has one CSR, one FIFO
each way of two words and one payload word; four addresses of which one names
nothing and writes alias; every overlap of push, pull, read and write occurs
within that. `shell_host` has the three FIFOs of one loopback pair with two
words each; credit is kept for the first of the two FIFOs from the PS, which
are alike (`Tracked`); what a read returns can be told apart since
sums, addresses, counts and the words written all differ. Sums wrap at `WordCount` = 8.
Symmetry is not used: the data are numbers that the loopback adds.
`axis_loopback` moves ten words through FIFOs of the source's depth, four, so
that both FIFOs, the buffer and the queue of coroutines are all in use at once
and the program must read before the last word is in; the source moves sixteen.
`Latency` is
3 where the helpers take 4 ticks: more behaviours than the code has. The
ports have one word of memory, two values, one address of the
scratchpad and one beyond; `PeripheralPort` has one raw tick (`RawTicks` = 1), which
may fall at every point between two calls of `next()`. `WatchdogPort` has a period of four polls, shorter
than a write, so that its writes queue; `MaxWoofs` = 3 bounds them, and
`RawTicks` = 2 the raw ticks: they may fall in one write or in two, and one is
enough to break a handshake. The theorems are for any number. `Counter64` has words of four values, `MaxHigh` = 2 carries.
`bp_program` has the driver of the source (16 clients, payloads of one bit) and
a master that starts over after 60 zeros, more than any message has and fewer
than the 100 the driver sends; three files that begin at the first DRAM word,
straddle the end of a block, hold every kind of line, one behind the line that lets
the core go, or never let it go;
demands in and just outside every window, three before the core ends, FIFOs of
two. `packet_link` has packets of two words and FIFOs of one (`Els` = 1), less than
a packet as in the source; two words of memory and a CSR, a ROM of two words so that
addresses wrap, two credits, so that a request
waits for one, five files with a fence, an unknown line or neither, with and
without verification, and two demands of each kind of client. These two runs
have `CHECK_DEADLOCK FALSE`, because the programs end.

**Fairness.** `shell_host` assumes weak fairness of the whole step, that is, the
clock goes on. The code's callers do exactly that:
`do next(); while (!done)` (`bsg_zynq_pl_simulation.h`, lines 510-512, 565-567).
It cannot be met by ticks between calls, for those need `pc = "idle"`. The
`FairXSpec` of the modules over `Scheduler` assume the same of their one
thread; no coroutine is given fairness of its own, since `next()` resumes each.
Beyond that `axis_loopback` assumes that a call takes effect some time
(`EveryCallReturns` of `ShellHost`), and `peripheral_port` and `watchdog_port` that the
other side of the bus, which is in the PL and not in the repository, is ready
(or answers) again and again. A master of `PeripheralPort` is asked to be ready only
while it waits for an answer; one that lowers READY afterwards is why
`RequestsServed` excludes an answer that a raw tick took (`Missed`). `BlackParrot` and `PacketLink` assume that the program
runs on, that bridge, endpoint and network serve what they hold, and that the
software on the core and the tiles some time sends its finish packet, for which
the host loops wait without limit.

`MmioDevice`'s refinement, `CreditsHold` and liveness hold for a program with one
call at a time. With read and write channels driven concurrently credits would
not be safe: a count in flight would miss a write accepted after it.

## 4. The proofs

All constants arbitrary, under the named assumptions of the modules.

* `FifoCorrect`, `FifoImplementsQueue`, for the depths of `PowerOfTwo`: the invariant is the types with
  `PointersAgree` (the write pointer is `count_r` slots past the read pointer
  around the ring). The refinement maps the queue to the slots between the
  pointers; its lemmas are about the geometry of the ring.
* `EncoderTyped`, `DecoderErrorIsSkew`, `PacketsLeadToCore`, `ReadySinkNeverBacksUp`: the
  decoder's claim alone is not inductive, for it says nothing of the packets
  still waiting; `PacketsChain` says of each waiting packet where it will lead
  the decoder, and that the last leads to the core's pc less the skew.
* `ShellInvariant` and its four corollaries: the checked invariants with three
  facts: READY never meets a pending response, no read is offered while an
  answer waits (the master's duty), no FIFO holds more than its depth. The last
  two are what the shell relies on and does not check itself.
* `HostInvariant`, `CoroutinesAreLegal`, `HostImplementsShell`: the wait points
  of the coroutines determine the pins and the state of the engines: a done
  flag is set exactly when the handshake it saw happens at the coming edge.
  From it the loopback is one of the user logics and the coroutines one of the
  masters `PlShell` allows, so its theorems transfer (`HostCountersExact`).
* `CountsCoverTransfers`, `HostTyped`: `CreditsHold` says nothing of a count that
  is still on its way, nor of a call without credit that may take what another
  was promised. `CreditInv` adds both: the count in the answer register and in
  the coroutine's `rdata` is within the FIFO as it is now (`CountsInv`), and a
  transfer that no credit covers found none left. Its first lemma bounds what an
  edge does to a FIFO: a word more only by a push, which needs the coroutine at
  `aw` with READY up, a word less only by a pull, which needs it at `ar`; so
  nothing eats into a count while it travels.
* `HostImplementsDevice`: the refinement of `MmioDevice`, step by step. A call is
  applied at one edge, the one at which the shell accepts its beats; at every
  other edge only the user logic moves words. `DeviceInv` says what the coroutine
  holds of its call meanwhile, and that an answer stays on the channel until it
  is returned.
* `SchedulerProofs` has what the three ports below need of the list of coroutines:
  what spawning, removing and resuming do to the others, which stay as they are
  and in their order.
* `WatchdogWritesOneByOne`, `WatchdogBeatsCounted`: `WatchdogInv` says which beats
  the holder of the port has moved at each of its yields, and that nobody else
  drives a pin, and how many of its beats the raw ticks have added at most
  (`Counted`): an edge between two calls of `next()` adds one to a channel, which is
  what the bound allows each raw tick (`EdgeInv`).
* `PortHasOneHolder`, `PortAnswersOnce`: `PortInv` of `PeripheralPortProofs` ties the
  pins of each channel to the yield of the one coroutine that serves it
  (`DrivenBy`) and what the master is owed to how far it has come (`ServedBy`).
  A raw tick makes the same edge as `next()`, but at any yield. A helper that still
  offers an answer that has moved owes this to a raw tick that added nothing to
  `surplus`, so `surplus < raw` (`Spare`), and when the answer moves once more, in
  whichever tick, `surplus <= raw` survives. `PortAnswersOnce` rests on both
  invariants.
* `PortLinearizable`: `ServeInv` adds how often the access has been performed at
  each yield, that a coroutine which waits comes after the holder of the port and
  so gets it in the sweep in which it is given back (`InLine`), and that the value
  on `r` is one in `seen`, the values the word has had since its read was offered.
* `LoopInvariant` and its five corollaries, `OneDriver`, `InOrderAlways`,
  `BufferFullWhenWhole`, `ProgramAsserts`, `BeatsStay`: none of the checked
  invariants of `AxisLoopback` is inductive alone, and each needs the others.
  `LoopInv` has six parts. `SpPort`, `SpLine`: the coroutines of sp0 are served in the
  order in which they were started, since one that is resumed while the port is
  free takes it; only the oldest may be past `lock()`, and what it has seen of
  READY holds until the tick, as the FIFO changes only there. `MpPort`: the one
  coroutine of mp0 is started only when there is a word, and nobody else takes
  it, so it never waits for one. `Words`: the counters of the PL count the words
  that pass, so the word that passes *is* the count; from it the buffer's word
  with TLAST is the last of the transaction. `Program`: a count the program has
  read still covers what it does next. The words that the coroutines carry are
  between the count of those received and of those given by the buffer
  (`Carried`), and a tick moves both ends (`EdgeMoves`, `TickPorts`).
* `CounterReadsUntorn`, `CounterRetriesPaid`: the invariant adds what each pc
  knows of the words read: the high word is no later than the low one, and a
  low word read under an unchanged high word belongs to it.
* `CoreGetsItsAnswers`: a read of the core is in one place at most: the FIFO, the
  hands of the host, or, as its answer, the FIFO the other way (`HostInv`). The core
  asks for nothing while it waits, so the read is the last word of its FIFO, no
  answer meets another, and none finds its FIFO full. From `LookUp` on the
  register has the address of the packet in hand, as no other call comes in
  between (`LookedUp`). That the ROM's port takes some of the twelve bits that the
  host writes is the assumption (`4096 % RomWords = 0`); `ModOfMod` does the sum.
* `FileIsLoaded`: of a file of any length with words for addresses that the port
  can express (`OnlyWords`), every word ahead of the line that lets the core go is in
  place before the core runs; the words behind that line may still be under way.
  What a word of the map holds is what the last instruction that wrote it has stored
  (`MemInv`, `Traced`), whatever the text is. The rest is about the text: `Chart` says
  which of its instructions writes which word, and `TextCharted` that `ps_main(f)` has a
  chart for every file. It rests on `Flattened`, where the parts of a
  concatenation lie (`Laid`), for files of any length, and on `OwnAddress`: base, window and
  translation, taken together, are the identity on those addresses. That the
  tag operations write no word needs `id_len` to be a number, hence at most
  2^30 clients (`TagLinkAssumption`; the driver computes it with 32-bit ints).
* `RequestsReachTheEndpoint`: the words of a stream of packets lie in a row of
  queues: gathered by the endpoint, in the FIFO, in `outbox`. `Line` says that
  they are the words of the packets sent, one after the other, less those that
  have arrived; its lemmas say what each of the three moves does to any such row.
  For requests that is `RequestLine`. It lasts as long as no bare word of the
  minimal example's host gets into the FIFO.
* `FencesOrder`: what was sent is in the FIFO, on the net or performed
  (`Accounted`), so a wait that finds the FIFO, the endpoint and the net without
  a packet has found everything sent so far performed (`Drained`), and what is
  sent later gets a later place. The network may reorder at will.
* `DemandsServedInOrder`: demands make a line from the endpoint to `inbox`
  (`DemandInv`), replies one from `outbox` to the core (`ReplyInv`), and the
  packets on it answer the reads of the ROM handled so far, all and in order
  (`Answers`). That every read is answered rests on the loop that meets it: the
  core of hammerblade runs once a write to it has been performed, which was sent
  behind the loop for the tiles (`Parts`), so the loop at `pc` is the one that
  knows the ROM (`RunsConfigured`, `RomKnown`).
* `CoreStartsOnWholeImage`: in hammerblade the write that lets the core go is the
  last that is sent (`LastInv`), and what has been performed precedes what is
  under way to the same destination (`RouteInv`), so once that write is in effect
  no other is missing. In the minimal example the CSR holds the core from before
  the reset ends (`BootInv`) until the last instruction of the loaded text, which
  waits, is behind `pc` (`WaitInv`); `Drained` then says that all was performed.
* `LinkTypeCorrect`: every FIFO is within its depth, `pc` within the program's
  text. `TextInv` says what the text is: the setup, or what the loader made of
  one file, followed by the rest; from it, which instruction `pc` is at. The
  loader is a fold over a file of any length, and what it emits
  (`FlattenIsPartial`, `FlattenOnly`) is shown without an induction theorem: of
  the lengths at which a claim about prefixes fails there is a least one, by the
  well-foundedness of the numbers (`MinIn`), and the step before it is a
  contradiction (`Induct`).
* `ReadsFindTheirWrites`, for words of memory; what a CSR gives back is not the
  model's to say (`Agrees`). The loader puts the read right behind its write and waits
  for the answer before it goes on (`TailInv`), so the read is the last request
  sent and meets its own answer (`ReadInv`). No wait stands between the two: what
  the read finds rests on the network, which keeps the order of the requests to
  one destination. When the read is performed its write has been, and nothing
  sent after that write is (`Sorted`, `StoredBefore`).

Only model-checked so far: `TagOpsLand` of `BlackParrot`. Its proof takes what
`Number`, a recursive function, makes of the bits of a length and of an identifier,
and that `ResetZeros` lies between the zeros a message can hold and the 100 of
`reset_master`. Out of the prover's reach and left to TLC: liveness under fairness
(`EveryCallReturns`, `Completes`, `RequestsServed`, `WoofsReturn`).

## 5. Not modelled

* *Build files, CI, constraints, boards, software images, generated packages*
  have no run-time state here.
* *Simulator wrappers and DPI modules* move pin values; that a pin written before
  an edge is sampled by it is an assumption of `ShellHost`.
* *The shell over the UART* is never used: the constructor binds the AXI functions
  only, and the board's versions do not compile
  (`bsg_zynq_pl_hardware.h:181-220`). The UART peripheral talks to a terminal.
* *The hardware PS library* is memory-mapped accesses; what they promise is
  `MmioDevice`.
* *`stop()` with coroutines under way* frees what they go on to use; a model could
  only call what follows undefined.
* *Timeouts* of the coroutines only print. *Debug, PLIC and DMA* are stubs.
* *Variants of the programs*: the DRAM_TEST and ZERO_DRAM builds; VERIFY_NBF of
  manycore-example, which does not compile; `send_bp_read`,
  `send_bp_rev_packet` and `recv_bp_rev_packet`, which are never called.
* *The accelerators* and their endpoints are submodules that are absent; their
  side of the interface is modelled from what the code here expects of it.
* *dram-example*'s memory path consists of submodules; *double-shell-example* is
  two of `PlShell`'s shells with crossed FIFOs, each covered by "any user logic";
  *simple-example*'s subordinate is the vendor's template of the shell's engines.

## 6. Plan

What is left, in the order of importance.

1. *Proofs*: `TagOpsLand` of `BlackParrot`.
2. *Scheduler*: all ports of black-parrot-example polled together, `stop()`.
3. *double-shell-example* as `PlShell` twice, *dram-example*'s CSRs.
