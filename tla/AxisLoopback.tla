---------------------------- MODULE AxisLoopback ----------------------------
(***************************************************************************)
(* axis-example on the simulator: a program writes words to a FIFO of the  *)
(* shell, the PL streams them out on mp0, the simulator's buffer collects  *)
(* them up to TLAST and streams them back in on sp0, and the program reads *)
(* them from the FIFO towards the PS.                                      *)
(*                                                                         *)
(* The steps are those of Scheduler.tla.  Between two ticks the registers  *)
(* of the PL are still, and the pins keep what was last written to them.   *)
(*                                                                         *)
(* A call of the program is an atomic operation of the shell that takes    *)
(* effect at some tick between its start and its return, as the runs of    *)
(* ShellHost.tla establish; how many ticks it takes is left open.          *)
(***************************************************************************)
EXTENDS Scheduler

CONSTANTS
  Txn,        \* txn_size_lp, and the words the program moves: 16 in the source
  Els,        \* els_p of the FIFOs: 4 in the source
  Latency,    \* the fewest ticks from the effect of a call to its return
  RawTicks,   \* the ticks at the end of the program: 50 in the source
  NoBeat      \* sp0 with TVALID low

Data == 0 .. Txn - 1
Beats == [word : Data, last : BOOLEAN]

ASSUME LoopAssumption ==
  /\ Txn \in Nat \ {0} /\ Els \in Nat \ {0} /\ RawTicks \in Nat
  /\ Latency \in Nat \ {0}
  /\ NoBeat \notin Beats

VARIABLES
  \* the ports
  mp_mutex, mp_tready,
  sp_mutex, sp,       \* the beat that sp0 offers
  \* zynq_buffer
  buffer, buffer_full,
  \* the PL
  ps_to_pl, pl_to_ps, \* the FIFOs of the shell, oldest word first
  tinit,              \* csr_data_new_lo
  tx_tcount, rx_tcount, tstatus_r,
  \* the program
  stage, i,           \* the call it makes, and its loop variable
  applied, wait,      \* has the call taken effect; the ticks it still takes
  rdata               \* the word that the call reads

ports     == <<mp_mutex, mp_tready, sp_mutex, sp>>
device    == <<buffer, buffer_full>>
logic     == <<ps_to_pl, pl_to_ps, tinit, tx_tcount, rx_tcount, tstatus_r>>
program   == <<stage, i, applied, wait, rdata>>
loopVars  == <<scheduler, ports, device, logic, program>>

-----------------------------------------------------------------------------
(***************************************************************************)
(* The user logic of axis-example/v/top_zynq.sv.                           *)
(***************************************************************************)
mp_tvalid == ps_to_pl # << >>

sp_tready == Len(pl_to_ps) < Els

\* Mutant of tlast_lo: counts the words from one.
TlastOffByOne == tx_tcount = Txn

tlast_lo == tx_tcount = Txn - 1

\* Mutant of rx_success_lo: counts the words from one.
SuccessOffByOne == sp # NoBeat /\ sp_tready /\ sp.last /\ rx_tcount = Txn

rx_success_lo ==
  /\ sp # NoBeat /\ sp_tready
  /\ sp.last /\ rx_tcount = Txn - 1

\* bsg_counter_clear_up
Counter(count, clear, up) == (IF clear THEN 0 ELSE count) + (IF up THEN 1 ELSE 0)

\* What the call reads at a tick.
ReadValue ==
  CASE stage = "check" -> 0
    [] stage = "room" -> Els - Len(ps_to_pl)
    [] stage = "fill" -> Len(pl_to_ps)
    [] stage = "get" -> IF pl_to_ps = << >> THEN 0 ELSE Head(pl_to_ps)
    [] stage = "status" -> IF tstatus_r THEN 1 ELSE 0
    [] OTHER -> rdata

\* A rising edge at which the calls of effect, of which there is at most one,
\* take effect.
Edge(effect) ==
  LET takes == mp_tready /\ mp_tvalid
      gives == sp # NoBeat /\ sp_tready
  IN  /\ ps_to_pl' = (IF takes THEN Tail(ps_to_pl) ELSE ps_to_pl)
                       \o (IF "put" \in effect /\ Len(ps_to_pl) < Els
                           THEN <<i>> ELSE << >>)
      /\ pl_to_ps' = (IF "get" \in effect /\ pl_to_ps # << >>
                      THEN Tail(pl_to_ps) ELSE pl_to_ps)
                       \o (IF gives THEN <<sp.word>> ELSE << >>)
      /\ tinit' = ("tinit" \in effect)
      /\ tx_tcount' = Counter(tx_tcount, tinit, takes)
      /\ rx_tcount' = Counter(rx_tcount, tinit, gives)
      /\ tstatus_r' = (rx_success_lo \/ (tstatus_r /\ ~tinit))

-----------------------------------------------------------------------------
(***************************************************************************)
(* The coroutines.                                                         *)
(***************************************************************************)
Resume(port, pc) == Resumed(port, pc) /\ UNCHANGED <<logic, program>>

StreamThread(port, word, last) ==
  [port |-> port, pc |-> "lock", word |-> word, last |-> last]

\* saxis::axis_write_helper, on mp0: the lock, then the loop until a word is
\* there.
MpReceive ==
  /\ \E pc \in {"lock", "offer"} : Resume("mp", pc)
  /\ IF me.pc = "lock" /\ mp_mutex
     THEN Yield("lock") /\ UNCHANGED <<ports, device>>
     ELSE /\ mp_mutex' = TRUE /\ mp_tready' = TRUE
          /\ IF mp_tvalid
             THEN /\ buffer' = Append(buffer, Head(ps_to_pl))
                  /\ buffer_full' = (buffer_full \/ tlast_lo)
                  /\ Yield("taken")
             ELSE Yield("offer") /\ UNCHANGED device
          /\ UNCHANGED <<sp_mutex, sp>>

\* Mutant of MpTaken: READY is not lowered.
MpTakenLate ==
  /\ Resume("mp", "taken")
  /\ Yield("unlock")
  /\ UNCHANGED <<ports, device>>

MpTaken ==
  /\ Resume("mp", "taken")
  /\ mp_tready' = FALSE
  /\ Yield("unlock")
  /\ UNCHANGED <<mp_mutex, sp_mutex, sp, device>>

MpUnlock ==
  /\ Resume("mp", "unlock")
  /\ mp_mutex' = FALSE
  /\ Finish
  /\ UNCHANGED <<mp_tready, sp_mutex, sp, device>>

\* maxis::axis_write_helper, on sp0.
SpLook == Yield(IF sp_tready THEN "taken" ELSE "offer")

\* Mutant of SpLock: the mutex is taken without a look at it.
SpLockBlind ==
  /\ Resume("sp", "lock")
  /\ sp_mutex' = TRUE
  /\ sp' = [word |-> me.word, last |-> me.last]
  /\ SpLook
  /\ UNCHANGED <<mp_mutex, mp_tready, device>>

SpLock ==
  /\ Resume("sp", "lock")
  /\ \/ sp_mutex /\ Yield("lock") /\ UNCHANGED ports
     \/ /\ ~sp_mutex /\ sp_mutex' = TRUE
        /\ sp' = [word |-> me.word, last |-> me.last]
        /\ SpLook
        /\ UNCHANGED <<mp_mutex, mp_tready>>
  /\ UNCHANGED device

\* Mutant of SpOffer: gives up when the beat is not taken at once.
SpOfferOnce ==
  /\ Resume("sp", "offer")
  /\ sp' = NoBeat /\ Yield("unlock")
  /\ UNCHANGED <<mp_mutex, mp_tready, sp_mutex, device>>

SpOffer == Resume("sp", "offer") /\ SpLook /\ UNCHANGED <<ports, device>>

SpTaken ==
  /\ Resume("sp", "taken")
  /\ sp' = NoBeat
  /\ Yield("unlock")
  /\ UNCHANGED <<mp_mutex, mp_tready, sp_mutex, device>>

SpUnlock ==
  /\ Resume("sp", "unlock")
  /\ sp_mutex' = FALSE
  /\ Finish
  /\ UNCHANGED <<mp_mutex, mp_tready, sp, device>>

Swept == EndSweep /\ UNCHANGED <<ports, device, logic, program>>

-----------------------------------------------------------------------------
(***************************************************************************)
(* The polls.                                                              *)
(***************************************************************************)
\* Mutant of PollM: the buffer stays full when its last word leaves.
PollMStaysFull ==
  /\ turn = "pollm" /\ turn' = "polls"
  /\ IF buffer_full /\ buffer # << >>
     THEN /\ buffer' = Tail(buffer)
          /\ Spawn(StreamThread("sp", Head(buffer), Tail(buffer) = << >>))
     ELSE UNCHANGED <<co_list, buffer>>
  /\ UNCHANGED <<pos, ports, buffer_full, logic, program>>

\* pollm_helper with zynq_buffer::pending_write.  The flag last of the helper
\* is written only when the buffer has become empty, and is indeterminate
\* otherwise.
PollM ==
  /\ turn = "pollm" /\ turn' = "polls"
  /\ \/ ~buffer_full /\ UNCHANGED <<co_list, device>>
     \/ /\ buffer_full
        /\ buffer' = Tail(buffer)
        /\ buffer_full' = (Tail(buffer) # << >>)
        /\ \E last \in BOOLEAN :
             /\ Tail(buffer) = << >> => last
             /\ Spawn(StreamThread("sp", Head(buffer), last))
  /\ UNCHANGED <<pos, ports, logic, program>>

\* saxis::axis_has_write
has_write == mp_tvalid /\ ~mp_mutex

\* polls_helper with zynq_buffer::can_write.
PollS ==
  /\ turn = "polls" /\ turn' = "tick"
  /\ IF has_write /\ ~buffer_full
     THEN Spawn(StreamThread("mp", 0, FALSE)) ELSE UNCHANGED co_list
  /\ UNCHANGED <<pos, ports, device, logic, program>>

-----------------------------------------------------------------------------
(***************************************************************************)
(* The tick, and the program of axis-example/ps.cpp.                       *)
(***************************************************************************)
Tick(takes_effect) ==
  /\ turn = "tick" /\ turn' = "call"
  /\ IF takes_effect
     THEN /\ ~applied /\ applied' = TRUE /\ wait' = Latency
          /\ rdata' = ReadValue
          /\ Edge({stage})
     ELSE /\ wait' = IF wait = 0 THEN 0 ELSE wait - 1
          /\ Edge({})
          /\ UNCHANGED <<applied, rdata>>
  /\ UNCHANGED <<pos, co_list, ports, device, stage, i>>

Running == stage \notin {"ticks", "stopped", "failed"}

\* The call has not returned: next() runs again.
Again ==
  /\ turn = "call" /\ Running
  /\ ~(applied /\ wait = 0)
  /\ BeginSweep
  /\ UNCHANGED <<ports, device, logic, program>>

\* The stage that follows a call, and the loop variable it starts with.
After ==
  LET more == i + 1 < Txn
  IN  CASE stage = "tinit" -> <<"check", 0>>
        [] stage = "check" -> <<IF rdata = 0 THEN "room" ELSE "failed", 0>>
        [] stage = "room" -> <<IF rdata = 0 THEN "room" ELSE "put", i>>
        [] stage = "put" -> IF more THEN <<"room", i + 1>> ELSE <<"fill", 0>>
        [] stage = "fill" -> <<IF rdata = 0 THEN "fill" ELSE "get", i>>
        [] stage = "get" -> IF rdata # i THEN <<"failed", i>>
                            ELSE IF more THEN <<"fill", i + 1>> ELSE <<"status", 0>>
        [] stage = "status" -> <<IF rdata = 1 THEN "ticks" ELSE "failed", 0>>
        [] OTHER -> <<stage, i>>

Return ==
  /\ turn = "call" /\ Running /\ applied /\ wait = 0
  /\ stage' = After[1] /\ i' = After[2]
  /\ applied' = FALSE
  /\ IF Running' THEN BeginSweep ELSE UNCHANGED scheduler
  /\ UNCHANGED <<ports, device, logic, wait, rdata>>

\* The program ticks the clock without next().
RawTick ==
  /\ turn = "call" /\ stage = "ticks" /\ i < RawTicks
  /\ i' = i + 1
  /\ Edge({})
  /\ UNCHANGED <<scheduler, ports, device, stage, applied, wait, rdata>>

Stop ==
  /\ turn = "call" /\ stage = "ticks" /\ i = RawTicks
  /\ stage' = "stopped"
  /\ UNCHANGED <<scheduler, ports, device, logic, i, applied, wait, rdata>>

Stopped == stage = "stopped" /\ UNCHANGED loopVars

-----------------------------------------------------------------------------
LoopInit ==
  /\ SchedulerInit
  /\ mp_mutex = FALSE /\ mp_tready = FALSE /\ sp_mutex = FALSE /\ sp = NoBeat
  /\ buffer = << >> /\ buffer_full = FALSE
  /\ ps_to_pl = << >> /\ pl_to_ps = << >> /\ tinit = FALSE
  /\ tx_tcount = 0 /\ rx_tcount = 0 /\ tstatus_r = FALSE
  /\ stage = "tinit" /\ i = 0 /\ applied = FALSE /\ wait = 0 /\ rdata = 0

LoopNext ==
  \/ MpReceive \/ MpTaken \/ MpUnlock
  \/ SpLock \/ SpOffer \/ SpTaken \/ SpUnlock
  \/ Swept \/ PollM \/ PollS
  \/ Tick(TRUE) \/ Tick(FALSE)
  \/ Again \/ Return \/ RawTick \/ Stop \/ Stopped

LoopSpec == LoopInit /\ [][LoopNext]_loopVars

\* The thread runs on, and a call does not put off its effect for ever
\* (EveryCallReturns of ShellHost.tla).
FairLoopSpec == LoopSpec /\ WF_loopVars(LoopNext) /\ SF_loopVars(Tick(TRUE))

-----------------------------------------------------------------------------
(***************************************************************************)
(* Correctness.                                                            *)
(***************************************************************************)
\* A coroutine that has seen its beat taken is resumed after the tick at
\* which the beat moves; until then the tick is still to come, and the word is
\* one that sp0 has still to hand to the PL.
Unsent == {k \in Threads("sp") :
             \/ co_list[k].pc \in {"lock", "offer"}
             \/ co_list[k].pc = "taken" /\ TickToCome(k)}

\* The coroutines of sp0 carry the words from first up to next, in order.
Carried(first, next) ==
  /\ first <= next
  /\ \A k \in Unsent : co_list[k].word \in first .. next - 1
  /\ \A word \in first .. next - 1 : \E k \in Unsent : co_list[k].word = word
  /\ \A k, m \in Unsent : k < m => co_list[k].word < co_list[m].word

\* The words of ps_to_pl that the buffer does not hold yet.
ToTake ==
  IF \E k \in 1 .. Len(co_list) :
       co_list[k].port = "mp" /\ co_list[k].pc = "taken" /\ TickToCome(k)
  THEN Tail(ps_to_pl) ELSE ps_to_pl

\* The number of words that the program has written, and that it has read.
Written == IF stage \in {"tinit", "check"} THEN 0
           ELSE IF stage = "room" THEN i
           ELSE IF stage = "put" THEN i + (IF applied THEN 1 ELSE 0)
           ELSE Txn
Read == IF stage = "fill" THEN i
        ELSE IF stage = "get" THEN i + (IF applied THEN 1 ELSE 0)
        ELSE IF stage \in {"status", "ticks", "stopped"} THEN Txn ELSE 0

(***************************************************************************)
(* No word is lost, doubled or overtaken on its way: the words between the *)
(* last that the program has read and the last that it has written lie, in *)
(* the order in which they will arrive, in the FIFO towards the PS, then   *)
(* with the coroutines of sp0, then in the buffer, then in the FIFO from   *)
(* the PS.                                                                 *)
(***************************************************************************)
WordsInOrder ==
  stage # "failed" =>
    LET behind == buffer \o ToTake
        next   == Written - Len(behind)
    IN  /\ \A n \in 1 .. Len(pl_to_ps) : pl_to_ps[n] = Read + n - 1
        /\ Carried(Read + Len(pl_to_ps), next)
        /\ \A n \in 1 .. Len(behind) : behind[n] = next + n - 1

(***************************************************************************)
(* A port is driven by the one coroutine that holds its mutex: many        *)
(* coroutines of sp0 wait at once, and one that is resumed in the same     *)
(* sweep as the owner's last step may take the port over.                  *)
(***************************************************************************)
PortHeldByOne ==
  /\ \A k, m \in Holders("sp") : k = m
  /\ \A k, m \in Holders("mp") : k = m
  /\ sp_mutex <=> Holders("sp") # {}
  /\ mp_mutex <=> Holders("mp") # {}
  /\ sp # NoBeat <=> \E k \in Holders("sp") :
                       /\ co_list[k].pc # "unlock"
                       /\ sp = [word |-> co_list[k].word, last |-> co_list[k].last]
  /\ mp_tready <=> \E k \in Holders("mp") : co_list[k].pc # "unlock"

(***************************************************************************)
(* The stream protocol on sp0: a beat once offered is held until a tick at *)
(* which the PL takes it.                                                  *)
(***************************************************************************)
BeatsHeld ==
  [][ sp # NoBeat /\ sp' # sp =>
        \E k \in Holders("sp") : co_list[k].pc = "taken" ]_loopVars

(***************************************************************************)
(* The buffer is full, which makes it give words away and take no more,    *)
(* from the moment the last word of the transaction is in it until that    *)
(* word has left: it never gives a word it does not have.                  *)
(***************************************************************************)
FullMeansWhole ==
  buffer_full <=> buffer # << >> /\ buffer[Len(buffer)] = Txn - 1

(***************************************************************************)
(* The assertions of the program hold: the words come back in order, and   *)
(* TSTATUS reads 1 after the last one (ps.cpp, lines 21-37).               *)
(***************************************************************************)
AssertsHold == stage # "failed"

(***************************************************************************)
(* The program comes to its end, although nothing limits the words that    *)
(* wait for sp0 and the FIFO towards the PS is not read until the last     *)
(* word is written.                                                        *)
(***************************************************************************)
Completes == <>(stage = "stopped")

=============================================================================
