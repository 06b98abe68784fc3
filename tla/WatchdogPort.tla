---------------------------- MODULE WatchdogPort ----------------------------
(***************************************************************************)
(* The simulated watchdog writes to the PL: zynq_watchdog of               *)
(* bsg_peripherals.h, pollm_helper, and the write coroutine of maxil in    *)
(* bsg_axil.h, on port gp2.                                                *)
(*                                                                         *)
(* The watchdog starts a write every Period polls, answered or not, so     *)
(* that any number of coroutines may wait for the port.  The subordinate   *)
(* in the PL is any AXI4-Lite subordinate with registered outputs: it      *)
(* drives its pins at the tick and answers a write when it has both        *)
(* halves.  The program calls next(), and may tick the clock on its own in *)
(* between, as black-parrot-example/ps.cpp does.  Its stop(), which        *)
(* destroys the watchdog, is left out.                                     *)
(***************************************************************************)
EXTENDS Scheduler

CONSTANTS
  Period,      \* WATCHDOG_PERIOD
  MaxWoofs,    \* bound on the writes that the watchdog starts
  RawTicks     \* bound on the ticks without next()

ASSUME WatchdogAssumption ==
  Period \in Nat \ {0} /\ MaxWoofs \in Nat \ {0} /\ RawTicks \in Nat

VARIABLES
  mutex, awvalid, wvalid, bready,   \* the port
  count,                            \* of the watchdog, modulo Period
  awready, wready, bvalid,          \* the pins of the subordinate
  raw,                              \* ticks without next() so far
  \* history: writes started and ended; beats of each channel that have moved
  woofs, returned, aw_beats, w_beats, b_beats

port    == <<mutex, awvalid, wvalid, bready>>
pins    == <<awready, wready, bvalid>>
beats   == <<aw_beats, w_beats, b_beats>>
watchdogVars == <<scheduler, port, count, pins, raw, woofs, returned, beats>>

-----------------------------------------------------------------------------
(***************************************************************************)
(* The coroutine: maxil::axil_write_helper.                                *)
(***************************************************************************)
Resume(pc) == Resumed("gp2", pc) /\ UNCHANGED <<count, pins, raw, woofs, beats>>

WoofThread == [port |-> "gp2", pc |-> "lock",
               aw_done |-> FALSE, w_done |-> FALSE, b_done |-> FALSE]

\* The coroutine looks at the pins of the subordinate and yields.
LookReady ==
  /\ co_list' = [co_list EXCEPT ![pos] =
       [me EXCEPT !.pc = "request", !.aw_done = (me.aw_done \/ awready),
                                    !.w_done = (me.w_done \/ wready)]]
  /\ pos' = pos + 1

LookValid ==
  /\ co_list' = [co_list EXCEPT ![pos] =
       [me EXCEPT !.pc = "answer", !.b_done = (me.b_done \/ bvalid)]]
  /\ pos' = pos + 1

\* Mutant of Lock: the mutex is taken without a look at it.
LockBlind ==
  /\ Resume("lock")
  /\ mutex' = TRUE /\ awvalid' = TRUE /\ wvalid' = TRUE
  /\ LookReady
  /\ UNCHANGED <<bready, returned>>

Lock ==
  /\ Resume("lock")
  /\ \/ mutex /\ Yield("lock") /\ UNCHANGED port
     \/ /\ ~mutex
        /\ mutex' = TRUE /\ awvalid' = TRUE /\ wvalid' = TRUE
        /\ LookReady
        /\ UNCHANGED bready
  /\ UNCHANGED returned

\* Mutant of Request: address and data wait for each other.
RequestTogether ==
  /\ Resume("request")
  /\ IF me.aw_done /\ me.w_done
     THEN awvalid' = FALSE /\ wvalid' = FALSE /\ Yield("await")
     ELSE LookReady /\ UNCHANGED <<awvalid, wvalid>>
  /\ UNCHANGED <<mutex, bready, returned>>

Request ==
  /\ Resume("request")
  /\ awvalid' = (awvalid /\ ~me.aw_done) /\ wvalid' = (wvalid /\ ~me.w_done)
  /\ IF me.aw_done /\ me.w_done THEN Yield("await") ELSE LookReady
  /\ UNCHANGED <<mutex, bready, returned>>

Await ==
  /\ Resume("await")
  /\ bready' = TRUE
  /\ LookValid
  /\ UNCHANGED <<mutex, awvalid, wvalid, returned>>

Answer ==
  /\ Resume("answer")
  /\ IF me.b_done THEN bready' = FALSE /\ Yield("unlock")
                  ELSE LookValid /\ UNCHANGED bready
  /\ UNCHANGED <<mutex, awvalid, wvalid, returned>>

\* Mutant of Unlock: the mutex is kept.
UnlockNever ==
  /\ Resume("unlock")
  /\ returned' = returned + 1
  /\ Finish
  /\ UNCHANGED port

\* The helper returns, and the callback calls return_write.
Unlock ==
  /\ Resume("unlock")
  /\ mutex' = FALSE
  /\ returned' = returned + 1
  /\ Finish
  /\ UNCHANGED <<awvalid, wvalid, bready>>

Swept == EndSweep /\ UNCHANGED <<port, count, pins, raw, woofs, returned, beats>>

-----------------------------------------------------------------------------
\* pollm_helper with zynq_watchdog::pending_write, up to MaxWoofs writes; no
\* subordinate port is polled.
PollM ==
  /\ turn = "pollm" /\ turn' = "tick"
  /\ count' = (count + 1) % Period
  /\ IF count = 0 /\ woofs < MaxWoofs
     THEN Spawn(WoofThread) /\ woofs' = woofs + 1
     ELSE UNCHANGED <<co_list, woofs>>
  /\ UNCHANGED <<pos, port, pins, raw, returned, beats>>

-----------------------------------------------------------------------------
(***************************************************************************)
(* The tick: the beats move, and the subordinate drives its pins anew.     *)
(***************************************************************************)
aw_moves == awvalid /\ awready
w_moves  == wvalid /\ wready
b_moves  == bvalid /\ bready

One(condition) == IF condition THEN 1 ELSE 0

Edge ==
  /\ aw_beats' = aw_beats + One(aw_moves)
  /\ w_beats' = w_beats + One(w_moves)
  /\ b_beats' = b_beats + One(b_moves)
  /\ awready' \in BOOLEAN /\ wready' \in BOOLEAN
  /\ bvalid' \in IF bvalid /\ ~b_moves THEN {TRUE}
                 ELSE {FALSE} \cup {aw_beats' > b_beats' /\ w_beats' > b_beats'}
  /\ UNCHANGED <<pos, co_list, port, count, woofs, returned>>

Tick == turn = "tick" /\ turn' = "call" /\ Edge /\ UNCHANGED raw

\* The program ticks the clock without next().
RawTick ==
  /\ turn = "call" /\ raw < RawTicks
  /\ raw' = raw + 1
  /\ Edge /\ UNCHANGED turn

Again ==
  /\ turn = "call" /\ BeginSweep
  /\ UNCHANGED <<port, count, pins, raw, woofs, returned, beats>>

WatchdogInit ==
  /\ SchedulerInit
  /\ mutex = FALSE /\ awvalid = FALSE /\ wvalid = FALSE /\ bready = FALSE
  /\ count = 0
  /\ awready \in BOOLEAN /\ wready \in BOOLEAN /\ bvalid = FALSE
  /\ raw = 0 /\ woofs = 0 /\ returned = 0
  /\ aw_beats = 0 /\ w_beats = 0 /\ b_beats = 0

WatchdogNext ==
  \/ Lock \/ Request \/ Await \/ Answer \/ Unlock
  \/ Swept \/ PollM \/ Tick \/ RawTick \/ Again

WatchdogSpec == WatchdogInit /\ [][WatchdogNext]_watchdogVars

\* The thread runs on, and the subordinate is ready, and answers, again and
\* again.
FairWatchdogSpec ==
  /\ WatchdogSpec
  /\ WF_watchdogVars(WatchdogNext)
  /\ SF_watchdogVars(Tick /\ awready') /\ SF_watchdogVars(Tick /\ wready')
  /\ SF_watchdogVars(Tick /\ bvalid')

-----------------------------------------------------------------------------
(***************************************************************************)
(* Correctness.                                                            *)
(***************************************************************************)

(***************************************************************************)
(* However many writes wait, one of them has the port, and its pins are up *)
(* only for the halves that this write has still to send.                  *)
(***************************************************************************)
OneWriteAtATime ==
  /\ \A k, m \in Holders("gp2") : k = m
  /\ mutex <=> Holders("gp2") # {}
  /\ awvalid \/ wvalid => \E k \in Holders("gp2") : co_list[k].pc = "request"
  /\ bready => \E k \in Holders("gp2") : co_list[k].pc = "answer"

(***************************************************************************)
(* Each write sends one address and one word and takes one answer, and no  *)
(* write ends before all three have moved.  That each moves only once      *)
(* rests on a yield that lasts one cycle, as the comment at line 242 of    *)
(* bsg_axil.h expects: each tick outside next() makes a beat of a channel  *)
(* move once more at most.                                                 *)
(***************************************************************************)
OneBeatAWrite ==
  \A beats_moved \in {aw_beats, w_beats, b_beats} :
    beats_moved \in returned .. returned + One(mutex) + raw

(***************************************************************************)
(* Every write that the watchdog starts comes to its end, however many     *)
(* wait before it, unless a raw tick takes its answer.                     *)
(***************************************************************************)
WoofsReturn ==
  \A n \in 1 .. MaxWoofs : woofs = n /\ raw = 0 ~> returned >= n \/ raw > 0
=============================================================================
