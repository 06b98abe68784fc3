--------------------------- MODULE PeripheralPort ---------------------------
(***************************************************************************)
(* The PL reads and writes a simulated peripheral: the subordinate side of *)
(* cosim/include/common/bsg_axil.h (saxil) on port hp1, the polls that     *)
(* start its coroutines, and the scratchpad of bsg_peripherals.h.          *)
(*                                                                         *)
(* One port serves reads and writes.  A poll may start one coroutine of    *)
(* each kind, which then share the mutex.  The master in the PL is any     *)
(* AXI4-Lite master with one read and one write outstanding and registered *)
(* outputs: it drives its pins at the tick.  The program calls next(), and *)
(* may tick the clock on its own in between, as black-parrot-example does  *)
(* while the host has no packet: the coroutines then stand still with      *)
(* their VALID up, and an answer may move unseen, or once more.            *)
(***************************************************************************)
EXTENDS Scheduler

CONSTANTS
  Mapped,      \* addresses of the scratchpad
  Unmapped,    \* addresses that no peripheral claims
  Data,
  NoBeat,      \* a channel with VALID low
  RawTicks     \* bound on the ticks without next()

Addresses == Mapped \cup Unmapped

ASSUME PortAssumption ==
  /\ Mapped \cap Unmapped = {}
  /\ NoBeat \notin Addresses \cup Data
  /\ RawTicks \in Nat

VARIABLES
  \* the port
  mutex, arready, r, awready, wready, bvalid,
  mem,                        \* the scratchpad
  ar, rready, aw, w, bready,  \* the pins of the master
  \* the master's accounts: beats taken that are not answered yet, and answers
  \* that have moved with none owed; the ticks without next() so far
  ar_owed, aw_owed, w_owed, surplus, raw,
  \* history: the address of the last read, and the values of its word since it
  \* was offered; how often the write under way has been performed
  asked, seen, performed

port     == <<mutex, arready, r, awready, wready, bvalid>>
pins     == <<ar, rready, aw, w, bready>>
accounts == <<ar_owed, aw_owed, w_owed, surplus, raw>>
history  == <<asked, seen, performed>>
portVars == <<scheduler, port, mem, pins, accounts, history>>

-----------------------------------------------------------------------------
(***************************************************************************)
(* The coroutines.                                                         *)
(***************************************************************************)
Resume(kind, pc) == Resumed(kind, pc) /\ UNCHANGED <<pins, accounts>>

PortThread(kind) ==
  [port |-> kind, pc |-> "lock", addr |-> NoBeat, data |-> NoBeat,
   aw_done |-> FALSE, w_done |-> FALSE]

\* The coroutine runs on to a yield with new locals.
YieldAs(coroutine) == co_list' = [co_list EXCEPT ![pos] = coroutine] /\ pos' = pos + 1

\* axil_read_helper: the lock, then the loop until an address is there.
ReadAccept ==
  /\ \E pc \in {"lock", "accept"} : Resume("read", pc)
  /\ IF me.pc = "lock" /\ mutex
     THEN Yield("lock") /\ UNCHANGED port
     ELSE /\ mutex' = TRUE /\ arready' = TRUE
          /\ IF ar # NoBeat THEN YieldAs([me EXCEPT !.pc = "accepted", !.addr = ar])
                            ELSE Yield("accept")
          /\ UNCHANGED <<r, awready, wready, bvalid>>
  /\ UNCHANGED <<mem, history>>

ReadAccepted ==
  /\ Resume("read", "accepted")
  /\ arready' = FALSE
  /\ Yield("respond")
  /\ UNCHANGED <<mutex, r, awready, wready, bvalid, mem, history>>

ReadLook == Yield(IF rready THEN "answered" ELSE "offer")

ReadRespond ==
  /\ Resume("read", "respond")
  /\ r' = mem[me.addr]
  /\ ReadLook
  /\ UNCHANGED <<mutex, arready, awready, wready, bvalid, mem, history>>

ReadOffer == Resume("read", "offer") /\ ReadLook /\ UNCHANGED <<port, mem, history>>

\* Mutant of ReadAnswered: the data stay valid until the lock is given back.
ReadAnsweredLate == Resume("read", "answered") /\ Yield("unlock") /\ UNCHANGED <<port, mem, history>>

ReadAnswered ==
  /\ Resume("read", "answered")
  /\ r' = NoBeat
  /\ Yield("unlock")
  /\ UNCHANGED <<mutex, arready, awready, wready, bvalid, mem, history>>

\* Mutant of WriteAccept: takes the port without a look at the mutex.
WriteAcceptBlind ==
  /\ \E pc \in {"lock", "accept"} : Resume("write", pc)
  /\ mutex' = TRUE /\ awready' = TRUE /\ wready' = TRUE
  /\ YieldAs([me EXCEPT !.pc = "accepted", !.addr = aw, !.data = w,
                        !.aw_done = TRUE, !.w_done = TRUE])
  /\ UNCHANGED <<arready, r, bvalid, mem, history>>

\* axil_write_helper: the lock, then the first half of the loop.
WriteAccept ==
  /\ Resume("write", "lock")
  /\ IF mutex
     THEN Yield("lock") /\ UNCHANGED port
     ELSE /\ mutex' = TRUE /\ awready' = TRUE /\ wready' = TRUE
          /\ YieldAs([me EXCEPT !.pc = "accepted",
                                !.addr = aw, !.aw_done = (aw # NoBeat),
                                !.data = w, !.w_done = (w # NoBeat)])
          /\ UNCHANGED <<arready, r, bvalid>>
  /\ UNCHANGED <<mem, history>>

\* Mutant of WriteAccepted: the loop ends before the write is performed.
WriteAcceptedNever ==
  /\ Resume("write", "accepted")
  /\ awready' = (awready /\ ~me.aw_done) /\ wready' = (wready /\ ~me.w_done)
  /\ Yield("respond")
  /\ UNCHANGED <<mutex, arready, r, bvalid, mem, history>>

\* The second half of the loop, and the first half of the next round.
WriteAccepted ==
  /\ Resume("write", "accepted")
  /\ awready' = (awready /\ ~me.aw_done) /\ wready' = (wready /\ ~me.w_done)
  /\ IF me.aw_done /\ me.w_done
     THEN /\ mem' = [mem EXCEPT ![me.addr] = me.data]
          /\ performed' = performed + 1
          /\ seen' = IF asked = me.addr THEN seen \cup {me.data} ELSE seen
          /\ Yield("respond") /\ UNCHANGED asked
     ELSE /\ YieldAs([me EXCEPT
               !.addr = IF aw # NoBeat THEN aw ELSE me.addr,
               !.aw_done = (me.aw_done \/ aw # NoBeat),
               !.data = IF w # NoBeat THEN w ELSE me.data,
               !.w_done = (me.w_done \/ w # NoBeat)])
          /\ UNCHANGED <<mem, history>>
  /\ UNCHANGED <<mutex, arready, r, bvalid>>

WriteLook == Yield(IF bready THEN "answered" ELSE "offer")

WriteRespond ==
  /\ Resume("write", "respond")
  /\ bvalid' = TRUE
  /\ WriteLook
  /\ UNCHANGED <<mutex, arready, r, awready, wready, mem, history>>

WriteOffer == Resume("write", "offer") /\ WriteLook /\ UNCHANGED <<port, mem, history>>

WriteAnswered ==
  /\ Resume("write", "answered")
  /\ bvalid' = FALSE
  /\ Yield("unlock")
  /\ UNCHANGED <<mutex, arready, r, awready, wready, mem, history>>

\* Mutant of Unlock: the helper returns with the port locked.
UnlockNever ==
  /\ \E kind \in {"read", "write"} : Resume(kind, "unlock")
  /\ Finish
  /\ UNCHANGED <<port, mem, history>>

Unlock ==
  /\ \E kind \in {"read", "write"} : Resume(kind, "unlock")
  /\ mutex' = FALSE
  /\ Finish
  /\ UNCHANGED <<arready, r, awready, wready, bvalid, mem, history>>

Swept == EndSweep /\ UNCHANGED <<port, mem, pins, accounts, history>>

-----------------------------------------------------------------------------
(***************************************************************************)
(* The polls.  A request at an address that no peripheral claims stays on  *)
(* its channel for ever, with an error message at each poll.               *)
(***************************************************************************)
has_read == ar # NoBeat /\ ~mutex

has_write == aw # NoBeat /\ w # NoBeat /\ ~mutex

Polls ==
  /\ turn = "pollm" /\ turn' = "tick"
  /\ co_list' =
       co_list \o (IF has_read /\ ar \in Mapped THEN <<PortThread("read")>> ELSE << >>)
               \o (IF has_write /\ aw \in Mapped THEN <<PortThread("write")>> ELSE << >>)
  /\ UNCHANGED <<pos, port, mem, pins, accounts, history>>

-----------------------------------------------------------------------------
(***************************************************************************)
(* The tick: the beats move, and the master drives its pins anew.          *)
(***************************************************************************)
ar_moves == arready /\ ar # NoBeat
aw_moves == awready /\ aw # NoBeat
w_moves  == wready /\ w # NoBeat
r_moves  == r # NoBeat /\ rready
b_moves  == bvalid /\ bready

\* A beat is held until it has moved; a new one is offered when none is owed.
Drives(beat, moves, owed, beats) ==
  IF beat # NoBeat /\ ~moves THEN {beat}
  ELSE {NoBeat} \cup (IF owed THEN {} ELSE beats)

Edge ==
  /\ ar_owed' = ((ar_owed \/ ar_moves) /\ ~r_moves)
  /\ aw_owed' = ((aw_owed \/ aw_moves) /\ ~b_moves)
  /\ w_owed' = ((w_owed \/ w_moves) /\ ~b_moves)
  /\ ar' \in Drives(ar, ar_moves, ar_owed', Addresses)
  /\ aw' \in Drives(aw, aw_moves, aw_owed', Addresses)
  /\ w' \in Drives(w, w_moves, w_owed', Data)
  /\ rready' \in BOOLEAN /\ bready' \in BOOLEAN
  /\ IF ar' # NoBeat /\ (ar = NoBeat \/ ar_moves)
     THEN asked' = ar' /\ seen' = IF ar' \in Mapped THEN {mem[ar']} ELSE {}
     ELSE UNCHANGED <<asked, seen>>
  /\ performed' = IF b_moves THEN 0 ELSE performed
  /\ surplus' = IF (r_moves /\ ~ar_owed) \/ (b_moves /\ ~(aw_owed /\ w_owed))
                THEN surplus + 1 ELSE surplus
  /\ UNCHANGED <<pos, co_list, port, mem>>

Tick == turn = "tick" /\ turn' = "call" /\ Edge /\ UNCHANGED raw

\* The program ticks the clock without next().
RawTick ==
  /\ turn = "call" /\ raw < RawTicks
  /\ raw' = raw + 1
  /\ Edge /\ UNCHANGED turn

Again ==
  /\ turn = "call" /\ BeginSweep
  /\ UNCHANGED <<port, mem, pins, accounts, history>>

PortInit ==
  /\ SchedulerInit
  /\ mutex = FALSE /\ arready = FALSE /\ r = NoBeat
  /\ awready = FALSE /\ wready = FALSE /\ bvalid = FALSE
  /\ mem \in [Mapped -> Data]
  /\ ar = NoBeat /\ rready = FALSE /\ aw = NoBeat /\ w = NoBeat /\ bready = FALSE
  /\ ar_owed = FALSE /\ aw_owed = FALSE /\ w_owed = FALSE /\ surplus = 0 /\ raw = 0
  /\ asked = NoBeat /\ seen = {} /\ performed = 0

PortNext ==
  \/ ReadAccept \/ ReadAccepted \/ ReadRespond \/ ReadOffer \/ ReadAnswered
  \/ WriteAccept \/ WriteAccepted \/ WriteRespond \/ WriteOffer \/ WriteAnswered
  \/ Unlock \/ Swept \/ Polls \/ Tick \/ RawTick \/ Again

PortSpec == PortInit /\ [][PortNext]_portVars

\* The thread runs on, and a master that waits for an answer is ready for it
\* again and again.
FairPortSpec ==
  /\ PortSpec
  /\ WF_portVars(PortNext)
  /\ SF_portVars(Tick /\ ar_owed' /\ rready')
  /\ SF_portVars(Tick /\ aw_owed' /\ w_owed' /\ bready')

-----------------------------------------------------------------------------
(***************************************************************************)
(* Correctness.                                                            *)
(***************************************************************************)

(***************************************************************************)
(* The two kinds of coroutine share one port without meeting on it: at     *)
(* most one is past lock(), and the pins of a channel are up only for the  *)
(* coroutine that serves it.                                               *)
(***************************************************************************)
OneHolder ==
  /\ \A k, m \in Holders("read") \cup Holders("write") : k = m
  /\ mutex <=> Holders("read") \cup Holders("write") # {}
  /\ arready \/ r # NoBeat => Holders("read") # {}
  /\ awready \/ wready \/ bvalid => Holders("write") # {}

(***************************************************************************)
(* Every request is answered before its helper gives the port back, and    *)
(* its answer moves once, although the helper lowers VALID a whole next()  *)
(* after it saw READY: each tick outside next() makes an answer move once  *)
(* more at most, to a master that waits for none.                          *)
(***************************************************************************)
AnswersOwed ==
  /\ surplus <= raw
  /\ \A k \in Holders("read") : co_list[k].pc = "unlock" => ~ar_owed
  /\ \A k \in Holders("write") : co_list[k].pc = "unlock" => ~aw_owed /\ ~w_owed

(***************************************************************************)
(* A read returns a value that the word had since its address was offered, *)
(* whatever writes happen meanwhile, and a write is performed once, before *)
(* it is answered.                                                         *)
(***************************************************************************)
Linearizable ==
  /\ r # NoBeat /\ ar_owed => r \in seen
  /\ performed <= 1
  /\ bvalid /\ aw_owed => performed = 1

\* The helper offers an answer that a tick outside next() has taken already.
Missed ==
  \/ \E k \in Holders("read") : co_list[k].pc = "offer" /\ ~ar_owed
  \/ \E k \in Holders("write") : co_list[k].pc = "offer" /\ ~(aw_owed /\ w_owed)

(***************************************************************************)
(* A read of a peripheral is accepted and answered, and so is a write of   *)
(* which both halves are offered, although they compete for the port and   *)
(* an unclaimed request may hang on the other channel.  Only an answer     *)
(* that was missed may keep the next request waiting: its helper has the   *)
(* port until the master is ready though it waits for nothing.             *)
(***************************************************************************)
RequestsServed ==
  /\ ar \in Mapped ~> ar_owed \/ Missed
  /\ ar_owed ~> ~ar_owed
  /\ aw \in Mapped /\ w # NoBeat ~> (aw_owed /\ w_owed) \/ Missed
  /\ aw_owed /\ w_owed ~> ~aw_owed /\ ~w_owed
=============================================================================
