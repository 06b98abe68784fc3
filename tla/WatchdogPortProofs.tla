-------------------------- MODULE WatchdogPortProofs --------------------------
(***************************************************************************)
(* However many writes of the watchdog wait for the port, one of them has  *)
(* it, and each of them moves one address, one word and one answer, and    *)
(* one of each more at most for every tick outside next().                 *)
(***************************************************************************)
EXTENDS WatchdogPort, SchedulerProofs

Thread == [port : {"gp2"}, pc : {"lock", "request", "await", "answer", "unlock"},
           aw_done : BOOLEAN, w_done : BOOLEAN, b_done : BOOLEAN]

Typed ==
  /\ co_list \in Seq(Thread) /\ pos \in Nat \ {0}
  /\ turn \in {"sweep", "pollm", "tick", "call"}
  /\ aw_beats \in Nat /\ w_beats \in Nat /\ b_beats \in Nat
  /\ returned \in Nat /\ raw \in Nat

Waits(k) == co_list[k].pc = "lock"

(***************************************************************************)
(* At most one coroutine is past lock(), the mutex tells whether there is  *)
(* one, and the pins are up only while it is at the yield that needs them. *)
(***************************************************************************)
PortInv ==
  /\ \A k, m \in 1 .. Len(co_list) : ~Waits(k) /\ ~Waits(m) => k = m
  /\ mutex => \E k \in 1 .. Len(co_list) : ~Waits(k)
  /\ ~mutex => ~awvalid /\ ~wvalid /\ ~bready
  /\ \A k \in 1 .. Len(co_list) : ~Waits(k) =>
       /\ mutex
       /\ awvalid \/ wvalid => co_list[k].pc = "request"
       /\ bready => co_list[k].pc = "answer"

\* The beats of a channel: those of the writes that have ended, n for the one
\* that has the port, and at most one for each raw tick.
Counted(n, beats_moved) == beats_moved \in returned + n .. returned + n + raw

(***************************************************************************)
(* A half of the request: while the coroutine has run since the last tick, *)
(* its flag says whether the beat moves at the tick to come; otherwise it  *)
(* says whether the beat has moved.                                        *)
(***************************************************************************)
Half(valid, ready, sent, beats_moved, ran) ==
  /\ valid \/ sent
  /\ ran /\ valid => (sent <=> ready)
  /\ Counted(One(sent /\ ~(ran /\ valid)), beats_moved)

BeatsOf(t, ran) ==
  /\ t.pc = "request" => /\ Half(awvalid, awready, t.aw_done, aw_beats, ran)
                         /\ Half(wvalid, wready, t.w_done, w_beats, ran)
  /\ t.pc \in {"await", "answer", "unlock"} =>
       Counted(1, aw_beats) /\ Counted(1, w_beats)
  /\ t.pc \in {"request", "await"} => ~t.b_done /\ Counted(0, b_beats)
  /\ t.pc = "answer" => /\ ran => (t.b_done <=> bvalid)
                        /\ bready
                        /\ Counted(One(t.b_done /\ ~ran), b_beats)
  /\ t.pc = "unlock" => Counted(1, b_beats)

\* A coroutine that waits has no flag set; the beats moved are those of the
\* writes that have ended, of the one that has the port, and of raw ticks.
BeatsInv ==
  /\ \A k \in 1 .. Len(co_list) : Waits(k) =>
       ~co_list[k].aw_done /\ ~co_list[k].w_done /\ ~co_list[k].b_done
  /\ \A k \in 1 .. Len(co_list) : ~Waits(k) => BeatsOf(co_list[k], TickToCome(k))
  /\ ~mutex => Counted(0, aw_beats) /\ Counted(0, w_beats) /\ Counted(0, b_beats)

WatchdogInv == Typed /\ PortInv /\ BeatsInv

-----------------------------------------------------------------------------
\* What a look at the pins does to the flags of the coroutine.
LEMMA LookReadyFacts ==
  ASSUME Typed, pos \in 1 .. Len(co_list), me \in Thread, LookReady
  PROVE  \E u \in Thread :
           /\ u.pc = "request"
           /\ u.aw_done <=> me.aw_done \/ awready
           /\ u.w_done <=> me.w_done \/ wready
           /\ u.b_done <=> me.b_done
           /\ co_list' = [co_list EXCEPT ![pos] = u] /\ pos' = pos + 1
<1> DEFINE u == [me EXCEPT !.pc = "request", !.aw_done = (me.aw_done \/ awready),
                           !.w_done = (me.w_done \/ wready)]
<1>1. u \in Thread
  BY DEF Thread
<1>2. u.pc = "request"
  BY DEF Thread
<1>3. u.aw_done <=> me.aw_done \/ awready
  BY DEF Thread
<1>4. u.w_done <=> me.w_done \/ wready
  BY DEF Thread
<1>5. u.b_done <=> me.b_done
  BY DEF Thread
<1>6. co_list' = [co_list EXCEPT ![pos] = u] /\ pos' = pos + 1
  BY DEF LookReady
<1> QED BY <1>1, <1>2, <1>3, <1>4, <1>5, <1>6, Zenon

\* The same for the valid pin of the answer.
LEMMA LookValidFacts ==
  ASSUME Typed, pos \in 1 .. Len(co_list), me \in Thread, LookValid
  PROVE  \E u \in Thread :
           /\ u.pc = "answer"
           /\ u.b_done <=> me.b_done \/ bvalid
           /\ co_list' = [co_list EXCEPT ![pos] = u] /\ pos' = pos + 1
<1> DEFINE u == [me EXCEPT !.pc = "answer", !.b_done = (me.b_done \/ bvalid)]
<1>1. u \in Thread
  BY DEF Thread
<1>2. u.pc = "answer"
  BY DEF Thread
<1>3. u.b_done <=> me.b_done \/ bvalid
  BY DEF Thread
<1>4. co_list' = [co_list EXCEPT ![pos] = u] /\ pos' = pos + 1
  BY DEF LookValid
<1> QED BY <1>1, <1>2, <1>3, <1>4, Zenon

\* What a yield leaves of the coroutine that ran.
LEMMA YieldFacts ==
  ASSUME Typed, pos \in 1 .. Len(co_list), me \in Thread, me = co_list[pos],
         NEW p \in {"lock", "request", "await", "answer", "unlock"}, Yield(p)
  PROVE  \E u \in Thread :
           /\ u.pc = p
           /\ u.aw_done <=> me.aw_done
           /\ u.w_done <=> me.w_done
           /\ u.b_done <=> me.b_done
           /\ co_list' = [co_list EXCEPT ![pos] = u] /\ pos' = pos + 1
<1> DEFINE u == [me EXCEPT !.pc = p]
<1>1. u \in Thread /\ u.pc = p
  BY DEF Thread
<1>2. (u.aw_done <=> me.aw_done) /\ (u.w_done <=> me.w_done) /\ (u.b_done <=> me.b_done)
  BY DEF Thread
<1>3. co_list' = [co_list EXCEPT ![pos] = u] /\ pos' = pos + 1
  BY DEF Yield
<1> QED BY <1>1, <1>2, <1>3, Zenon

-----------------------------------------------------------------------------
\* The coroutine that has the port runs on: what has to be shown of it.
LEMMA HolderRuns ==
  ASSUME WatchdogInv, pos \in 1 .. Len(co_list), ~Waits(pos),
         turn = "sweep", turn' = "sweep", NEW u \in Thread, u.pc # "lock",
         co_list' = [co_list EXCEPT ![pos] = u], pos' = pos + 1,
         mutex' <=> mutex,
         awvalid' \/ wvalid' => u.pc = "request", bready' => u.pc = "answer",
         UNCHANGED <<aw_beats, w_beats, b_beats, returned, raw>>,
         BeatsOf(u, TRUE)'
  PROVE  WatchdogInv'
<1>1. co_list \in Seq(Thread)
  BY DEF WatchdogInv, Typed
<1>2. /\ co_list' \in Seq(Thread) /\ Len(co_list') = Len(co_list)
      /\ \A k \in 1 .. Len(co_list) :
           co_list'[k] = IF k = pos THEN u ELSE co_list[k]
  BY <1>1, RunOn
<1>3. Typed'
  BY <1>2 DEF WatchdogInv, Typed
<1>4. \A k \in 1 .. Len(co_list) : ~Waits(k) <=> k = pos
  BY DEF WatchdogInv, PortInv
<1>5. \A k \in 1 .. Len(co_list) : ~Waits(k)' <=> k = pos
  BY <1>2, <1>4 DEF Waits
<1>6. mutex'
  BY DEF WatchdogInv, PortInv
<1>7. co_list'[pos] = u
  BY <1>2
<1>8. PortInv'
  <2>1. \A k, m \in 1 .. Len(co_list') : ~Waits(k)' /\ ~Waits(m)' => k = m
    BY <1>2, <1>5
  <2>2. \E k \in 1 .. Len(co_list') : ~Waits(k)'
    BY <1>2, <1>5
  <2>3. \A k \in 1 .. Len(co_list') : ~Waits(k)' => co_list'[k] = u
    BY <1>2, <1>5, <1>7
  <2> QED BY <1>6, <2>1, <2>2, <2>3 DEF PortInv
<1>9. BeatsInv'
  <2>1. PICK j \in 1 .. Len(co_list) : j = pos
    OBVIOUS
  <2>2. \A k \in 1 .. Len(co_list') : Waits(k)' => co_list'[k] = co_list[k] /\ Waits(k)
    BY <1>2, <1>4, <1>5
  <2>3. TickToCome(j)'
    BY <1>3, <2>1 DEF TickToCome, WatchdogInv, Typed
  <2>4. co_list[j]' = u
    BY <1>7, <2>1
  <2>5. BeatsOf(co_list[j], TickToCome(j))'
    BY <2>3, <2>4 DEF BeatsOf
  <2>6. \A k \in 1 .. Len(co_list') : ~Waits(k)' => k = j
    BY <1>2, <1>5, <2>1
  <2> QED BY <1>2, <1>6, <2>2, <2>5, <2>6 DEF BeatsInv, WatchdogInv
<1> QED BY <1>3, <1>8, <1>9 DEF WatchdogInv

\* What is known of the coroutine that runs, when it has the port.
LEMMA HolderFacts ==
  ASSUME WatchdogInv, turn = "sweep", pos <= Len(co_list), me.pc # "lock"
  PROVE  /\ pos \in 1 .. Len(co_list) /\ ~Waits(pos)
         /\ me \in Thread /\ me = co_list[pos]
         /\ mutex
         /\ awvalid \/ wvalid => me.pc = "request"
         /\ bready => me.pc = "answer"
         /\ BeatsOf(me, FALSE)
<1>1. /\ pos \in 1 .. Len(co_list) /\ me \in Thread /\ me = co_list[pos]
      /\ ~TickToCome(pos)
  BY DEF WatchdogInv, Typed, me, TickToCome
<1>2. ~Waits(pos)
  BY <1>1 DEF Waits
<1>3. /\ mutex
      /\ awvalid \/ wvalid => me.pc = "request"
      /\ bready => me.pc = "answer"
  BY <1>1, <1>2 DEF WatchdogInv, PortInv
<1>4. BeatsOf(me, TickToCome(pos))
  BY <1>1, <1>2 DEF WatchdogInv, BeatsInv
<1>5. BeatsOf(me, FALSE)
  BY <1>1, <1>4 DEF BeatsOf, Half, Counted
<1> QED BY <1>1, <1>2, <1>3, <1>5

\* The halves of the request that were seen to move go down.
LEMMA RequestInv == WatchdogInv /\ Request => WatchdogInv'
<1> SUFFICES ASSUME WatchdogInv, Request PROVE WatchdogInv'
  OBVIOUS
<1>0. turn = "sweep" /\ turn' = turn /\ pos <= Len(co_list) /\ me.pc = "request"
  BY DEF Request, Resume, Resumed
<1>1. /\ pos \in 1 .. Len(co_list) /\ ~Waits(pos)
      /\ me \in Thread /\ me.pc = "request" /\ me = co_list[pos]
      /\ turn = "sweep" /\ turn' = "sweep" /\ mutex /\ ~bready
      /\ BeatsOf(me, FALSE)
  BY <1>0, HolderFacts
<1>2. Typed
  BY DEF WatchdogInv
<1>3. /\ awvalid' <=> awvalid /\ ~me.aw_done
      /\ wvalid' <=> wvalid /\ ~me.w_done
      /\ bready' <=> bready
      /\ mutex' <=> mutex
      /\ (awready' <=> awready) /\ (wready' <=> wready)
  BY Zenon DEF Request, Resume, pins
<1>4. UNCHANGED <<aw_beats, w_beats, b_beats, returned, raw>>
  BY DEF Request, Resume, beats
<1>5. CASE me.aw_done /\ me.w_done
  <2>1. Yield("await")
    BY <1>5 DEF Request
  <2>2. PICK u \in Thread :
          /\ u.pc = "await" /\ (u.b_done <=> me.b_done)
          /\ co_list' = [co_list EXCEPT ![pos] = u] /\ pos' = pos + 1
    BY <1>1, <1>2, <2>1, YieldFacts
  <2>3. BeatsOf(u, TRUE)'
    BY <1>1, <1>2, <1>4, <1>5, <2>2 DEF BeatsOf, Half, Counted, One, Typed
  <2>4. ~awvalid' /\ ~wvalid' /\ ~bready'
    BY <1>1, <1>3, <1>5
  <2> QED BY <1>1, <1>3, <1>4, <2>2, <2>3, <2>4, HolderRuns
<1>6. CASE ~(me.aw_done /\ me.w_done)
  <2>1. LookReady
    BY <1>6 DEF Request
  <2>2. PICK u \in Thread :
          /\ u.pc = "request"
          /\ u.aw_done <=> me.aw_done \/ awready
          /\ u.w_done <=> me.w_done \/ wready
          /\ u.b_done <=> me.b_done
          /\ co_list' = [co_list EXCEPT ![pos] = u] /\ pos' = pos + 1
    BY <1>1, <1>2, <2>1, LookReadyFacts
  <2>3. BeatsOf(u, TRUE)'
    BY <1>1, <1>2, <1>3, <1>4, <2>2 DEF BeatsOf, Half, Counted, One, Typed
  <2> QED BY <1>1, <1>3, <1>4, <2>2, <2>3, HolderRuns
<1> QED BY <1>5, <1>6

\* READY for the answer goes up.
LEMMA AwaitInv == WatchdogInv /\ Await => WatchdogInv'
<1> SUFFICES ASSUME WatchdogInv, Await PROVE WatchdogInv'
  OBVIOUS
<1>0. turn = "sweep" /\ turn' = turn /\ pos <= Len(co_list) /\ me.pc = "await"
  BY DEF Await, Resume, Resumed
<1>1. /\ pos \in 1 .. Len(co_list) /\ ~Waits(pos)
      /\ me \in Thread /\ me.pc = "await" /\ me = co_list[pos]
      /\ turn = "sweep" /\ turn' = "sweep" /\ mutex /\ ~awvalid /\ ~wvalid
      /\ BeatsOf(me, FALSE)
  BY <1>0, HolderFacts
<1>2. Typed
  BY DEF WatchdogInv
<1>3. /\ awvalid' <=> awvalid
      /\ wvalid' <=> wvalid
      /\ bready'
      /\ mutex' <=> mutex
      /\ bvalid' <=> bvalid
  BY Zenon DEF Await, Resume, pins
<1>4. UNCHANGED <<aw_beats, w_beats, b_beats, returned, raw>>
  BY DEF Await, Resume, beats
<1>5. PICK u \in Thread :
        /\ u.pc = "answer" /\ (u.b_done <=> me.b_done \/ bvalid)
        /\ co_list' = [co_list EXCEPT ![pos] = u] /\ pos' = pos + 1
  BY <1>1, <1>2, LookValidFacts DEF Await
<1>6. BeatsOf(u, TRUE)'
  BY <1>1, <1>2, <1>3, <1>4, <1>5 DEF BeatsOf, Half, Counted, One, Typed
<1> QED BY <1>1, <1>3, <1>4, <1>5, <1>6, HolderRuns

\* READY goes down when the answer was seen.
LEMMA AnswerInv == WatchdogInv /\ Answer => WatchdogInv'
<1> SUFFICES ASSUME WatchdogInv, Answer PROVE WatchdogInv'
  OBVIOUS
<1>0. turn = "sweep" /\ turn' = turn /\ pos <= Len(co_list) /\ me.pc = "answer"
  BY DEF Answer, Resume, Resumed
<1>1. /\ pos \in 1 .. Len(co_list) /\ ~Waits(pos)
      /\ me \in Thread /\ me.pc = "answer" /\ me = co_list[pos]
      /\ turn = "sweep" /\ turn' = "sweep" /\ mutex /\ ~awvalid /\ ~wvalid
      /\ BeatsOf(me, FALSE)
  BY <1>0, HolderFacts
<1>2. Typed
  BY DEF WatchdogInv
<1>3. /\ awvalid' <=> awvalid
      /\ wvalid' <=> wvalid
      /\ mutex' <=> mutex
      /\ bvalid' <=> bvalid
  BY Zenon DEF Answer, Resume, pins
<1>4. UNCHANGED <<aw_beats, w_beats, b_beats, returned, raw>>
  BY DEF Answer, Resume, beats
<1>5. CASE me.b_done
  <2>1. ~bready' /\ Yield("unlock")
    BY <1>5, Zenon DEF Answer
  <2>2. PICK u \in Thread :
          /\ u.pc = "unlock"
          /\ co_list' = [co_list EXCEPT ![pos] = u] /\ pos' = pos + 1
    BY <1>1, <1>2, <2>1, YieldFacts
  <2>3. BeatsOf(u, TRUE)'
    BY <1>1, <1>2, <1>4, <1>5, <2>2 DEF BeatsOf, Half, Counted, One, Typed
  <2> QED BY <1>1, <1>3, <1>4, <2>1, <2>2, <2>3, HolderRuns
<1>6. CASE ~me.b_done
  <2>1. (bready' <=> bready) /\ LookValid
    BY <1>6, Zenon DEF Answer
  <2>2. PICK u \in Thread :
          /\ u.pc = "answer" /\ (u.b_done <=> me.b_done \/ bvalid)
          /\ co_list' = [co_list EXCEPT ![pos] = u] /\ pos' = pos + 1
    BY <1>1, <1>2, <2>1, LookValidFacts
  <2>3. BeatsOf(u, TRUE)'
    BY <1>1, <1>2, <1>3, <1>4, <1>6, <2>1, <2>2 DEF BeatsOf, Half, Counted, One, Typed
  <2> QED BY <1>1, <1>3, <1>4, <2>1, <2>2, <2>3, HolderRuns
<1> QED BY <1>5, <1>6

\* The coroutine gets the port and offers its beats, or goes on waiting.
LEMMA LockInv == WatchdogInv /\ Lock => WatchdogInv'
<1> SUFFICES ASSUME WatchdogInv, Lock PROVE WatchdogInv'
  OBVIOUS
<1>1. /\ turn = "sweep" /\ turn' = turn
      /\ pos \in 1 .. Len(co_list) /\ me \in Thread /\ me = co_list[pos]
      /\ me.pc = "lock" /\ Waits(pos)
  BY DEF Lock, Resume, Resumed, me, Waits, WatchdogInv, Typed
<1>2. Typed
  BY DEF WatchdogInv
<1>3. /\ (awready' <=> awready) /\ (wready' <=> wready) /\ (bvalid' <=> bvalid)
      /\ bready' <=> bready
  <2>1. UNCHANGED pins /\ UNCHANGED bready
    BY Zenon DEF Lock, Resume, port
  <2> QED BY <2>1, Zenon DEF pins
<1>4. UNCHANGED <<aw_beats, w_beats, b_beats, returned, raw>>
  BY DEF Lock, Resume, beats
<1>5. ~me.aw_done /\ ~me.w_done /\ ~me.b_done
  BY <1>1 DEF WatchdogInv, BeatsInv
<1>6. PICK j \in 1 .. Len(co_list) : j = pos
  BY <1>1
<1>7. CASE mutex /\ Yield("lock") /\ UNCHANGED port
  <2>1. PICK u \in Thread :
          /\ u.pc = "lock"
          /\ u.aw_done <=> me.aw_done
          /\ u.w_done <=> me.w_done
          /\ u.b_done <=> me.b_done
          /\ co_list' = [co_list EXCEPT ![pos] = u] /\ pos' = pos + 1
    BY <1>1, <1>2, <1>7, YieldFacts
  <2>2. /\ co_list' \in Seq(Thread) /\ Len(co_list') = Len(co_list)
        /\ \A k \in 1 .. Len(co_list) :
             co_list'[k] = IF k = pos THEN u ELSE co_list[k]
    BY <1>1, <1>2, <2>1, RunOn DEF Typed
  <2>3. /\ mutex /\ mutex' /\ (awvalid' <=> awvalid) /\ (wvalid' <=> wvalid)
    BY <1>7, Zenon DEF port
  <2>4. \A k \in 1 .. Len(co_list) :
          /\ Waits(k)' <=> Waits(k)
          /\ ~Waits(k) => /\ co_list'[k] = co_list[k] /\ co_list[k]' = co_list[k]
                          /\ TickToCome(k)' <=> TickToCome(k)
    BY <1>1, <1>2, <2>1, <2>2 DEF Waits, TickToCome, Typed
  <2>5. Typed'
    BY <1>1, <1>2, <1>4, <2>1, <2>2 DEF Typed
  <2>6. PortInv'
    BY <1>3, <2>2, <2>3, <2>4 DEF WatchdogInv, PortInv
  <2>7. \A k \in 1 .. Len(co_list') : Waits(k)' =>
          ~co_list'[k].aw_done /\ ~co_list'[k].w_done /\ ~co_list'[k].b_done
    BY <1>5, <2>1, <2>2, <2>4 DEF WatchdogInv, BeatsInv
  <2>8. ASSUME NEW k \in 1 .. Len(co_list'), ~Waits(k)'
        PROVE  BeatsOf(co_list[k], TickToCome(k))'
    <3>1. k \in 1 .. Len(co_list) /\ ~Waits(k)
      BY <1>4, <2>2, <2>4, <2>8
    <3>2. BeatsOf(co_list[k], TickToCome(k))
      BY <3>1 DEF WatchdogInv, BeatsInv
    <3>3. co_list[k]' = co_list[k] /\ (TickToCome(k)' <=> TickToCome(k))
      BY <2>4, <3>1
    <3> QED BY <1>3, <1>4, <2>3, <3>2, <3>3 DEF BeatsOf, Half, Counted
  <2>9. BeatsInv'
    BY <2>3, <2>7, <2>8 DEF BeatsInv
  <2> QED BY <2>5, <2>6, <2>9 DEF WatchdogInv
<1>8. CASE ~mutex /\ mutex' = TRUE /\ awvalid' = TRUE /\ wvalid' = TRUE /\ LookReady
  <2>1. PICK u \in Thread :
          /\ u.pc = "request"
          /\ u.aw_done <=> me.aw_done \/ awready
          /\ u.w_done <=> me.w_done \/ wready
          /\ u.b_done <=> me.b_done
          /\ co_list' = [co_list EXCEPT ![pos] = u] /\ pos' = pos + 1
    BY <1>1, <1>2, <1>8, LookReadyFacts
  <2>2. /\ co_list' \in Seq(Thread) /\ Len(co_list') = Len(co_list)
        /\ \A k \in 1 .. Len(co_list) :
             co_list'[k] = IF k = pos THEN u ELSE co_list[k]
    BY <1>1, <1>2, <2>1, RunOn DEF Typed
  <2>3. ~mutex /\ mutex' /\ awvalid' /\ wvalid' /\ ~bready'
    <3>1. ~mutex /\ mutex' /\ awvalid' /\ wvalid'
      BY <1>8, Zenon
    <3> QED BY <1>3, <3>1 DEF WatchdogInv, PortInv
  <2>4. \A k \in 1 .. Len(co_list) : Waits(k)
    BY <2>3 DEF WatchdogInv, PortInv
  <2>5. \A k \in 1 .. Len(co_list) : ~Waits(k)' <=> k = j
    BY <1>6, <2>1, <2>2, <2>4 DEF Waits
  <2>6. co_list[j]' = u /\ TickToCome(j)' /\ j \in 1 .. Len(co_list')
    BY <1>1, <1>2, <1>6, <2>1, <2>2 DEF TickToCome, Typed
  <2>7. Typed'
    BY <1>1, <1>2, <1>4, <2>1, <2>2 DEF Typed
  <2>8. PortInv'
    BY <2>1, <2>2, <2>3, <2>5, <2>6 DEF PortInv
  <2>9. \A k \in 1 .. Len(co_list') : Waits(k)' =>
          ~co_list'[k].aw_done /\ ~co_list'[k].w_done /\ ~co_list'[k].b_done
    BY <1>6, <2>2, <2>4, <2>5 DEF WatchdogInv, BeatsInv
  <2>10. BeatsOf(co_list[j], TickToCome(j))'
    <3>1. Counted(0, aw_beats) /\ Counted(0, w_beats) /\ Counted(0, b_beats)
      BY <2>3 DEF WatchdogInv, BeatsInv
    <3> QED BY <1>2, <1>3, <1>4, <1>5, <2>1, <2>3, <2>6, <3>1
         DEF BeatsOf, Half, Counted, One, Typed
  <2>11. BeatsInv'
    BY <2>2, <2>3, <2>5, <2>9, <2>10 DEF BeatsInv
  <2> QED BY <2>7, <2>8, <2>11 DEF WatchdogInv
<1> QED BY <1>7, <1>8 DEF Lock

\* The coroutine ends and leaves the port to those that wait.
LEMMA UnlockInv == WatchdogInv /\ Unlock => WatchdogInv'
<1> SUFFICES ASSUME WatchdogInv, Unlock PROVE WatchdogInv'
  OBVIOUS
<1>0. turn = "sweep" /\ turn' = turn /\ pos <= Len(co_list) /\ me.pc = "unlock"
  BY DEF Unlock, Resume, Resumed
<1>1. /\ pos \in 1 .. Len(co_list) /\ ~Waits(pos) /\ me \in Thread
      /\ mutex /\ ~awvalid /\ ~wvalid /\ ~bready
      /\ BeatsOf(me, FALSE)
  BY <1>0, HolderFacts
<1>2. Typed
  BY DEF WatchdogInv
<1>3. ~mutex' /\ ~awvalid' /\ ~wvalid' /\ ~bready'
  <2>1. ~mutex' /\ (awvalid' <=> awvalid) /\ (wvalid' <=> wvalid) /\ (bready' <=> bready)
    BY Zenon DEF Unlock
  <2> QED BY <1>1, <2>1
<1>4. UNCHANGED <<aw_beats, w_beats, b_beats, raw>> /\ returned' = returned + 1
  BY DEF Unlock, Resume, beats
<1>5. /\ co_list' \in Seq(Thread)
      /\ Len(co_list') = Len(co_list) - 1
      /\ \A k \in 1 .. Len(co_list) - 1 :
           co_list'[k] = IF k < pos THEN co_list[k] ELSE co_list[k + 1]
      /\ pos' = pos
  BY <1>1, <1>2, FinishProperties DEF Unlock, Typed
<1>6. \A k \in 1 .. Len(co_list) : ~Waits(k) <=> k = pos
  BY <1>1 DEF WatchdogInv, PortInv
<1>7. \A k \in 1 .. Len(co_list') : \E m \in 1 .. Len(co_list) :
        co_list'[k] = co_list[m] /\ Waits(m) /\ Waits(k)'
  <2> SUFFICES ASSUME NEW k \in 1 .. Len(co_list')
               PROVE  \E m \in 1 .. Len(co_list) :
                        co_list'[k] = co_list[m] /\ Waits(m) /\ Waits(k)'
    OBVIOUS
  <2>1. Len(co_list) \in Nat /\ pos \in Nat
    BY <1>1, <1>2 DEF Typed
  <2>2. CASE k < pos
    BY <1>5, <1>6, <2>1, <2>2 DEF Waits
  <2>3. CASE ~(k < pos)
    <3>1. k + 1 \in 1 .. Len(co_list) /\ k + 1 # pos
      BY <1>5, <2>1, <2>3
    <3> QED BY <1>5, <1>6, <2>1, <2>3, <3>1 DEF Waits
  <2> QED BY <2>2, <2>3
<1>8. Typed'
  BY <1>0, <1>2, <1>4, <1>5 DEF Typed
<1>9. PortInv'
  BY <1>3, <1>7 DEF PortInv
<1>10. BeatsInv'
  <2>1. Counted(1, aw_beats) /\ Counted(1, w_beats) /\ Counted(1, b_beats)
    BY <1>0, <1>1 DEF BeatsOf
  <2>2. Counted(0, aw_beats)' /\ Counted(0, w_beats)' /\ Counted(0, b_beats)'
    BY <1>2, <1>4, <2>1 DEF Counted, Typed
  <2> QED BY <1>3, <1>7, <2>2 DEF WatchdogInv, BeatsInv
<1> QED BY <1>8, <1>9, <1>10 DEF WatchdogInv

-----------------------------------------------------------------------------
\* A step that runs no coroutine and moves no beat.
LEMMA IdleStep ==
  ASSUME WatchdogInv, UNCHANGED <<port, co_list, pins, returned, beats>>,
         raw' = raw, pos' \in Nat \ {0},
         turn' \in {"sweep", "pollm", "tick", "call"},
         \A k \in 1 .. Len(co_list) : TickToCome(k)' <=> TickToCome(k)
  PROVE  WatchdogInv'
<1>1. /\ co_list' = co_list
      /\ UNCHANGED <<aw_beats, w_beats, b_beats, returned>>
  BY DEF beats
<1>2. /\ (mutex' <=> mutex) /\ (awvalid' <=> awvalid) /\ (wvalid' <=> wvalid)
      /\ (bready' <=> bready)
  BY Zenon DEF port
<1>3. (awready' <=> awready) /\ (wready' <=> wready) /\ (bvalid' <=> bvalid)
  BY Zenon DEF pins
<1>4. \A k : Waits(k)' <=> Waits(k)
  BY <1>1 DEF Waits
<1>5. Typed'
  BY <1>1 DEF WatchdogInv, Typed
<1>6. PortInv'
  BY <1>1, <1>2, <1>4 DEF WatchdogInv, PortInv
<1>7. \A k \in 1 .. Len(co_list) :
        BeatsOf(co_list[k], TickToCome(k)) => BeatsOf(co_list[k], TickToCome(k))'
  BY <1>1, <1>2, <1>3 DEF BeatsOf, Half, Counted
<1>8. BeatsInv'
  BY <1>1, <1>2, <1>4, <1>7 DEF WatchdogInv, BeatsInv, Counted
<1> QED BY <1>5, <1>6, <1>8 DEF WatchdogInv

\* The end of a sweep over the coroutines.
LEMMA SweptInv == WatchdogInv /\ Swept => WatchdogInv'
<1> SUFFICES ASSUME WatchdogInv, Swept PROVE WatchdogInv'
  OBVIOUS
<1>1. /\ turn = "sweep" /\ pos > Len(co_list) /\ turn' = "pollm"
      /\ pos' = pos /\ co_list' = co_list /\ raw' = raw
      /\ UNCHANGED <<port, pins, returned, beats>>
  BY DEF Swept, EndSweep
<1>2. pos' \in Nat \ {0} /\ Len(co_list) \in Nat
  BY <1>1 DEF WatchdogInv, Typed
<1>3. \A k \in 1 .. Len(co_list) : TickToCome(k)' <=> TickToCome(k)
  BY <1>1, <1>2 DEF TickToCome
<1> QED BY <1>1, <1>2, <1>3, IdleStep

\* The start of the next call of next().
LEMMA AgainInv == WatchdogInv /\ Again => WatchdogInv'
<1> SUFFICES ASSUME WatchdogInv, Again PROVE WatchdogInv'
  OBVIOUS
<1>1. /\ turn = "call" /\ turn' = "sweep" /\ pos' = 1
      /\ co_list' = co_list /\ raw' = raw
      /\ UNCHANGED <<port, pins, returned, beats>>
  BY DEF Again, BeginSweep
<1>2. \A k \in 1 .. Len(co_list) : TickToCome(k)' <=> TickToCome(k)
  BY <1>1 DEF TickToCome
<1> QED BY <1>1, <1>2, IdleStep

\* The watchdog counts, and starts a write that waits for the port.
LEMMA PollMInv == WatchdogInv /\ PollM => WatchdogInv'
<1> SUFFICES ASSUME WatchdogInv, PollM PROVE WatchdogInv'
  OBVIOUS
<1>1. /\ turn = "pollm" /\ turn' = "tick" /\ pos' = pos /\ raw' = raw
      /\ UNCHANGED <<port, pins, returned, beats>>
  BY DEF PollM
<1>2. Typed
  BY DEF WatchdogInv
<1>3. \A k : TickToCome(k)' <=> TickToCome(k)
  BY <1>1 DEF TickToCome
<1>4. CASE co_list' = co_list
  <2>1. pos' \in Nat \ {0}
    BY <1>1, <1>2 DEF Typed
  <2> QED BY <1>1, <1>3, <1>4, <2>1, IdleStep
<1>5. CASE Spawn(WoofThread)
  <2>1. WoofThread \in Thread
    BY DEF WoofThread, Thread
  <2>2. WoofThread.pc = "lock"
    BY DEF WoofThread
  <2>3. ~WoofThread.aw_done /\ ~WoofThread.w_done /\ ~WoofThread.b_done
    BY DEF WoofThread
  <2>4. /\ co_list' \in Seq(Thread)
        /\ Len(co_list') = Len(co_list) + 1
        /\ \A k \in 1 .. Len(co_list) : co_list'[k] = co_list[k]
        /\ co_list'[Len(co_list) + 1] = WoofThread
    BY <1>2, <1>5, <2>1, SpawnProperties DEF Typed
  <2>5. /\ UNCHANGED <<aw_beats, w_beats, b_beats, returned>>
    BY <1>1 DEF beats
  <2>6. /\ (mutex' <=> mutex) /\ (awvalid' <=> awvalid) /\ (wvalid' <=> wvalid)
        /\ (bready' <=> bready)
    BY <1>1, Zenon DEF port
  <2>7. (awready' <=> awready) /\ (wready' <=> wready) /\ (bvalid' <=> bvalid)
    BY <1>1, Zenon DEF pins
  <2>8. Len(co_list) \in Nat
    BY <1>2 DEF Typed
  <2>9. \A k \in 1 .. Len(co_list') :
          \/ k \in 1 .. Len(co_list) /\ co_list'[k] = co_list[k]
             /\ (Waits(k)' <=> Waits(k))
          \/ co_list'[k] = WoofThread /\ Waits(k)'
    <3> SUFFICES ASSUME NEW k \in 1 .. Len(co_list')
                 PROVE  \/ k \in 1 .. Len(co_list) /\ co_list'[k] = co_list[k]
                           /\ (Waits(k)' <=> Waits(k))
                        \/ co_list'[k] = WoofThread /\ Waits(k)'
      OBVIOUS
    <3>1. CASE k \in 1 .. Len(co_list)
      BY <2>4, <3>1 DEF Waits
    <3>2. CASE k = Len(co_list) + 1
      BY <2>2, <2>4, <3>2 DEF Waits
    <3> QED BY <2>4, <2>8, <3>1, <3>2
  <2>10. 1 .. Len(co_list) \subseteq 1 .. Len(co_list')
    BY <2>4, <2>8
  <2>11. \A k \in 1 .. Len(co_list) : Waits(k)' <=> Waits(k)
    BY <2>4 DEF Waits
  <2>12. Typed'
    BY <1>1, <1>2, <2>4, <2>5 DEF Typed
  <2>13. PortInv'
    <3>1. \A k, m \in 1 .. Len(co_list') : ~Waits(k)' /\ ~Waits(m)' => k = m
      BY <2>9 DEF WatchdogInv, PortInv
    <3>2. mutex => \E k \in 1 .. Len(co_list') : ~Waits(k)'
      BY <2>10, <2>11 DEF WatchdogInv, PortInv
    <3>3. \A k \in 1 .. Len(co_list') : ~Waits(k)' =>
            /\ mutex
            /\ awvalid \/ wvalid => co_list'[k].pc = "request"
            /\ bready => co_list'[k].pc = "answer"
      BY <2>9 DEF WatchdogInv, PortInv
    <3>4. ~mutex => ~awvalid /\ ~wvalid /\ ~bready
      BY DEF WatchdogInv, PortInv
    <3> QED BY <2>6, <3>1, <3>2, <3>3, <3>4 DEF PortInv
  <2>14. BeatsInv'
    <3>1. \A k \in 1 .. Len(co_list') : Waits(k)' =>
            ~co_list'[k].aw_done /\ ~co_list'[k].w_done /\ ~co_list'[k].b_done
      BY <2>3, <2>9 DEF WatchdogInv, BeatsInv
    <3>2. ASSUME NEW k \in 1 .. Len(co_list'), ~Waits(k)'
          PROVE  BeatsOf(co_list[k], TickToCome(k))'
      <4>1. k \in 1 .. Len(co_list) /\ co_list[k]' = co_list[k] /\ ~Waits(k)
        BY <2>9, <3>2
      <4>2. BeatsOf(co_list[k], TickToCome(k))
        BY <1>1, <3>2, <4>1 DEF WatchdogInv, BeatsInv
      <4> QED BY <1>1, <1>3, <2>5, <2>6, <2>7, <4>1, <4>2 DEF BeatsOf, Half, Counted
    <3> QED BY <1>1, <2>5, <2>6, <3>1, <3>2 DEF WatchdogInv, BeatsInv, Counted
  <2> QED BY <2>12, <2>13, <2>14 DEF WatchdogInv
<1> QED BY <1>4, <1>5 DEF PollM

-----------------------------------------------------------------------------
\* An edge leaves the coroutines and the pins they drive as they are.
LEMMA EdgePort ==
  ASSUME WatchdogInv, Edge, turn' \in {"sweep", "pollm", "tick", "call"},
         raw' \in Nat
  PROVE  /\ Typed' /\ PortInv'
         /\ \A k : Waits(k)' <=> Waits(k)
         /\ (mutex' <=> mutex) /\ (awvalid' <=> awvalid) /\ (wvalid' <=> wvalid)
         /\ (bready' <=> bready)
         /\ aw_beats' = aw_beats + One(awvalid /\ awready)
         /\ w_beats' = w_beats + One(wvalid /\ wready)
         /\ b_beats' = b_beats + One(bvalid /\ bready)
         /\ co_list' = co_list /\ returned' = returned
<1>1. co_list' = co_list /\ pos' = pos /\ returned' = returned
  BY DEF Edge
<1>2. (mutex' <=> mutex) /\ (awvalid' <=> awvalid) /\ (wvalid' <=> wvalid)
      /\ (bready' <=> bready)
  BY Zenon DEF Edge, port
<1>3. /\ aw_beats' = aw_beats + One(awvalid /\ awready)
      /\ w_beats' = w_beats + One(wvalid /\ wready)
      /\ b_beats' = b_beats + One(bvalid /\ bready)
  BY DEF Edge, aw_moves, w_moves, b_moves
<1>4. \A k : Waits(k)' <=> Waits(k)
  BY <1>1 DEF Waits
<1>5. Typed'
  BY <1>1, <1>3 DEF WatchdogInv, Typed, One
<1>6. PortInv'
  BY <1>1, <1>2, <1>4 DEF WatchdogInv, PortInv
<1> QED BY <1>1, <1>2, <1>3, <1>4, <1>5, <1>6

\* An edge moves the beats whose VALID and READY are up, and counts them.
LEMMA EdgeInv ==
  ASSUME WatchdogInv, Edge, turn' = "call", NEW ran \in BOOLEAN,
         \A k : TickToCome(k) <=> ran,
         raw' = IF ran THEN raw ELSE raw + 1
  PROVE  WatchdogInv'
<1>1. Typed /\ raw' \in Nat /\ (ran => raw' = raw) /\ (~ran => raw' = raw + 1)
  BY DEF WatchdogInv, Typed
<1>2. /\ Typed' /\ PortInv'
      /\ \A k : Waits(k)' <=> Waits(k)
      /\ (mutex' <=> mutex) /\ (awvalid' <=> awvalid) /\ (wvalid' <=> wvalid)
      /\ (bready' <=> bready)
      /\ aw_beats' = aw_beats + One(awvalid /\ awready)
      /\ w_beats' = w_beats + One(wvalid /\ wready)
      /\ b_beats' = b_beats + One(bvalid /\ bready)
      /\ co_list' = co_list /\ returned' = returned
  BY <1>1, EdgePort
<1>3. \A k : ~TickToCome(k)'
  BY DEF TickToCome
<1>4. ASSUME NEW k \in 1 .. Len(co_list), ~Waits(k)
      PROVE  BeatsOf(co_list[k], TickToCome(k))'
  <2>1. BeatsOf(co_list[k], TickToCome(k))
    BY <1>4 DEF WatchdogInv, BeatsInv
  <2>2. PICK t : t = co_list[k] /\ co_list[k]' = t
    BY <1>2
  <2>3. /\ awvalid \/ wvalid => t.pc = "request"
        /\ bready => t.pc = "answer"
    BY <1>4, <2>2 DEF WatchdogInv, PortInv
  <2>4. BeatsOf(t, ran)
    BY <2>1, <2>2 DEF BeatsOf, Half
  <2>5. BeatsOf(t, FALSE)'
    <3>1. CASE ran
      <4>1. BeatsOf(t, TRUE)
        BY <2>4, <3>1 DEF BeatsOf, Half
      <4> QED BY <1>1, <1>2, <2>3, <3>1, <4>1 DEF BeatsOf, Half, Counted, One, Typed
    <3>2. CASE ~ran
      <4>1. BeatsOf(t, FALSE)
        BY <2>4, <3>2 DEF BeatsOf, Half
      <4> QED BY <1>1, <1>2, <2>3, <3>2, <4>1 DEF BeatsOf, Half, Counted, One, Typed
    <3> QED BY <3>1, <3>2
  <2> QED BY <1>3, <2>2, <2>5 DEF BeatsOf, Half
<1>5. ~mutex => Counted(0, aw_beats)' /\ Counted(0, w_beats)' /\ Counted(0, b_beats)'
  <2> SUFFICES ASSUME ~mutex
               PROVE  Counted(0, aw_beats)' /\ Counted(0, w_beats)' /\ Counted(0, b_beats)'
    OBVIOUS
  <2>1. Counted(0, aw_beats) /\ Counted(0, w_beats) /\ Counted(0, b_beats)
    BY DEF WatchdogInv, BeatsInv
  <2>2. ~awvalid /\ ~wvalid /\ ~bready
    BY DEF WatchdogInv, PortInv
  <2>3. aw_beats' = aw_beats /\ w_beats' = w_beats /\ b_beats' = b_beats
    BY <1>1, <1>2, <2>2 DEF One, Typed
  <2> QED BY <1>1, <1>2, <2>1, <2>3 DEF Counted, Typed
<1>6. BeatsInv'
  BY <1>2, <1>4, <1>5 DEF WatchdogInv, BeatsInv
<1> QED BY <1>2, <1>6 DEF WatchdogInv

LEMMA TickInv == WatchdogInv /\ Tick => WatchdogInv'
<1> SUFFICES ASSUME WatchdogInv, Tick PROVE WatchdogInv'
  OBVIOUS
<1>1. /\ Edge /\ turn' = "call" /\ raw' = IF TRUE THEN raw ELSE raw + 1
      /\ \A k : TickToCome(k) <=> TRUE
  BY DEF Tick, TickToCome
<1> QED BY <1>1, EdgeInv

\* A raw tick: no coroutine has run since the last tick.
LEMMA RawTickInv == WatchdogInv /\ RawTick => WatchdogInv'
<1> SUFFICES ASSUME WatchdogInv, RawTick PROVE WatchdogInv'
  OBVIOUS
<1>1. /\ Edge /\ turn' = "call" /\ raw' = IF FALSE THEN raw ELSE raw + 1
      /\ \A k : TickToCome(k) <=> FALSE
  BY DEF RawTick, TickToCome
<1> QED BY <1>1, EdgeInv

\* At the start nobody holds the port and no pin is up.
LEMMA WatchdogInvInit == WatchdogInit => WatchdogInv
<1> SUFFICES ASSUME WatchdogInit PROVE WatchdogInv
  OBVIOUS
<1>1. /\ co_list = << >> /\ turn = "sweep" /\ pos = 1 /\ raw = 0 /\ returned = 0
      /\ aw_beats = 0 /\ w_beats = 0 /\ b_beats = 0
  BY DEF WatchdogInit, SchedulerInit
<1>2. ~mutex /\ ~awvalid /\ ~wvalid /\ ~bready
  BY Zenon DEF WatchdogInit
<1>3. co_list \in Seq(Thread) /\ Len(co_list) = 0
  BY <1>1
<1> QED BY <1>1, <1>2, <1>3 DEF WatchdogInv, Typed, PortInv, BeatsInv, Counted

LEMMA WatchdogInvNext == WatchdogInv /\ [WatchdogNext]_watchdogVars => WatchdogInv'
<1> SUFFICES ASSUME WatchdogInv, [WatchdogNext]_watchdogVars PROVE WatchdogInv'
  OBVIOUS
<1>1. CASE UNCHANGED watchdogVars
  <2>1. /\ UNCHANGED <<turn, pos, co_list, returned, beats, raw>>
        /\ UNCHANGED <<port, pins>>
    BY <1>1, Zenon DEF watchdogVars, scheduler
  <2>2. pos' \in Nat \ {0} /\ turn' \in {"sweep", "pollm", "tick", "call"}
    BY <2>1 DEF WatchdogInv, Typed
  <2>3. \A k \in 1 .. Len(co_list) : TickToCome(k)' <=> TickToCome(k)
    BY <2>1 DEF TickToCome
  <2> QED BY <2>1, <2>2, <2>3, IdleStep
<1>2. CASE WatchdogNext
  BY <1>2, LockInv, RequestInv, AwaitInv, AnswerInv, UnlockInv, SweptInv, PollMInv,
     TickInv, RawTickInv, AgainInv DEF WatchdogNext
<1> QED BY <1>1, <1>2

LEMMA ThreadFields ==
  ASSUME Typed
  PROVE  \A k \in 1 .. Len(co_list) :
           /\ co_list[k].port = "gp2"
           /\ co_list[k].pc \in {"lock", "request", "await", "answer", "unlock"}
<1>1. \A k \in 1 .. Len(co_list) : co_list[k] \in Thread
  BY DEF Typed
<1>2. \A t \in Thread :
        t.port = "gp2" /\ t.pc \in {"lock", "request", "await", "answer", "unlock"}
  BY DEF Thread
<1> QED BY <1>1, <1>2

(***************************************************************************)
(* However many writes wait for the port of the watchdog, one of them has  *)
(* it, and the pins are up only for what it has still to send or receive:  *)
(* for every period, with raw ticks and without.                           *)
(***************************************************************************)
THEOREM WatchdogWritesOneByOne == WatchdogSpec => []OneWriteAtATime
<1>1. WatchdogInv => OneWriteAtATime
  <2> SUFFICES ASSUME WatchdogInv PROVE OneWriteAtATime
    OBVIOUS
  <2>1. \A k \in 1 .. Len(co_list) : co_list[k].port = "gp2"
    BY ThreadFields DEF WatchdogInv
  <2>2. \A k : k \in Holders("gp2") <=> k \in 1 .. Len(co_list) /\ ~Waits(k)
    BY <2>1 DEF Holders, Threads, Waits
  <2> QED BY <2>2 DEF WatchdogInv, PortInv, OneWriteAtATime
<1> QED BY <1>1, WatchdogInvInit, WatchdogInvNext, PTL DEF WatchdogSpec

(***************************************************************************)
(* Each write moves one address, one word and one answer over the port     *)
(* before it ends, and none more than once but for one time more with each *)
(* tick outside next(), whenever the subordinate is ready and however many *)
(* writes wait.                                                            *)
(***************************************************************************)
THEOREM WatchdogBeatsCounted == WatchdogSpec => []OneBeatAWrite
<1>1. WatchdogInv => OneBeatAWrite
  <2> SUFFICES ASSUME WatchdogInv, NEW b \in {aw_beats, w_beats, b_beats}
               PROVE  b \in returned .. returned + One(mutex) + raw
    BY DEF OneBeatAWrite
  <2>1. returned \in Nat /\ raw \in Nat
    BY DEF WatchdogInv, Typed
  <2>2. CASE ~mutex
    BY <2>1, <2>2 DEF WatchdogInv, BeatsInv, Counted, One
  <2>3. CASE mutex
    <3>1. PICK k \in 1 .. Len(co_list) : ~Waits(k)
      BY <2>3 DEF WatchdogInv, PortInv
    <3>2. BeatsOf(co_list[k], TickToCome(k))
      BY <3>1 DEF WatchdogInv, BeatsInv
    <3>3. co_list[k].pc \in {"request", "await", "answer", "unlock"}
      BY <3>1, ThreadFields DEF WatchdogInv, Waits
    <3>4. Counted(0, b) \/ Counted(1, b)
      BY <3>2, <3>3 DEF BeatsOf, Half, One
    <3> QED BY <2>1, <2>3, <3>4 DEF Counted, One
  <2> QED BY <2>2, <2>3
<1> QED BY <1>1, WatchdogInvInit, WatchdogInvNext, PTL DEF WatchdogSpec
=============================================================================
