------------------------- MODULE PeripheralPortProofs -------------------------
(***************************************************************************)
(* The coroutines that serve reads and writes of a peripheral share a port *)
(* without meeting on it, and each request is answered once but for ticks  *)
(* outside next(): for every set of addresses and words, and however many  *)
(* coroutines wait and such ticks there are.                               *)
(***************************************************************************)
EXTENDS PeripheralPort, SchedulerProofs

Yields == {"lock", "accept", "accepted", "respond", "offer", "answered", "unlock"}

Thread == [port : {"read", "write"}, pc : Yields,
           addr : Addresses \cup {NoBeat}, data : Data \cup {NoBeat},
           aw_done : BOOLEAN, w_done : BOOLEAN]

Typed ==
  /\ co_list \in Seq(Thread) /\ pos \in Nat \ {0}
  /\ turn \in {"sweep", "pollm", "tick", "call"}
  /\ ar \in Addresses \cup {NoBeat} /\ aw \in Addresses \cup {NoBeat}
  /\ w \in Data \cup {NoBeat}
  /\ surplus \in Nat /\ raw \in Nat

Waits(k) == co_list[k].pc = "lock"

Driven == arready \/ r # NoBeat \/ awready \/ wready \/ bvalid

\* The pins of the port are up only at the yields of the helper that need them.
DrivenBy(t) ==
  /\ arready => t.port = "read" /\ t.pc \in {"accept", "accepted"}
  /\ r # NoBeat => t.port = "read" /\ t.pc \in {"offer", "answered"}
  /\ awready \/ wready => t.port = "write" /\ t.pc = "accepted"
  /\ bvalid => t.port = "write" /\ t.pc \in {"offer", "answered"}

(***************************************************************************)
(* What the helper has noted of a beat: the beat moves at the tick to come *)
(* when the helper has run since the last one and READY is still up, and   *)
(* has been taken otherwise.                                               *)
(***************************************************************************)
Taken(ready, beat, owed, noted, ran) ==
  /\ ready \/ noted
  /\ ran /\ ready => (noted <=> beat # NoBeat)
  /\ noted /\ ~(ran /\ ready) => owed

(***************************************************************************)
(* From the beat that a helper takes to the answer that it gives the       *)
(* master waits, unless a tick outside next() has taken the answer unseen, *)
(* which leaves one more to move.  ran says that the helper has run since  *)
(* the last tick.                                                          *)
(***************************************************************************)
Spare == surplus < raw

ServedBy(t, ran) ==
  /\ t.port = "read" =>
       /\ t.pc = "accepted" => arready /\ IF ran THEN ar # NoBeat ELSE ar_owed
       /\ t.pc = "respond" => ar_owed
       /\ t.pc = "offer" => ar_owed \/ Spare
       /\ t.pc = "offer" /\ ran => ~rready
       /\ t.pc = "answered" /\ ran => rready /\ (ar_owed \/ Spare)
  /\ t.port = "write" =>
       /\ t.pc = "accepted" => /\ Taken(awready, aw, aw_owed, t.aw_done, ran)
                              /\ Taken(wready, w, w_owed, t.w_done, ran)
       /\ t.pc = "respond" => aw_owed /\ w_owed
       /\ t.pc = "offer" => (aw_owed /\ w_owed) \/ Spare
       /\ t.pc = "offer" /\ ran => ~bready
       /\ t.pc = "answered" /\ ran => bready /\ ((aw_owed /\ w_owed) \/ Spare)

\* Nothing is counted but at an edge.
LEMMA Uncounted ==
  ASSUME UNCHANGED accounts
  PROVE  surplus' = surplus /\ raw' = raw /\ (Spare' <=> Spare)
BY Zenon DEF accounts, Spare

PortInv ==
  /\ Typed /\ surplus <= raw
  /\ \A k, m \in 1 .. Len(co_list) : ~Waits(k) /\ ~Waits(m) => k = m
  /\ mutex => \E k \in 1 .. Len(co_list) : ~Waits(k)
  /\ ~mutex => ~Driven
  /\ \A k \in 1 .. Len(co_list) : ~Waits(k) =>
       mutex /\ DrivenBy(co_list[k]) /\ ServedBy(co_list[k], TickToCome(k))

-----------------------------------------------------------------------------
(***************************************************************************)
(* A coroutine that has the port, or takes it, runs on: what has to be     *)
(* shown of it.                                                            *)
(***************************************************************************)
LEMMA HolderRuns ==
  ASSUME PortInv, turn = "sweep", turn' = "sweep", pos \in 1 .. Len(co_list),
         \A k \in 1 .. Len(co_list) : k # pos => Waits(k),
         NEW u \in Thread, u.pc # "lock",
         co_list' = [co_list EXCEPT ![pos] = u], pos' = pos + 1,
         mutex', DrivenBy(u)', ServedBy(u, TRUE)', UNCHANGED <<ar, aw, w, surplus, raw>>
  PROVE  PortInv'
<1>1. co_list \in Seq(Thread) /\ pos \in Nat
  BY DEF PortInv, Typed
<1>2. /\ co_list' \in Seq(Thread) /\ Len(co_list') = Len(co_list)
      /\ \A k \in 1 .. Len(co_list) :
           co_list'[k] = IF k = pos THEN u ELSE co_list[k]
  BY <1>1, RunOn
<1>3. Typed' /\ (surplus <= raw)'
  BY <1>1, <1>2 DEF PortInv, Typed
<1>4. PICK j \in 1 .. Len(co_list) : j = pos
  OBVIOUS
<1>5. \A k \in 1 .. Len(co_list) : ~Waits(k)' <=> k = j
  BY <1>2, <1>4 DEF Waits
<1>6. co_list[j]' = u
  BY <1>2, <1>4
<1>7. TickToCome(j)'
  BY <1>1, <1>4 DEF TickToCome
<1>8. DrivenBy(co_list[j])'
  BY <1>6 DEF DrivenBy
<1>9. ServedBy(co_list[j], TickToCome(j))'
  BY <1>6, <1>7 DEF ServedBy, Taken
<1> QED BY <1>2, <1>3, <1>5, <1>8, <1>9 DEF PortInv

\* A step that changes no coroutine and no pin.
LEMMA IdleStep ==
  ASSUME PortInv, co_list' = co_list, UNCHANGED <<port, pins, accounts>>,
         pos' \in Nat \ {0}, turn' \in {"sweep", "pollm", "tick", "call"},
         \A k \in 1 .. Len(co_list) : ~Waits(k) => (TickToCome(k)' <=> TickToCome(k))
  PROVE  PortInv'
<1>1. ar' = ar /\ aw' = aw /\ w' = w /\ r' = r
  BY DEF pins, port
<1>2. /\ (mutex' <=> mutex) /\ (arready' <=> arready) /\ (awready' <=> awready)
      /\ (wready' <=> wready) /\ (bvalid' <=> bvalid)
  BY Zenon DEF port
<1>3. (rready' <=> rready) /\ (bready' <=> bready)
  BY Zenon DEF pins
<1>4. (ar_owed' <=> ar_owed) /\ (aw_owed' <=> aw_owed) /\ (w_owed' <=> w_owed)
  BY Zenon DEF accounts
<1>5. Typed' /\ (surplus <= raw)' /\ (Spare' <=> Spare)
  <2>1. surplus' = surplus /\ raw' = raw /\ (Spare' <=> Spare)
    BY Uncounted
  <2> QED BY <1>1, <2>1 DEF PortInv, Typed
<1>6. \A k : Waits(k)' <=> Waits(k)
  BY DEF Waits
<1>7. \A k \in 1 .. Len(co_list) : DrivenBy(co_list[k]) => DrivenBy(co_list[k])'
  BY <1>1, <1>2 DEF DrivenBy
<1>8. ASSUME NEW k \in 1 .. Len(co_list), ~Waits(k), ServedBy(co_list[k], TickToCome(k))
      PROVE  ServedBy(co_list[k], TickToCome(k))'
  BY <1>1, <1>2, <1>3, <1>4, <1>5, <1>8 DEF ServedBy, Taken
<1>9. Driven' => Driven
  BY <1>1, <1>2 DEF Driven
<1> QED BY <1>2, <1>5, <1>6, <1>7, <1>8, <1>9 DEF PortInv

\* What is known of the coroutine that runs, when it has the port.
LEMMA HolderFacts ==
  ASSUME PortInv, turn = "sweep", pos <= Len(co_list), me.pc # "lock"
  PROVE  /\ pos \in 1 .. Len(co_list) /\ me \in Thread /\ me = co_list[pos]
         /\ \A k \in 1 .. Len(co_list) : k # pos => Waits(k)
         /\ mutex /\ DrivenBy(me) /\ ServedBy(me, FALSE)
<1>1. /\ pos \in 1 .. Len(co_list) /\ me \in Thread /\ me = co_list[pos]
      /\ ~TickToCome(pos)
  BY DEF PortInv, Typed, me, TickToCome
<1>2. ~Waits(pos)
  BY <1>1 DEF Waits
<1>3. mutex /\ DrivenBy(me) /\ ServedBy(me, TickToCome(pos))
  BY <1>1, <1>2 DEF PortInv
<1>4. ServedBy(me, FALSE)
  BY <1>1, <1>3 DEF ServedBy, Taken
<1> QED BY <1>1, <1>2, <1>3, <1>4 DEF PortInv

\* What a yield leaves of the coroutine that ran.
LEMMA YieldFacts ==
  ASSUME NEW p \in Yields, Yield(p), me \in Thread, me = co_list[pos]
  PROVE  \E u \in Thread :
           /\ u.pc = p /\ u.port = me.port /\ u.addr = me.addr
           /\ co_list' = [co_list EXCEPT ![pos] = u] /\ pos' = pos + 1
<1> DEFINE u == [me EXCEPT !.pc = p]
<1>1. u \in Thread /\ u.pc = p /\ u.port = me.port /\ u.addr = me.addr
  BY DEF Thread
<1>2. co_list' = [co_list EXCEPT ![pos] = u] /\ pos' = pos + 1
  BY DEF Yield
<1> QED BY <1>1, <1>2, Zenon

\* READY of the address goes down.
LEMMA ReadAcceptedInv == PortInv /\ ReadAccepted => PortInv'
<1> SUFFICES ASSUME PortInv, ReadAccepted PROVE PortInv'
  OBVIOUS
<1>1. /\ turn = "sweep" /\ turn' = "sweep" /\ pos <= Len(co_list)
      /\ me.port = "read" /\ me.pc = "accepted"
  BY DEF ReadAccepted, Resume, Resumed
<1>2. /\ pos \in 1 .. Len(co_list) /\ me \in Thread /\ me = co_list[pos]
      /\ \A k \in 1 .. Len(co_list) : k # pos => Waits(k)
      /\ mutex /\ DrivenBy(me) /\ ServedBy(me, FALSE)
  BY <1>1, HolderFacts
<1>3. /\ (mutex' <=> mutex)
      /\ ~arready'
      /\ (awready' <=> awready)
      /\ (wready' <=> wready)
      /\ (bvalid' <=> bvalid)
      /\ (rready' <=> rready) /\ (bready' <=> bready)
      /\ (ar_owed' <=> ar_owed) /\ (aw_owed' <=> aw_owed) /\ (w_owed' <=> w_owed)
  BY Zenon DEF ReadAccepted, Resume, port, pins, accounts
<1>4. UNCHANGED <<ar, aw, w, surplus, raw>> /\ (Spare' <=> Spare) /\ r' = r
  BY Uncounted DEF ReadAccepted, Resume, pins, port
<1>5. PICK u \in Thread :
        /\ u.pc = "respond" /\ u.port = "read"
        /\ co_list' = [co_list EXCEPT ![pos] = u] /\ pos' = pos + 1
  <2>1. Yield("respond") /\ "respond" \in Yields
    BY DEF ReadAccepted, Yields
  <2> QED BY <1>1, <1>2, <2>1, YieldFacts
<1>6. DrivenBy(u)'
  BY <1>1, <1>2, <1>3, <1>4, <1>5 DEF DrivenBy
<1>7. ServedBy(u, TRUE)'
  BY <1>1, <1>2, <1>3, <1>4, <1>5 DEF ServedBy, Taken
<1> QED BY <1>1, <1>2, <1>3, <1>4, <1>5, <1>6, <1>7, HolderRuns

\* The word is read and put on the channel.
LEMMA ReadRespondInv == PortInv /\ ReadRespond => PortInv'
<1> SUFFICES ASSUME PortInv, ReadRespond PROVE PortInv'
  OBVIOUS
<1>1. /\ turn = "sweep" /\ turn' = "sweep" /\ pos <= Len(co_list)
      /\ me.port = "read" /\ me.pc = "respond"
  BY DEF ReadRespond, Resume, Resumed
<1>2. /\ pos \in 1 .. Len(co_list) /\ me \in Thread /\ me = co_list[pos]
      /\ \A k \in 1 .. Len(co_list) : k # pos => Waits(k)
      /\ mutex /\ DrivenBy(me) /\ ServedBy(me, FALSE)
  BY <1>1, HolderFacts
<1>3. /\ (mutex' <=> mutex)
      /\ (arready' <=> arready)
      /\ (awready' <=> awready)
      /\ (wready' <=> wready)
      /\ (bvalid' <=> bvalid)
      /\ (rready' <=> rready) /\ (bready' <=> bready)
      /\ (ar_owed' <=> ar_owed) /\ (aw_owed' <=> aw_owed) /\ (w_owed' <=> w_owed)
  BY Zenon DEF ReadRespond, Resume, port, pins, accounts
<1>4. UNCHANGED <<ar, aw, w, surplus, raw>> /\ (Spare' <=> Spare)
  BY Uncounted DEF ReadRespond, Resume, pins, port
<1>5. CASE rready
  <2>1. PICK u \in Thread :
          /\ u.pc = "answered" /\ u.port = "read"
          /\ co_list' = [co_list EXCEPT ![pos] = u] /\ pos' = pos + 1
    <3>1. Yield("answered") /\ "answered" \in Yields
      BY <1>5, Zenon DEF ReadRespond, ReadLook, Yields
    <3> QED BY <1>1, <1>2, <3>1, YieldFacts
  <2>2. DrivenBy(u)'
    BY <1>1, <1>2, <1>3, <1>4, <2>1 DEF DrivenBy
  <2>3. ServedBy(u, TRUE)'
    BY <1>1, <1>2, <1>3, <1>4, <1>5, <2>1 DEF ServedBy, Taken
  <2> QED BY <1>1, <1>2, <1>3, <1>4, <2>1, <2>2, <2>3, HolderRuns
<1>6. CASE ~rready
  <2>1. PICK u \in Thread :
          /\ u.pc = "offer" /\ u.port = "read"
          /\ co_list' = [co_list EXCEPT ![pos] = u] /\ pos' = pos + 1
    <3>1. Yield("offer") /\ "offer" \in Yields
      BY <1>6, Zenon DEF ReadRespond, ReadLook, Yields
    <3> QED BY <1>1, <1>2, <3>1, YieldFacts
  <2>2. DrivenBy(u)'
    BY <1>1, <1>2, <1>3, <1>4, <2>1 DEF DrivenBy
  <2>3. ServedBy(u, TRUE)'
    BY <1>1, <1>2, <1>3, <1>4, <1>6, <2>1 DEF ServedBy, Taken
  <2> QED BY <1>1, <1>2, <1>3, <1>4, <2>1, <2>2, <2>3, HolderRuns
<1> QED BY <1>5, <1>6

\* The answer waits for the master to take it.
LEMMA ReadOfferInv == PortInv /\ ReadOffer => PortInv'
<1> SUFFICES ASSUME PortInv, ReadOffer PROVE PortInv'
  OBVIOUS
<1>1. /\ turn = "sweep" /\ turn' = "sweep" /\ pos <= Len(co_list)
      /\ me.port = "read" /\ me.pc = "offer"
  BY DEF ReadOffer, Resume, Resumed
<1>2. /\ pos \in 1 .. Len(co_list) /\ me \in Thread /\ me = co_list[pos]
      /\ \A k \in 1 .. Len(co_list) : k # pos => Waits(k)
      /\ mutex /\ DrivenBy(me) /\ ServedBy(me, FALSE)
  BY <1>1, HolderFacts
<1>3. /\ (mutex' <=> mutex)
      /\ (arready' <=> arready)
      /\ (awready' <=> awready)
      /\ (wready' <=> wready)
      /\ (bvalid' <=> bvalid)
      /\ (rready' <=> rready) /\ (bready' <=> bready)
      /\ (ar_owed' <=> ar_owed) /\ (aw_owed' <=> aw_owed) /\ (w_owed' <=> w_owed)
  BY Zenon DEF ReadOffer, Resume, port, pins, accounts
<1>4. UNCHANGED <<ar, aw, w, surplus, raw>> /\ (Spare' <=> Spare) /\ r' = r
  BY Uncounted DEF ReadOffer, Resume, pins, port
<1>5. CASE rready
  <2>1. PICK u \in Thread :
          /\ u.pc = "answered" /\ u.port = "read"
          /\ co_list' = [co_list EXCEPT ![pos] = u] /\ pos' = pos + 1
    <3>1. Yield("answered") /\ "answered" \in Yields
      BY <1>5, Zenon DEF ReadOffer, ReadLook, Yields
    <3> QED BY <1>1, <1>2, <3>1, YieldFacts
  <2>2. DrivenBy(u)'
    BY <1>1, <1>2, <1>3, <1>4, <2>1 DEF DrivenBy
  <2>3. ServedBy(u, TRUE)'
    BY <1>1, <1>2, <1>3, <1>4, <1>5, <2>1 DEF ServedBy, Taken
  <2> QED BY <1>1, <1>2, <1>3, <1>4, <2>1, <2>2, <2>3, HolderRuns
<1>6. CASE ~rready
  <2>1. PICK u \in Thread :
          /\ u.pc = "offer" /\ u.port = "read"
          /\ co_list' = [co_list EXCEPT ![pos] = u] /\ pos' = pos + 1
    <3>1. Yield("offer") /\ "offer" \in Yields
      BY <1>6, Zenon DEF ReadOffer, ReadLook, Yields
    <3> QED BY <1>1, <1>2, <3>1, YieldFacts
  <2>2. DrivenBy(u)'
    BY <1>1, <1>2, <1>3, <1>4, <2>1 DEF DrivenBy
  <2>3. ServedBy(u, TRUE)'
    BY <1>1, <1>2, <1>3, <1>4, <1>6, <2>1 DEF ServedBy, Taken
  <2> QED BY <1>1, <1>2, <1>3, <1>4, <2>1, <2>2, <2>3, HolderRuns
<1> QED BY <1>5, <1>6

\* The answer has moved and VALID goes down.
LEMMA ReadAnsweredInv == PortInv /\ ReadAnswered => PortInv'
<1> SUFFICES ASSUME PortInv, ReadAnswered PROVE PortInv'
  OBVIOUS
<1>1. /\ turn = "sweep" /\ turn' = "sweep" /\ pos <= Len(co_list)
      /\ me.port = "read" /\ me.pc = "answered"
  BY DEF ReadAnswered, Resume, Resumed
<1>2. /\ pos \in 1 .. Len(co_list) /\ me \in Thread /\ me = co_list[pos]
      /\ \A k \in 1 .. Len(co_list) : k # pos => Waits(k)
      /\ mutex /\ DrivenBy(me) /\ ServedBy(me, FALSE)
  BY <1>1, HolderFacts
<1>3. /\ (mutex' <=> mutex)
      /\ (arready' <=> arready)
      /\ (awready' <=> awready)
      /\ (wready' <=> wready)
      /\ (bvalid' <=> bvalid)
      /\ (rready' <=> rready) /\ (bready' <=> bready)
      /\ (ar_owed' <=> ar_owed) /\ (aw_owed' <=> aw_owed) /\ (w_owed' <=> w_owed)
  BY Zenon DEF ReadAnswered, Resume, port, pins, accounts
<1>4. UNCHANGED <<ar, aw, w, surplus, raw>> /\ (Spare' <=> Spare) /\ r' = NoBeat
  BY Uncounted DEF ReadAnswered, Resume, pins, port
<1>5. PICK u \in Thread :
        /\ u.pc = "unlock" /\ u.port = "read"
        /\ co_list' = [co_list EXCEPT ![pos] = u] /\ pos' = pos + 1
  <2>1. Yield("unlock") /\ "unlock" \in Yields
    BY DEF ReadAnswered, Yields
  <2> QED BY <1>1, <1>2, <2>1, YieldFacts
<1>6. DrivenBy(u)'
  BY <1>1, <1>2, <1>3, <1>4, <1>5 DEF DrivenBy
<1>7. ServedBy(u, TRUE)'
  BY <1>1, <1>2, <1>3, <1>4, <1>5 DEF ServedBy, Taken
<1> QED BY <1>1, <1>2, <1>3, <1>4, <1>5, <1>6, <1>7, HolderRuns

\* The answer of a write is put on the channel.
LEMMA WriteRespondInv == PortInv /\ WriteRespond => PortInv'
<1> SUFFICES ASSUME PortInv, WriteRespond PROVE PortInv'
  OBVIOUS
<1>1. /\ turn = "sweep" /\ turn' = "sweep" /\ pos <= Len(co_list)
      /\ me.port = "write" /\ me.pc = "respond"
  BY DEF WriteRespond, Resume, Resumed
<1>2. /\ pos \in 1 .. Len(co_list) /\ me \in Thread /\ me = co_list[pos]
      /\ \A k \in 1 .. Len(co_list) : k # pos => Waits(k)
      /\ mutex /\ DrivenBy(me) /\ ServedBy(me, FALSE)
  BY <1>1, HolderFacts
<1>3. /\ (mutex' <=> mutex)
      /\ (arready' <=> arready)
      /\ (awready' <=> awready)
      /\ (wready' <=> wready)
      /\ bvalid'
      /\ (rready' <=> rready) /\ (bready' <=> bready)
      /\ (ar_owed' <=> ar_owed) /\ (aw_owed' <=> aw_owed) /\ (w_owed' <=> w_owed)
  BY Zenon DEF WriteRespond, Resume, port, pins, accounts
<1>4. UNCHANGED <<ar, aw, w, surplus, raw>> /\ (Spare' <=> Spare) /\ r' = r
  BY Uncounted DEF WriteRespond, Resume, pins, port
<1>5. CASE bready
  <2>1. PICK u \in Thread :
          /\ u.pc = "answered" /\ u.port = "write"
          /\ co_list' = [co_list EXCEPT ![pos] = u] /\ pos' = pos + 1
    <3>1. Yield("answered") /\ "answered" \in Yields
      BY <1>5, Zenon DEF WriteRespond, WriteLook, Yields
    <3> QED BY <1>1, <1>2, <3>1, YieldFacts
  <2>2. DrivenBy(u)'
    BY <1>1, <1>2, <1>3, <1>4, <2>1 DEF DrivenBy
  <2>3. ServedBy(u, TRUE)'
    BY <1>1, <1>2, <1>3, <1>4, <1>5, <2>1 DEF ServedBy, Taken
  <2> QED BY <1>1, <1>2, <1>3, <1>4, <2>1, <2>2, <2>3, HolderRuns
<1>6. CASE ~bready
  <2>1. PICK u \in Thread :
          /\ u.pc = "offer" /\ u.port = "write"
          /\ co_list' = [co_list EXCEPT ![pos] = u] /\ pos' = pos + 1
    <3>1. Yield("offer") /\ "offer" \in Yields
      BY <1>6, Zenon DEF WriteRespond, WriteLook, Yields
    <3> QED BY <1>1, <1>2, <3>1, YieldFacts
  <2>2. DrivenBy(u)'
    BY <1>1, <1>2, <1>3, <1>4, <2>1 DEF DrivenBy
  <2>3. ServedBy(u, TRUE)'
    BY <1>1, <1>2, <1>3, <1>4, <1>6, <2>1 DEF ServedBy, Taken
  <2> QED BY <1>1, <1>2, <1>3, <1>4, <2>1, <2>2, <2>3, HolderRuns
<1> QED BY <1>5, <1>6

\* The answer waits for the master to take it.
LEMMA WriteOfferInv == PortInv /\ WriteOffer => PortInv'
<1> SUFFICES ASSUME PortInv, WriteOffer PROVE PortInv'
  OBVIOUS
<1>1. /\ turn = "sweep" /\ turn' = "sweep" /\ pos <= Len(co_list)
      /\ me.port = "write" /\ me.pc = "offer"
  BY DEF WriteOffer, Resume, Resumed
<1>2. /\ pos \in 1 .. Len(co_list) /\ me \in Thread /\ me = co_list[pos]
      /\ \A k \in 1 .. Len(co_list) : k # pos => Waits(k)
      /\ mutex /\ DrivenBy(me) /\ ServedBy(me, FALSE)
  BY <1>1, HolderFacts
<1>3. /\ (mutex' <=> mutex)
      /\ (arready' <=> arready)
      /\ (awready' <=> awready)
      /\ (wready' <=> wready)
      /\ (bvalid' <=> bvalid)
      /\ (rready' <=> rready) /\ (bready' <=> bready)
      /\ (ar_owed' <=> ar_owed) /\ (aw_owed' <=> aw_owed) /\ (w_owed' <=> w_owed)
  BY Zenon DEF WriteOffer, Resume, port, pins, accounts
<1>4. UNCHANGED <<ar, aw, w, surplus, raw>> /\ (Spare' <=> Spare) /\ r' = r
  BY Uncounted DEF WriteOffer, Resume, pins, port
<1>5. CASE bready
  <2>1. PICK u \in Thread :
          /\ u.pc = "answered" /\ u.port = "write"
          /\ co_list' = [co_list EXCEPT ![pos] = u] /\ pos' = pos + 1
    <3>1. Yield("answered") /\ "answered" \in Yields
      BY <1>5, Zenon DEF WriteOffer, WriteLook, Yields
    <3> QED BY <1>1, <1>2, <3>1, YieldFacts
  <2>2. DrivenBy(u)'
    BY <1>1, <1>2, <1>3, <1>4, <2>1 DEF DrivenBy
  <2>3. ServedBy(u, TRUE)'
    BY <1>1, <1>2, <1>3, <1>4, <1>5, <2>1 DEF ServedBy, Taken
  <2> QED BY <1>1, <1>2, <1>3, <1>4, <2>1, <2>2, <2>3, HolderRuns
<1>6. CASE ~bready
  <2>1. PICK u \in Thread :
          /\ u.pc = "offer" /\ u.port = "write"
          /\ co_list' = [co_list EXCEPT ![pos] = u] /\ pos' = pos + 1
    <3>1. Yield("offer") /\ "offer" \in Yields
      BY <1>6, Zenon DEF WriteOffer, WriteLook, Yields
    <3> QED BY <1>1, <1>2, <3>1, YieldFacts
  <2>2. DrivenBy(u)'
    BY <1>1, <1>2, <1>3, <1>4, <2>1 DEF DrivenBy
  <2>3. ServedBy(u, TRUE)'
    BY <1>1, <1>2, <1>3, <1>4, <1>6, <2>1 DEF ServedBy, Taken
  <2> QED BY <1>1, <1>2, <1>3, <1>4, <2>1, <2>2, <2>3, HolderRuns
<1> QED BY <1>5, <1>6

\* The answer has moved and VALID goes down.
LEMMA WriteAnsweredInv == PortInv /\ WriteAnswered => PortInv'
<1> SUFFICES ASSUME PortInv, WriteAnswered PROVE PortInv'
  OBVIOUS
<1>1. /\ turn = "sweep" /\ turn' = "sweep" /\ pos <= Len(co_list)
      /\ me.port = "write" /\ me.pc = "answered"
  BY DEF WriteAnswered, Resume, Resumed
<1>2. /\ pos \in 1 .. Len(co_list) /\ me \in Thread /\ me = co_list[pos]
      /\ \A k \in 1 .. Len(co_list) : k # pos => Waits(k)
      /\ mutex /\ DrivenBy(me) /\ ServedBy(me, FALSE)
  BY <1>1, HolderFacts
<1>3. /\ (mutex' <=> mutex)
      /\ (arready' <=> arready)
      /\ (awready' <=> awready)
      /\ (wready' <=> wready)
      /\ ~bvalid'
      /\ (rready' <=> rready) /\ (bready' <=> bready)
      /\ (ar_owed' <=> ar_owed) /\ (aw_owed' <=> aw_owed) /\ (w_owed' <=> w_owed)
  BY Zenon DEF WriteAnswered, Resume, port, pins, accounts
<1>4. UNCHANGED <<ar, aw, w, surplus, raw>> /\ (Spare' <=> Spare) /\ r' = r
  BY Uncounted DEF WriteAnswered, Resume, pins, port
<1>5. PICK u \in Thread :
        /\ u.pc = "unlock" /\ u.port = "write"
        /\ co_list' = [co_list EXCEPT ![pos] = u] /\ pos' = pos + 1
  <2>1. Yield("unlock") /\ "unlock" \in Yields
    BY DEF WriteAnswered, Yields
  <2> QED BY <1>1, <1>2, <2>1, YieldFacts
<1>6. DrivenBy(u)'
  BY <1>1, <1>2, <1>3, <1>4, <1>5 DEF DrivenBy
<1>7. ServedBy(u, TRUE)'
  BY <1>1, <1>2, <1>3, <1>4, <1>5 DEF ServedBy, Taken
<1> QED BY <1>1, <1>2, <1>3, <1>4, <1>5, <1>6, <1>7, HolderRuns

-----------------------------------------------------------------------------
\* A coroutine that finds the port taken is as it was after its yield.
LEMMA StaysOutside ==
  ASSUME PortInv, turn = "sweep", turn' = "sweep", pos <= Len(co_list),
         me.pc = "lock", Yield("lock"), UNCHANGED <<port, pins, accounts>>
  PROVE  PortInv'
<1>1. /\ pos \in 1 .. Len(co_list) /\ me \in Thread /\ me = co_list[pos]
      /\ pos \in Nat /\ co_list \in Seq(Thread)
  BY DEF PortInv, Typed, me
<1>2. [me EXCEPT !.pc = "lock"] = me
  BY <1>1 DEF Thread
<1>3. co_list' = co_list /\ pos' = pos + 1
  BY <1>1, <1>2 DEF Yield
<1>4. \A k \in 1 .. Len(co_list) : ~Waits(k) => (TickToCome(k)' <=> TickToCome(k))
  BY <1>1, <1>3 DEF TickToCome, Waits
<1> QED BY <1>1, <1>3, <1>4, IdleStep

\* The coroutine that may go on, because it has the port or finds it free.
LEMMA Admitted ==
  ASSUME PortInv, turn = "sweep", pos <= Len(co_list), me.pc = "lock" => ~mutex
  PROVE  /\ pos \in 1 .. Len(co_list) /\ me \in Thread /\ me = co_list[pos]
         /\ \A k \in 1 .. Len(co_list) : k # pos => Waits(k)
         /\ me.pc = "lock" => ~Driven
         /\ me.pc # "lock" => DrivenBy(me) /\ ServedBy(me, FALSE)
<1>1. CASE me.pc = "lock"
  <2>1. ~Driven /\ \A k \in 1 .. Len(co_list) : Waits(k)
    BY <1>1 DEF PortInv
  <2>2. pos \in 1 .. Len(co_list) /\ me \in Thread /\ me = co_list[pos]
    BY DEF PortInv, Typed, me
  <2> QED BY <1>1, <2>1, <2>2
<1>2. CASE me.pc # "lock"
  BY <1>2, HolderFacts
<1> QED BY <1>1, <1>2

\* A coroutine gets the port, or goes on waiting, and takes an address.
LEMMA ReadAcceptInv == PortInv /\ ReadAccept => PortInv'
<1> SUFFICES ASSUME PortInv, ReadAccept PROVE PortInv'
  OBVIOUS
<1>1. /\ turn = "sweep" /\ turn' = "sweep" /\ pos <= Len(co_list)
      /\ me.port = "read" /\ me.pc \in {"lock", "accept"}
  BY DEF ReadAccept, Resume, Resumed
<1>2. UNCHANGED <<pins, accounts>>
  BY DEF ReadAccept, Resume
<1>3. CASE me.pc = "lock" /\ mutex
  <2>1. Yield("lock") /\ UNCHANGED port
    BY <1>3 DEF ReadAccept
  <2> QED BY <1>1, <1>2, <1>3, <2>1, StaysOutside
<1>4. CASE ~(me.pc = "lock" /\ mutex)
  <2>1. /\ pos \in 1 .. Len(co_list) /\ me \in Thread /\ me = co_list[pos]
        /\ \A k \in 1 .. Len(co_list) : k # pos => Waits(k)
        /\ me.pc = "lock" => ~Driven
        /\ me.pc # "lock" => DrivenBy(me) /\ ServedBy(me, FALSE)
    BY <1>1, <1>4, Admitted
  <2>2. mutex' /\ arready' /\ (awready' <=> awready) /\ (wready' <=> wready)
        /\ (bvalid' <=> bvalid)
    BY <1>4, Zenon DEF ReadAccept
  <2>3. /\ ar' = ar /\ aw' = aw /\ w' = w /\ r' = r
        /\ UNCHANGED <<surplus, raw>> /\ (Spare' <=> Spare)
    BY <1>2, <1>4, Uncounted DEF ReadAccept, pins
  <2>4. r = NoBeat /\ ~awready /\ ~wready /\ ~bvalid
    BY <1>1, <2>1 DEF Driven, DrivenBy
  <2>5. CASE ar # NoBeat
    <3> DEFINE u == [me EXCEPT !.pc = "accepted", !.addr = ar]
    <3>1. u \in Thread /\ u.pc = "accepted" /\ u.port = "read"
      BY <1>1, <2>1 DEF Thread, Yields, PortInv, Typed
    <3>2. co_list' = [co_list EXCEPT ![pos] = u] /\ pos' = pos + 1
      BY <1>4, <2>5 DEF ReadAccept, YieldAs
    <3>3. PICK v \in Thread :
            /\ v.pc = "accepted" /\ v.port = "read"
            /\ co_list' = [co_list EXCEPT ![pos] = v] /\ pos' = pos + 1
      BY <3>1, <3>2, Zenon
    <3>4. DrivenBy(v)' /\ ServedBy(v, TRUE)'
      BY <2>2, <2>3, <2>4, <2>5, <3>3 DEF DrivenBy, ServedBy
    <3> QED BY <1>1, <2>1, <2>2, <2>3, <3>3, <3>4, HolderRuns
  <2>6. CASE ar = NoBeat
    <3>1. PICK u \in Thread :
            /\ u.pc = "accept" /\ u.port = "read"
            /\ co_list' = [co_list EXCEPT ![pos] = u] /\ pos' = pos + 1
      <4>1. Yield("accept") /\ "accept" \in Yields
        BY <1>4, <2>6 DEF ReadAccept, Yields
      <4> QED BY <1>1, <2>1, <4>1, YieldFacts
    <3>2. DrivenBy(u)' /\ ServedBy(u, TRUE)'
      BY <2>2, <2>3, <2>4, <2>6, <3>1 DEF DrivenBy, ServedBy
    <3> QED BY <1>1, <2>1, <2>2, <2>3, <3>1, <3>2, HolderRuns
  <2> QED BY <2>5, <2>6
<1> QED BY <1>3, <1>4

\* The same for an address or a word of a write.
LEMMA WriteAcceptInv == PortInv /\ WriteAccept => PortInv'
<1> SUFFICES ASSUME PortInv, WriteAccept PROVE PortInv'
  OBVIOUS
<1>1. /\ turn = "sweep" /\ turn' = "sweep" /\ pos <= Len(co_list)
      /\ me.port = "write" /\ me.pc = "lock"
  BY DEF WriteAccept, Resume, Resumed
<1>2. UNCHANGED <<pins, accounts>>
  BY DEF WriteAccept, Resume
<1>3. CASE mutex
  <2>1. Yield("lock") /\ UNCHANGED port
    BY <1>3 DEF WriteAccept
  <2> QED BY <1>1, <1>2, <2>1, StaysOutside
<1>4. CASE ~mutex
  <2>1. /\ pos \in 1 .. Len(co_list) /\ me \in Thread /\ me = co_list[pos]
        /\ \A k \in 1 .. Len(co_list) : k # pos => Waits(k)
        /\ ~Driven
    BY <1>1, <1>4, Admitted
  <2>2. mutex' /\ (arready' <=> arready) /\ awready' /\ wready' /\ (bvalid' <=> bvalid)
    BY <1>4, Zenon DEF WriteAccept
  <2>3. /\ ar' = ar /\ aw' = aw /\ w' = w /\ r' = r
        /\ UNCHANGED <<surplus, raw>> /\ (Spare' <=> Spare)
    BY <1>2, <1>4, Uncounted DEF WriteAccept, pins
  <2> DEFINE u == [me EXCEPT !.pc = "accepted",
                             !.addr = aw, !.aw_done = (aw # NoBeat),
                             !.data = w, !.w_done = (w # NoBeat)]
  <2>4. u \in Thread /\ u.pc = "accepted" /\ u.port = "write"
    BY <1>1, <2>1 DEF Thread, Yields, PortInv, Typed
  <2>5. (u.aw_done <=> aw # NoBeat) /\ (u.w_done <=> w # NoBeat)
    BY <2>1 DEF Thread
  <2>6. co_list' = [co_list EXCEPT ![pos] = u] /\ pos' = pos + 1
    BY <1>4 DEF WriteAccept, YieldAs
  <2>7. PICK v \in Thread :
          /\ v.pc = "accepted" /\ v.port = "write"
          /\ v.aw_done <=> aw # NoBeat
          /\ v.w_done <=> w # NoBeat
          /\ co_list' = [co_list EXCEPT ![pos] = v] /\ pos' = pos + 1
    BY <2>4, <2>5, <2>6, Zenon
  <2>8. DrivenBy(v)' /\ ServedBy(v, TRUE)'
    BY <2>1, <2>2, <2>3, <2>7 DEF Driven, DrivenBy, ServedBy, Taken
  <2> QED BY <1>1, <2>1, <2>2, <2>3, <2>7, <2>8, HolderRuns
<1> QED BY <1>3, <1>4

\* One half of a write is in, or both, and then the write is performed.
LEMMA WriteAcceptedInv == PortInv /\ WriteAccepted => PortInv'
<1> SUFFICES ASSUME PortInv, WriteAccepted PROVE PortInv'
  OBVIOUS
<1>1. /\ turn = "sweep" /\ turn' = "sweep" /\ pos <= Len(co_list)
      /\ me.port = "write" /\ me.pc = "accepted"
  BY DEF WriteAccepted, Resume, Resumed
<1>2. /\ pos \in 1 .. Len(co_list) /\ me \in Thread /\ me = co_list[pos]
      /\ \A k \in 1 .. Len(co_list) : k # pos => Waits(k)
      /\ mutex /\ DrivenBy(me) /\ ServedBy(me, FALSE)
  BY <1>1, HolderFacts
<1>3. /\ (mutex' <=> mutex) /\ (arready' <=> arready) /\ (bvalid' <=> bvalid)
      /\ awready' <=> awready /\ ~me.aw_done
      /\ wready' <=> wready /\ ~me.w_done
      /\ (aw_owed' <=> aw_owed) /\ (w_owed' <=> w_owed)
  BY Zenon DEF WriteAccepted, Resume, accounts
<1>4. UNCHANGED <<ar, aw, w, surplus, raw>> /\ (Spare' <=> Spare) /\ r' = r
  BY Uncounted DEF WriteAccepted, Resume, pins
<1>5. CASE me.aw_done /\ me.w_done
  <2>1. PICK u \in Thread :
          /\ u.pc = "respond" /\ u.port = "write"
          /\ co_list' = [co_list EXCEPT ![pos] = u] /\ pos' = pos + 1
    <3>1. Yield("respond") /\ "respond" \in Yields
      BY <1>5, Zenon DEF WriteAccepted, Yields
    <3> QED BY <1>1, <1>2, <3>1, YieldFacts
  <2>2. DrivenBy(u)' /\ ServedBy(u, TRUE)'
    BY <1>1, <1>2, <1>3, <1>4, <1>5, <2>1 DEF DrivenBy, ServedBy, Taken
  <2> QED BY <1>1, <1>2, <1>3, <1>4, <2>1, <2>2, HolderRuns
<1>6. CASE ~(me.aw_done /\ me.w_done)
  <2> DEFINE u == [me EXCEPT
                     !.addr = IF aw # NoBeat THEN aw ELSE me.addr,
                     !.aw_done = (me.aw_done \/ aw # NoBeat),
                     !.data = IF w # NoBeat THEN w ELSE me.data,
                     !.w_done = (me.w_done \/ w # NoBeat)]
  <2>1. u \in Thread /\ u.pc = "accepted" /\ u.port = "write"
    BY <1>1, <1>2 DEF Thread, PortInv, Typed
  <2>2. (u.aw_done <=> me.aw_done \/ aw # NoBeat) /\ (u.w_done <=> me.w_done \/ w # NoBeat)
    BY <1>2 DEF Thread
  <2>3. co_list' = [co_list EXCEPT ![pos] = u] /\ pos' = pos + 1
    BY <1>6 DEF WriteAccepted, YieldAs
  <2>4. PICK v \in Thread :
          /\ v.pc = "accepted" /\ v.port = "write"
          /\ v.aw_done <=> me.aw_done \/ aw # NoBeat
          /\ v.w_done <=> me.w_done \/ w # NoBeat
          /\ co_list' = [co_list EXCEPT ![pos] = v] /\ pos' = pos + 1
    BY <2>1, <2>2, <2>3, Zenon
  <2>5. DrivenBy(v)' /\ ServedBy(v, TRUE)'
    BY <1>1, <1>2, <1>3, <1>4, <2>4 DEF DrivenBy, ServedBy, Taken
  <2> QED BY <1>1, <1>2, <1>3, <1>4, <2>4, <2>5, HolderRuns
<1> QED BY <1>5, <1>6

\* A coroutine ends and leaves the port to those that wait.
LEMMA UnlockInv == PortInv /\ Unlock => PortInv'
<1> SUFFICES ASSUME PortInv, Unlock PROVE PortInv'
  OBVIOUS
<1>1. /\ turn = "sweep" /\ turn' = "sweep" /\ pos <= Len(co_list)
      /\ me.pc = "unlock"
  BY DEF Unlock, Resume, Resumed
<1>2. /\ pos \in 1 .. Len(co_list) /\ me = co_list[pos]
      /\ \A k \in 1 .. Len(co_list) : k # pos => Waits(k)
      /\ DrivenBy(me)
  BY <1>1, HolderFacts
<1>3. Typed
  BY DEF PortInv
<1>4. /\ ~mutex' /\ (arready' <=> arready) /\ (awready' <=> awready)
      /\ (wready' <=> wready) /\ (bvalid' <=> bvalid)
  BY Zenon DEF Unlock
<1>5. UNCHANGED <<ar, aw, w, surplus, raw>> /\ (Spare' <=> Spare) /\ r' = r
  BY Uncounted DEF Unlock, Resume, pins
<1>6. ~Driven'
  BY <1>1, <1>2, <1>4, <1>5 DEF DrivenBy, Driven
<1>7. /\ co_list' \in Seq(Thread)
      /\ Len(co_list') = Len(co_list) - 1
      /\ \A k \in 1 .. Len(co_list) - 1 :
           co_list'[k] = IF k < pos THEN co_list[k] ELSE co_list[k + 1]
      /\ pos' = pos
  BY <1>2, <1>3, FinishProperties DEF Unlock, Typed
<1>8. ASSUME NEW k \in 1 .. Len(co_list')
      PROVE  Waits(k)'
  <2>1. Len(co_list) \in Nat /\ pos \in Nat
    BY <1>2, <1>3 DEF Typed
  <2>2. CASE k < pos
    <3>1. k \in 1 .. Len(co_list) /\ k # pos
      BY <1>7, <2>1, <2>2
    <3> QED BY <1>2, <1>7, <2>1, <2>2, <3>1 DEF Waits
  <2>3. CASE ~(k < pos)
    <3>1. k + 1 \in 1 .. Len(co_list) /\ k + 1 # pos
      BY <1>7, <2>1, <2>3
    <3> QED BY <1>2, <1>7, <2>1, <2>3, <3>1 DEF Waits
  <2> QED BY <2>2, <2>3
<1>9. Typed' /\ (surplus <= raw)'
  BY <1>1, <1>3, <1>5, <1>7 DEF PortInv, Typed
<1> QED BY <1>4, <1>6, <1>8, <1>9 DEF PortInv

-----------------------------------------------------------------------------
\* The end of a sweep over the coroutines.
LEMMA SweptInv == PortInv /\ Swept => PortInv'
<1> SUFFICES ASSUME PortInv, Swept PROVE PortInv'
  OBVIOUS
<1>1. /\ turn = "sweep" /\ pos > Len(co_list) /\ turn' = "pollm"
      /\ pos' = pos /\ co_list' = co_list
      /\ UNCHANGED <<port, pins, accounts>>
  BY DEF Swept, EndSweep
<1>2. pos' \in Nat \ {0} /\ Len(co_list) \in Nat
  BY <1>1 DEF PortInv, Typed
<1>3. \A k \in 1 .. Len(co_list) : TickToCome(k)' <=> TickToCome(k)
  BY <1>1, <1>2 DEF TickToCome
<1> QED BY <1>1, <1>2, <1>3, IdleStep

\* The start of the next call of next().
LEMMA AgainInv == PortInv /\ Again => PortInv'
<1> SUFFICES ASSUME PortInv, Again PROVE PortInv'
  OBVIOUS
<1>1. /\ turn = "call" /\ turn' = "sweep" /\ pos' = 1 /\ co_list' = co_list
      /\ UNCHANGED <<port, pins, accounts>>
  BY DEF Again, BeginSweep
<1>2. \A k \in 1 .. Len(co_list) : TickToCome(k)' <=> TickToCome(k)
  BY <1>1 DEF TickToCome
<1> QED BY <1>1, <1>2, IdleStep

\* A list to which coroutines are added that wait for the port.
Extends(u, s) ==
  /\ Len(u) >= Len(s)
  /\ \A k \in 1 .. Len(s) : u[k] = s[k]
  /\ \A k \in 1 .. Len(u) : k > Len(s) => u[k].pc = "lock"

\* A coroutine that waits, added at the end, extends the list.
LEMMA Extended ==
  ASSUME NEW s \in Seq(Thread), NEW t \in Thread, t.pc = "lock",
         NEW a \in {<< >>, <<t>>}
  PROVE  s \o a \in Seq(Thread) /\ Extends(s \o a, s)
<1>1. Len(s) \in Nat
  OBVIOUS
<1>2. CASE a = << >>
  <2>1. s \o a = s
    BY <1>2, ConcatEmptySeq
  <2> QED BY <1>1, <2>1 DEF Extends
<1>3. CASE a = <<t>>
  <2>1. PICK u : u = Append(s, t)
    OBVIOUS
  <2>2. /\ u \in Seq(Thread) /\ Len(u) = Len(s) + 1
        /\ \A k \in 1 .. Len(s) : u[k] = s[k]
        /\ u[Len(s) + 1] = t
    BY <2>1, AppendProperties
  <2>3. s \o a = u
    BY <1>3, <2>1, AppendIsConcat
  <2>4. \A k \in 1 .. Len(u) : k > Len(s) => k = Len(s) + 1
    BY <1>1, <2>2
  <2>5. Extends(u, s)
    BY <1>1, <2>2, <2>4 DEF Extends
  <2> QED BY <2>2, <2>3, <2>5
<1> QED BY <1>2, <1>3

\* A poll adds coroutines that wait, behind those there are.
LEMMA PollsAdd ==
  ASSUME Typed, Polls
  PROVE  /\ co_list' \in Seq(Thread) /\ Len(co_list') >= Len(co_list)
         /\ \A k \in 1 .. Len(co_list) : co_list'[k] = co_list[k]
         /\ \A k \in 1 .. Len(co_list') : k > Len(co_list) => co_list'[k].pc = "lock"
<1>1. PICK a \in {<< >>, <<PortThread("read")>>}, b \in {<< >>, <<PortThread("write")>>} :
        co_list' = (co_list \o a) \o b
  BY DEF Polls
<1>2. PortThread("read") \in Thread /\ PortThread("write") \in Thread
  BY DEF PortThread, Thread, Yields
<1>3. PortThread("read").pc = "lock" /\ PortThread("write").pc = "lock"
  BY DEF PortThread
<1>4. co_list \in Seq(Thread)
  BY DEF Typed
<1>5. PICK c \in Seq(Thread) : c = co_list \o a /\ Extends(c, co_list)
  BY <1>2, <1>3, <1>4, Extended
<1>6. PICK d \in Seq(Thread) : d = c \o b /\ Extends(d, c)
  BY <1>2, <1>3, Extended
<1>7. co_list' = d
  BY <1>1, <1>5, <1>6
<1>8. Len(co_list) \in Nat /\ Len(c) \in Nat /\ Len(d) \in Nat
  BY <1>4
<1>9. Extends(d, co_list)
  BY <1>5, <1>6, <1>8 DEF Extends
<1> QED BY <1>7, <1>9 DEF Extends

\* The polls add coroutines that wait.
LEMMA PollsInv == PortInv /\ Polls => PortInv'
<1> SUFFICES ASSUME PortInv, Polls PROVE PortInv'
  OBVIOUS
<1>1. /\ turn = "pollm" /\ turn' = "tick" /\ pos' = pos
      /\ UNCHANGED <<port, pins, accounts>>
  BY DEF Polls
<1>2. Typed /\ Len(co_list) \in Nat
  BY DEF PortInv, Typed
<1>3. /\ co_list' \in Seq(Thread) /\ Len(co_list') >= Len(co_list)
      /\ \A k \in 1 .. Len(co_list) : co_list'[k] = co_list[k]
      /\ \A k \in 1 .. Len(co_list') : k > Len(co_list) => co_list'[k].pc = "lock"
  BY <1>2, PollsAdd
<1>4. ar' = ar /\ aw' = aw /\ w' = w /\ r' = r
  BY <1>1 DEF pins, port
<1>5. /\ (mutex' <=> mutex) /\ (arready' <=> arready) /\ (awready' <=> awready)
      /\ (wready' <=> wready) /\ (bvalid' <=> bvalid)
  BY <1>1, Zenon DEF port
<1>6. (rready' <=> rready) /\ (bready' <=> bready)
  BY <1>1, Zenon DEF pins
<1>7. (ar_owed' <=> ar_owed) /\ (aw_owed' <=> aw_owed) /\ (w_owed' <=> w_owed)
  BY <1>1, Zenon DEF accounts
<1>8. Typed' /\ (surplus <= raw)' /\ (Spare' <=> Spare)
  <2>1. surplus' = surplus /\ raw' = raw /\ (Spare' <=> Spare)
    BY <1>1, Uncounted
  <2> QED BY <1>1, <1>2, <1>3, <1>4, <2>1 DEF PortInv, Typed
<1>9. \A k \in 1 .. Len(co_list) : (Waits(k)' <=> Waits(k)) /\ k \in 1 .. Len(co_list')
  BY <1>2, <1>3, <1>8 DEF Waits, Typed
<1>10. \A k \in 1 .. Len(co_list') : ~Waits(k)' => k \in 1 .. Len(co_list) /\ ~Waits(k)
  BY <1>2, <1>3, <1>8, <1>9 DEF Waits, Typed
<1>11. Driven' => Driven
  BY <1>4, <1>5 DEF Driven
<1>12. ASSUME NEW k \in 1 .. Len(co_list), ~Waits(k)
       PROVE  DrivenBy(co_list[k])' /\ ServedBy(co_list[k], TickToCome(k))'
  <2>1. DrivenBy(co_list[k]) /\ ServedBy(co_list[k], TickToCome(k))
    BY <1>12 DEF PortInv
  <2>2. (TickToCome(k)' <=> TickToCome(k)) /\ co_list[k]' = co_list[k]
    BY <1>1, <1>3 DEF TickToCome
  <2> QED BY <1>4, <1>5, <1>6, <1>7, <1>8, <2>1, <2>2 DEF DrivenBy, ServedBy, Taken
<1> QED BY <1>5, <1>8, <1>9, <1>10, <1>11, <1>12 DEF PortInv

\* An answer moves once more only after a tick outside next(), and takes up what
\* that tick has left.
LEMMA EdgeServes ==
  ASSUME Typed, Edge, raw' \in Nat, NEW t, NEW ran \in BOOLEAN,
         DrivenBy(t), ServedBy(t, ran), surplus <= raw,
         IF ran THEN raw' = raw ELSE raw' = raw + 1
  PROVE  DrivenBy(t)' /\ ServedBy(t, FALSE)' /\ surplus' <= raw'
<1>1. r' = r
  BY DEF Edge, port
<1>2. /\ (mutex' <=> mutex) /\ (arready' <=> arready) /\ (awready' <=> awready)
      /\ (wready' <=> wready) /\ (bvalid' <=> bvalid)
  BY Zenon DEF Edge, port
<1>3. /\ ar_owed' <=> (ar_owed \/ (arready /\ ar # NoBeat)) /\ ~(r # NoBeat /\ rready)
      /\ aw_owed' <=> (aw_owed \/ (awready /\ aw # NoBeat)) /\ ~(bvalid /\ bready)
      /\ w_owed' <=> (w_owed \/ (wready /\ w # NoBeat)) /\ ~(bvalid /\ bready)
  BY Zenon DEF Edge, ar_moves, aw_moves, w_moves, r_moves, b_moves
<1> DEFINE again == \/ r # NoBeat /\ rready /\ ~ar_owed
                    \/ bvalid /\ bready /\ ~(aw_owed /\ w_owed)
           moved == (r # NoBeat /\ rready) \/ (bvalid /\ bready)
<1>4. surplus' = IF again THEN surplus + 1 ELSE surplus
  BY Zenon DEF Edge, r_moves, b_moves
<1> HIDE DEF again
<1>5. surplus \in Nat /\ raw \in Nat
  BY DEF Typed
<1>6. again => IF ran THEN Spare ELSE TRUE
  BY DEF again, DrivenBy, ServedBy
<1>7. surplus' <= raw'
  BY <1>4, <1>5, <1>6 DEF Spare
<1>8. ran /\ ~again /\ Spare => Spare'
  BY <1>4, <1>5 DEF Spare
<1>9. DrivenBy(t)'
  BY <1>1, <1>2 DEF DrivenBy
<1>10. CASE ran
  <2>1. ServedBy(t, TRUE)
    BY <1>10 DEF ServedBy, Taken
  <2>2. t.pc = "offer" => ~again
    BY <2>1 DEF again, DrivenBy, ServedBy
  <2> QED BY <1>1, <1>2, <1>3, <1>7, <1>8, <1>9, <1>10, <2>1, <2>2 DEF DrivenBy, ServedBy, Taken
<1>11. CASE ~ran
  <2>1. ServedBy(t, FALSE)
    BY <1>11 DEF ServedBy, Taken
  <2>2. t.pc = "offer" => (again => Spare)
    BY <2>1 DEF again, DrivenBy, ServedBy
  <2>3. t.pc = "offer" => Spare'
    BY <1>4, <1>5, <1>11, <2>2 DEF Spare
  <2> QED BY <1>1, <1>2, <1>3, <1>7, <1>9, <1>11, <2>1, <2>3 DEF DrivenBy, ServedBy, Taken
<1> QED BY <1>7, <1>9, <1>10, <1>11

\* The edge moves beats and the master changes its pins, in next() or outside it.
LEMMA EdgeInv ==
  ASSUME PortInv, Edge, NEW ran \in BOOLEAN, turn' = "call",
         \A k : TickToCome(k) <=> ran,
         raw' = IF ran THEN raw ELSE raw + 1
  PROVE  PortInv'
<1>1. pos' = pos /\ co_list' = co_list
  BY DEF Edge
<1>2. r' = r
  BY DEF Edge, port
<1>3. /\ (mutex' <=> mutex) /\ (arready' <=> arready) /\ (awready' <=> awready)
      /\ (wready' <=> wready) /\ (bvalid' <=> bvalid)
  BY Zenon DEF Edge, port
<1>4. raw' \in Nat /\ surplus \in Nat /\ surplus <= raw
  BY DEF PortInv, Typed
<1>5. Typed'
  <2>1. /\ ar' \in Addresses \cup {NoBeat} /\ aw' \in Addresses \cup {NoBeat}
        /\ w' \in Data \cup {NoBeat}
    BY DEF Edge, Drives, PortInv, Typed
  <2>2. surplus' \in Nat
    <3>1. surplus' \in {surplus, surplus + 1}
      BY DEF Edge
    <3> QED BY <1>4, <3>1
  <2> QED BY <1>1, <1>4, <2>1, <2>2 DEF PortInv, Typed
<1>6. \A k : (Waits(k)' <=> Waits(k)) /\ ~TickToCome(k)'
  BY <1>1 DEF Waits, TickToCome
<1>7. ASSUME NEW k \in 1 .. Len(co_list), ~Waits(k)
      PROVE  /\ DrivenBy(co_list[k])' /\ ServedBy(co_list[k], TickToCome(k))'
             /\ surplus' <= raw'
  <2>1. PICK t : t = co_list[k] /\ co_list[k]' = t
    BY <1>1
  <2>2. DrivenBy(t) /\ ServedBy(t, ran)
    <3>1. DrivenBy(t) /\ ServedBy(t, TickToCome(k))
      BY <1>7, <2>1 DEF PortInv
    <3> QED BY <3>1 DEF ServedBy, Taken
  <2>3. DrivenBy(t)' /\ ServedBy(t, FALSE)' /\ surplus' <= raw'
    BY <1>4, <2>2, EdgeServes DEF PortInv
  <2>4. DrivenBy(co_list[k])'
    BY <2>1, <2>3 DEF DrivenBy
  <2>5. ServedBy(co_list[k], TickToCome(k))'
    BY <1>6, <2>1, <2>3 DEF ServedBy, Taken
  <2> QED BY <2>3, <2>4, <2>5
<1>8. Driven' => Driven
  BY <1>2, <1>3 DEF Driven
<1>9. surplus' <= raw'
  <2>1. CASE Driven
    <3>1. PICK k \in 1 .. Len(co_list) : ~Waits(k)
      BY <2>1 DEF PortInv
    <3> QED BY <1>7, <3>1
  <2>2. CASE ~Driven
    <3>1. ~((r_moves /\ ~ar_owed) \/ (b_moves /\ ~(aw_owed /\ w_owed)))
      BY <2>2 DEF Driven, r_moves, b_moves
    <3>2. surplus' = surplus
      BY <3>1, Zenon DEF Edge
    <3> QED BY <1>4, <3>2 DEF PortInv, Typed
  <2> QED BY <2>1, <2>2
<1> QED BY <1>1, <1>3, <1>5, <1>6, <1>7, <1>8, <1>9 DEF PortInv

LEMMA TickInv == PortInv /\ Tick => PortInv'
<1> SUFFICES ASSUME PortInv, Tick PROVE PortInv'
  OBVIOUS
<1>1. /\ Edge /\ turn' = "call" /\ raw' = IF TRUE THEN raw ELSE raw + 1
      /\ \A k : TickToCome(k) <=> TRUE
  BY DEF Tick, TickToCome
<1> QED BY <1>1, EdgeInv

LEMMA RawTickInv == PortInv /\ RawTick => PortInv'
<1> SUFFICES ASSUME PortInv, RawTick PROVE PortInv'
  OBVIOUS
<1>1. /\ Edge /\ turn' = "call" /\ raw' = IF FALSE THEN raw ELSE raw + 1
      /\ \A k : TickToCome(k) <=> FALSE
  BY DEF RawTick, TickToCome
<1> QED BY <1>1, EdgeInv

\* At the start nobody holds the port and no pin is up.
LEMMA PortInvInit == PortInit => PortInv
<1> SUFFICES ASSUME PortInit PROVE PortInv
  OBVIOUS
<1>1. co_list = << >> /\ turn = "sweep" /\ pos = 1 /\ r = NoBeat
      /\ ar = NoBeat /\ aw = NoBeat /\ w = NoBeat /\ surplus = 0 /\ raw = 0
  BY DEF PortInit, SchedulerInit
<1>2. ~mutex /\ ~arready /\ ~awready /\ ~wready /\ ~bvalid
  BY Zenon DEF PortInit
<1>3. co_list \in Seq(Thread) /\ Len(co_list) = 0
  BY <1>1
<1> QED BY <1>1, <1>2, <1>3 DEF PortInv, Typed, Driven

\* Every step keeps the invariant.
LEMMA PortInvNext == PortInv /\ [PortNext]_portVars => PortInv'
<1> SUFFICES ASSUME PortInv, [PortNext]_portVars PROVE PortInv'
  OBVIOUS
<1>1. CASE UNCHANGED portVars
  <2>1. UNCHANGED <<turn, pos, co_list>> /\ UNCHANGED <<port, pins, accounts>>
    BY <1>1, Zenon DEF portVars, scheduler
  <2>2. pos' \in Nat \ {0} /\ turn' \in {"sweep", "pollm", "tick", "call"}
    BY <2>1 DEF PortInv, Typed
  <2>3. \A k \in 1 .. Len(co_list) : TickToCome(k)' <=> TickToCome(k)
    BY <2>1 DEF TickToCome
  <2> QED BY <2>1, <2>2, <2>3, IdleStep
<1>2. CASE PortNext
  BY <1>2, ReadAcceptInv, ReadAcceptedInv, ReadRespondInv, ReadOfferInv, ReadAnsweredInv,
     WriteAcceptInv, WriteAcceptedInv, WriteRespondInv, WriteOfferInv, WriteAnsweredInv,
     UnlockInv, SweptInv, PollsInv, TickInv, RawTickInv, AgainInv DEF PortNext
<1> QED BY <1>1, <1>2

(***************************************************************************)
(* At most one coroutine is past lock(), the mutex says whether there is   *)
(* one, and the pins of a channel are up only for the coroutine that       *)
(* serves it.                                                              *)
(***************************************************************************)
THEOREM PortHasOneHolder == PortSpec => []OneHolder
<1>1. PortInv => OneHolder
  <2> SUFFICES ASSUME PortInv PROVE OneHolder
    OBVIOUS
  <2>1. \A k \in 1 .. Len(co_list) : co_list[k].port \in {"read", "write"}
    <3>1. \A k \in 1 .. Len(co_list) : co_list[k] \in Thread
      BY DEF PortInv, Typed
    <3>2. \A t \in Thread : t.port \in {"read", "write"}
      BY DEF Thread
    <3> QED BY <3>1, <3>2
  <2>2. \A k : k \in Holders("read") \cup Holders("write")
               <=> k \in 1 .. Len(co_list) /\ ~Waits(k)
    BY <2>1 DEF Holders, Threads, Waits
  <2>3. \A k \in 1 .. Len(co_list) : ~Waits(k) =>
          /\ co_list[k].port = "read" => k \in Holders("read")
          /\ co_list[k].port = "write" => k \in Holders("write")
    BY DEF Holders, Threads, Waits
  <2>4. \A k, m \in Holders("read") \cup Holders("write") : k = m
    BY <2>2 DEF PortInv
  <2>5. mutex <=> Holders("read") \cup Holders("write") # {}
    BY <2>2 DEF PortInv
  <2>6. /\ arready \/ r # NoBeat => Holders("read") # {}
        /\ awready \/ wready \/ bvalid => Holders("write") # {}
    BY <2>3 DEF PortInv, Driven, DrivenBy
  <2> QED BY <2>4, <2>5, <2>6 DEF OneHolder
<1> QED BY <1>1, PortInvInit, PortInvNext, PTL DEF PortSpec

-----------------------------------------------------------------------------
(***************************************************************************)
(* What is read and written.  At most one coroutine of each kind is in the *)
(* list, the reader first, so that the request for which a coroutine was   *)
(* started is still the one on the pins when it gets the port.             *)
(***************************************************************************)
\* What the read under way is about, and what it may return.
Answerable ==
  /\ mem \in [Mapped -> Data]
  /\ ar_owed => ar = NoBeat
  /\ ar # NoBeat => asked = ar
  /\ (ar # NoBeat \/ ar_owed) /\ asked \in Mapped => mem[asked] \in seen
  /\ r # NoBeat /\ ar_owed => r \in seen

\* Where the holder t of the port is with its read, or with its write.
Serves(t, ran) ==
  /\ t.pc # "accept"
  /\ t.port = "read" =>
       /\ performed = 0
       /\ t.pc \in {"accepted", "respond"} => t.addr = asked /\ asked \in Mapped
       /\ t.pc \in {"offer", "answered"} => r # NoBeat
       /\ (t.pc = "answered" /\ ~ran) \/ t.pc = "unlock" => ~ar_owed
  /\ t.port = "write" =>
       /\ t.pc = "accepted" => performed = 0 /\ (t.w_done => t.data # NoBeat)
       /\ t.pc = "respond" => performed = 1
       /\ t.pc \in {"offer", "answered"} =>
            bvalid /\ (aw_owed <=> w_owed) /\ performed = IF aw_owed THEN 1 ELSE 0
       /\ t.pc = "answered" /\ ~ran => ~aw_owed
       /\ t.pc = "unlock" => performed = 0 /\ ~aw_owed /\ ~w_owed

\* Those that wait come after the holder, and get the port in the sweep in which
\* it is given back.
InLine ==
  /\ \A k, m \in 1 .. Len(co_list) :
       k < m => co_list[k].port = "read" /\ co_list[m].port = "write"
  /\ \A k, m \in 1 .. Len(co_list) : Waits(k) /\ ~Waits(m) => m < k
  /\ ~mutex => /\ performed = 0
               /\ turn = "sweep" => \A k \in 1 .. Len(co_list) : k >= pos
               /\ turn = "pollm" => Len(co_list) = 0
  /\ \A k \in 1 .. Len(co_list) :
       Waits(k) /\ co_list[k].port = "read" => ar \in Mapped

ServeInv ==
  /\ Answerable /\ InLine
  /\ \A k \in 1 .. Len(co_list) :
       ~Waits(k) => Serves(co_list[k], TickToCome(k))

\* A coroutine that has the port, or takes it, runs on.
LEMMA HolderServes ==
  ASSUME PortInv, ServeInv, turn = "sweep", turn' = "sweep",
         pos \in 1 .. Len(co_list), \A k \in 1 .. Len(co_list) : k # pos => Waits(k),
         co_list[pos].pc = "lock" => ~mutex,
         NEW u \in Thread, u.pc # "lock", u.port = co_list[pos].port,
         co_list' = [co_list EXCEPT ![pos] = u], pos' = pos + 1,
         mutex', ar' = ar, Answerable', Serves(u, TRUE)'
  PROVE  ServeInv'
<1>1. co_list \in Seq(Thread) /\ pos \in Nat
  BY DEF PortInv, Typed
<1>2. /\ co_list' \in Seq(Thread) /\ Len(co_list') = Len(co_list)
      /\ \A k \in 1 .. Len(co_list) :
           co_list'[k] = IF k = pos THEN u ELSE co_list[k]
  BY <1>1, RunOn
<1>3. PICK j \in 1 .. Len(co_list) : j = pos
  OBVIOUS
<1>4. \A k \in 1 .. Len(co_list) : (Waits(k)' <=> k # j) /\ (k # j => Waits(k))
  BY <1>2, <1>3 DEF Waits
<1>5. \A k \in 1 .. Len(co_list) : k # j => j < k
  <2>1. CASE Waits(j)
    <3>1. ~mutex
      BY <1>3, <2>1 DEF Waits
    <3>2. \A k \in 1 .. Len(co_list) : k >= j
      BY <1>3, <3>1 DEF ServeInv, InLine
    <3> QED BY <1>1, <3>2
  <2>2. CASE ~Waits(j)
    BY <1>4, <2>2 DEF ServeInv, InLine
  <2> QED BY <2>1, <2>2
<1>6. \A k \in 1 .. Len(co_list) : co_list[k].port = co_list'[k].port
  BY <1>2, <1>3
<1>7. InLine'
  <2>1. \A k, m \in 1 .. Len(co_list) :
          k < m => co_list'[k].port = "read" /\ co_list'[m].port = "write"
    BY <1>6 DEF ServeInv, InLine
  <2>2. \A k \in 1 .. Len(co_list) :
          Waits(k)' /\ co_list'[k].port = "read" => ar' \in Mapped
    BY <1>4, <1>6 DEF ServeInv, InLine
  <2> QED BY <1>2, <1>4, <1>5, <2>1, <2>2 DEF InLine
<1>8. Serves(co_list[j], TickToCome(j))'
  <2>1. co_list[j]' = u /\ TickToCome(j)'
    BY <1>1, <1>2, <1>3 DEF TickToCome
  <2> QED BY <2>1 DEF Serves
<1> QED BY <1>2, <1>4, <1>7, <1>8 DEF ServeInv

\* What is known of the read and the write of the coroutine that runs.
LEMMA HolderServed ==
  ASSUME PortInv, ServeInv, turn = "sweep", pos <= Len(co_list), me.pc # "lock"
  PROVE  Answerable /\ Serves(me, FALSE)
<1>1. pos \in 1 .. Len(co_list) /\ ~Waits(pos) /\ ~TickToCome(pos) /\ me = co_list[pos]
  BY DEF PortInv, Typed, me, TickToCome, Waits
<1>2. Serves(me, TickToCome(pos))
  BY <1>1 DEF ServeInv
<1>3. Serves(me, FALSE)
  BY <1>1, <1>2 DEF Serves
<1> QED BY <1>3 DEF ServeInv

\* The holder yields.
LEMMA YieldServes ==
  ASSUME PortInv, ServeInv, turn = "sweep", turn' = "sweep", pos <= Len(co_list),
         me.pc # "lock", NEW p \in Yields, p # "lock", Yield(p),
         mutex' <=> mutex, ar' = ar, Answerable',
         \A u \in Thread : u.pc = p /\ u.port = me.port /\ u.addr = me.addr
                             => Serves(u, TRUE)'
  PROVE  ServeInv'
<1>1. /\ pos \in 1 .. Len(co_list) /\ me \in Thread /\ me = co_list[pos]
      /\ \A k \in 1 .. Len(co_list) : k # pos => Waits(k)
      /\ mutex
  BY HolderFacts
<1>2. PICK u \in Thread :
        /\ u.pc = p /\ u.port = me.port /\ u.addr = me.addr
        /\ co_list' = [co_list EXCEPT ![pos] = u] /\ pos' = pos + 1
  BY <1>1, YieldFacts
<1>3. Serves(u, TRUE)'
  BY <1>2
<1> QED BY <1>1, <1>2, <1>3, HolderServes

\* Nothing that a read may return changes.
LEMMA AnswerableStays ==
  ASSUME Answerable, UNCHANGED <<mem, ar, asked, seen>>, ar_owed' <=> ar_owed,
         r' \in {r, NoBeat}
  PROVE  Answerable'
BY DEF Answerable

LEMMA ReadAcceptedServes == PortInv /\ ServeInv /\ ReadAccepted => ServeInv'
<1> SUFFICES ASSUME PortInv, ServeInv, ReadAccepted PROVE ServeInv'
  OBVIOUS
<1>1. /\ turn = "sweep" /\ turn' = "sweep" /\ pos <= Len(co_list)
      /\ me.port = "read" /\ me.pc = "accepted"
  BY DEF ReadAccepted, Resume, Resumed
<1>2. (mutex' <=> mutex) /\ (ar_owed' <=> ar_owed) /\ (bvalid' <=> bvalid)
  BY Zenon DEF ReadAccepted, Resume, accounts
<1>3. UNCHANGED <<mem, ar, asked, seen, performed, r>>
  BY DEF ReadAccepted, Resume, pins, history
<1>4. Answerable /\ Serves(me, FALSE)
  BY <1>1, HolderServed
<1>5. Answerable'
  BY <1>2, <1>3, <1>4, AnswerableStays
<1>6. Yield("respond") /\ "respond" \in Yields
  BY DEF ReadAccepted, Yields
<1>7. \A u \in Thread : u.pc = "respond" /\ u.port = me.port /\ u.addr = me.addr
                          => Serves(u, TRUE)'
  BY <1>1, <1>3, <1>4 DEF Serves
<1> QED BY <1>1, <1>2, <1>3, <1>5, <1>6, <1>7, YieldServes

\* The word that is read was there since the address was offered.
LEMMA ReadRespondServes == PortInv /\ ServeInv /\ ReadRespond => ServeInv'
<1> SUFFICES ASSUME PortInv, ServeInv, ReadRespond PROVE ServeInv'
  OBVIOUS
<1>1. /\ turn = "sweep" /\ turn' = "sweep" /\ pos <= Len(co_list)
      /\ me.port = "read" /\ me.pc = "respond"
  BY DEF ReadRespond, Resume, Resumed
<1>2. (mutex' <=> mutex) /\ (ar_owed' <=> ar_owed) /\ (bvalid' <=> bvalid)
  BY Zenon DEF ReadRespond, Resume, accounts
<1>3. UNCHANGED <<mem, ar, asked, seen, performed>> /\ r' = mem[me.addr]
  BY DEF ReadRespond, Resume, pins, history
<1>4. Answerable /\ Serves(me, FALSE) /\ ServedBy(me, FALSE)
  BY <1>1, HolderServed, HolderFacts
<1>5. Answerable'
  BY <1>1, <1>2, <1>3, <1>4 DEF Answerable, Serves
<1>6. PICK p \in {"answered", "offer"} : Yield(p)
  BY DEF ReadRespond, ReadLook
<1>7. p \in Yields /\ p # "lock"
  BY DEF Yields
<1>8. \A u \in Thread : u.pc = p /\ u.port = me.port /\ u.addr = me.addr
                          => Serves(u, TRUE)'
  <2>1. mem[me.addr] # NoBeat
    BY <1>1, <1>4, PortAssumption DEF Serves, Answerable
  <2> QED BY <1>1, <1>3, <1>4, <2>1 DEF Serves
<1> QED BY <1>1, <1>2, <1>3, <1>5, <1>6, <1>7, <1>8, YieldServes

LEMMA ReadOfferServes == PortInv /\ ServeInv /\ ReadOffer => ServeInv'
<1> SUFFICES ASSUME PortInv, ServeInv, ReadOffer PROVE ServeInv'
  OBVIOUS
<1>1. /\ turn = "sweep" /\ turn' = "sweep" /\ pos <= Len(co_list)
      /\ me.port = "read" /\ me.pc = "offer"
  BY DEF ReadOffer, Resume, Resumed
<1>2. (mutex' <=> mutex) /\ (ar_owed' <=> ar_owed) /\ (bvalid' <=> bvalid)
  BY Zenon DEF ReadOffer, Resume, accounts, port
<1>3. UNCHANGED <<mem, ar, asked, seen, performed, r>>
  BY DEF ReadOffer, Resume, pins, history, port
<1>4. Answerable /\ Serves(me, FALSE)
  BY <1>1, HolderServed
<1>5. Answerable'
  BY <1>2, <1>3, <1>4, AnswerableStays
<1>6. PICK p \in {"answered", "offer"} : Yield(p)
  BY DEF ReadOffer, ReadLook
<1>7. p \in Yields /\ p # "lock"
  BY DEF Yields
<1>8. \A u \in Thread : u.pc = p /\ u.port = me.port /\ u.addr = me.addr
                          => Serves(u, TRUE)'
  BY <1>1, <1>3, <1>4 DEF Serves
<1> QED BY <1>1, <1>2, <1>3, <1>5, <1>6, <1>7, <1>8, YieldServes

LEMMA ReadAnsweredServes == PortInv /\ ServeInv /\ ReadAnswered => ServeInv'
<1> SUFFICES ASSUME PortInv, ServeInv, ReadAnswered PROVE ServeInv'
  OBVIOUS
<1>1. /\ turn = "sweep" /\ turn' = "sweep" /\ pos <= Len(co_list)
      /\ me.port = "read" /\ me.pc = "answered"
  BY DEF ReadAnswered, Resume, Resumed
<1>2. (mutex' <=> mutex) /\ (ar_owed' <=> ar_owed) /\ (bvalid' <=> bvalid)
  BY Zenon DEF ReadAnswered, Resume, accounts
<1>3. UNCHANGED <<mem, ar, asked, seen, performed>> /\ r' = NoBeat
  BY DEF ReadAnswered, Resume, pins, history
<1>4. Answerable /\ Serves(me, FALSE)
  BY <1>1, HolderServed
<1>5. Answerable'
  BY <1>2, <1>3, <1>4, AnswerableStays
<1>6. Yield("unlock") /\ "unlock" \in Yields
  BY DEF ReadAnswered, Yields
<1>7. \A u \in Thread : u.pc = "unlock" /\ u.port = me.port /\ u.addr = me.addr
                          => Serves(u, TRUE)'
  BY <1>1, <1>2, <1>3, <1>4 DEF Serves
<1> QED BY <1>1, <1>2, <1>3, <1>5, <1>6, <1>7, YieldServes

LEMMA WriteRespondServes == PortInv /\ ServeInv /\ WriteRespond => ServeInv'
<1> SUFFICES ASSUME PortInv, ServeInv, WriteRespond PROVE ServeInv'
  OBVIOUS
<1>1. /\ turn = "sweep" /\ turn' = "sweep" /\ pos <= Len(co_list)
      /\ me.port = "write" /\ me.pc = "respond"
  BY DEF WriteRespond, Resume, Resumed
<1>2. (mutex' <=> mutex) /\ (ar_owed' <=> ar_owed) /\ bvalid'
      /\ (aw_owed' <=> aw_owed) /\ (w_owed' <=> w_owed)
  BY Zenon DEF WriteRespond, Resume, accounts
<1>3. UNCHANGED <<mem, ar, asked, seen, performed, r>>
  BY DEF WriteRespond, Resume, pins, history
<1>4. Answerable /\ Serves(me, FALSE) /\ ServedBy(me, FALSE)
  BY <1>1, HolderServed, HolderFacts
<1>5. Answerable'
  BY <1>2, <1>3, <1>4, AnswerableStays
<1>6. PICK p \in {"answered", "offer"} : Yield(p)
  BY DEF WriteRespond, WriteLook
<1>7. p \in Yields /\ p # "lock"
  BY DEF Yields
<1>8. \A u \in Thread : u.pc = p /\ u.port = me.port /\ u.addr = me.addr
                          => Serves(u, TRUE)'
  BY <1>1, <1>2, <1>3, <1>4 DEF Serves, ServedBy
<1> QED BY <1>1, <1>2, <1>3, <1>5, <1>6, <1>7, <1>8, YieldServes

LEMMA WriteOfferServes == PortInv /\ ServeInv /\ WriteOffer => ServeInv'
<1> SUFFICES ASSUME PortInv, ServeInv, WriteOffer PROVE ServeInv'
  OBVIOUS
<1>1. /\ turn = "sweep" /\ turn' = "sweep" /\ pos <= Len(co_list)
      /\ me.port = "write" /\ me.pc = "offer"
  BY DEF WriteOffer, Resume, Resumed
<1>2. (mutex' <=> mutex) /\ (ar_owed' <=> ar_owed) /\ (bvalid' <=> bvalid)
      /\ (aw_owed' <=> aw_owed) /\ (w_owed' <=> w_owed)
  BY Zenon DEF WriteOffer, Resume, accounts, port
<1>3. UNCHANGED <<mem, ar, asked, seen, performed, r>>
  BY DEF WriteOffer, Resume, pins, history, port
<1>4. Answerable /\ Serves(me, FALSE)
  BY <1>1, HolderServed
<1>5. Answerable'
  BY <1>2, <1>3, <1>4, AnswerableStays
<1>6. PICK p \in {"answered", "offer"} : Yield(p)
  BY DEF WriteOffer, WriteLook
<1>7. p \in Yields /\ p # "lock"
  BY DEF Yields
<1>8. \A u \in Thread : u.pc = p /\ u.port = me.port /\ u.addr = me.addr
                          => Serves(u, TRUE)'
  BY <1>1, <1>2, <1>3, <1>4 DEF Serves
<1> QED BY <1>1, <1>2, <1>3, <1>5, <1>6, <1>7, <1>8, YieldServes

LEMMA WriteAnsweredServes == PortInv /\ ServeInv /\ WriteAnswered => ServeInv'
<1> SUFFICES ASSUME PortInv, ServeInv, WriteAnswered PROVE ServeInv'
  OBVIOUS
<1>1. /\ turn = "sweep" /\ turn' = "sweep" /\ pos <= Len(co_list)
      /\ me.port = "write" /\ me.pc = "answered"
  BY DEF WriteAnswered, Resume, Resumed
<1>2. (mutex' <=> mutex) /\ (ar_owed' <=> ar_owed)
      /\ (aw_owed' <=> aw_owed) /\ (w_owed' <=> w_owed)
  BY Zenon DEF WriteAnswered, Resume, accounts
<1>3. UNCHANGED <<mem, ar, asked, seen, performed, r>>
  BY DEF WriteAnswered, Resume, pins, history
<1>4. Answerable /\ Serves(me, FALSE)
  BY <1>1, HolderServed
<1>5. Answerable'
  BY <1>2, <1>3, <1>4, AnswerableStays
<1>6. Yield("unlock") /\ "unlock" \in Yields
  BY DEF WriteAnswered, Yields
<1>7. \A u \in Thread : u.pc = "unlock" /\ u.port = me.port /\ u.addr = me.addr
                          => Serves(u, TRUE)'
  BY <1>1, <1>2, <1>3, <1>4 DEF Serves
<1> QED BY <1>1, <1>2, <1>3, <1>5, <1>6, <1>7, YieldServes

\* A coroutine that finds the port taken goes on waiting.
LEMMA WaiterServes ==
  ASSUME PortInv, ServeInv, turn = "sweep", turn' = "sweep", pos <= Len(co_list),
         me.pc = "lock", mutex, Yield("lock"), UNCHANGED <<port, pins, accounts, mem, history>>
  PROVE  ServeInv'
<1>1. /\ pos \in 1 .. Len(co_list) /\ me \in Thread /\ me = co_list[pos]
      /\ pos \in Nat /\ co_list \in Seq(Thread)
  BY DEF PortInv, Typed, me
<1>2. [me EXCEPT !.pc = "lock"] = me
  BY <1>1 DEF Thread
<1>3. co_list' = co_list /\ pos' = pos + 1
  BY <1>1, <1>2 DEF Yield
<1>4. \A k \in 1 .. Len(co_list) : ~Waits(k) => (TickToCome(k)' <=> TickToCome(k))
  BY <1>1, <1>3 DEF TickToCome, Waits
<1>5. (mutex' <=> mutex) /\ (bvalid' <=> bvalid)
  BY Zenon DEF port
<1>6. (ar_owed' <=> ar_owed) /\ (aw_owed' <=> aw_owed) /\ (w_owed' <=> w_owed)
  BY Zenon DEF accounts
<1>7. UNCHANGED <<mem, ar, asked, seen, performed, r>>
  BY DEF pins, port, history
<1>8. Answerable'
  BY <1>6, <1>7, AnswerableStays DEF ServeInv
<1>9. InLine'
  BY <1>3, <1>5, <1>7 DEF ServeInv, InLine, Waits
<1>10. ASSUME NEW k \in 1 .. Len(co_list), ~Waits(k)
       PROVE  Serves(co_list[k], TickToCome(k))'
  <2>1. Serves(co_list[k], TickToCome(k))
    BY <1>10 DEF ServeInv
  <2> QED BY <1>3, <1>4, <1>5, <1>6, <1>7, <1>10, <2>1 DEF Serves
<1> QED BY <1>3, <1>8, <1>9, <1>10 DEF ServeInv, Waits
LEMMA ReadAcceptServes == PortInv /\ ServeInv /\ ReadAccept => ServeInv'
<1> SUFFICES ASSUME PortInv, ServeInv, ReadAccept PROVE ServeInv'
  OBVIOUS
<1>1. /\ turn = "sweep" /\ turn' = "sweep" /\ pos <= Len(co_list)
      /\ me.port = "read" /\ me.pc \in {"lock", "accept"}
  BY DEF ReadAccept, Resume, Resumed
<1>2. UNCHANGED <<pins, accounts, mem, history>>
  BY DEF ReadAccept, Resume
<1>3. CASE me.pc = "lock" /\ mutex
  <2>1. Yield("lock") /\ UNCHANGED port
    BY <1>3 DEF ReadAccept
  <2> QED BY <1>1, <1>2, <1>3, <2>1, WaiterServes
<1>4. CASE me.pc = "lock" /\ ~mutex
  <2>1. /\ pos \in 1 .. Len(co_list) /\ me \in Thread /\ me = co_list[pos]
        /\ \A k \in 1 .. Len(co_list) : k # pos => Waits(k)
    BY <1>1, <1>4, Admitted
  <2>2. mutex'
    BY <1>4, Zenon DEF ReadAccept
  <2>3. (ar_owed' <=> ar_owed)
    BY <1>2, Zenon DEF accounts
  <2>4. UNCHANGED <<mem, ar, asked, seen, performed, r>>
    BY <1>2, <1>4 DEF ReadAccept, pins, history
  <2>5. Answerable'
    BY <2>3, <2>4, AnswerableStays DEF ServeInv
  <2>6. ar \in Mapped /\ ar # NoBeat /\ ar = asked /\ performed = 0
    <3>1. ar \in Mapped
      BY <1>1, <1>4, <2>1 DEF ServeInv, InLine, Waits
    <3>2. ar # NoBeat
      BY <3>1, PortAssumption DEF Addresses
    <3> QED BY <1>4, <3>1, <3>2 DEF ServeInv, InLine, Answerable
  <2> DEFINE u == [me EXCEPT !.pc = "accepted", !.addr = ar]
  <2>7. u \in Thread /\ u.pc = "accepted" /\ u.port = "read" /\ u.addr = ar
    BY <1>1, <2>1 DEF Thread, Yields, PortInv, Typed
  <2>8. co_list' = [co_list EXCEPT ![pos] = u] /\ pos' = pos + 1
    BY <1>4, <2>6 DEF ReadAccept, YieldAs
  <2>9. PICK v \in Thread :
          /\ v.pc = "accepted" /\ v.port = "read" /\ v.addr = ar
          /\ co_list' = [co_list EXCEPT ![pos] = v] /\ pos' = pos + 1
    BY <2>7, <2>8, Zenon
  <2>10. Serves(v, TRUE)'
    BY <2>4, <2>6, <2>9 DEF Serves
  <2> QED BY <1>1, <1>4, <2>1, <2>2, <2>4, <2>5, <2>9, <2>10, HolderServes
<1>5. CASE me.pc = "accept"
  BY <1>1, <1>5, HolderServed DEF Serves
<1> QED BY <1>1, <1>3, <1>4, <1>5

LEMMA WriteAcceptServes == PortInv /\ ServeInv /\ WriteAccept => ServeInv'
<1> SUFFICES ASSUME PortInv, ServeInv, WriteAccept PROVE ServeInv'
  OBVIOUS
<1>1. /\ turn = "sweep" /\ turn' = "sweep" /\ pos <= Len(co_list)
      /\ me.port = "write" /\ me.pc = "lock"
  BY DEF WriteAccept, Resume, Resumed
<1>2. UNCHANGED <<pins, accounts, mem, history>>
  BY DEF WriteAccept, Resume
<1>3. CASE mutex
  <2>1. Yield("lock") /\ UNCHANGED port
    BY <1>3 DEF WriteAccept
  <2> QED BY <1>1, <1>2, <1>3, <2>1, WaiterServes
<1>4. CASE ~mutex
  <2>1. /\ pos \in 1 .. Len(co_list) /\ me \in Thread /\ me = co_list[pos]
        /\ \A k \in 1 .. Len(co_list) : k # pos => Waits(k)
    BY <1>1, <1>4, Admitted
  <2>2. mutex'
    BY <1>4, Zenon DEF WriteAccept
  <2>3. (ar_owed' <=> ar_owed)
    BY <1>2, Zenon DEF accounts
  <2>4. UNCHANGED <<mem, ar, asked, seen, performed, r>>
    BY <1>2, <1>4 DEF WriteAccept, pins, history
  <2>5. Answerable'
    BY <2>3, <2>4, AnswerableStays DEF ServeInv
  <2>6. performed = 0
    BY <1>4 DEF ServeInv, InLine
  <2> DEFINE u == [me EXCEPT !.pc = "accepted",
                             !.addr = aw, !.aw_done = (aw # NoBeat),
                             !.data = w, !.w_done = (w # NoBeat)]
  <2>7. u \in Thread /\ u.pc = "accepted" /\ u.port = "write"
        /\ (u.w_done => u.data # NoBeat)
    BY <1>1, <2>1 DEF Thread, Yields, PortInv, Typed
  <2>8. co_list' = [co_list EXCEPT ![pos] = u] /\ pos' = pos + 1
    BY <1>4 DEF WriteAccept, YieldAs
  <2>9. PICK v \in Thread :
          /\ v.pc = "accepted" /\ v.port = "write" /\ (v.w_done => v.data # NoBeat)
          /\ co_list' = [co_list EXCEPT ![pos] = v] /\ pos' = pos + 1
    BY <2>7, <2>8, Zenon
  <2>10. Serves(v, TRUE)'
    BY <2>4, <2>6, <2>9 DEF Serves
  <2> QED BY <1>1, <1>4, <2>1, <2>2, <2>4, <2>5, <2>9, <2>10, HolderServes
<1> QED BY <1>3, <1>4

\* The write is performed, once, and a read under way may return its word.
LEMMA WriteAcceptedServes == PortInv /\ ServeInv /\ WriteAccepted => ServeInv'
<1> SUFFICES ASSUME PortInv, ServeInv, WriteAccepted PROVE ServeInv'
  OBVIOUS
<1>1. /\ turn = "sweep" /\ turn' = "sweep" /\ pos <= Len(co_list)
      /\ me.port = "write" /\ me.pc = "accepted"
  BY DEF WriteAccepted, Resume, Resumed
<1>2. /\ pos \in 1 .. Len(co_list) /\ me \in Thread /\ me = co_list[pos]
      /\ \A k \in 1 .. Len(co_list) : k # pos => Waits(k)
      /\ mutex
  BY <1>1, HolderFacts
<1>3. (mutex' <=> mutex) /\ (ar_owed' <=> ar_owed)
  BY Zenon DEF WriteAccepted, Resume, accounts
<1>4. UNCHANGED <<ar, r>>
  BY DEF WriteAccepted, Resume, pins
<1>5. Answerable /\ Serves(me, FALSE)
  BY <1>1, HolderServed
<1>6. CASE me.aw_done /\ me.w_done
  <2>1. /\ mem' = [mem EXCEPT ![me.addr] = me.data] /\ asked' = asked
        /\ seen' = (IF asked = me.addr THEN seen \cup {me.data} ELSE seen)
        /\ performed' = performed + 1
    BY <1>6, Zenon DEF WriteAccepted
  <2>2. me.data \in Data
    BY <1>1, <1>2, <1>5, <1>6 DEF Thread, Serves
  <2>3. Answerable'
    BY <1>3, <1>4, <1>5, <2>1, <2>2 DEF Answerable
  <2>4. performed' = 1
    BY <1>1, <1>5, <2>1 DEF Serves
  <2>5. Yield("respond") /\ "respond" \in Yields
    BY <1>6, Zenon DEF WriteAccepted, Yields
  <2>6. \A u \in Thread : u.pc = "respond" /\ u.port = me.port /\ u.addr = me.addr
                            => Serves(u, TRUE)'
    BY <1>1, <2>4 DEF Serves
  <2> QED BY <1>1, <1>3, <1>4, <2>3, <2>5, <2>6, YieldServes
<1>7. CASE ~(me.aw_done /\ me.w_done)
  <2>1. UNCHANGED <<mem, asked, seen, performed>>
    BY <1>7, Zenon DEF WriteAccepted, history
  <2>2. Answerable'
    BY <1>3, <1>4, <1>5, <2>1, AnswerableStays
  <2> DEFINE u == [me EXCEPT
                     !.addr = IF aw # NoBeat THEN aw ELSE me.addr,
                     !.aw_done = (me.aw_done \/ aw # NoBeat),
                     !.data = IF w # NoBeat THEN w ELSE me.data,
                     !.w_done = (me.w_done \/ w # NoBeat)]
  <2>3. u \in Thread /\ u.pc = "accepted" /\ u.port = "write"
        /\ (u.w_done => u.data # NoBeat)
    BY <1>1, <1>2, <1>5 DEF Thread, PortInv, Typed, Serves
  <2>4. co_list' = [co_list EXCEPT ![pos] = u] /\ pos' = pos + 1
    BY <1>7 DEF WriteAccepted, YieldAs
  <2>5. PICK v \in Thread :
          /\ v.pc = "accepted" /\ v.port = "write" /\ (v.w_done => v.data # NoBeat)
          /\ co_list' = [co_list EXCEPT ![pos] = v] /\ pos' = pos + 1
    BY <2>3, <2>4, Zenon
  <2>6. Serves(v, TRUE)'
    BY <1>1, <1>5, <2>1, <2>5 DEF Serves
  <2> QED BY <1>1, <1>2, <1>3, <1>4, <2>2, <2>5, <2>6, HolderServes
<1> QED BY <1>6, <1>7

\* The holder is the first in the list, so those that wait are still to run.
LEMMA UnlockServes == PortInv /\ ServeInv /\ Unlock => ServeInv'
<1> SUFFICES ASSUME PortInv, ServeInv, Unlock PROVE ServeInv'
  OBVIOUS
<1>1. /\ turn = "sweep" /\ turn' = "sweep" /\ pos <= Len(co_list)
      /\ me.pc = "unlock" /\ me.port \in {"read", "write"}
  BY DEF Unlock, Resume, Resumed
<1>2. /\ pos \in 1 .. Len(co_list) /\ me = co_list[pos]
      /\ \A k \in 1 .. Len(co_list) : k # pos => Waits(k)
  BY <1>1, HolderFacts
<1>3. co_list \in Seq(Thread) /\ pos \in Nat /\ Len(co_list) \in Nat
  BY <1>2 DEF PortInv, Typed
<1>4. ~mutex' /\ (ar_owed' <=> ar_owed)
  <2>1. UNCHANGED accounts
    BY DEF Unlock, Resume
  <2> QED BY <2>1, Zenon DEF Unlock, accounts
<1>5. UNCHANGED <<mem, ar, asked, seen, performed, r>>
  BY DEF Unlock, Resume, pins, history
<1>6. Answerable /\ Serves(me, FALSE)
  BY <1>1, HolderServed
<1>7. Answerable'
  BY <1>4, <1>5, <1>6, AnswerableStays
<1>8. performed' = 0
  BY <1>1, <1>5, <1>6 DEF Serves
<1>9. pos = 1
  <2>1. ~Waits(pos)
    BY <1>1, <1>2 DEF Waits
  <2>2. \A k \in 1 .. Len(co_list) : k # pos => pos < k
    BY <1>2, <2>1 DEF ServeInv, InLine
  <2> QED BY <1>2, <1>3, <2>2
<1>10. /\ Len(co_list') = Len(co_list) - 1 /\ pos' = 1
       /\ \A k \in 1 .. Len(co_list) - 1 : co_list'[k] = co_list[k + 1]
  <2>1. /\ Len(co_list') = Len(co_list) - 1 /\ pos' = pos
        /\ \A k \in 1 .. Len(co_list) - 1 :
             co_list'[k] = IF k < pos THEN co_list[k] ELSE co_list[k + 1]
    BY <1>2, <1>3, FinishProperties DEF Unlock
  <2> QED BY <1>3, <1>9, <2>1
<1>11. \A k \in 1 .. Len(co_list') :
         k + 1 \in 1 .. Len(co_list) /\ Waits(k + 1) /\ co_list'[k] = co_list[k + 1]
  BY <1>2, <1>3, <1>9, <1>10
<1>12. \A k \in 1 .. Len(co_list') : Waits(k)'
  BY <1>11 DEF Waits
<1>13. InLine'
  <2>1. ASSUME NEW k \in 1 .. Len(co_list'), NEW m \in 1 .. Len(co_list'), k < m
        PROVE  co_list'[k].port = "read" /\ co_list'[m].port = "write"
    <3>1. k + 1 < m + 1 /\ k + 1 \in 1 .. Len(co_list) /\ m + 1 \in 1 .. Len(co_list)
      BY <1>11, <2>1
    <3> QED BY <1>11, <3>1 DEF ServeInv, InLine
  <2>2. ASSUME NEW k \in 1 .. Len(co_list'), co_list'[k].port = "read"
        PROVE  ar' \in Mapped
    BY <1>5, <1>11, <2>2 DEF ServeInv, InLine
  <2> QED BY <1>1, <1>8, <1>10, <1>12, <2>1, <2>2 DEF InLine
<1> QED BY <1>7, <1>12, <1>13 DEF ServeInv
LEMMA SweptServes == PortInv /\ ServeInv /\ Swept => ServeInv'
<1> SUFFICES ASSUME PortInv, ServeInv, Swept PROVE ServeInv'
  OBVIOUS
<1>1. /\ turn = "sweep" /\ pos > Len(co_list) /\ turn' = "pollm"
      /\ pos' = pos /\ co_list' = co_list
      /\ UNCHANGED <<port, pins, accounts, mem, history>>
  BY DEF Swept, EndSweep
<1>2. co_list \in Seq(Thread) /\ pos \in Nat /\ Len(co_list) \in Nat
  BY DEF PortInv, Typed
<1>3. (mutex' <=> mutex) /\ (bvalid' <=> bvalid)
  BY <1>1, Zenon DEF port
<1>4. (ar_owed' <=> ar_owed) /\ (aw_owed' <=> aw_owed) /\ (w_owed' <=> w_owed)
  BY <1>1, Zenon DEF accounts
<1>5. UNCHANGED <<mem, ar, asked, seen, performed, r>>
  BY <1>1 DEF pins, port, history
<1>6. Answerable'
  BY <1>4, <1>5, AnswerableStays DEF ServeInv
<1>7. ~mutex => Len(co_list) = 0
  <2> SUFFICES ASSUME ~mutex, Len(co_list) # 0 PROVE FALSE
    OBVIOUS
  <2>1. 1 \in 1 .. Len(co_list) /\ Len(co_list) \in 1 .. Len(co_list)
    BY <1>2
  <2>2. Len(co_list) >= pos
    BY <1>1, <2>1 DEF ServeInv, InLine
  <2> QED BY <1>1, <1>2, <2>2
<1>8. InLine'
  BY <1>1, <1>3, <1>5, <1>7 DEF ServeInv, InLine, Waits
<1>9. ASSUME NEW k \in 1 .. Len(co_list), ~Waits(k)
      PROVE  Serves(co_list[k], TickToCome(k))'
  <2>1. Serves(co_list[k], TickToCome(k)) /\ TickToCome(k) /\ TickToCome(k)'
    BY <1>1, <1>2, <1>9 DEF ServeInv, TickToCome
  <2> QED BY <1>1, <1>3, <1>4, <1>5, <2>1 DEF Serves
<1> QED BY <1>1, <1>6, <1>8, <1>9 DEF ServeInv, Waits

LEMMA AgainServes == PortInv /\ ServeInv /\ Again => ServeInv'
<1> SUFFICES ASSUME PortInv, ServeInv, Again PROVE ServeInv'
  OBVIOUS
<1>1. /\ turn = "call" /\ turn' = "sweep" /\ pos' = 1 /\ co_list' = co_list
      /\ UNCHANGED <<port, pins, accounts, mem, history>>
  BY DEF Again, BeginSweep
<1>2. (mutex' <=> mutex) /\ (bvalid' <=> bvalid)
  BY <1>1, Zenon DEF port
<1>3. (ar_owed' <=> ar_owed) /\ (aw_owed' <=> aw_owed) /\ (w_owed' <=> w_owed)
  BY <1>1, Zenon DEF accounts
<1>4. UNCHANGED <<mem, ar, asked, seen, performed, r>>
  BY <1>1 DEF pins, port, history
<1>5. Answerable'
  BY <1>3, <1>4, AnswerableStays DEF ServeInv
<1>6. InLine'
  BY <1>1, <1>2, <1>4 DEF ServeInv, InLine, Waits
<1>7. ASSUME NEW k \in 1 .. Len(co_list), ~Waits(k)
      PROVE  Serves(co_list[k], TickToCome(k))'
  <2>1. Serves(co_list[k], TickToCome(k)) /\ ~TickToCome(k) /\ ~TickToCome(k)'
    BY <1>1, <1>7 DEF ServeInv, TickToCome
  <2> QED BY <1>1, <1>2, <1>3, <1>4, <2>1 DEF Serves
<1> QED BY <1>1, <1>5, <1>6, <1>7 DEF ServeInv, Waits

\* What the polls add: a reader and a writer, to an empty list.
LEMMA PollsAsk ==
  ASSUME PortInv, ServeInv, Polls
  PROVE  \/ co_list' = co_list
         \/ /\ ~mutex /\ Len(co_list') <= 2
            /\ \A k \in 1 .. Len(co_list') : co_list'[k].pc = "lock"
            /\ Len(co_list') = 2 => /\ co_list'[1].port = "read"
                                    /\ co_list'[2].port = "write"
            /\ (\E k \in 1 .. Len(co_list') : co_list'[k].port = "read") => ar \in Mapped
<1>1. CASE mutex
  <2>1. ~has_read /\ ~has_write
    BY <1>1 DEF has_read, has_write
  <2>2. co_list' = co_list \o << >> \o << >>
    BY <2>1 DEF Polls
  <2>3. co_list \in Seq(Thread)
    BY DEF PortInv, Typed
  <2> QED BY <2>2, <2>3
<1>2. CASE ~mutex
  <2>1. co_list = << >>
    <3>1. turn = "pollm" /\ co_list \in Seq(Thread)
      BY DEF Polls, PortInv, Typed
    <3>2. Len(co_list) = 0
      BY <1>2, <3>1 DEF ServeInv, InLine
    <3> QED BY <3>1, <3>2, EmptySeq
  <2> DEFINE R == PortThread("read")
             W == PortThread("write")
  <2>2. PICK a \in {<< >>, <<R>>}, b \in {<< >>, <<W>>} :
          /\ co_list' = (co_list \o a) \o b
          /\ a = <<R>> => ar \in Mapped
    <3>1. co_list' = (co_list \o (IF has_read /\ ar \in Mapped THEN <<R>> ELSE << >>))
                     \o (IF has_write /\ aw \in Mapped THEN <<W>> ELSE << >>)
      BY DEF Polls
    <3> HIDE DEF R, W
    <3> QED BY <3>1
  <2>3. R.pc = "lock" /\ W.pc = "lock" /\ R.port = "read" /\ W.port = "write"
    BY DEF PortThread
  <2> HIDE DEF R, W
  <2>4. CASE a = << >> /\ b = << >>
    BY <2>1, <2>2, <2>4
  <2>5. CASE a = <<R>> /\ b = << >>
    <3>1. co_list' = <<R>>
      BY <2>1, <2>2, <2>5
    <3> QED BY <1>2, <2>2, <2>3, <2>5, <3>1
  <2>6. CASE a = << >> /\ b = <<W>>
    <3>1. co_list' = <<W>>
      BY <2>1, <2>2, <2>6
    <3> QED BY <1>2, <2>3, <3>1
  <2>7. CASE a = <<R>> /\ b = <<W>>
    <3>1. PICK t, v, T : t = R /\ v = W /\ T = {R, W}
      OBVIOUS
    <3>2. <<t>> \in Seq(T) /\ v \in T /\ Len(<<t>>) = 1 /\ <<t>>[1] = t
      BY <3>1
    <3>3. PICK s \in Seq(T) : s = <<t>> /\ Len(s) = 1 /\ s[1] = t
      BY <3>2, Zenon
    <3>4. /\ Len(co_list') = 2 /\ co_list'[1] = R /\ co_list'[2] = W
      <4>1. co_list' = <<t>> \o <<v>>
        BY <2>1, <2>2, <2>7, <3>1
      <4>2. Append(s, v) = s \o <<v>>
        BY <3>2, AppendIsConcat
      <4>3. co_list' = Append(s, v)
        BY <3>3, <4>1, <4>2
      <4> QED BY <3>1, <3>2, <3>3, <4>3, AppendProperties
    <3>5. \A k \in 1 .. 2 : k = 1 \/ k = 2
      OBVIOUS
    <3>6. \A k \in 1 .. 2 : co_list'[k].pc = "lock"
      BY <2>3, <3>4, <3>5
    <3>7. ar \in Mapped
      BY <2>2, <2>7
    <3> QED BY <1>2, <2>3, <3>4, <3>6, <3>7
  <2> QED BY <2>2, <2>4, <2>5, <2>6, <2>7
<1> QED BY <1>1, <1>2

LEMMA PollsServes == PortInv /\ ServeInv /\ Polls => ServeInv'
<1> SUFFICES ASSUME PortInv, ServeInv, Polls PROVE ServeInv'
  OBVIOUS
<1>1. /\ turn = "pollm" /\ turn' = "tick" /\ pos' = pos
      /\ UNCHANGED <<port, pins, accounts, mem, history>>
  BY DEF Polls
<1>2. (mutex' <=> mutex) /\ (bvalid' <=> bvalid)
  BY <1>1, Zenon DEF port
<1>3. (ar_owed' <=> ar_owed) /\ (aw_owed' <=> aw_owed) /\ (w_owed' <=> w_owed)
  BY <1>1, Zenon DEF accounts
<1>4. UNCHANGED <<mem, ar, asked, seen, performed, r>>
  BY <1>1 DEF pins, port, history
<1>5. Answerable'
  BY <1>3, <1>4, AnswerableStays DEF ServeInv
<1>6. CASE co_list' = co_list
  <2>1. InLine'
    BY <1>1, <1>2, <1>4, <1>6 DEF ServeInv, InLine, Waits
  <2>2. ASSUME NEW k \in 1 .. Len(co_list), ~Waits(k)
        PROVE  Serves(co_list[k], TickToCome(k))'
    <3>1. Serves(co_list[k], TickToCome(k)) /\ TickToCome(k) /\ TickToCome(k)'
      BY <1>1, <2>2 DEF ServeInv, TickToCome
    <3> QED BY <1>2, <1>3, <1>4, <1>6, <3>1 DEF Serves
  <2> QED BY <1>5, <1>6, <2>1, <2>2 DEF ServeInv, Waits
<1>7. CASE co_list' # co_list
  <2>1. /\ ~mutex /\ Len(co_list') <= 2
        /\ \A k \in 1 .. Len(co_list') : co_list'[k].pc = "lock"
        /\ Len(co_list') = 2 => /\ co_list'[1].port = "read"
                                /\ co_list'[2].port = "write"
        /\ (\E k \in 1 .. Len(co_list') : co_list'[k].port = "read") => ar \in Mapped
    BY <1>7, PollsAsk
  <2>2. Len(co_list') \in Nat
    <3>1. PortInv'
      BY PollsInv
    <3> QED BY <3>1 DEF PortInv, Typed
  <2>3. \A k \in 1 .. Len(co_list') : Waits(k)'
    BY <2>1 DEF Waits
  <2>4. \A k, m \in 1 .. Len(co_list') : k < m => k = 1 /\ m = 2 /\ Len(co_list') = 2
    BY <2>1, <2>2
  <2>5. performed' = 0
    BY <1>4, <2>1 DEF ServeInv, InLine
  <2>6. InLine'
    BY <1>1, <1>4, <2>1, <2>3, <2>4, <2>5 DEF InLine
  <2> QED BY <1>5, <2>3, <2>6 DEF ServeInv
<1> QED BY <1>6, <1>7
\* The edge: a new read starts the account of what it may return, and a write
\* that has been answered starts anew.
LEMMA EdgeServesOn ==
  ASSUME PortInv, ServeInv, Edge, turn' = "call", NEW ran \in BOOLEAN,
         \A k : TickToCome(k) <=> ran
  PROVE  ServeInv'
<1>1. pos' = pos /\ co_list' = co_list
  BY DEF Edge
<1>2. mem' = mem /\ r' = r
  BY DEF Edge, port
<1>3. (mutex' <=> mutex) /\ (bvalid' <=> bvalid)
  BY Zenon DEF Edge, port
<1>4. /\ ar_owed' <=> (ar_owed \/ (arready /\ ar # NoBeat)) /\ ~(r # NoBeat /\ rready)
      /\ aw_owed' <=> (aw_owed \/ (awready /\ aw # NoBeat)) /\ ~(bvalid /\ bready)
      /\ w_owed' <=> (w_owed \/ (wready /\ w # NoBeat)) /\ ~(bvalid /\ bready)
  BY Zenon DEF Edge, ar_moves, aw_moves, w_moves, r_moves, b_moves
<1>5. /\ ar # NoBeat /\ ~arready => ar' = ar
      /\ (ar = NoBeat \/ arready) /\ ar' # NoBeat => ar' \in Addresses /\ ~ar_owed'
  BY DEF Edge, Drives, ar_moves
<1>6. IF ar' # NoBeat /\ (ar = NoBeat \/ arready)
      THEN asked' = ar' /\ seen' = IF ar' \in Mapped THEN {mem[ar']} ELSE {}
      ELSE asked' = asked /\ seen' = seen
  BY DEF Edge, ar_moves
<1>7. performed' = IF bvalid /\ bready THEN 0 ELSE performed
  BY Zenon DEF Edge, b_moves
<1>8. Answerable /\ InLine
  BY DEF ServeInv
<1>9. arready => r = NoBeat
  BY DEF PortInv, Driven, DrivenBy
<1>10. ar_owed' => ar' = NoBeat
  BY <1>4, <1>5, <1>8 DEF Answerable
<1>11. Answerable'
  <2>1. CASE ar' # NoBeat /\ (ar = NoBeat \/ arready)
    BY <1>2, <1>5, <1>6, <1>8, <1>10, <2>1 DEF Answerable
  <2>2. CASE ~(ar' # NoBeat /\ (ar = NoBeat \/ arready))
    <3>1. asked' = asked /\ seen' = seen
      BY <1>6, <2>2
    <3>2. ar' # NoBeat => ar' = ar
      BY <1>5, <2>2
    <3>3. ar_owed' => ar_owed \/ (arready /\ ar # NoBeat)
      BY <1>4
    <3>4. r # NoBeat /\ ar_owed' => ar_owed
      BY <1>9, <3>3
    <3> QED BY <1>2, <1>8, <1>10, <3>1, <3>2, <3>3, <3>4 DEF Answerable
  <2> QED BY <2>1, <2>2
<1>12. \A k : (Waits(k)' <=> Waits(k)) /\ (TickToCome(k) <=> ran) /\ ~TickToCome(k)'
  BY <1>1 DEF Waits, TickToCome
<1>13. ASSUME NEW k \in 1 .. Len(co_list), ~Waits(k)
       PROVE  Serves(co_list[k], TickToCome(k))'
  <2>1. PICK t : t = co_list[k] /\ co_list[k]' = t
    BY <1>1
  <2>2. DrivenBy(t) /\ ServedBy(t, ran) /\ Serves(t, ran) /\ t.pc # "lock"
    <3>1. DrivenBy(t) /\ ServedBy(t, TickToCome(k)) /\ Serves(t, TickToCome(k))
      BY <1>13, <2>1 DEF PortInv, ServeInv
    <3>2. TickToCome(k) <=> ran
      BY <1>12
    <3> QED BY <1>13, <2>1, <3>1, <3>2 DEF ServedBy, Serves, Taken, Waits
  <2>3. CASE t.port = "read"
    <3>1. ~bvalid
      BY <2>2, <2>3 DEF DrivenBy
    <3>2. performed' = 0
      BY <1>7, <2>2, <2>3, <3>1 DEF Serves
    <3>3. t.pc \in {"accepted", "respond"} => t.addr = asked /\ asked \in Mapped
      BY <2>2, <2>3 DEF Serves
    <3>4. t.pc \in {"accepted", "respond"} => r = NoBeat
      BY <2>2, <2>3 DEF DrivenBy
    <3>5. t.pc \in {"accepted", "respond"} => ar_owed'
      BY <1>4, <2>2, <2>3, <3>4 DEF ServedBy
    <3>6. t.pc \in {"accepted", "respond"} => asked' = asked
      BY <1>6, <1>10, <3>5
    <3>7. t.pc \in {"answered", "unlock"} => ~ar_owed'
      BY <1>4, <2>2, <2>3 DEF DrivenBy, ServedBy, Serves
    <3> QED BY <1>2, <1>12, <2>1, <2>2, <2>3, <3>2, <3>3, <3>6, <3>7 DEF Serves
  <2>4. CASE t.port = "write"
    <3>1. t.pc \in {"accepted", "respond", "unlock"} => performed' = performed
      BY <1>7, <2>2, <2>4 DEF DrivenBy
    <3>2. t.pc # "accepted" => ~awready /\ ~wready
      BY <2>2, <2>4 DEF DrivenBy
    <3>3. t.pc \in {"offer", "answered"} =>
            /\ aw_owed' <=> w_owed'
            /\ performed' = IF aw_owed' THEN 1 ELSE 0
      BY <1>4, <1>7, <2>2, <2>4, <3>2 DEF Serves
    <3>4. t.pc = "answered" => ~aw_owed'
      BY <1>4, <2>2, <2>4, <3>2 DEF ServedBy, Serves
    <3>5. t.pc = "unlock" => ~aw_owed' /\ ~w_owed'
      BY <1>4, <2>2, <2>4, <3>2 DEF Serves
    <3> QED BY <1>3, <1>12, <2>1, <2>2, <2>4, <3>1, <3>3, <3>4, <3>5 DEF Serves
  <2>5. t.port \in {"read", "write"}
    <3>1. co_list[k] \in Thread
      BY DEF PortInv, Typed
    <3> QED BY <2>1, <3>1 DEF Thread
  <2> QED BY <2>3, <2>4, <2>5
<1>14. InLine'
  <2>1. ASSUME NEW k \in 1 .. Len(co_list), Waits(k), co_list[k].port = "read"
        PROVE  ar' \in Mapped
    <3>1. ar \in Mapped /\ ar # NoBeat
      BY <1>8, <2>1, PortAssumption DEF InLine, Addresses
    <3>2. ~arready
      <4> SUFFICES ASSUME arready PROVE FALSE
        OBVIOUS
      <4>1. PICK m \in 1 .. Len(co_list) : ~Waits(m)
        BY DEF PortInv, Driven
      <4>2. co_list[m].port = "read" /\ m < k
        BY <1>8, <2>1, <4>1 DEF PortInv, DrivenBy, InLine
      <4> QED BY <1>8, <2>1, <4>2 DEF InLine
    <3> QED BY <1>5, <3>1, <3>2
  <2>2. ~mutex' => performed' = 0
    BY <1>3, <1>7, <1>8 DEF InLine
  <2> QED BY <1>1, <1>3, <1>8, <1>12, <2>1, <2>2 DEF InLine
<1> QED BY <1>1, <1>11, <1>12, <1>13, <1>14 DEF ServeInv

LEMMA TickServes == PortInv /\ ServeInv /\ Tick => ServeInv'
<1> SUFFICES ASSUME PortInv, ServeInv, Tick PROVE ServeInv'
  OBVIOUS
<1>1. Edge /\ turn' = "call" /\ \A k : TickToCome(k) <=> TRUE
  BY DEF Tick, TickToCome
<1> QED BY <1>1, EdgeServesOn

LEMMA RawTickServes == PortInv /\ ServeInv /\ RawTick => ServeInv'
<1> SUFFICES ASSUME PortInv, ServeInv, RawTick PROVE ServeInv'
  OBVIOUS
<1>1. Edge /\ turn' = "call" /\ \A k : TickToCome(k) <=> FALSE
  BY DEF RawTick, TickToCome
<1> QED BY <1>1, EdgeServesOn

\* At the start nothing is asked and nothing performed.
LEMMA ServeInvInit == PortInit => ServeInv
<1> SUFFICES ASSUME PortInit PROVE ServeInv
  OBVIOUS
<1>1. /\ co_list = << >> /\ Len(co_list) = 0 /\ turn = "sweep" /\ performed = 0
      /\ r = NoBeat /\ ar = NoBeat /\ asked = NoBeat /\ mem \in [Mapped -> Data]
  BY DEF PortInit, SchedulerInit
<1>2. ~ar_owed
  BY Zenon DEF PortInit
<1>3. Answerable
  BY <1>1, <1>2 DEF Answerable
<1>4. InLine
  BY <1>1 DEF InLine
<1> QED BY <1>1, <1>3, <1>4 DEF ServeInv

LEMMA ServeInvNext == PortInv /\ ServeInv /\ [PortNext]_portVars => ServeInv'
<1> SUFFICES ASSUME PortInv, ServeInv, [PortNext]_portVars PROVE ServeInv'
  OBVIOUS
<1>1. CASE UNCHANGED portVars
  <2>1. UNCHANGED <<turn, pos, co_list>> /\ UNCHANGED <<port, pins, accounts, mem, history>>
    BY <1>1, Zenon DEF portVars, scheduler
  <2>2. (mutex' <=> mutex) /\ (bvalid' <=> bvalid)
    BY <2>1, Zenon DEF port
  <2>3. (ar_owed' <=> ar_owed) /\ (aw_owed' <=> aw_owed) /\ (w_owed' <=> w_owed)
    BY <2>1, Zenon DEF accounts
  <2>4. UNCHANGED <<mem, ar, asked, seen, performed, r>>
    BY <2>1 DEF pins, port, history
  <2>5. Answerable'
    BY <2>3, <2>4, AnswerableStays DEF ServeInv
  <2>6. InLine'
    BY <2>1, <2>2, <2>4 DEF ServeInv, InLine, Waits
  <2>7. ASSUME NEW k \in 1 .. Len(co_list), ~Waits(k)
        PROVE  Serves(co_list[k], TickToCome(k))'
    <3>1. Serves(co_list[k], TickToCome(k)) /\ (TickToCome(k)' <=> TickToCome(k))
      BY <2>1, <2>7 DEF ServeInv, TickToCome
    <3> QED BY <2>1, <2>2, <2>3, <2>4, <3>1 DEF Serves
  <2> QED BY <2>1, <2>5, <2>6, <2>7 DEF ServeInv, Waits
<1>2. CASE PortNext
  BY <1>2, ReadAcceptServes, ReadAcceptedServes, ReadRespondServes, ReadOfferServes,
     ReadAnsweredServes, WriteAcceptServes, WriteAcceptedServes, WriteRespondServes,
     WriteOfferServes, WriteAnsweredServes, UnlockServes, SweptServes, PollsServes,
     TickServes, RawTickServes, AgainServes DEF PortNext
<1> QED BY <1>1, <1>2

(***************************************************************************)
(* A helper that gives the port back has answered its request, and no more *)
(* answers have moved to a master that waits for none than there were      *)
(* ticks outside next(): without such ticks each answer moves once,        *)
(* although the helpers see READY a whole next() before they lower VALID.  *)
(***************************************************************************)
THEOREM PortAnswersOnce == PortSpec => []AnswersOwed
<1>1. PortInv /\ ServeInv => AnswersOwed
  <2> SUFFICES ASSUME PortInv, ServeInv PROVE AnswersOwed
    OBVIOUS
  <2>1. ASSUME NEW p, NEW k \in Holders(p)
        PROVE  Serves(co_list[k], TickToCome(k)) /\ co_list[k].port = p
    <3>1. k \in 1 .. Len(co_list) /\ ~Waits(k) /\ co_list[k].port = p
      BY DEF Holders, Threads, Waits
    <3> QED BY <3>1 DEF ServeInv
  <2>2. \A k \in Holders("read") : co_list[k].pc = "unlock" => ~ar_owed
    BY <2>1 DEF Serves
  <2>3. \A k \in Holders("write") : co_list[k].pc = "unlock" => ~aw_owed /\ ~w_owed
    BY <2>1 DEF Serves
  <2> QED BY <2>2, <2>3 DEF AnswersOwed, PortInv
<1> QED BY <1>1, PortInvInit, PortInvNext, ServeInvInit, ServeInvNext, PTL DEF PortSpec

(***************************************************************************)
(* A read returns a value that its word had since the address was offered, *)
(* and a write is performed once, before it is answered: for every master, *)
(* every scratchpad and every interleaving of the two kinds of coroutine.  *)
(***************************************************************************)
THEOREM PortLinearizable == PortSpec => []Linearizable
<1>1. PortInv /\ ServeInv => Linearizable
  <2> SUFFICES ASSUME PortInv, ServeInv PROVE Linearizable
    OBVIOUS
  <2>1. r # NoBeat /\ ar_owed => r \in seen
    BY DEF ServeInv, Answerable
  <2>2. ASSUME mutex
        PROVE  performed <= 1 /\ (bvalid /\ aw_owed => performed = 1)
    <3>1. PICK k \in 1 .. Len(co_list) : ~Waits(k)
      BY <2>2 DEF PortInv
    <3>2. /\ DrivenBy(co_list[k]) /\ Serves(co_list[k], TickToCome(k))
          /\ co_list[k] \in Thread /\ co_list[k].pc # "lock"
      BY <3>1 DEF PortInv, ServeInv, Typed, Waits
    <3>3. PICK t \in Thread : t = co_list[k]
      BY <3>2
    <3>4. /\ t.pc \in {"accept", "accepted", "respond", "offer", "answered", "unlock"}
          /\ t.port \in {"read", "write"}
      BY <3>2, <3>3 DEF Thread, Yields
    <3> QED BY <3>2, <3>3, <3>4 DEF DrivenBy, Serves
  <2>3. ASSUME ~mutex
        PROVE  performed <= 1 /\ ~bvalid
    BY <2>3 DEF PortInv, ServeInv, InLine, Driven
  <2> QED BY <2>1, <2>2, <2>3 DEF Linearizable
<1> QED BY <1>1, PortInvInit, PortInvNext, ServeInvInit, ServeInvNext, PTL DEF PortSpec
=============================================================================
