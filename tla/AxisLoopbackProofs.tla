------------------------- MODULE AxisLoopbackProofs -------------------------
(***************************************************************************)
(* The stream loop of axis-example for every length of the transaction,    *)
(* every size of the FIFOs and every latency of a call: the ports are      *)
(* driven by one coroutine at a time, and the words come back in order.    *)
(***************************************************************************)
EXTENDS AxisLoopback, SchedulerProofs

Yields == {"lock", "offer", "taken", "unlock"}
Thread == [port : {"mp", "sp"}, pc : Yields, word : Data, last : BOOLEAN]
Stages == {"tinit", "check", "room", "put", "fill", "get", "status", "ticks",
           "stopped", "failed"}

Typed ==
  /\ co_list \in Seq(Thread) /\ pos \in Nat \ {0}
  /\ turn \in {"sweep", "pollm", "polls", "tick", "call"}
  /\ sp \in Beats \cup {NoBeat}
  /\ buffer \in Seq(Data) /\ ps_to_pl \in Seq(Data) /\ pl_to_ps \in Seq(Data)
  /\ Len(ps_to_pl) <= Els /\ Len(pl_to_ps) <= Els
  /\ tx_tcount \in Nat /\ rx_tcount \in Nat
  /\ stage \in Stages /\ i \in Nat /\ wait \in Nat /\ rdata \in Nat

Sp(k) == co_list[k].port = "sp"
Mp(k) == co_list[k].port = "mp"
Waits(k) == co_list[k].pc = "lock"

(***************************************************************************)
(* The coroutine that has sp0: the pins are its own, and what it has seen  *)
(* of READY holds until the tick; ran says that it has run since the last. *)
(***************************************************************************)
SpOwner(t, ran) ==
  /\ sp_mutex
  /\ t.pc = "unlock" => sp = NoBeat
  /\ t.pc # "unlock" => sp = [word |-> t.word, last |-> t.last]
  /\ t.pc = "taken" /\ ran => sp_tready
  /\ t.pc = "offer" /\ ran => ~sp_tready
  /\ t.pc = "taken" /\ ~ran => pl_to_ps # << >>

(***************************************************************************)
(* Only the oldest coroutine of sp0 may have the port, so they are served  *)
(* in the order in which they were started: one that is resumed while the  *)
(* port is free takes it.                                                  *)
(***************************************************************************)
SpPort ==
  /\ \A k, m \in 1 .. Len(co_list) : Sp(k) /\ Sp(m) /\ k < m => Waits(m)
  /\ \A k \in 1 .. Len(co_list) : Sp(k) /\ ~Waits(k) =>
       SpOwner(co_list[k], TickToCome(k))
  /\ \A k \in 1 .. Len(co_list) : Sp(k) /\ co_list[k].word = Txn - 1 => co_list[k].last
  /\ sp_mutex => \E k \in 1 .. Len(co_list) : Sp(k) /\ ~Waits(k)
  /\ ~sp_mutex => sp = NoBeat

\* The coroutines of sp0 that have run since next() began found the port taken.
SpLine ==
  /\ turn = "sweep" => \A k \in 1 .. Len(co_list) : k < pos /\ Sp(k) => sp_mutex
  /\ turn = "pollm" => \A k \in 1 .. Len(co_list) : Sp(k) => sp_mutex

(***************************************************************************)
(* mp0 is asked for only when it is free and has a word, and the FIFO is   *)
(* read by nobody else: its one coroutine never waits for the word.        *)
(***************************************************************************)
MpAlone(t, ran, looked) ==
  /\ t.pc # "offer"
  /\ mp_mutex <=> t.pc # "lock"
  /\ mp_tready <=> t.pc = "taken"
  /\ t.pc = "lock" => mp_tvalid /\ ~looked
  /\ t.pc = "taken" /\ ran => mp_tvalid

Looked(k) == turn \in {"pollm", "polls"} \/ (turn = "sweep" /\ k < pos)

MpPort ==
  /\ \A k, m \in 1 .. Len(co_list) : Mp(k) /\ Mp(m) => k = m
  /\ \A k \in 1 .. Len(co_list) : Mp(k) => MpAlone(co_list[k], TickToCome(k), Looked(k))
  /\ mp_mutex \/ mp_tready => \E k \in 1 .. Len(co_list) : Mp(k)

\* A word lies in the buffer that is still in the FIFO.
Taking == \E k \in 1 .. Len(co_list) :
            Mp(k) /\ co_list[k].pc = "taken" /\ TickToCome(k)

\* The words that have come to the buffer, and that have left it.
Collected == tx_tcount + (IF Taking THEN 1 ELSE 0)
Given == Collected - Len(buffer)

Numbered(queue, first) == \A n \in 1 .. Len(queue) : queue[n] = first + n - 1

(***************************************************************************)
(* The counters of the PL count the words that pass, so the word that      *)
(* passes is the count.                                                    *)
(***************************************************************************)
Words ==
  /\ tx_tcount = Written - Len(ps_to_pl) /\ Numbered(ps_to_pl, tx_tcount)
  /\ rx_tcount = Read + Len(pl_to_ps) /\ Numbered(pl_to_ps, Read)
  /\ Numbered(buffer, Given)
  /\ Carried(rx_tcount, Given)
  /\ FullMeansWhole
  /\ rx_tcount = Txn => tstatus_r

(***************************************************************************)
(* A count that the program has read still holds when it acts on it.       *)
(***************************************************************************)
Program ==
  /\ stage # "failed"
  /\ Running => i < Txn
  /\ stage \in {"tinit", "check", "status"} => i = 0
  /\ tinit => stage = "tinit" /\ applied /\ wait = Latency
  /\ stage = "check" /\ applied => rdata = 0
  /\ stage = "room" /\ applied => rdata <= Els - Len(ps_to_pl)
  /\ stage = "put" /\ ~applied => Len(ps_to_pl) < Els
  /\ stage = "fill" /\ applied => rdata <= Len(pl_to_ps)
  /\ stage = "get" /\ ~applied => pl_to_ps # << >>
  /\ stage = "get" /\ applied => rdata = i
  /\ stage = "status" /\ applied => rdata = 1

LoopInv == Typed /\ SpPort /\ SpLine /\ MpPort /\ Words /\ Program

-----------------------------------------------------------------------------
(***************************************************************************)
(* Queues of consecutive words.                                            *)
(***************************************************************************)
\* A FIFO after an edge that may take its head and may append a word.
Shifted(queue, pull, push, word) ==
  (IF pull = 1 THEN Tail(queue) ELSE queue) \o (IF push = 1 THEN <<word>> ELSE << >>)

LEMMA QueueType ==
  ASSUME NEW q \in Seq(Data), NEW o \in 0 .. 1, NEW p \in 0 .. 1, NEW word,
         p = 1 => word \in Data, o = 1 => q # << >>,
         NEW r, r = Shifted(q, o, p, word)
  PROVE  r \in Seq(Data)
<1>1. (IF o = 1 THEN Tail(q) ELSE q) \in Seq(Data)
  BY HeadTailProperties
<1>2. (IF p = 1 THEN <<word>> ELSE << >>) \in Seq(Data)
  OBVIOUS
<1> QED BY <1>1, <1>2, ConcatProperties DEF Shifted

LEMMA QueueStep ==
  ASSUME NEW q \in Seq(Data), NEW o \in 0 .. 1, NEW p \in 0 .. 1, NEW word,
         p = 1 => word \in Data, o = 1 => q # << >>,
         NEW r, r = Shifted(q, o, p, word)
  PROVE  /\ Len(r) = Len(q) - o + p
         /\ \A first \in Int :
              Numbered(q, first) /\ (p = 1 => word = first + Len(q)) =>
                Numbered(r, first + o)
<1> DEFINE s == IF o = 1 THEN Tail(q) ELSE q
           t == IF p = 1 THEN <<word>> ELSE << >>
<1>1. s \in Seq(Data) /\ Len(s) = Len(q) - o /\ \A n \in 1 .. Len(s) : s[n] = q[n + o]
  <2>1. CASE o = 1
    BY <2>1, HeadTailProperties
  <2>2. CASE o = 0
    <3>1. s = q
      BY <2>2
    <3>2. Len(q) \in Nat /\ \A n \in 1 .. Len(q) : n + 0 = n
      OBVIOUS
    <3> QED BY <2>2, <3>1, <3>2
  <2> QED BY <2>1, <2>2
<1>2. t \in Seq(Data) /\ Len(t) = p /\ (p = 1 => t[1] = word)
  <2>1. CASE p = 1
    <3>1. t = <<word>> /\ word \in Data
      BY <2>1
    <3> QED BY <2>1, <3>1
  <2>2. CASE p = 0
    <3>1. t = << >>
      BY <2>2
    <3> QED BY <2>2, <3>1
  <2> QED BY <2>1, <2>2
<1>3. r = s \o t
  BY DEF Shifted
<1>4. o \in 0 .. 1 /\ p \in 0 .. 1
  OBVIOUS
<1> HIDE DEF s, t
<1>5. /\ r \in Seq(Data) /\ Len(r) = Len(s) + Len(t)
      /\ \A n \in 1 .. Len(s) + Len(t) :
           r[n] = IF n <= Len(s) THEN s[n] ELSE t[n - Len(s)]
  <2>1. PICK a \in Seq(Data), b \in Seq(Data) : a = s /\ b = t
    BY <1>1, <1>2
  <2>2. r = a \o b
    BY <1>3, <2>1
  <2>3. /\ a \o b \in Seq(Data)
        /\ Len(a \o b) = Len(a) + Len(b)
        /\ \A n \in 1 .. Len(a) + Len(b) :
             (a \o b)[n] = IF n <= Len(a) THEN a[n] ELSE b[n - Len(a)]
    BY ConcatProperties, Zenon
  <2> QED BY <2>1, <2>2, <2>3, Zenon
<1>6. PICK lq \in Nat, ls \in Nat, lr \in Nat :
        /\ lq = Len(q) /\ ls = Len(s) /\ lr = Len(r)
        /\ ls = lq - o /\ lr = ls + p /\ Len(t) = p
  <2>1. Len(q) \in Nat /\ Len(s) \in Nat /\ Len(r) \in Nat
    BY <1>1, <1>5, LenProperties
  <2>2. Len(s) = Len(q) - o /\ Len(r) = Len(s) + p /\ Len(t) = p
    BY <1>1, <1>2, <1>5
  <2> QED BY <2>1, <2>2, Zenon
<1>7. ASSUME NEW first \in Int, Numbered(q, first), p = 1 => word = first + Len(q)
      PROVE  Numbered(r, first + o)
  <2> SUFFICES ASSUME NEW n \in 1 .. Len(r)
               PROVE  r[n] = first + o + n - 1
    BY DEF Numbered
  <2>1. CASE n <= Len(s)
    <3>1. r[n] = q[n + o] /\ n + o \in 1 .. Len(q)
      <4>1. n \in 1 .. ls /\ n \in 1 .. ls + p /\ n + o \in 1 .. lq
        BY <1>4, <1>6, <2>1
      <4> QED BY <1>1, <1>5, <1>6, <2>1, <4>1
    <3>2. q[n + o] = first + (n + o) - 1
      BY <1>7, <3>1 DEF Numbered
    <3> QED BY <1>4, <3>1, <3>2
  <2>2. CASE ~(n <= Len(s))
    <3>1. n \in 1 .. ls + p /\ ~(n <= ls) /\ n \in Int
      <4>1. n \in 1 .. lr /\ lr = ls + p /\ ~(n <= ls)
        BY <1>6, <2>2
      <4> QED BY <1>4, <4>1
    <3>2. p = 1 /\ n = ls + 1 /\ n - ls = 1
      BY <1>4, <1>6, <3>1
    <3>3. r[n] = word
      BY <1>2, <1>4, <1>5, <1>6, <2>2, <3>1, <3>2
    <3>4. word = first + lq
      BY <1>4, <1>6, <1>7, <3>2
    <3>5. first + lq = first + o + n - 1
      BY <1>4, <1>6, <3>2
    <3> QED BY <3>3, <3>4, <3>5
  <2> QED BY <2>1, <2>2
<1>8. Len(r) = Len(q) - o + p
  BY <1>4, <1>6
<1> QED BY <1>7, <1>8

LEMMA QueueLength ==
  ASSUME NEW q \in Seq(Data), NEW o \in 0 .. 1, NEW p \in 0 .. 1, NEW word,
         p = 1 => word \in Data, o = 1 => q # << >>,
         NEW r, r = Shifted(q, o, p, word)
  PROVE  Len(r) = Len(q) - o + p
BY QueueStep

\* The words keep their numbers.
LEMMA QueueNumbers ==
  ASSUME NEW q \in Seq(Data), NEW o \in 0 .. 1, NEW p \in 0 .. 1, NEW word,
         p = 1 => word \in Data, o = 1 => q # << >>,
         NEW r, r = Shifted(q, o, p, word),
         NEW first \in Int, Numbered(q, first), p = 1 => word = first + Len(q)
  PROVE  Numbered(r, first + o)
BY QueueStep

-----------------------------------------------------------------------------
(***************************************************************************)
(* What a step of the scheduler does to the list.                          *)
(***************************************************************************)
\* The coroutine at pos runs on.
LEMMA YieldFacts ==
  ASSUME Typed, turn = "sweep", turn' = "sweep", pos <= Len(co_list),
         NEW p \in Yields, Yield(p)
  PROVE  /\ pos \in 1 .. Len(co_list) /\ pos' = pos + 1
         /\ co_list' \in Seq(Thread) /\ Len(co_list') = Len(co_list)
         /\ \A k \in 1 .. Len(co_list) :
              /\ co_list'[k].port = co_list[k].port
              /\ co_list'[k].word = co_list[k].word
              /\ co_list'[k].last = co_list[k].last
              /\ co_list'[k].pc = IF k = pos THEN p ELSE co_list[k].pc
         /\ \A k \in 1 .. Len(co_list) :
              /\ (TickToCome(k)' <=> k <= pos) /\ (TickToCome(k) <=> k < pos)
              /\ (Looked(k)' <=> k <= pos) /\ (Looked(k) <=> k < pos)
<1>1. pos \in 1 .. Len(co_list) /\ co_list \in Seq(Thread) /\ Len(co_list) \in Nat
  BY DEF Typed
<1> DEFINE u == [co_list[pos] EXCEPT !.pc = p]
<1>2. co_list[pos] \in Thread
  BY <1>1
<1>3. /\ u \in Thread /\ u.pc = p /\ u.port = co_list[pos].port
      /\ u.word = co_list[pos].word /\ u.last = co_list[pos].last
  BY <1>2 DEF Thread
<1>4. co_list' = [co_list EXCEPT ![pos] = u] /\ pos' = pos + 1
  BY DEF Yield
<1> HIDE DEF u
<1>5. /\ co_list' \in Seq(Thread) /\ Len(co_list') = Len(co_list)
      /\ \A k \in 1 .. Len(co_list) : co_list'[k] = IF k = pos THEN u ELSE co_list[k]
  BY <1>1, <1>3, <1>4, RunOn
<1>6. \A k \in 1 .. Len(co_list) :
              /\ (TickToCome(k)' <=> k <= pos) /\ (TickToCome(k) <=> k < pos)
              /\ (Looked(k)' <=> k <= pos) /\ (Looked(k) <=> k < pos)
  BY <1>1, <1>4 DEF TickToCome, Looked
<1> QED BY <1>1, <1>3, <1>4, <1>5, <1>6

\* The coroutine at pos ends.
LEMMA FinishFacts ==
  ASSUME Typed, turn = "sweep", turn' = "sweep", pos <= Len(co_list), Finish
  PROVE  /\ pos \in 1 .. Len(co_list) /\ pos' = pos
         /\ co_list' \in Seq(Thread) /\ Len(co_list') = Len(co_list) - 1
         /\ \A k \in 1 .. Len(co_list) - 1 :
              /\ k < pos => /\ co_list'[k] = co_list[k]
                            /\ TickToCome(k)' /\ TickToCome(k)
                            /\ Looked(k)' /\ Looked(k)
              /\ k >= pos => /\ k + 1 \in 1 .. Len(co_list)
                             /\ co_list'[k] = co_list[k + 1]
                             /\ ~TickToCome(k)' /\ ~TickToCome(k + 1)
                             /\ ~Looked(k)' /\ ~Looked(k + 1)
<1>1. pos \in 1 .. Len(co_list) /\ co_list \in Seq(Thread) /\ Len(co_list) \in Nat
  BY DEF Typed
<1>2. /\ co_list' \in Seq(Thread) /\ Len(co_list') = Len(co_list) - 1
      /\ \A k \in 1 .. Len(co_list) - 1 :
           co_list'[k] = IF k < pos THEN co_list[k] ELSE co_list[k + 1]
      /\ pos' = pos
  BY <1>1, FinishProperties
<1>3. ASSUME NEW k \in 1 .. Len(co_list) - 1
      PROVE  /\ k < pos => TickToCome(k)' /\ TickToCome(k) /\ Looked(k)' /\ Looked(k)
             /\ k >= pos => /\ k + 1 \in 1 .. Len(co_list)
                            /\ ~TickToCome(k)' /\ ~TickToCome(k + 1)
                            /\ ~Looked(k)' /\ ~Looked(k + 1)
  BY <1>1, <1>2 DEF TickToCome, Looked
<1>4. \A k \in 1 .. Len(co_list) - 1 : k >= pos => ~(k < pos)
  BY <1>1
<1> QED BY <1>1, <1>2, <1>3, <1>4

(***************************************************************************)
(* A step that leaves the coroutines of a port as they are, though it may  *)
(* move them in the list: o gives the place they had.                      *)
(***************************************************************************)
Moved(o, k) ==
  /\ o[k] \in 1 .. Len(co_list)
  /\ co_list'[k].port = co_list[o[k]].port /\ co_list'[k].pc = co_list[o[k]].pc
  /\ co_list'[k].word = co_list[o[k]].word /\ co_list'[k].last = co_list[o[k]].last
  /\ co_list[o[k]].pc # "lock" => (TickToCome(k)' <=> TickToCome(o[k]))

LEMMA SpAside ==
  ASSUME Typed, Typed', SpPort, NEW o,
         \A k \in 1 .. Len(co_list') : Sp(k)' => Moved(o, k),
         \A k, m \in 1 .. Len(co_list') : Sp(k)' /\ Sp(m)' /\ k < m => o[k] < o[m],
         \A k \in 1 .. Len(co_list) : Sp(k) =>
           \E m \in 1 .. Len(co_list') : Sp(m)' /\ o[m] = k,
         sp' = sp, sp_mutex' <=> sp_mutex, pl_to_ps' = pl_to_ps,
         NEW lo \in Int, NEW hi \in Int, Carried(lo, hi)
  PROVE  SpPort' /\ Carried(lo, hi)'
<1>1. \A k, m \in 1 .. Len(co_list') : Sp(k)' /\ Sp(m)' /\ k < m => Waits(m)'
  <2> SUFFICES ASSUME NEW k \in 1 .. Len(co_list'), NEW m \in 1 .. Len(co_list'),
                      Sp(k)', Sp(m)', k < m
               PROVE  Waits(m)'
    OBVIOUS
  <2>1. o[k] < o[m] /\ Moved(o, k) /\ Moved(o, m)
    OBVIOUS
  <2>2. Sp(o[k]) /\ Sp(o[m])
    BY <2>1 DEF Moved, Sp
  <2>3. Waits(o[m])
    BY <2>1, <2>2 DEF SpPort, Moved
  <2> QED BY <2>1, <2>3 DEF Moved, Waits
<1>2. ASSUME NEW k \in 1 .. Len(co_list'), Sp(k)', ~Waits(k)'
      PROVE  SpOwner(co_list[k], TickToCome(k))'
  <2>1. Moved(o, k) /\ Sp(o[k]) /\ ~Waits(o[k])
    BY <1>2 DEF Moved, Sp, Waits
  <2>2. SpOwner(co_list[o[k]], TickToCome(o[k]))
    BY <2>1 DEF SpPort, Moved
  <2> QED BY <2>1, <2>2 DEF SpOwner, Moved, Waits, sp_tready
<1>3. \A k \in 1 .. Len(co_list') : Sp(k)' /\ co_list'[k].word = Txn - 1 =>
        co_list'[k].last
  <2> SUFFICES ASSUME NEW k \in 1 .. Len(co_list'), Sp(k)', co_list'[k].word = Txn - 1
               PROVE  co_list'[k].last
    OBVIOUS
  <2>1. Moved(o, k) /\ Sp(o[k])
    BY DEF Moved, Sp
  <2>2. co_list[o[k]].last
    BY <2>1 DEF SpPort, Moved
  <2> QED BY <2>1, <2>2, Zenon DEF Moved
<1>4. sp_mutex' => \E k \in 1 .. Len(co_list') : Sp(k)' /\ ~Waits(k)'
  <2> HAVE sp_mutex'
  <2>1. PICK k \in 1 .. Len(co_list) : Sp(k) /\ ~Waits(k)
    BY DEF SpPort
  <2>2. PICK m \in 1 .. Len(co_list') : Sp(m)' /\ o[m] = k
    BY <2>1
  <2> QED BY <2>1, <2>2 DEF Moved, Waits
<1>5. SpPort'
  BY <1>1, <1>2, <1>3, <1>4 DEF SpPort
<1>6. \A k \in 1 .. Len(co_list') : k \in Unsent' => o[k] \in Unsent
  BY DEF Unsent, Threads, Moved, Sp
<1>7. \A k \in 1 .. Len(co_list) : k \in Unsent =>
        \E m \in 1 .. Len(co_list') : m \in Unsent' /\ o[m] = k
  <2> SUFFICES ASSUME NEW k \in 1 .. Len(co_list), k \in Unsent
               PROVE  \E m \in 1 .. Len(co_list') : m \in Unsent' /\ o[m] = k
    OBVIOUS
  <2>1. PICK m \in 1 .. Len(co_list') : Sp(m)' /\ o[m] = k
    BY DEF Unsent, Threads, Sp
  <2>2. m \in Unsent'
    BY <2>1 DEF Unsent, Threads, Moved, Sp
  <2> QED BY <2>1, <2>2
<1>8. /\ Unsent \subseteq 1 .. Len(co_list) /\ Unsent' \subseteq 1 .. Len(co_list')
      /\ \A k \in Unsent' : Sp(k)' /\ co_list'[k].word = co_list[o[k]].word
  BY DEF Unsent, Threads, Moved, Sp
<1>9. Carried(lo, hi)'
  <2>1. \A k \in Unsent' : co_list'[k].word \in lo .. hi - 1
    BY <1>6, <1>8 DEF Carried
  <2>2. \A word \in lo .. hi - 1 : \E k \in Unsent' : co_list'[k].word = word
    <3> SUFFICES ASSUME NEW word \in lo .. hi - 1
                 PROVE  \E k \in Unsent' : co_list'[k].word = word
      OBVIOUS
    <3>1. PICK k \in Unsent : co_list[k].word = word
      BY DEF Carried
    <3>2. PICK m \in Unsent' : o[m] = k
      BY <1>7, <1>8, <3>1
    <3> QED BY <1>8, <3>1, <3>2
  <2>3. \A k, m \in Unsent' : k < m => co_list'[k].word < co_list'[m].word
    <3> SUFFICES ASSUME NEW k \in Unsent', NEW m \in Unsent', k < m
                 PROVE  co_list'[k].word < co_list'[m].word
      OBVIOUS
    <3>1. o[k] \in Unsent /\ o[m] \in Unsent /\ o[k] < o[m]
      BY <1>6, <1>8
    <3> QED BY <1>8, <3>1 DEF Carried
  <2> QED BY <2>1, <2>2, <2>3 DEF Carried
<1> QED BY <1>5, <1>9

LEMMA MpAside ==
  ASSUME Typed, Typed', MpPort, NEW o,
         \A k \in 1 .. Len(co_list') : Mp(k)' =>
           Moved(o, k) /\ (Looked(k)' => Looked(o[k])),
         \A k, m \in 1 .. Len(co_list') : Mp(k)' /\ Mp(m)' /\ k < m => o[k] < o[m],
         \A k \in 1 .. Len(co_list) : Mp(k) =>
           \E m \in 1 .. Len(co_list') : Mp(m)' /\ o[m] = k,
         mp_mutex' <=> mp_mutex, mp_tready' <=> mp_tready, ps_to_pl' = ps_to_pl
  PROVE  MpPort' /\ (Taking' <=> Taking)
<1>1. \A k, m \in 1 .. Len(co_list') : Mp(k)' /\ Mp(m)' => k = m
  <2> SUFFICES ASSUME NEW k \in 1 .. Len(co_list'), NEW m \in 1 .. Len(co_list'),
                      Mp(k)', Mp(m)', k < m
               PROVE  FALSE
    BY DEF Typed
  <2>1. o[k] < o[m] /\ o[k] = o[m] /\ o[k] \in 1 .. Len(co_list)
    BY DEF MpPort, Moved, Mp
  <2> QED BY <2>1
<1>2. ASSUME NEW k \in 1 .. Len(co_list'), Mp(k)'
      PROVE  MpAlone(co_list[k], TickToCome(k), Looked(k))'
  <2>1. Moved(o, k) /\ Mp(o[k]) /\ (Looked(k)' => Looked(o[k]))
    BY <1>2 DEF Moved, Mp
  <2>2. MpAlone(co_list[o[k]], TickToCome(o[k]), Looked(o[k]))
    BY <2>1 DEF MpPort, Moved
  <2> QED BY <2>1, <2>2 DEF MpAlone, Moved, mp_tvalid
<1>3. mp_mutex' \/ mp_tready' => \E k \in 1 .. Len(co_list') : Mp(k)'
  BY DEF MpPort
<1>4. Taking' => Taking
  <2> HAVE Taking'
  <2>1. PICK k \in 1 .. Len(co_list') :
          Mp(k)' /\ co_list'[k].pc = "taken" /\ TickToCome(k)'
    BY DEF Taking
  <2> QED BY <2>1 DEF Moved, Taking, Mp
<1>5. Taking => Taking'
  <2> HAVE Taking
  <2>1. PICK k \in 1 .. Len(co_list) :
          Mp(k) /\ co_list[k].pc = "taken" /\ TickToCome(k)
    BY DEF Taking
  <2>2. PICK m \in 1 .. Len(co_list') : Mp(m)' /\ o[m] = k
    BY <2>1
  <2>3. co_list'[m].pc = "taken" /\ TickToCome(m)'
    BY <2>1, <2>2 DEF Moved
  <2> QED BY <2>2, <2>3 DEF Taking
<1> QED BY <1>1, <1>2, <1>3, <1>4, <1>5 DEF MpPort

\* A step that moves no word.
LEMMA WordsKept ==
  ASSUME Words, Taking' <=> Taking, UNCHANGED <<device, logic>>,
         Written' = Written, Read' = Read,
         NEW lo \in Int, NEW hi \in Int, lo = rx_tcount, hi = Given,
         Carried(lo, hi)'
  PROVE  Words'
<1>1. /\ buffer' = buffer /\ ps_to_pl' = ps_to_pl /\ pl_to_ps' = pl_to_ps
      /\ tx_tcount' = tx_tcount /\ rx_tcount' = rx_tcount
  BY DEF device, logic
<1>2. (buffer_full' <=> buffer_full) /\ (tstatus_r' <=> tstatus_r)
  BY Zenon DEF device, logic
<1>3. Given' = Given
  BY <1>1 DEF Given, Collected
<1>4. FullMeansWhole'
  BY <1>1, <1>2 DEF Words, FullMeansWhole
<1>5. Carried(rx_tcount, Given)'
  BY <1>1, <1>3 DEF Carried
<1>6. Numbered(ps_to_pl, tx_tcount)' /\ Numbered(pl_to_ps, Read)' /\ Numbered(buffer, Given)'
  BY <1>1, <1>3 DEF Words, Numbered
<1> QED BY <1>1, <1>2, <1>3, <1>4, <1>5, <1>6 DEF Words

\* A step that leaves the PL, the buffer and the program as they are.
LEMMA WordsAside ==
  ASSUME Words, Taking' <=> Taking, UNCHANGED <<device, logic, stage, i>>,
         applied' <=> applied,
         NEW lo \in Int, NEW hi \in Int, lo = rx_tcount, hi = Given,
         Carried(lo, hi)'
  PROVE  Words'
<1>1. Written' = Written /\ Read' = Read
  BY DEF Written, Read
<1> QED BY <1>1, WordsKept

LEMMA ProgramAside ==
  ASSUME Program, UNCHANGED <<logic, program>>
  PROVE  Program'
<1>1. /\ ps_to_pl' = ps_to_pl /\ pl_to_ps' = pl_to_ps
      /\ stage' = stage /\ i' = i /\ wait' = wait /\ rdata' = rdata
  BY DEF logic, program
<1>2. (tinit' <=> tinit) /\ (applied' <=> applied)
  BY Zenon DEF logic, program
<1> QED BY <1>1, <1>2 DEF Program, Running

\* The bounds of the words that the coroutines carry.
LEMMA WordBounds ==
  ASSUME LoopInv
  PROVE  /\ rx_tcount \in Nat /\ Given \in Nat /\ Collected \in Nat
         /\ Written \in 0 .. Txn /\ Read \in 0 .. Txn
         /\ Collected <= Written /\ rx_tcount <= Given
<1>1. /\ rx_tcount \in Nat /\ tx_tcount \in Nat /\ i \in Nat /\ Txn \in Nat \ {0}
      /\ Len(buffer) \in Nat /\ Len(ps_to_pl) \in Nat
  BY LoopAssumption DEF LoopInv, Typed
<1>2. Written \in 0 .. Txn /\ Read \in 0 .. Txn
  BY <1>1 DEF Written, Read, LoopInv, Program, Running
<1>3. Taking => Len(ps_to_pl) >= 1
  <2> HAVE Taking
  <2>1. PICK k \in 1 .. Len(co_list) :
          Mp(k) /\ co_list[k].pc = "taken" /\ TickToCome(k)
    BY DEF Taking
  <2>2. mp_tvalid
    BY <2>1 DEF LoopInv, MpPort, MpAlone
  <2> QED BY <2>2 DEF mp_tvalid, LoopInv, Typed
<1>4. PICK t \in 0 .. 1 : t = (IF Taking THEN 1 ELSE 0) /\ Collected = tx_tcount + t
  BY DEF Collected
<1>5. t <= Len(ps_to_pl)
  BY <1>1, <1>3, <1>4
<1>6. tx_tcount = Written - Len(ps_to_pl) /\ rx_tcount <= Given
  BY DEF LoopInv, Words, Carried
<1>7. Collected \in Nat /\ Collected <= Written
  BY <1>1, <1>2, <1>4, <1>5, <1>6
<1>8. Given \in Nat
  <2>1. Given = Collected - Len(buffer)
    BY DEF Given
  <2> QED BY <1>1, <1>6, <1>7, <2>1
<1> QED BY <1>1, <1>2, <1>6, <1>7, <1>8

-----------------------------------------------------------------------------
(***************************************************************************)
(* The coroutines of sp0.                                                  *)
(***************************************************************************)
\* What a coroutine of sp0 that runs on leaves alone.
LEMMA SpYields ==
  ASSUME LoopInv, turn = "sweep", turn' = "sweep", pos <= Len(co_list), Sp(pos),
         NEW p \in Yields, Yield(p), sp' \in Beats \cup {NoBeat},
         UNCHANGED <<mp_mutex, mp_tready, device, logic, program>>
  PROVE  Typed' /\ MpPort' /\ (Taking' <=> Taking) /\ Program'
<1>1. Typed /\ MpPort /\ Program
  BY DEF LoopInv
<1>2. /\ pos \in 1 .. Len(co_list) /\ pos' = pos + 1
      /\ co_list' \in Seq(Thread) /\ Len(co_list') = Len(co_list)
      /\ \A k \in 1 .. Len(co_list) :
           /\ co_list'[k].port = co_list[k].port
           /\ co_list'[k].word = co_list[k].word
           /\ co_list'[k].last = co_list[k].last
           /\ co_list'[k].pc = IF k = pos THEN p ELSE co_list[k].pc
      /\ \A k \in 1 .. Len(co_list) :
           /\ (TickToCome(k)' <=> k <= pos) /\ (TickToCome(k) <=> k < pos)
           /\ (Looked(k)' <=> k <= pos) /\ (Looked(k) <=> k < pos)
  BY <1>1, YieldFacts
<1>3. Typed'
  <2>1. /\ buffer' = buffer /\ ps_to_pl' = ps_to_pl /\ pl_to_ps' = pl_to_ps
        /\ tx_tcount' = tx_tcount /\ rx_tcount' = rx_tcount
        /\ stage' = stage /\ i' = i /\ wait' = wait /\ rdata' = rdata
    BY DEF device, logic, program
  <2>2. pos' \in Nat \ {0}
    BY <1>2
  <2> QED BY <1>1, <1>2, <2>1, <2>2 DEF Typed
<1>4. PICK o : o = [k \in 1 .. Len(co_list) |-> k]
  OBVIOUS
<1>5. \A k \in 1 .. Len(co_list') : Mp(k)' => k # pos /\ Mp(k)
  BY <1>2 DEF Mp, Sp
<1>6. \A k \in 1 .. Len(co_list') : Mp(k)' => Moved(o, k) /\ (Looked(k)' => Looked(o[k]))
  <2> SUFFICES ASSUME NEW k \in 1 .. Len(co_list'), Mp(k)'
               PROVE  Moved(o, k) /\ (Looked(k)' => Looked(o[k]))
    OBVIOUS
  <2>1. o[k] = k /\ k # pos /\ k \in 1 .. Len(co_list) /\ (k <= pos => k < pos)
    BY <1>2, <1>4, <1>5
  <2> QED BY <1>2, <2>1 DEF Moved
<1>7. \A k, m \in 1 .. Len(co_list') : Mp(k)' /\ Mp(m)' /\ k < m => o[k] < o[m]
  BY <1>2, <1>4
<1>8. \A k \in 1 .. Len(co_list) : Mp(k) =>
        \E m \in 1 .. Len(co_list') : Mp(m)' /\ o[m] = k
  BY <1>2, <1>4 DEF Mp
<1>9. /\ (mp_mutex' <=> mp_mutex) /\ (mp_tready' <=> mp_tready)
  BY Zenon
<1>10. ps_to_pl' = ps_to_pl
  BY DEF logic
<1>11. MpPort' /\ (Taking' <=> Taking)
  BY <1>1, <1>3, <1>6, <1>7, <1>8, <1>9, <1>10, MpAside
<1>12. Program'
  BY <1>1, ProgramAside
<1> QED BY <1>3, <1>11, <1>12

(***************************************************************************)
(* The coroutine that has sp0, or takes it, runs on.                       *)
(***************************************************************************)
LEMMA SpOwnerRuns ==
  ASSUME LoopInv, turn = "sweep", turn' = "sweep", pos <= Len(co_list), Sp(pos),
         NEW p \in Yields, p # "lock", Yield(p),
         \A k \in 1 .. Len(co_list) : k < pos => ~Sp(k),
         sp_mutex',
         sp' = IF p = "unlock" THEN NoBeat ELSE [word |-> me.word, last |-> me.last],
         p = "taken" => sp_tready, p = "offer" => ~sp_tready,
         p = "unlock" <=> me.pc \notin {"lock", "offer"},
         UNCHANGED <<mp_mutex, mp_tready, device, logic, program>>
  PROVE  LoopInv'
<1>1. Typed /\ SpPort /\ Words
  BY DEF LoopInv
<1>2. /\ pos \in 1 .. Len(co_list) /\ pos' = pos + 1
      /\ co_list' \in Seq(Thread) /\ Len(co_list') = Len(co_list)
      /\ \A k \in 1 .. Len(co_list) :
           /\ co_list'[k].port = co_list[k].port
           /\ co_list'[k].word = co_list[k].word
           /\ co_list'[k].last = co_list[k].last
           /\ co_list'[k].pc = IF k = pos THEN p ELSE co_list[k].pc
      /\ \A k \in 1 .. Len(co_list) :
           /\ (TickToCome(k)' <=> k <= pos) /\ (TickToCome(k) <=> k < pos)
           /\ (Looked(k)' <=> k <= pos) /\ (Looked(k) <=> k < pos)
  BY <1>1, YieldFacts
<1>3. sp' \in Beats \cup {NoBeat}
  <2>1. me \in Thread
    BY <1>1, <1>2 DEF Typed, me
  <2> QED BY <2>1 DEF Thread, Beats
<1>4. Typed' /\ MpPort' /\ (Taking' <=> Taking) /\ Program'
  BY <1>3, SpYields
<1>5. \A k \in 1 .. Len(co_list) : Sp(k) /\ k # pos => Waits(k) /\ Waits(k)' /\ pos < k
  <2> SUFFICES ASSUME NEW k \in 1 .. Len(co_list), Sp(k), k # pos
               PROVE  Waits(k) /\ Waits(k)' /\ pos < k
    OBVIOUS
  <2>1. pos < k
    BY <1>2
  <2>2. Waits(k)
    BY <1>1, <1>2, <2>1 DEF SpPort
  <2> QED BY <1>2, <2>1, <2>2 DEF Waits
<1>6. \A k \in 1 .. Len(co_list) : Sp(k)' <=> Sp(k)
  BY <1>2 DEF Sp
<1>7. sp_tready' <=> sp_tready
  BY DEF sp_tready, logic
<1>8. PICK j \in 1 .. Len(co_list) : j = pos
  BY <1>2
<1>9. ~Waits(j)' /\ TickToCome(j)' /\ Sp(j)'
  <2>1. co_list'[j].pc = p /\ co_list'[j].port = co_list[j].port /\ TickToCome(j)'
    BY <1>2, <1>8
  <2> QED BY <1>8, <2>1 DEF Waits, Sp
<1>10. SpOwner(co_list[j], TickToCome(j))'
  <2>1. /\ co_list'[j].pc = p /\ co_list'[j].word = me.word /\ co_list'[j].last = me.last
        /\ TickToCome(j)'
    BY <1>2, <1>8 DEF me
  <2> QED BY <1>7, <2>1 DEF SpOwner
<1>11. SpPort'
  <2>1. \A k, m \in 1 .. Len(co_list') : Sp(k)' /\ Sp(m)' /\ k < m => Waits(m)'
    BY <1>2, <1>5, <1>6
  <2>2. \A k \in 1 .. Len(co_list') : Sp(k)' /\ ~Waits(k)' => k = j
    BY <1>2, <1>5, <1>6, <1>8
  <2>3. \A k \in 1 .. Len(co_list') : Sp(k)' /\ ~Waits(k)' =>
          SpOwner(co_list[k], TickToCome(k))'
    BY <1>10, <2>2
  <2>4. \A k \in 1 .. Len(co_list') : Sp(k)' /\ co_list'[k].word = Txn - 1 =>
          co_list'[k].last
    <3> SUFFICES ASSUME NEW k \in 1 .. Len(co_list'), Sp(k)', co_list'[k].word = Txn - 1
                 PROVE  co_list'[k].last
      OBVIOUS
    <3>1. co_list[k].last /\ co_list'[k].last = co_list[k].last
      BY <1>1, <1>2, <1>6 DEF SpPort
    <3> QED BY <3>1, Zenon
  <2>5. \E k \in 1 .. Len(co_list') : Sp(k)' /\ ~Waits(k)'
    BY <1>2, <1>9
  <2> QED BY <2>1, <2>3, <2>4, <2>5 DEF SpPort
<1>12. SpLine'
  BY DEF SpLine
<1>13. Unsent' = Unsent
  <2>1. \A k \in 1 .. Len(co_list) : k # j => (k \in Unsent' <=> k \in Unsent)
    BY <1>2, <1>5, <1>6, <1>8 DEF Unsent, Threads, Waits, Sp
  <2>2. j \in Unsent' <=> p # "unlock"
    <3>1. co_list'[j].pc = p /\ co_list'[j].port = "sp" /\ TickToCome(j)'
      BY <1>2, <1>8, <1>9 DEF Sp
    <3> QED BY <1>2, <3>1 DEF Unsent, Threads, Yields
  <2>3. j \in Unsent <=> p # "unlock"
    <3>1. co_list[j].pc = me.pc /\ co_list[j].port = "sp" /\ ~TickToCome(j)
      BY <1>2, <1>8 DEF Sp, me
    <3> QED BY <3>1 DEF Unsent, Threads
  <2> QED BY <1>2, <2>1, <2>2, <2>3 DEF Unsent, Threads
<1>14. PICK lo \in Int, hi \in Int : lo = rx_tcount /\ hi = Given /\ Carried(lo, hi)
  BY <1>1, WordBounds DEF Words
<1>15. Carried(lo, hi)'
  <2>1. \A k \in Unsent : k \in 1 .. Len(co_list) /\ co_list'[k].word = co_list[k].word
    BY <1>2 DEF Unsent, Threads
  <2>2. \A k \in Unsent' : co_list'[k].word \in lo .. hi - 1
    BY <1>13, <1>14, <2>1 DEF Carried
  <2>3. \A word \in lo .. hi - 1 : \E k \in Unsent' : co_list'[k].word = word
    BY <1>13, <1>14, <2>1 DEF Carried
  <2>4. \A k, m \in Unsent' : k < m => co_list'[k].word < co_list'[m].word
    BY <1>13, <1>14, <2>1 DEF Carried
  <2>5. lo <= hi
    BY <1>14 DEF Carried
  <2> QED BY <2>2, <2>3, <2>4, <2>5 DEF Carried
<1>16. UNCHANGED <<device, logic, stage, i>> /\ (applied' <=> applied)
  BY Zenon DEF program
<1>17. Words'
  BY <1>1, <1>4, <1>14, <1>15, <1>16, WordsAside
<1> QED BY <1>4, <1>11, <1>12, <1>17 DEF LoopInv

\* A coroutine that is not at the lock is the first of sp0 in the list.
LEMMA SpFirst ==
  ASSUME LoopInv, pos \in 1 .. Len(co_list), Sp(pos), me.pc # "lock"
  PROVE  \A k \in 1 .. Len(co_list) : k < pos => ~Sp(k)
<1>1. ~Waits(pos)
  BY DEF Waits, me
<1> QED BY <1>1 DEF LoopInv, SpPort

LEMMA SpResumed ==
  ASSUME LoopInv, NEW pc \in Yields, Resume("sp", pc)
  PROVE  /\ turn = "sweep" /\ turn' = "sweep" /\ pos <= Len(co_list)
         /\ pos \in 1 .. Len(co_list)
         /\ Sp(pos) /\ me.pc = pc
         /\ UNCHANGED <<logic, program>>
BY DEF LoopInv, Typed, Resume, Resumed, Sp, me

LEMMA SpOwnerFacts ==
  ASSUME LoopInv, turn = "sweep", pos \in 1 .. Len(co_list), Sp(pos), me.pc # "lock"
  PROVE  /\ sp_mutex
         /\ me.pc # "unlock" => sp = [word |-> me.word, last |-> me.last]
         /\ me.pc = "unlock" => sp = NoBeat
<1>1. SpOwner(co_list[pos], TickToCome(pos))
  BY DEF LoopInv, SpPort, Waits, me
<1> QED BY <1>1 DEF SpOwner, me

LEMMA LoopSpOffer == LoopInv /\ SpOffer => LoopInv'
<1> SUFFICES ASSUME LoopInv, SpOffer
             PROVE  LoopInv'
  OBVIOUS
<1>1. /\ turn = "sweep" /\ turn' = "sweep" /\ pos <= Len(co_list)
      /\ pos \in 1 .. Len(co_list) /\ Sp(pos) /\ me.pc = "offer"
      /\ UNCHANGED <<logic, program>>
  BY SpResumed DEF SpOffer, Yields
<1>2. \A k \in 1 .. Len(co_list) : k < pos => ~Sp(k)
  BY <1>1, SpFirst
<1>3. sp_mutex /\ sp = [word |-> me.word, last |-> me.last]
  BY <1>1, SpOwnerFacts
<1>4. PICK p \in Yields : p = IF sp_tready THEN "taken" ELSE "offer"
  BY DEF Yields
<1>5. Yield(p)
  BY <1>4 DEF SpOffer, SpLook
<1>6. UNCHANGED <<mp_mutex, mp_tready, device, logic, program>>
  <2>1. UNCHANGED <<mp_mutex, mp_tready, device>>
    BY Zenon DEF SpOffer, ports
  <2> QED BY <1>1, <2>1, Zenon
<1>7. sp_mutex' /\ sp' = sp
  <2>1. sp_mutex' = sp_mutex /\ sp' = sp
    BY Zenon DEF SpOffer, ports
  <2> QED BY <1>3, <2>1, Zenon
<1>8. /\ p # "lock" /\ (p = "taken" => sp_tready) /\ (p = "offer" => ~sp_tready)
      /\ p # "unlock"
  BY <1>4
<1>9. sp' = IF p = "unlock" THEN NoBeat ELSE [word |-> me.word, last |-> me.last]
  BY <1>3, <1>7, <1>8
<1>10. p = "unlock" <=> me.pc \notin {"lock", "offer"}
  BY <1>1, <1>8
<1>11. sp_mutex'
  BY <1>7
<1> QED BY <1>1, <1>2, <1>5, <1>6, <1>8, <1>9, <1>10, <1>11, SpOwnerRuns

LEMMA LoopSpTaken == LoopInv /\ SpTaken => LoopInv'
<1> SUFFICES ASSUME LoopInv, SpTaken
             PROVE  LoopInv'
  OBVIOUS
<1>1. /\ turn = "sweep" /\ turn' = "sweep" /\ pos <= Len(co_list)
      /\ pos \in 1 .. Len(co_list) /\ Sp(pos) /\ me.pc = "taken"
      /\ UNCHANGED <<logic, program>>
  BY SpResumed DEF SpTaken, Yields
<1>2. \A k \in 1 .. Len(co_list) : k < pos => ~Sp(k)
  BY <1>1, SpFirst
<1>3. sp_mutex
  BY <1>1, SpOwnerFacts
<1>4. PICK p \in Yields : p = "unlock"
  BY DEF Yields
<1>5. Yield(p)
  BY <1>4 DEF SpTaken
<1>6. UNCHANGED <<mp_mutex, mp_tready, device, logic, program>>
  BY <1>1, Zenon DEF SpTaken
<1>7. sp_mutex'
  <2>1. sp_mutex' = sp_mutex
    BY Zenon DEF SpTaken
  <2> QED BY <1>3, <2>1, Zenon
<1>8. /\ p # "lock" /\ (p = "taken" => sp_tready) /\ (p = "offer" => ~sp_tready)
  BY <1>4
<1>9. sp' = IF p = "unlock" THEN NoBeat ELSE [word |-> me.word, last |-> me.last]
  BY <1>4 DEF SpTaken
<1>10. p = "unlock" <=> me.pc \notin {"lock", "offer"}
  BY <1>1, <1>4
<1> QED BY <1>1, <1>2, <1>5, <1>6, <1>7, <1>8, <1>9, <1>10, SpOwnerRuns

LEMMA LoopSpTakes ==
  ASSUME LoopInv, Resume("sp", "lock"), ~sp_mutex, sp_mutex',
         sp' = [word |-> me.word, last |-> me.last], SpLook,
         UNCHANGED <<mp_mutex, mp_tready, device>>
  PROVE  LoopInv'
<1>1. /\ turn = "sweep" /\ turn' = "sweep" /\ pos <= Len(co_list)
      /\ pos \in 1 .. Len(co_list) /\ Sp(pos) /\ me.pc = "lock"
      /\ UNCHANGED <<logic, program>>
  BY SpResumed DEF Yields
<1>2. \A k \in 1 .. Len(co_list) : k < pos => ~Sp(k)
  BY <1>1 DEF LoopInv, SpLine
<1>4. PICK p \in Yields : p = IF sp_tready THEN "taken" ELSE "offer"
  BY DEF Yields
<1>5. Yield(p)
  BY <1>4 DEF SpLook
<1>6. UNCHANGED <<mp_mutex, mp_tready, device, logic, program>>
  BY <1>1, Zenon
<1>8. /\ p # "lock" /\ (p = "taken" => sp_tready) /\ (p = "offer" => ~sp_tready)
      /\ p # "unlock"
  BY <1>4
<1>9. sp' = IF p = "unlock" THEN NoBeat ELSE [word |-> me.word, last |-> me.last]
  BY <1>8
<1>10. p = "unlock" <=> me.pc \notin {"lock", "offer"}
  BY <1>1, <1>8
<1> QED BY <1>1, <1>2, <1>5, <1>6, <1>8, <1>9, <1>10, SpOwnerRuns

LEMMA LoopSpWaits ==
  ASSUME LoopInv, Resume("sp", "lock"), sp_mutex, Yield("lock"),
         UNCHANGED <<ports, device>>
  PROVE  LoopInv'
<1>1. /\ turn = "sweep" /\ turn' = "sweep" /\ pos <= Len(co_list)
      /\ pos \in 1 .. Len(co_list) /\ Sp(pos) /\ me.pc = "lock"
      /\ UNCHANGED <<logic, program>>
  BY SpResumed DEF Yields
<1>2. Typed /\ SpPort /\ Words
  BY DEF LoopInv
<1>3. PICK p \in Yields : p = "lock"
  BY DEF Yields
<1>4. /\ pos \in 1 .. Len(co_list) /\ pos' = pos + 1
      /\ co_list' \in Seq(Thread) /\ Len(co_list') = Len(co_list)
      /\ \A k \in 1 .. Len(co_list) :
           /\ co_list'[k].port = co_list[k].port
           /\ co_list'[k].word = co_list[k].word
           /\ co_list'[k].last = co_list[k].last
           /\ co_list'[k].pc = IF k = pos THEN p ELSE co_list[k].pc
      /\ \A k \in 1 .. Len(co_list) :
           /\ (TickToCome(k)' <=> k <= pos) /\ (TickToCome(k) <=> k < pos)
           /\ (Looked(k)' <=> k <= pos) /\ (Looked(k) <=> k < pos)
  BY <1>1, <1>2, <1>3, YieldFacts
<1>5. sp' = sp /\ (sp_mutex' <=> sp_mutex) /\ pl_to_ps' = pl_to_ps
  BY <1>1, Zenon DEF ports, logic
<1>6. Typed' /\ MpPort' /\ (Taking' <=> Taking) /\ Program'
  <2>1. sp' \in Beats \cup {NoBeat}
    BY <1>2, <1>5 DEF Typed
  <2>2. UNCHANGED <<mp_mutex, mp_tready, device, logic, program>>
    BY <1>1, Zenon DEF ports
  <2>3. Yield(p)
    BY <1>3
  <2> QED BY <1>1, <2>1, <2>2, <2>3, SpYields
<1>7. PICK lo \in Int, hi \in Int : lo = rx_tcount /\ hi = Given /\ Carried(lo, hi)
  BY <1>2, WordBounds DEF Words
<1>8. PICK o : o = [k \in 1 .. Len(co_list) |-> k]
  OBVIOUS
<1>9. \A k \in 1 .. Len(co_list') : Sp(k)' => Moved(o, k)
  <2> SUFFICES ASSUME NEW k \in 1 .. Len(co_list'), Sp(k)'
               PROVE  Moved(o, k)
    OBVIOUS
  <2>1. o[k] = k /\ k \in 1 .. Len(co_list)
    BY <1>4, <1>8
  <2>2. co_list'[k].pc = co_list[k].pc
    BY <1>1, <1>3, <1>4, <2>1 DEF me
  <2>3. co_list[k].pc # "lock" => (k <= pos <=> k < pos)
    BY <1>1, <2>1 DEF me
  <2> QED BY <1>4, <2>1, <2>2, <2>3 DEF Moved
<1>10. \A k, m \in 1 .. Len(co_list') : Sp(k)' /\ Sp(m)' /\ k < m => o[k] < o[m]
  BY <1>4, <1>8
<1>11. \A k \in 1 .. Len(co_list) : Sp(k) =>
         \E m \in 1 .. Len(co_list') : Sp(m)' /\ o[m] = k
  BY <1>4, <1>8 DEF Sp
<1>12. SpPort' /\ Carried(lo, hi)'
  BY <1>2, <1>5, <1>6, <1>7, <1>9, <1>10, <1>11, SpAside
<1>13. SpLine'
  BY <1>1, <1>5 DEF SpLine
<1>14. UNCHANGED <<device, logic, stage, i>> /\ (applied' <=> applied)
  BY <1>1, Zenon DEF program
<1>15. Words'
  BY <1>2, <1>6, <1>7, <1>12, <1>14, WordsAside
<1> QED BY <1>6, <1>12, <1>13, <1>15 DEF LoopInv

LEMMA LoopSpLock == LoopInv /\ SpLock => LoopInv'
<1> SUFFICES ASSUME LoopInv, SpLock
             PROVE  LoopInv'
  OBVIOUS
<1>1. Resume("sp", "lock")
  BY DEF SpLock
<1>2. CASE sp_mutex /\ Yield("lock") /\ UNCHANGED ports
  <2>1. UNCHANGED <<ports, device>>
    BY <1>2, Zenon DEF SpLock
  <2> QED BY <1>1, <1>2, <2>1, LoopSpWaits
<1>3. CASE /\ ~sp_mutex /\ sp_mutex' = TRUE
           /\ sp' = [word |-> me.word, last |-> me.last]
           /\ SpLook
           /\ UNCHANGED <<mp_mutex, mp_tready>>
  <2>1. UNCHANGED <<mp_mutex, mp_tready, device>> /\ sp_mutex'
    BY <1>3, Zenon DEF SpLock
  <2> QED BY <1>1, <1>3, <2>1, LoopSpTakes
<1> QED BY <1>2, <1>3, Zenon DEF SpLock

-----------------------------------------------------------------------------
(***************************************************************************)
(* The coroutines that end.                                                *)
(***************************************************************************)
\* Where those that stay had been.
LEMMA FinishMoves ==
  ASSUME Typed, turn = "sweep", turn' = "sweep", pos <= Len(co_list), Finish, NEW o,
         o = [k \in 1 .. Len(co_list) - 1 |-> IF k < pos THEN k ELSE k + 1]
  PROVE  /\ \A k \in 1 .. Len(co_list') :
              /\ Moved(o, k) /\ o[k] # pos
              /\ Looked(k)' <=> Looked(o[k])
              /\ k < pos => o[k] = k
              /\ k >= pos => o[k] > pos
         /\ \A k, m \in 1 .. Len(co_list') : k < m => o[k] < o[m]
         /\ \A k \in 1 .. Len(co_list) : k # pos =>
              \E m \in 1 .. Len(co_list') : o[m] = k
<1>1. /\ pos \in 1 .. Len(co_list) /\ pos' = pos
      /\ co_list' \in Seq(Thread) /\ Len(co_list') = Len(co_list) - 1
      /\ \A k \in 1 .. Len(co_list) - 1 :
           /\ k < pos => /\ co_list'[k] = co_list[k]
                         /\ TickToCome(k)' /\ TickToCome(k)
                         /\ Looked(k)' /\ Looked(k)
           /\ k >= pos => /\ k + 1 \in 1 .. Len(co_list)
                          /\ co_list'[k] = co_list[k + 1]
                          /\ ~TickToCome(k)' /\ ~TickToCome(k + 1)
                          /\ ~Looked(k)' /\ ~Looked(k + 1)
  BY FinishFacts
<1>2. Len(co_list) \in Nat /\ pos \in Nat
  BY <1>1, LenProperties DEF Typed
<1>3. ASSUME NEW k \in 1 .. Len(co_list')
      PROVE  /\ Moved(o, k) /\ o[k] # pos
             /\ Looked(k)' <=> Looked(o[k])
             /\ k < pos => o[k] = k
             /\ k >= pos => o[k] > pos
  <2>1. CASE k < pos
    <3>1. o[k] = k /\ k \in 1 .. Len(co_list) - 1 /\ k \in 1 .. Len(co_list) /\ k # pos
          /\ ~(k >= pos)
      BY <1>1, <1>2, <2>1
    <3> QED BY <1>1, <2>1, <3>1 DEF Moved
  <2>2. CASE k >= pos
    <3>1. o[k] = k + 1 /\ k \in 1 .. Len(co_list) - 1 /\ k + 1 > pos /\ k + 1 # pos
          /\ ~(k < pos)
      BY <1>1, <1>2, <2>2
    <3> QED BY <1>1, <2>2, <3>1 DEF Moved
  <2> QED BY <1>1, <1>2, <2>1, <2>2
<1>4. ASSUME NEW k \in 1 .. Len(co_list'), NEW m \in 1 .. Len(co_list'), k < m
      PROVE  o[k] < o[m]
  BY <1>1, <1>2, <1>4
<1>5. ASSUME NEW k \in 1 .. Len(co_list), k # pos
      PROVE  \E m \in 1 .. Len(co_list') : o[m] = k
  <2>1. CASE k < pos
    <3>1. k \in 1 .. Len(co_list') /\ o[k] = k
      BY <1>1, <1>2, <2>1
    <3> QED BY <3>1
  <2>2. CASE k > pos
    <3>1. PICK m \in 1 .. Len(co_list) - 1 : m = k - 1 /\ ~(m < pos) /\ m + 1 = k
      BY <1>1, <1>2, <2>2
    <3>2. o[m] = k
      BY <3>1
    <3> QED BY <1>1, <3>2
  <2>3. k < pos \/ k > pos
    BY <1>1, <1>2, <1>5
  <2> QED BY <2>1, <2>2, <2>3
<1> QED BY <1>3, <1>4, <1>5

LEMMA LoopSpUnlock == LoopInv /\ SpUnlock => LoopInv'
<1> SUFFICES ASSUME LoopInv, SpUnlock
             PROVE  LoopInv'
  OBVIOUS
<1>1. /\ turn = "sweep" /\ turn' = "sweep" /\ pos <= Len(co_list)
      /\ pos \in 1 .. Len(co_list) /\ Sp(pos) /\ me.pc = "unlock"
      /\ UNCHANGED <<logic, program>>
  BY SpResumed DEF SpUnlock, Yields
<1>2. Typed /\ SpPort /\ MpPort /\ Words /\ Program /\ Finish
  BY DEF LoopInv, SpUnlock
<1>3. sp' = sp /\ sp = NoBeat
  BY <1>1, SpOwnerFacts DEF SpUnlock
<1>4. ~sp_mutex' /\ UNCHANGED <<mp_mutex, mp_tready, device>>
  BY Zenon DEF SpUnlock
<1>5. PICK o : o = [k \in 1 .. Len(co_list) - 1 |-> IF k < pos THEN k ELSE k + 1]
  OBVIOUS
<1>6. /\ \A k \in 1 .. Len(co_list') :
           /\ Moved(o, k) /\ o[k] # pos
           /\ Looked(k)' <=> Looked(o[k])
           /\ k < pos => o[k] = k
           /\ k >= pos => o[k] > pos
      /\ \A k, m \in 1 .. Len(co_list') : k < m => o[k] < o[m]
      /\ \A k \in 1 .. Len(co_list) : k # pos =>
           \E m \in 1 .. Len(co_list') : o[m] = k
  BY <1>1, <1>2, <1>5, FinishMoves
<1>7. Typed'
  <2>1. /\ buffer' = buffer /\ ps_to_pl' = ps_to_pl /\ pl_to_ps' = pl_to_ps
        /\ tx_tcount' = tx_tcount /\ rx_tcount' = rx_tcount
        /\ stage' = stage /\ i' = i /\ wait' = wait /\ rdata' = rdata
    BY <1>1, <1>4 DEF device, logic, program
  <2>2. pos' = pos /\ co_list' \in Seq(Thread)
    BY <1>1, <1>2, FinishFacts
  <2> QED BY <1>1, <1>2, <1>3, <2>1, <2>2 DEF Typed
<1>8. MpPort' /\ (Taking' <=> Taking)
  <2>1. /\ \A k \in 1 .. Len(co_list') : Mp(k)' =>
             Moved(o, k) /\ (Looked(k)' => Looked(o[k]))
        /\ \A k, m \in 1 .. Len(co_list') : Mp(k)' /\ Mp(m)' /\ k < m => o[k] < o[m]
    BY <1>6
  <2>2. \A k \in 1 .. Len(co_list) : Mp(k) =>
          \E m \in 1 .. Len(co_list') : Mp(m)' /\ o[m] = k
    <3> SUFFICES ASSUME NEW k \in 1 .. Len(co_list), Mp(k)
                 PROVE  \E m \in 1 .. Len(co_list') : Mp(m)' /\ o[m] = k
      OBVIOUS
    <3>1. k # pos
      BY <1>1 DEF Mp, Sp
    <3>2. PICK m \in 1 .. Len(co_list') : o[m] = k /\ Moved(o, m)
      BY <1>6, <3>1
    <3>3. Mp(m)'
      BY <3>2 DEF Moved, Mp
    <3> QED BY <3>2, <3>3
  <2>3. (mp_mutex' <=> mp_mutex) /\ (mp_tready' <=> mp_tready)
    BY <1>4, Zenon
  <2>4. ps_to_pl' = ps_to_pl
    BY <1>1 DEF logic
  <2> QED BY <1>2, <1>7, <2>1, <2>2, <2>3, <2>4, MpAside
<1>9. \A k \in 1 .. Len(co_list) : k < pos => ~Sp(k)
  BY <1>1, SpFirst
<1>10. \A k \in 1 .. Len(co_list') : Sp(k)' => Waits(k)' /\ ~(k < pos)
  <2> SUFFICES ASSUME NEW k \in 1 .. Len(co_list'), Sp(k)'
               PROVE  Waits(k)' /\ ~(k < pos)
    OBVIOUS
  <2>1. o[k] \in 1 .. Len(co_list) /\ o[k] # pos /\ Sp(o[k])
    BY <1>6 DEF Moved, Sp
  <2>2. ~(k < pos) /\ o[k] > pos
    BY <1>1, <1>6, <1>9, <2>1
  <2>3. Waits(o[k])
    BY <1>1, <1>2, <2>1, <2>2 DEF SpPort
  <2> QED BY <1>6, <2>2, <2>3 DEF Moved, Waits
<1>11. SpPort'
  <2>1. \A k \in 1 .. Len(co_list') : Sp(k)' /\ co_list'[k].word = Txn - 1 =>
          co_list'[k].last
    <3> SUFFICES ASSUME NEW k \in 1 .. Len(co_list'), Sp(k)', co_list'[k].word = Txn - 1
                 PROVE  co_list'[k].last
      OBVIOUS
    <3>1. Moved(o, k) /\ Sp(o[k])
      BY <1>6 DEF Moved, Sp
    <3>2. co_list[o[k]].last
      BY <1>2, <3>1 DEF SpPort, Moved
    <3> QED BY <3>1, <3>2, Zenon DEF Moved
  <2> QED BY <1>3, <1>4, <1>10, <2>1 DEF SpPort
<1>12. SpLine'
  BY <1>1, <1>2, <1>10 DEF SpLine, Finish
<1>13. PICK lo \in Int, hi \in Int : lo = rx_tcount /\ hi = Given /\ Carried(lo, hi)
  BY <1>2, WordBounds DEF Words
<1>14. /\ \A k \in Unsent' : o[k] \in Unsent /\ co_list'[k].word = co_list[o[k]].word
       /\ \A k \in Unsent : \E m \in Unsent' : o[m] = k
  <2>1. \A k \in 1 .. Len(co_list') : k \in Unsent' <=> Sp(k)'
    BY <1>10 DEF Unsent, Threads, Sp, Waits
  <2>2. \A k \in 1 .. Len(co_list) : k \in Unsent <=> Sp(k) /\ k # pos
    <3> SUFFICES ASSUME NEW k \in 1 .. Len(co_list)
                 PROVE  k \in Unsent <=> Sp(k) /\ k # pos
      OBVIOUS
    <3>1. Sp(k) /\ k # pos => Waits(k)
      BY <1>1, <1>2, <1>9 DEF SpPort
    <3> QED BY <1>1, <3>1 DEF Unsent, Threads, Sp, Waits, me
  <2>3. Unsent \subseteq 1 .. Len(co_list) /\ Unsent' \subseteq 1 .. Len(co_list')
    BY DEF Unsent, Threads
  <2>4. \A k \in 1 .. Len(co_list') : Sp(k)' <=> Sp(o[k])
    BY <1>6 DEF Moved, Sp
  <2> QED BY <1>6, <2>1, <2>2, <2>3, <2>4 DEF Moved
<1>15. Carried(lo, hi)'
  <2>0. Unsent' \subseteq 1 .. Len(co_list')
    BY DEF Unsent, Threads
  <2>1. \A k \in Unsent' : co_list'[k].word \in lo .. hi - 1
    BY <1>13, <1>14 DEF Carried
  <2>2. \A word \in lo .. hi - 1 : \E k \in Unsent' : co_list'[k].word = word
    <3> SUFFICES ASSUME NEW word \in lo .. hi - 1
                 PROVE  \E k \in Unsent' : co_list'[k].word = word
      OBVIOUS
    <3>1. PICK k \in Unsent : co_list[k].word = word
      BY <1>13 DEF Carried
    <3> QED BY <1>14, <3>1
  <2>3. \A k, m \in Unsent' : k < m => co_list'[k].word < co_list'[m].word
    <3> SUFFICES ASSUME NEW k \in Unsent', NEW m \in Unsent', k < m
                 PROVE  co_list'[k].word < co_list'[m].word
      OBVIOUS
    <3>1. o[k] \in Unsent /\ o[m] \in Unsent /\ o[k] < o[m]
      BY <1>6, <1>14, <2>0
    <3> QED BY <1>13, <1>14, <3>1 DEF Carried
  <2> QED BY <1>13, <2>1, <2>2, <2>3 DEF Carried
<1>16. UNCHANGED <<device, logic, stage, i>> /\ (applied' <=> applied)
  BY <1>1, <1>4, Zenon DEF program
<1>17. Words'
  BY <1>2, <1>8, <1>13, <1>15, <1>16, WordsAside
<1>18. Program'
  BY <1>1, <1>2, ProgramAside
<1> QED BY <1>7, <1>8, <1>11, <1>12, <1>17, <1>18 DEF LoopInv

-----------------------------------------------------------------------------
(***************************************************************************)
(* The coroutine of mp0.                                                   *)
(***************************************************************************)
LEMMA MpResumed ==
  ASSUME LoopInv, NEW pc \in Yields, Resume("mp", pc)
  PROVE  /\ turn = "sweep" /\ turn' = "sweep" /\ pos <= Len(co_list)
         /\ pos \in 1 .. Len(co_list)
         /\ Mp(pos) /\ me.pc = pc
         /\ UNCHANGED <<logic, program>>
         /\ \A k \in 1 .. Len(co_list) : Mp(k) => k = pos
         /\ pc # "offer"
         /\ mp_mutex <=> pc # "lock"
         /\ mp_tready <=> pc = "taken"
         /\ pc = "lock" => mp_tvalid
         /\ ~Taking
<1>1. /\ turn = "sweep" /\ turn' = "sweep" /\ pos <= Len(co_list)
      /\ pos \in 1 .. Len(co_list)
      /\ Mp(pos) /\ me.pc = pc
      /\ UNCHANGED <<logic, program>>
  BY DEF LoopInv, Typed, Resume, Resumed, Mp, me
<1>2. \A k \in 1 .. Len(co_list) : Mp(k) => k = pos
  BY <1>1 DEF LoopInv, MpPort
<1>3. MpAlone(co_list[pos], TickToCome(pos), Looked(pos))
  BY <1>1 DEF LoopInv, MpPort
<1>4. /\ pc # "offer"
      /\ mp_mutex <=> pc # "lock"
      /\ mp_tready <=> pc = "taken"
      /\ pc = "lock" => mp_tvalid
  BY <1>1, <1>3 DEF MpAlone, me
<1>5. ~Taking
  BY <1>1, <1>2 DEF Taking, TickToCome
<1> QED BY <1>1, <1>2, <1>4, <1>5

\* What the coroutine of mp0 leaves alone when it runs on.
LEMMA MpYields ==
  ASSUME LoopInv, turn = "sweep", turn' = "sweep", pos <= Len(co_list), Mp(pos),
         NEW p \in Yields, Yield(p), buffer' \in Seq(Data),
         UNCHANGED <<sp_mutex, sp, logic, program>>,
         NEW lo \in Int, NEW hi \in Int, Carried(lo, hi)
  PROVE  Typed' /\ SpPort' /\ SpLine' /\ Carried(lo, hi)' /\ Program'
<1>1. Typed /\ SpPort /\ SpLine /\ Program
  BY DEF LoopInv
<1>2. /\ pos \in 1 .. Len(co_list) /\ pos' = pos + 1
      /\ co_list' \in Seq(Thread) /\ Len(co_list') = Len(co_list)
      /\ \A k \in 1 .. Len(co_list) :
           /\ co_list'[k].port = co_list[k].port
           /\ co_list'[k].word = co_list[k].word
           /\ co_list'[k].last = co_list[k].last
           /\ co_list'[k].pc = IF k = pos THEN p ELSE co_list[k].pc
      /\ \A k \in 1 .. Len(co_list) :
           /\ (TickToCome(k)' <=> k <= pos) /\ (TickToCome(k) <=> k < pos)
           /\ (Looked(k)' <=> k <= pos) /\ (Looked(k) <=> k < pos)
  BY <1>1, YieldFacts
<1>3. Typed'
  <2>1. /\ ps_to_pl' = ps_to_pl /\ pl_to_ps' = pl_to_ps /\ sp' = sp
        /\ tx_tcount' = tx_tcount /\ rx_tcount' = rx_tcount
        /\ stage' = stage /\ i' = i /\ wait' = wait /\ rdata' = rdata
    BY DEF logic, program
  <2>2. pos' \in Nat \ {0}
    BY <1>2
  <2> QED BY <1>1, <1>2, <2>1, <2>2 DEF Typed
<1>4. PICK o : o = [k \in 1 .. Len(co_list) |-> k]
  OBVIOUS
<1>5. \A k \in 1 .. Len(co_list') : Sp(k)' => k # pos /\ Sp(k)
  BY <1>2 DEF Mp, Sp
<1>6. \A k \in 1 .. Len(co_list') : Sp(k)' => Moved(o, k)
  <2> SUFFICES ASSUME NEW k \in 1 .. Len(co_list'), Sp(k)'
               PROVE  Moved(o, k)
    OBVIOUS
  <2>1. o[k] = k /\ k # pos /\ k \in 1 .. Len(co_list) /\ (k <= pos <=> k < pos)
    BY <1>2, <1>4, <1>5
  <2> QED BY <1>2, <2>1 DEF Moved
<1>7. \A k, m \in 1 .. Len(co_list') : Sp(k)' /\ Sp(m)' /\ k < m => o[k] < o[m]
  BY <1>2, <1>4
<1>8. \A k \in 1 .. Len(co_list) : Sp(k) =>
        \E m \in 1 .. Len(co_list') : Sp(m)' /\ o[m] = k
  BY <1>2, <1>4 DEF Sp
<1>9. sp_mutex' <=> sp_mutex
  BY Zenon
<1>10. pl_to_ps' = pl_to_ps /\ sp' = sp
  BY DEF logic
<1>11. SpPort' /\ Carried(lo, hi)'
  BY <1>1, <1>3, <1>6, <1>7, <1>8, <1>9, <1>10, SpAside
<1>12. Program'
  BY <1>1, ProgramAside
<1>13. SpLine'
  <2> SUFFICES ASSUME NEW k \in 1 .. Len(co_list'), k < pos', Sp(k)'
               PROVE  sp_mutex'
    BY DEF SpLine
  <2>1. k < pos /\ Sp(k) /\ k \in 1 .. Len(co_list)
    BY <1>2, <1>5
  <2>2. sp_mutex
    BY <1>1, <2>1 DEF SpLine
  <2> QED BY <1>9, <2>2, Zenon
<1> QED BY <1>3, <1>11, <1>12, <1>13

LEMMA LoopMpTaken == LoopInv /\ MpTaken => LoopInv'
<1> SUFFICES ASSUME LoopInv, MpTaken
             PROVE  LoopInv'
  OBVIOUS
<1>1. PICK pc \in Yields : pc = "taken"
  BY DEF Yields
<1>2. Resume("mp", pc)
  BY <1>1 DEF MpTaken
<1>3. /\ turn = "sweep" /\ turn' = "sweep" /\ pos <= Len(co_list)
      /\ pos \in 1 .. Len(co_list)
      /\ Mp(pos) /\ me.pc = pc
      /\ UNCHANGED <<logic, program>>
      /\ \A k \in 1 .. Len(co_list) : Mp(k) => k = pos
      /\ mp_mutex <=> pc # "lock"
      /\ ~Taking
  BY <1>2, MpResumed
<1>4. ~mp_tready' /\ mp_mutex' /\ UNCHANGED <<sp_mutex, sp, device>>
  <2>1. mp_mutex
    BY <1>1, <1>3
  <2>2. ~mp_tready' /\ (mp_mutex' <=> mp_mutex) /\ UNCHANGED <<sp_mutex, sp, device>>
    BY Zenon DEF MpTaken
  <2> QED BY <2>1, <2>2, Zenon
<1>5. Typed /\ Words
  BY DEF LoopInv
<1>6. PICK p \in Yields : p = "unlock"
  BY DEF Yields
<1>7. Yield(p)
  BY <1>6 DEF MpTaken
<1>8. PICK lo \in Int, hi \in Int : lo = rx_tcount /\ hi = Given /\ Carried(lo, hi)
  BY <1>5, WordBounds DEF Words
<1>9. Typed' /\ SpPort' /\ SpLine' /\ Carried(lo, hi)' /\ Program'
  <2>1. UNCHANGED <<sp_mutex, sp, logic, program>>
    BY <1>3, <1>4, Zenon
  <2>2. buffer' \in Seq(Data)
    BY <1>4, <1>5 DEF Typed, device
  <2> QED BY <1>3, <1>7, <1>8, <2>1, <2>2, MpYields
<1>10. /\ co_list' \in Seq(Thread) /\ Len(co_list') = Len(co_list)
       /\ \A k \in 1 .. Len(co_list) :
            /\ co_list'[k].port = co_list[k].port
            /\ co_list'[k].pc = IF k = pos THEN p ELSE co_list[k].pc
  BY <1>3, <1>5, <1>7, YieldFacts
<1>11. PICK j \in 1 .. Len(co_list') : j = pos
  BY <1>3, <1>10
<1>12. (\A k \in 1 .. Len(co_list') : Mp(k)' => k = j) /\ Mp(j)' /\ co_list'[j].pc = "unlock"
  BY <1>3, <1>6, <1>10, <1>11 DEF Mp
<1>13. MpPort'
  <2>1. MpAlone(co_list[j], TickToCome(j), Looked(j))'
    BY <1>4, <1>12 DEF MpAlone
  <2> QED BY <1>12, <2>1 DEF MpPort
<1>14. ~Taking'
  BY <1>12 DEF Taking
<1>15. UNCHANGED <<device, logic, stage, i>> /\ (applied' <=> applied)
  BY <1>3, <1>4, Zenon DEF program
<1>16. Words'
  BY <1>3, <1>5, <1>8, <1>9, <1>14, <1>15, WordsAside
<1> QED BY <1>9, <1>13, <1>16 DEF LoopInv

LEMMA LoopMpUnlock == LoopInv /\ MpUnlock => LoopInv'
<1> SUFFICES ASSUME LoopInv, MpUnlock
             PROVE  LoopInv'
  OBVIOUS
<1>1. PICK pc \in Yields : pc = "unlock"
  BY DEF Yields
<1>2. Resume("mp", pc)
  BY <1>1 DEF MpUnlock
<1>3. /\ turn = "sweep" /\ turn' = "sweep" /\ pos <= Len(co_list)
      /\ pos \in 1 .. Len(co_list)
      /\ Mp(pos) /\ me.pc = pc
      /\ UNCHANGED <<logic, program>>
      /\ \A k \in 1 .. Len(co_list) : Mp(k) => k = pos
      /\ mp_tready <=> pc = "taken"
      /\ ~Taking
  BY <1>2, MpResumed
<1>4. ~mp_tready' /\ ~mp_mutex' /\ UNCHANGED <<sp_mutex, sp, device>>
  <2>1. ~mp_tready
    BY <1>1, <1>3
  <2>2. ~mp_mutex' /\ (mp_tready' <=> mp_tready) /\ UNCHANGED <<sp_mutex, sp, device>>
    BY Zenon DEF MpUnlock
  <2> QED BY <2>1, <2>2, Zenon
<1>5. Typed /\ SpPort /\ SpLine /\ Words /\ Program /\ Finish
  BY DEF LoopInv, MpUnlock
<1>6. PICK o : o = [k \in 1 .. Len(co_list) - 1 |-> IF k < pos THEN k ELSE k + 1]
  OBVIOUS
<1>7. /\ \A k \in 1 .. Len(co_list') :
           /\ Moved(o, k) /\ o[k] # pos
           /\ k < pos => o[k] = k
      /\ \A k, m \in 1 .. Len(co_list') : k < m => o[k] < o[m]
      /\ \A k \in 1 .. Len(co_list) : k # pos =>
           \E m \in 1 .. Len(co_list') : o[m] = k
  BY <1>3, <1>5, <1>6, FinishMoves
<1>8. Typed'
  <2>1. /\ buffer' = buffer /\ ps_to_pl' = ps_to_pl /\ pl_to_ps' = pl_to_ps /\ sp' = sp
        /\ tx_tcount' = tx_tcount /\ rx_tcount' = rx_tcount
        /\ stage' = stage /\ i' = i /\ wait' = wait /\ rdata' = rdata
    BY <1>3, <1>4 DEF device, logic, program
  <2>2. pos' = pos /\ co_list' \in Seq(Thread)
    BY <1>3, <1>5, FinishFacts
  <2> QED BY <1>3, <1>5, <2>1, <2>2 DEF Typed
<1>9. \A k \in 1 .. Len(co_list') : ~Mp(k)'
  BY <1>3, <1>7 DEF Moved, Mp
<1>10. MpPort' /\ ~Taking'
  BY <1>4, <1>9 DEF MpPort, Taking
<1>11. PICK lo \in Int, hi \in Int : lo = rx_tcount /\ hi = Given /\ Carried(lo, hi)
  BY <1>5, WordBounds DEF Words
<1>12. sp_mutex' <=> sp_mutex
  BY <1>4, Zenon
<1>13. SpPort' /\ Carried(lo, hi)'
  <2>1. \A k \in 1 .. Len(co_list) : Sp(k) =>
          \E m \in 1 .. Len(co_list') : Sp(m)' /\ o[m] = k
    <3> SUFFICES ASSUME NEW k \in 1 .. Len(co_list), Sp(k)
                 PROVE  \E m \in 1 .. Len(co_list') : Sp(m)' /\ o[m] = k
      OBVIOUS
    <3>1. k # pos
      BY <1>3 DEF Mp, Sp
    <3>2. PICK m \in 1 .. Len(co_list') : o[m] = k /\ Moved(o, m)
      BY <1>7, <3>1
    <3>3. Sp(m)'
      BY <3>2 DEF Moved, Sp
    <3> QED BY <3>2, <3>3
  <2>2. sp' = sp /\ pl_to_ps' = pl_to_ps
    BY <1>3, <1>4 DEF logic
  <2>3. /\ \A k \in 1 .. Len(co_list') : Sp(k)' => Moved(o, k)
        /\ \A k, m \in 1 .. Len(co_list') : Sp(k)' /\ Sp(m)' /\ k < m => o[k] < o[m]
    BY <1>7
  <2> QED BY <1>5, <1>8, <1>11, <1>12, <2>1, <2>2, <2>3, SpAside
<1>14. SpLine'
  <2> SUFFICES ASSUME NEW k \in 1 .. Len(co_list'), k < pos', Sp(k)'
               PROVE  sp_mutex'
    BY <1>3 DEF SpLine
  <2>1. k < pos /\ o[k] = k /\ Moved(o, k)
    BY <1>5, <1>7 DEF Finish
  <2>2. Sp(k) /\ k \in 1 .. Len(co_list)
    BY <2>1 DEF Moved, Sp
  <2>3. sp_mutex
    BY <1>3, <1>5, <2>1, <2>2 DEF SpLine
  <2> QED BY <1>12, <2>3, Zenon
<1>15. UNCHANGED <<device, logic, stage, i>> /\ (applied' <=> applied)
  BY <1>3, <1>4, Zenon DEF program
<1>16. Words'
  BY <1>3, <1>5, <1>10, <1>11, <1>13, <1>15, WordsAside
<1>17. Program'
  BY <1>3, <1>5, ProgramAside
<1> QED BY <1>8, <1>10, <1>13, <1>14, <1>16, <1>17 DEF LoopInv

\* A word that goes to the buffer while it is still the head of the FIFO.
LEMMA LoopMpReceive == LoopInv /\ MpReceive => LoopInv'
<1> SUFFICES ASSUME LoopInv, MpReceive
             PROVE  LoopInv'
  OBVIOUS
<1>1. PICK pc \in Yields : pc \in {"lock", "offer"} /\ Resume("mp", pc)
  BY DEF MpReceive, Yields
<1>2. /\ turn = "sweep" /\ turn' = "sweep" /\ pos <= Len(co_list)
      /\ pos \in 1 .. Len(co_list)
      /\ Mp(pos) /\ me.pc = pc
      /\ UNCHANGED <<logic, program>>
      /\ \A k \in 1 .. Len(co_list) : Mp(k) => k = pos
      /\ pc # "offer"
      /\ mp_mutex <=> pc # "lock"
      /\ pc = "lock" => mp_tvalid
      /\ ~Taking
  BY <1>1, MpResumed
<1>3. ~mp_mutex /\ mp_tvalid /\ me.pc = "lock"
  BY <1>1, <1>2
<1>4. PICK p \in Yields : p = "taken"
  BY DEF Yields
<1>5. /\ mp_mutex' = TRUE /\ mp_tready' = TRUE
      /\ buffer' = Append(buffer, Head(ps_to_pl))
      /\ buffer_full' = (buffer_full \/ tlast_lo)
      /\ Yield("taken") /\ UNCHANGED <<sp_mutex, sp>>
  BY <1>3, Zenon DEF MpReceive
<1>6. mp_mutex' /\ mp_tready' /\ UNCHANGED <<sp_mutex, sp>>
      /\ (buffer_full' <=> buffer_full \/ tlast_lo)
  BY <1>5, Zenon
<1>7. Typed /\ Words /\ Program /\ Yield(p)
  BY <1>4, <1>5 DEF LoopInv
<1>8. PICK lo \in Int, hi \in Int : lo = rx_tcount /\ hi = Given /\ Carried(lo, hi)
  BY <1>7, WordBounds DEF Words
<1>9. /\ ps_to_pl # << >> /\ Len(ps_to_pl) \in Nat \ {0} /\ ps_to_pl[1] = Head(ps_to_pl)
      /\ Head(ps_to_pl) \in Data
  BY <1>3, <1>7 DEF mp_tvalid, Typed
<1>10. /\ buffer' \in Seq(Data) /\ Len(buffer') = Len(buffer) + 1
       /\ \A n \in 1 .. Len(buffer) : buffer'[n] = buffer[n]
       /\ buffer'[Len(buffer) + 1] = Head(ps_to_pl)
  BY <1>5, <1>7, <1>9, AppendProperties DEF Typed
<1>11. Typed' /\ SpPort' /\ SpLine' /\ Carried(lo, hi)' /\ Program'
  <2>1. UNCHANGED <<sp_mutex, sp, logic, program>>
    BY <1>2, <1>6, Zenon
  <2> QED BY <1>2, <1>7, <1>8, <1>10, <2>1, MpYields
<1>12. /\ co_list' \in Seq(Thread) /\ Len(co_list') = Len(co_list) /\ pos' = pos + 1
       /\ \A k \in 1 .. Len(co_list) :
            /\ co_list'[k].port = co_list[k].port
            /\ co_list'[k].pc = IF k = pos THEN p ELSE co_list[k].pc
            /\ TickToCome(k)' <=> k <= pos
  BY <1>2, <1>7, YieldFacts
<1>13. PICK j \in 1 .. Len(co_list') : j = pos
  BY <1>2, <1>12
<1>14. /\ \A k \in 1 .. Len(co_list') : Mp(k)' => k = j
       /\ Mp(j)' /\ co_list'[j].pc = "taken" /\ TickToCome(j)'
  <2>1. TickToCome(j)'
    BY <1>2, <1>12, <1>13
  <2> QED BY <1>2, <1>4, <1>12, <1>13, <2>1 DEF Mp
<1>15. mp_tvalid'
  BY <1>2, <1>3 DEF mp_tvalid, logic
<1>16. MpPort' /\ Taking'
  <2>1. MpAlone(co_list[j], TickToCome(j), Looked(j))'
    BY <1>6, <1>14, <1>15 DEF MpAlone
  <2> QED BY <1>14, <2>1 DEF MpPort, Taking
<1>17. PICK t \in Nat, b \in Nat, l \in Nat \ {0} :
         t = tx_tcount /\ b = Len(buffer) /\ l = Len(ps_to_pl)
  BY <1>7, <1>9, LenProperties DEF Typed
<1>18. Collected = t /\ Given = t - b /\ Collected' = t + 1
  <2>1. tx_tcount' = tx_tcount
    BY <1>2 DEF logic
  <2> QED BY <1>2, <1>16, <1>17, <2>1 DEF Collected, Given
<1>19. Given' = t - b
  BY <1>10, <1>17, <1>18 DEF Given
<1>20. Head(ps_to_pl) = t
  <2>1. ps_to_pl[1] = t + 1 - 1
    BY <1>7, <1>9, <1>17 DEF Words, Numbered
  <2> QED BY <1>9, <1>17, <2>1
<1>21. Numbered(buffer, Given)'
  <2> SUFFICES ASSUME NEW n \in 1 .. Len(buffer')
               PROVE  buffer'[n] = (t - b) + n - 1
    BY <1>19 DEF Numbered
  <2>1. CASE n = b + 1
    BY <1>10, <1>17, <1>20, <2>1
  <2>2. CASE n # b + 1
    <3>1. n \in 1 .. Len(buffer)
      BY <1>10, <1>17, <2>2
    <3> QED BY <1>7, <1>10, <1>17, <1>18, <3>1 DEF Words, Numbered
  <2> QED BY <2>1, <2>2
<1>22. ~buffer_full
  <2> SUFFICES ASSUME buffer_full
               PROVE  FALSE
    OBVIOUS
  <2>1. buffer # << >> /\ buffer[Len(buffer)] = Txn - 1
    BY <1>7 DEF Words, FullMeansWhole
  <2>2. b \in 1 .. Len(buffer)
    BY <1>7, <1>17, <2>1 DEF Typed
  <2>3. Txn - 1 = t - b + b - 1
    BY <1>7, <1>17, <1>18, <2>1, <2>2 DEF Words, Numbered
  <2>4. t = Written - l /\ Written \in 0 .. Txn /\ Txn \in Nat
    BY <1>7, <1>17, WordBounds, LoopAssumption DEF Words
  <2> QED BY <1>17, <2>3, <2>4
<1>23. FullMeansWhole'
  <2>1. buffer' # << >> /\ buffer'[Len(buffer')] = t
    BY <1>10, <1>17, <1>20
  <2>2. tlast_lo <=> t = Txn - 1
    BY <1>17 DEF tlast_lo
  <2>3. buffer_full' <=> t = Txn - 1
    BY <1>6, <1>22, <2>2, Zenon
  <2> QED BY <2>1, <2>3, Zenon DEF FullMeansWhole
<1>24. Words'
  <2>1. /\ ps_to_pl' = ps_to_pl /\ pl_to_ps' = pl_to_ps
        /\ tx_tcount' = tx_tcount /\ rx_tcount' = rx_tcount
        /\ stage' = stage /\ i' = i
    BY <1>2 DEF logic, program
  <2>2. (tstatus_r' <=> tstatus_r) /\ (applied' <=> applied)
    BY <1>2, Zenon DEF logic, program
  <2>3. Written' = Written /\ Read' = Read
    BY <2>1, <2>2 DEF Written, Read
  <2>4. Carried(rx_tcount, Given)'
    BY <1>8, <1>11, <1>17, <1>18, <1>19, <2>1 DEF Carried
  <2>5. Numbered(ps_to_pl, tx_tcount)' /\ Numbered(pl_to_ps, Read)'
    BY <1>7, <2>1, <2>3 DEF Words, Numbered
  <2> QED BY <1>7, <1>21, <1>23, <2>1, <2>2, <2>3, <2>4, <2>5 DEF Words
<1> QED BY <1>11, <1>16, <1>24 DEF LoopInv

-----------------------------------------------------------------------------
(***************************************************************************)
(* The steps of next() and of the program at which no coroutine runs.      *)
(***************************************************************************)
LEMMA AllRest ==
  ASSUME Typed, Typed', SpPort, MpPort, co_list' = co_list, UNCHANGED ports,
         ps_to_pl' = ps_to_pl, pl_to_ps' = pl_to_ps,
         \A k \in 1 .. Len(co_list) : TickToCome(k)' <=> TickToCome(k),
         \A k \in 1 .. Len(co_list) : Looked(k)' => Looked(k),
         NEW lo \in Int, NEW hi \in Int, Carried(lo, hi)
  PROVE  SpPort' /\ MpPort' /\ (Taking' <=> Taking) /\ Carried(lo, hi)'
<1>1. PICK o : o = [k \in 1 .. Len(co_list) |-> k]
  OBVIOUS
<1>2. sp' = sp /\ (sp_mutex' <=> sp_mutex) /\ (mp_mutex' <=> mp_mutex)
      /\ (mp_tready' <=> mp_tready)
  BY Zenon DEF ports
<1>3. \A k \in 1 .. Len(co_list') : Moved(o, k) /\ (Looked(k)' => Looked(o[k]))
  BY <1>1 DEF Moved
<1>4. \A k, m \in 1 .. Len(co_list') : k < m => o[k] < o[m]
  BY <1>1
<1>5. \A k \in 1 .. Len(co_list) : Sp(k) =>
        \E m \in 1 .. Len(co_list') : Sp(m)' /\ o[m] = k
  BY <1>1 DEF Sp
<1>6. \A k \in 1 .. Len(co_list) : Mp(k) =>
        \E m \in 1 .. Len(co_list') : Mp(m)' /\ o[m] = k
  BY <1>1 DEF Mp
<1>7. SpPort' /\ Carried(lo, hi)'
  BY <1>2, <1>3, <1>4, <1>5, SpAside
<1>8. MpPort' /\ (Taking' <=> Taking)
  BY <1>2, <1>3, <1>4, <1>6, MpAside
<1> QED BY <1>7, <1>8

LEMMA LoopSwept == LoopInv /\ Swept => LoopInv'
<1> SUFFICES ASSUME LoopInv, Swept
             PROVE  LoopInv'
  OBVIOUS
<1>1. Typed /\ SpPort /\ SpLine /\ MpPort /\ Words /\ Program
  BY DEF LoopInv
<1>2. /\ turn = "sweep" /\ turn' = "pollm" /\ pos' = pos /\ co_list' = co_list
      /\ pos > Len(co_list)
  BY DEF Swept, EndSweep
<1>3. UNCHANGED <<ports, device, logic, program>>
  BY Zenon DEF Swept
<1>4. Typed'
  BY <1>1, <1>2, <1>3 DEF Typed, ports, device, logic, program
<1>5. \A k \in 1 .. Len(co_list) : k < pos
  BY <1>1, <1>2 DEF Typed
<1>6. PICK lo \in Int, hi \in Int : lo = rx_tcount /\ hi = Given /\ Carried(lo, hi)
  BY <1>1, WordBounds DEF Words, LoopInv
<1>7. SpPort' /\ MpPort' /\ (Taking' <=> Taking) /\ Carried(lo, hi)'
  <2>1. \A k \in 1 .. Len(co_list) : TickToCome(k)' <=> TickToCome(k)
    BY <1>2, <1>5 DEF TickToCome
  <2>2. \A k \in 1 .. Len(co_list) : Looked(k)' => Looked(k)
    BY <1>2, <1>5 DEF Looked
  <2>3. UNCHANGED ports /\ ps_to_pl' = ps_to_pl /\ pl_to_ps' = pl_to_ps
    BY <1>3 DEF logic
  <2> QED BY <1>1, <1>2, <1>4, <1>6, <2>1, <2>2, <2>3, AllRest
<1>8. SpLine'
  <2>1. sp_mutex' <=> sp_mutex
    BY <1>3, Zenon DEF ports
  <2>2. \A k \in 1 .. Len(co_list) : Sp(k) => sp_mutex
    BY <1>1, <1>2, <1>5 DEF SpLine
  <2>3. \A k \in 1 .. Len(co_list') : Sp(k)' => sp_mutex'
    BY <1>2, <2>1, <2>2 DEF Sp
  <2> QED BY <1>2, <2>3 DEF SpLine
<1>9. UNCHANGED <<device, logic, stage, i>> /\ (applied' <=> applied)
  BY <1>3, Zenon DEF program
<1>10. Words'
  BY <1>1, <1>6, <1>7, <1>9, WordsAside
<1>11. Program'
  BY <1>1, <1>3, ProgramAside
<1> QED BY <1>4, <1>7, <1>8, <1>10, <1>11 DEF LoopInv

LEMMA LoopAgain == LoopInv /\ Again => LoopInv'
<1> SUFFICES ASSUME LoopInv, Again
             PROVE  LoopInv'
  OBVIOUS
<1>1. Typed /\ SpPort /\ MpPort /\ Words /\ Program
  BY DEF LoopInv
<1>2. turn = "call" /\ turn' = "sweep" /\ pos' = 1 /\ co_list' = co_list
  BY DEF Again, BeginSweep
<1>3. UNCHANGED <<ports, device, logic, program>>
  BY Zenon DEF Again
<1>4. Typed'
  BY <1>1, <1>2, <1>3 DEF Typed, ports, device, logic, program
<1>5. \A k \in 1 .. Len(co_list) : ~(k < 1)
  BY <1>1 DEF Typed
<1>6. PICK lo \in Int, hi \in Int : lo = rx_tcount /\ hi = Given /\ Carried(lo, hi)
  BY <1>1, WordBounds DEF Words, LoopInv
<1>7. SpPort' /\ MpPort' /\ (Taking' <=> Taking) /\ Carried(lo, hi)'
  <2>1. \A k \in 1 .. Len(co_list) : TickToCome(k)' <=> TickToCome(k)
    BY <1>2, <1>5 DEF TickToCome
  <2>2. \A k \in 1 .. Len(co_list) : Looked(k)' => Looked(k)
    BY <1>2, <1>5 DEF Looked
  <2>3. UNCHANGED ports /\ ps_to_pl' = ps_to_pl /\ pl_to_ps' = pl_to_ps
    BY <1>3 DEF logic
  <2> QED BY <1>1, <1>2, <1>4, <1>6, <2>1, <2>2, <2>3, AllRest
<1>8. SpLine'
  BY <1>2, <1>5 DEF SpLine
<1>9. UNCHANGED <<device, logic, stage, i>> /\ (applied' <=> applied)
  BY <1>3, Zenon DEF program
<1>10. Words'
  BY <1>1, <1>6, <1>7, <1>9, WordsAside
<1>11. Program'
  BY <1>1, <1>3, ProgramAside
<1> QED BY <1>4, <1>7, <1>8, <1>10, <1>11 DEF LoopInv

\* Where the program goes on when its call returns.
LEMMA ReturnFacts ==
  ASSUME LoopInv, Return
  PROVE  /\ Written' = Written /\ Read' = Read /\ Program'
         /\ stage' \in Stages /\ i' \in Nat
<1>1. Typed /\ Program
  BY DEF LoopInv
<1>2. /\ turn = "call" /\ Running /\ applied /\ wait = 0
      /\ stage' = After[1] /\ i' = After[2] /\ ~applied'
      /\ wait' = wait /\ rdata' = rdata
  BY DEF Return
<1>3. /\ ps_to_pl' = ps_to_pl /\ pl_to_ps' = pl_to_ps
  BY DEF Return, logic
<1>4. tinit' <=> tinit
  BY Zenon DEF Return, logic
<1>5. ~tinit /\ ~tinit'
  <2>1. ~tinit
    BY <1>1, <1>2, LoopAssumption DEF Program
  <2> QED BY <1>4, <2>1, Zenon
<1>6. /\ Txn \in Nat \ {0} /\ i \in Nat /\ rdata \in Nat /\ i < Txn
      /\ Len(ps_to_pl) \in Nat /\ Len(pl_to_ps) \in Nat /\ Els \in Nat
  BY <1>1, <1>2, LoopAssumption DEF Typed, Program
<1>7. CASE stage = "tinit"
  <2>1. stage' = "check" /\ i' = 0
    BY <1>2, <1>7 DEF After
  <2> QED BY <1>2, <1>5, <1>6, <1>7, <2>1
      DEF Written, Read, Program, Running, Stages
<1>8. CASE stage = "check"
  <2>1. stage' = "room" /\ i' = 0
    BY <1>1, <1>2, <1>8 DEF After, Program
  <2> QED BY <1>2, <1>5, <1>6, <1>8, <2>1
      DEF Written, Read, Program, Running, Stages
<1>9. CASE stage = "room" /\ rdata = 0
  <2>1. stage' = "room" /\ i' = i
    BY <1>2, <1>9 DEF After
  <2> QED BY <1>2, <1>5, <1>6, <1>9, <2>1
      DEF Written, Read, Program, Running, Stages
<1>10. CASE stage = "room" /\ rdata # 0
  <2>1. stage' = "put" /\ i' = i
    BY <1>2, <1>10 DEF After
  <2>2. Len(ps_to_pl) < Els
    BY <1>1, <1>2, <1>6, <1>10 DEF Program
  <2>3. Written' = i /\ Written = i /\ Read' = 0 /\ Read = 0
    BY <1>2, <1>6, <1>10, <2>1 DEF Written, Read
  <2>4. Len(ps_to_pl') < Els
    BY <1>3, <2>2
  <2> QED BY <1>2, <1>5, <1>6, <2>1, <2>3, <2>4 DEF Program, Running, Stages
<1>11. CASE stage = "put" /\ i + 1 < Txn
  <2>1. stage' = "room" /\ i' = i + 1
    BY <1>2, <1>11 DEF After
  <2> QED BY <1>2, <1>5, <1>6, <1>11, <2>1
      DEF Written, Read, Program, Running, Stages
<1>12. CASE stage = "put" /\ ~(i + 1 < Txn)
  <2>1. stage' = "fill" /\ i' = 0 /\ i + 1 = Txn
    BY <1>2, <1>6, <1>12 DEF After
  <2>2. Written' = Txn /\ Written = i + 1 /\ Read' = 0 /\ Read = 0
    BY <1>2, <1>12, <2>1 DEF Written, Read
  <2> QED BY <1>2, <1>5, <1>6, <2>1, <2>2 DEF Program, Running, Stages
<1>13. CASE stage = "fill" /\ rdata = 0
  <2>1. stage' = "fill" /\ i' = i
    BY <1>2, <1>13 DEF After
  <2> QED BY <1>2, <1>5, <1>6, <1>13, <2>1
      DEF Written, Read, Program, Running, Stages
<1>14. CASE stage = "fill" /\ rdata # 0
  <2>1. stage' = "get" /\ i' = i
    BY <1>2, <1>14 DEF After
  <2>2. pl_to_ps # << >>
    <3>1. Len(pl_to_ps) # 0
      BY <1>1, <1>2, <1>6, <1>14 DEF Program
    <3> QED BY <3>1
  <2>3. Written' = Txn /\ Written = Txn /\ Read' = i /\ Read = i
    BY <1>2, <1>6, <1>14, <2>1 DEF Written, Read
  <2> QED BY <1>2, <1>3, <1>5, <1>6, <2>1, <2>2, <2>3 DEF Program, Running, Stages
<1>15. CASE stage = "get" /\ i + 1 < Txn
  <2>1. stage' = "fill" /\ i' = i + 1
    BY <1>1, <1>2, <1>15 DEF After, Program
  <2> QED BY <1>2, <1>5, <1>6, <1>15, <2>1
      DEF Written, Read, Program, Running, Stages
<1>16. CASE stage = "get" /\ ~(i + 1 < Txn)
  <2>1. stage' = "status" /\ i' = 0 /\ i + 1 = Txn
    BY <1>1, <1>2, <1>6, <1>16 DEF After, Program
  <2>2. Written' = Txn /\ Written = Txn /\ Read' = Txn /\ Read = i + 1
    BY <1>2, <1>16, <2>1 DEF Written, Read
  <2> QED BY <1>2, <1>5, <1>6, <2>1, <2>2 DEF Program, Running, Stages
<1>17. CASE stage = "status"
  <2>1. stage' = "ticks" /\ i' = 0
    BY <1>1, <1>2, <1>17 DEF After, Program
  <2> QED BY <1>2, <1>5, <1>6, <1>17, <2>1
      DEF Written, Read, Program, Running, Stages
<1>18. \/ stage \in {"tinit", "check", "room", "put", "fill", "get", "status"}
  BY <1>1, <1>2 DEF Typed, Stages, Running
<1> QED BY <1>7, <1>8, <1>9, <1>10, <1>11, <1>12, <1>13, <1>14, <1>15, <1>16, <1>17, <1>18

LEMMA LoopReturn == LoopInv /\ Return => LoopInv'
<1> SUFFICES ASSUME LoopInv, Return
             PROVE  LoopInv'
  OBVIOUS
<1>1. Typed /\ SpPort /\ MpPort /\ Words
  BY DEF LoopInv
<1>2. /\ Written' = Written /\ Read' = Read /\ Program'
      /\ stage' \in Stages /\ i' \in Nat
  BY ReturnFacts
<1>3. UNCHANGED <<ports, device, logic, wait, rdata>>
  BY Zenon DEF Return
<1>4. /\ turn = "call" /\ co_list' = co_list
      /\ \/ turn' = "sweep" /\ pos' = 1
         \/ turn' = "call" /\ pos' = pos
  BY DEF Return, BeginSweep, scheduler
<1>5. Typed'
  BY <1>1, <1>2, <1>3, <1>4 DEF Typed, ports, device, logic
<1>6. \A k \in 1 .. Len(co_list) : ~(k < 1)
  BY <1>1 DEF Typed
<1>7. PICK lo \in Int, hi \in Int : lo = rx_tcount /\ hi = Given /\ Carried(lo, hi)
  BY <1>1, WordBounds DEF Words, LoopInv
<1>8. SpPort' /\ MpPort' /\ (Taking' <=> Taking) /\ Carried(lo, hi)'
  <2>1. \A k \in 1 .. Len(co_list) : TickToCome(k)' <=> TickToCome(k)
    BY <1>4, <1>6 DEF TickToCome
  <2>2. \A k \in 1 .. Len(co_list) : Looked(k)' => Looked(k)
    BY <1>4, <1>6 DEF Looked
  <2>3. UNCHANGED ports /\ ps_to_pl' = ps_to_pl /\ pl_to_ps' = pl_to_ps
    BY <1>3 DEF logic
  <2> QED BY <1>1, <1>4, <1>5, <1>7, <2>1, <2>2, <2>3, AllRest
<1>9. SpLine'
  BY <1>4, <1>6 DEF SpLine
<1>10. UNCHANGED <<device, logic>>
  BY <1>3, Zenon
<1>11. Words'
  BY <1>1, <1>2, <1>7, <1>8, <1>10, WordsKept
<1> QED BY <1>2, <1>5, <1>8, <1>9, <1>11 DEF LoopInv

LEMMA LoopStop == LoopInv /\ Stop => LoopInv'
<1> SUFFICES ASSUME LoopInv, Stop
             PROVE  LoopInv'
  OBVIOUS
<1>1. Typed /\ SpPort /\ SpLine /\ MpPort /\ Words /\ Program
  BY DEF LoopInv
<1>2. /\ turn = "call" /\ stage = "ticks" /\ stage' = "stopped" /\ i' = i
      /\ turn' = turn /\ pos' = pos /\ co_list' = co_list
      /\ wait' = wait /\ rdata' = rdata
  BY DEF Stop, scheduler
<1>3. UNCHANGED <<ports, device, logic>>
  BY Zenon DEF Stop
<1>4. Typed'
  BY <1>1, <1>2, <1>3 DEF Typed, Stages, ports, device, logic
<1>5. PICK lo \in Int, hi \in Int : lo = rx_tcount /\ hi = Given /\ Carried(lo, hi)
  BY <1>1, WordBounds DEF Words, LoopInv
<1>6. SpPort' /\ MpPort' /\ (Taking' <=> Taking) /\ Carried(lo, hi)'
  <2>1. \A k \in 1 .. Len(co_list) : TickToCome(k)' <=> TickToCome(k)
    BY <1>2 DEF TickToCome
  <2>2. \A k \in 1 .. Len(co_list) : Looked(k)' => Looked(k)
    BY <1>2 DEF Looked
  <2>3. UNCHANGED ports /\ ps_to_pl' = ps_to_pl /\ pl_to_ps' = pl_to_ps
    BY <1>3 DEF logic
  <2> QED BY <1>1, <1>2, <1>4, <1>5, <2>1, <2>2, <2>3, AllRest
<1>7. SpLine'
  BY <1>2 DEF SpLine
<1>8. Written' = Written /\ Read' = Read
  BY <1>2 DEF Written, Read
<1>9. UNCHANGED <<device, logic>>
  BY <1>3, Zenon
<1>10. Words'
  BY <1>1, <1>5, <1>6, <1>8, <1>9, WordsKept
<1>11. Program'
  <2>1. ~tinit
    BY <1>1, <1>2 DEF Program
  <2>2. ~tinit'
    BY <1>3, <2>1, Zenon DEF logic
  <2> QED BY <1>2, <2>2 DEF Program, Running
<1> QED BY <1>4, <1>6, <1>7, <1>10, <1>11 DEF LoopInv

LEMMA LoopStutter == LoopInv /\ UNCHANGED loopVars => LoopInv'
<1> SUFFICES ASSUME LoopInv, UNCHANGED loopVars
             PROVE  LoopInv'
  OBVIOUS
<1>1. Typed /\ SpPort /\ SpLine /\ MpPort /\ Words /\ Program
  BY DEF LoopInv
<1>2. UNCHANGED <<turn, pos, co_list, ports, device, logic, program>>
  BY Zenon DEF loopVars, scheduler
<1>3. turn' = turn /\ pos' = pos /\ co_list' = co_list
  BY <1>2
<1>4. Typed'
  BY <1>1, <1>2 DEF Typed, ports, device, logic, program
<1>5. PICK lo \in Int, hi \in Int : lo = rx_tcount /\ hi = Given /\ Carried(lo, hi)
  BY <1>1, WordBounds DEF Words, LoopInv
<1>6. SpPort' /\ MpPort' /\ (Taking' <=> Taking) /\ Carried(lo, hi)'
  <2>1. \A k \in 1 .. Len(co_list) : TickToCome(k)' <=> TickToCome(k)
    BY <1>3 DEF TickToCome
  <2>2. \A k \in 1 .. Len(co_list) : Looked(k)' => Looked(k)
    BY <1>3 DEF Looked
  <2>3. UNCHANGED ports /\ ps_to_pl' = ps_to_pl /\ pl_to_ps' = pl_to_ps
    BY <1>2 DEF logic
  <2> QED BY <1>1, <1>3, <1>4, <1>5, <2>1, <2>2, <2>3, AllRest
<1>7. SpLine'
  <2>1. sp_mutex' <=> sp_mutex
    BY <1>2, Zenon DEF ports
  <2> QED BY <1>1, <1>3, <2>1 DEF SpLine, Sp
<1>8. UNCHANGED <<device, logic, stage, i>> /\ (applied' <=> applied)
  BY <1>2, Zenon DEF program
<1>9. Words'
  BY <1>1, <1>5, <1>6, <1>8, WordsAside
<1>10. Program'
  BY <1>1, <1>2, ProgramAside
<1> QED BY <1>4, <1>6, <1>7, <1>9, <1>10 DEF LoopInv

-----------------------------------------------------------------------------
(***************************************************************************)
(* The polls.                                                              *)
(***************************************************************************)
\* The coroutines that a new one joins.
LEMMA SpawnMoves ==
  ASSUME Typed, NEW u \in Thread, Spawn(u),
         turn \in {"pollm", "polls"}, turn' \in {"polls", "tick"}, NEW o,
         o = [k \in 1 .. Len(co_list') |-> k]
  PROVE  /\ co_list' \in Seq(Thread) /\ Len(co_list') = Len(co_list) + 1
         /\ co_list'[Len(co_list) + 1] = u
         /\ \A k \in 1 .. Len(co_list') : k # Len(co_list) + 1 =>
              /\ k \in 1 .. Len(co_list) /\ o[k] = k /\ Moved(o, k) /\ Looked(k)
         /\ \A k, m \in 1 .. Len(co_list') : k < m => o[k] < o[m]
         /\ \A k \in 1 .. Len(co_list) :
              k \in 1 .. Len(co_list') /\ co_list'[k] = co_list[k] /\ o[k] = k
         /\ \A k : TickToCome(k) /\ TickToCome(k)'
<1>1. /\ co_list' \in Seq(Thread) /\ Len(co_list') = Len(co_list) + 1
      /\ \A k \in 1 .. Len(co_list) : co_list'[k] = co_list[k]
      /\ co_list'[Len(co_list) + 1] = u
  BY SpawnProperties DEF Typed
<1>2. Len(co_list) \in Nat
  BY DEF Typed
<1>3. \A k : TickToCome(k) /\ TickToCome(k)' /\ Looked(k)
  BY DEF TickToCome, Looked
<1>4. \A k \in 1 .. Len(co_list') : k # Len(co_list) + 1 =>
        k \in 1 .. Len(co_list) /\ o[k] = k
  BY <1>1, <1>2
<1>5. \A k \in 1 .. Len(co_list) : k \in 1 .. Len(co_list') /\ o[k] = k
  BY <1>1, <1>2
<1>6. \A k, m \in 1 .. Len(co_list') : k < m => o[k] < o[m]
  OBVIOUS
<1>7. \A k \in 1 .. Len(co_list') : k # Len(co_list) + 1 => Moved(o, k)
  BY <1>1, <1>3, <1>4 DEF Moved
<1> QED BY <1>1, <1>3, <1>4, <1>5, <1>6, <1>7

LEMMA LoopPollMIdle ==
  ASSUME LoopInv, turn = "pollm", turn' = "polls",
         UNCHANGED <<co_list, device, pos, ports, logic, program>>
  PROVE  LoopInv'
<1>1. Typed /\ SpPort /\ MpPort /\ Words /\ Program
  BY DEF LoopInv
<1>2. Typed'
  BY <1>1 DEF Typed, ports, device, logic, program
<1>3. PICK lo \in Int, hi \in Int : lo = rx_tcount /\ hi = Given /\ Carried(lo, hi)
  BY <1>1, WordBounds DEF Words, LoopInv
<1>4. SpPort' /\ MpPort' /\ (Taking' <=> Taking) /\ Carried(lo, hi)'
  <2>1. \A k \in 1 .. Len(co_list) : TickToCome(k)' <=> TickToCome(k)
    BY DEF TickToCome
  <2>2. \A k \in 1 .. Len(co_list) : Looked(k)' => Looked(k)
    BY DEF Looked
  <2>3. UNCHANGED ports /\ ps_to_pl' = ps_to_pl /\ pl_to_ps' = pl_to_ps
    BY DEF logic
  <2> QED BY <1>1, <1>2, <1>3, <2>1, <2>2, <2>3, AllRest
<1>5. SpLine'
  BY DEF SpLine
<1>6. UNCHANGED <<device, logic, stage, i>> /\ (applied' <=> applied)
  BY Zenon DEF program
<1>7. Words'
  BY <1>1, <1>3, <1>4, <1>6, WordsAside
<1>8. Program'
  BY <1>1, ProgramAside
<1> QED BY <1>2, <1>4, <1>5, <1>7, <1>8 DEF LoopInv

\* A word goes from the buffer to a new coroutine, the last in the line.
LEMMA LoopPollMGives ==
  ASSUME LoopInv, turn = "pollm", turn' = "polls", buffer_full,
         buffer' = Tail(buffer), buffer_full' <=> Tail(buffer) # << >>,
         NEW last \in BOOLEAN, Tail(buffer) = << >> => last,
         Spawn(StreamThread("sp", Head(buffer), last)),
         UNCHANGED <<pos, ports, logic, program>>
  PROVE  LoopInv'
<1>1. Typed /\ SpPort /\ MpPort /\ Words /\ Program
  BY DEF LoopInv
<1>2. buffer # << >> /\ buffer[Len(buffer)] = Txn - 1
  BY <1>1 DEF Words, FullMeansWhole
<1>3. PICK b \in Nat \ {0}, g \in Nat : b = Len(buffer) /\ g = Given
  BY <1>1, <1>2, WordBounds DEF Typed
<1>4. /\ Head(buffer) = g /\ g \in Data /\ g + b = Txn
  <2>1. 1 \in 1 .. Len(buffer) /\ b \in 1 .. Len(buffer)
    BY <1>3
  <2>2. buffer[1] = g + 1 - 1 /\ buffer[b] = g + b - 1
    BY <1>1, <1>3, <2>1 DEF Words, Numbered
  <2>3. buffer[1] \in Data /\ Head(buffer) = buffer[1]
    BY <1>1, <1>2, <2>1 DEF Typed
  <2> QED BY <1>2, <1>3, <2>2, <2>3, LoopAssumption
<1>5. /\ buffer' \in Seq(Data) /\ Len(buffer') = b - 1
      /\ \A n \in 1 .. b - 1 : buffer'[n] = buffer[n + 1]
  BY <1>1, <1>2, <1>3, HeadTailProperties DEF Typed
<1>6. PICK u \in Thread : u = StreamThread("sp", Head(buffer), last)
  BY <1>4 DEF StreamThread, Thread, Yields
<1>7. u.port = "sp" /\ u.pc = "lock" /\ u.word = g /\ u.last = last
  BY <1>4, <1>6 DEF StreamThread
<1>8. PICK o : o = [k \in 1 .. Len(co_list') |-> k]
  OBVIOUS
<1>9. PICK e \in Nat \ {0} : e = Len(co_list) + 1
  BY <1>1 DEF Typed
<1>10. /\ co_list' \in Seq(Thread) /\ Len(co_list') = e
       /\ co_list'[e] = u
       /\ \A k \in 1 .. Len(co_list') : k # e =>
            k \in 1 .. Len(co_list) /\ o[k] = k /\ Moved(o, k) /\ Looked(k)
       /\ \A k, m \in 1 .. Len(co_list') : k < m => o[k] < o[m]
       /\ \A k \in 1 .. Len(co_list) :
            k \in 1 .. Len(co_list') /\ co_list'[k] = co_list[k] /\ o[k] = k
       /\ \A k : TickToCome(k) /\ TickToCome(k)'
  BY <1>1, <1>6, <1>8, <1>9, SpawnMoves
<1>11. Typed'
  <2>1. /\ ps_to_pl' = ps_to_pl /\ pl_to_ps' = pl_to_ps /\ sp' = sp
        /\ tx_tcount' = tx_tcount /\ rx_tcount' = rx_tcount
        /\ stage' = stage /\ i' = i /\ wait' = wait /\ rdata' = rdata
    BY DEF ports, logic, program
  <2> QED BY <1>1, <1>5, <1>10, <2>1 DEF Typed
<1>12. MpPort' /\ (Taking' <=> Taking)
  <2>1. \A k \in 1 .. Len(co_list') : Mp(k)' => k # e
    BY <1>7, <1>10 DEF Mp
  <2>2. \A k \in 1 .. Len(co_list') : Mp(k)' =>
          Moved(o, k) /\ (Looked(k)' => Looked(o[k]))
    BY <1>10, <2>1
  <2>3. \A k \in 1 .. Len(co_list) : Mp(k) =>
          \E m \in 1 .. Len(co_list') : Mp(m)' /\ o[m] = k
    BY <1>10 DEF Mp
  <2>4. (mp_mutex' <=> mp_mutex) /\ (mp_tready' <=> mp_tready)
    BY Zenon DEF ports
  <2>5. ps_to_pl' = ps_to_pl
    BY DEF logic
  <2> QED BY <1>1, <1>10, <1>11, <2>2, <2>3, <2>4, <2>5, MpAside
<1>13. sp' = sp /\ pl_to_ps' = pl_to_ps
  BY DEF ports, logic
<1>14. sp_mutex' <=> sp_mutex
  BY Zenon DEF ports
<1>15. SpPort'
  <2>1. \A k, m \in 1 .. Len(co_list') : Sp(k)' /\ Sp(m)' /\ k < m => Waits(m)'
    <3> SUFFICES ASSUME NEW k \in 1 .. Len(co_list'), NEW m \in 1 .. Len(co_list'),
                        Sp(k)', Sp(m)', k < m
                 PROVE  Waits(m)'
      OBVIOUS
    <3>1. CASE m = e
      BY <1>7, <1>10, <3>1 DEF Waits
    <3>2. CASE m # e
      <4>1. k # e /\ k \in 1 .. Len(co_list) /\ m \in 1 .. Len(co_list)
        BY <1>10, <3>2
      <4> QED BY <1>1, <1>10, <4>1 DEF SpPort, Sp, Waits
    <3> QED BY <3>1, <3>2
  <2>2. \A k \in 1 .. Len(co_list') : Sp(k)' /\ ~Waits(k)' =>
          SpOwner(co_list[k], TickToCome(k))'
    <3> SUFFICES ASSUME NEW k \in 1 .. Len(co_list'), Sp(k)', ~Waits(k)'
                 PROVE  SpOwner(co_list[k], TickToCome(k))'
      OBVIOUS
    <3>1. k # e /\ k \in 1 .. Len(co_list) /\ co_list'[k] = co_list[k]
      BY <1>7, <1>10 DEF Waits
    <3>2. SpOwner(co_list[k], TickToCome(k))
      BY <1>1, <3>1 DEF SpPort, Sp, Waits
    <3> QED BY <1>10, <1>13, <1>14, <3>1, <3>2 DEF SpOwner, sp_tready
  <2>3. \A k \in 1 .. Len(co_list') : Sp(k)' /\ co_list'[k].word = Txn - 1 =>
          co_list'[k].last
    <3> SUFFICES ASSUME NEW k \in 1 .. Len(co_list'), Sp(k)', co_list'[k].word = Txn - 1
                 PROVE  co_list'[k].last
      OBVIOUS
    <3>1. CASE k = e
      <4>1. co_list'[k].last = last
        BY <1>7, <1>10, <3>1
      <4>2. Tail(buffer) = << >>
        <5>1. g = Txn - 1
          BY <1>7, <1>10, <3>1
        <5>2. Len(buffer') = 0
          BY <1>3, <1>4, <1>5, <5>1, LoopAssumption
        <5> QED BY <1>5, <5>2
      <4> QED BY <4>1, <4>2, Zenon
    <3>2. CASE k # e
      <4>1. k \in 1 .. Len(co_list) /\ co_list'[k] = co_list[k]
        BY <1>10, <3>2
      <4>2. co_list[k].last
        BY <1>1, <4>1 DEF SpPort, Sp
      <4> QED BY <4>1, <4>2, Zenon
    <3> QED BY <3>1, <3>2
  <2>4. sp_mutex' => \E k \in 1 .. Len(co_list') : Sp(k)' /\ ~Waits(k)'
    <3> HAVE sp_mutex'
    <3>1. PICK k \in 1 .. Len(co_list) : Sp(k) /\ ~Waits(k)
      BY <1>1, <1>14 DEF SpPort
    <3> QED BY <1>10, <3>1 DEF Sp, Waits
  <2> QED BY <1>1, <1>13, <1>14, <2>1, <2>2, <2>3, <2>4 DEF SpPort
<1>16. SpLine'
  BY DEF SpLine
<1>17. PICK lo \in Int : lo = rx_tcount /\ Carried(lo, g)
  BY <1>1, <1>3, WordBounds DEF Words
<1>18. /\ e \in Unsent' /\ Unsent \subseteq Unsent' /\ Unsent' \subseteq Unsent \cup {e}
       /\ Unsent \subseteq 1 .. Len(co_list)
  <2>1. e \in Unsent'
    BY <1>7, <1>9, <1>10 DEF Unsent, Threads
  <2>2. Unsent \subseteq Unsent'
    BY <1>10 DEF Unsent, Threads
  <2>3. Unsent' \subseteq Unsent \cup {e}
    <3> SUFFICES ASSUME NEW k \in Unsent', k # e
                 PROVE  k \in Unsent
      OBVIOUS
    <3>1. k \in 1 .. Len(co_list') /\ co_list'[k].port = "sp"
          /\ (co_list'[k].pc \in {"lock", "offer"} \/ co_list'[k].pc = "taken")
      BY DEF Unsent, Threads
    <3>2. k \in 1 .. Len(co_list) /\ co_list'[k] = co_list[k]
      BY <1>10, <3>1
    <3> QED BY <1>10, <3>1, <3>2 DEF Unsent, Threads
  <2> QED BY <2>1, <2>2, <2>3 DEF Unsent, Threads
<1>19. /\ \A k \in Unsent : co_list'[k].word = co_list[k].word /\ k # e /\ k < e
       /\ co_list'[e].word = g
  BY <1>7, <1>9, <1>10, <1>18
<1>20. PICK h \in Int : h = g + 1 /\ h - 1 = g
  OBVIOUS
<1>21. Carried(lo, h)'
  <2>1. lo \in Int /\ g \in Int /\ lo <= g
    BY <1>17 DEF Carried
  <2>2. \A k \in Unsent' : co_list'[k].word \in lo .. g
    BY <1>17, <1>18, <1>19, <2>1 DEF Carried
  <2>3. \A word \in lo .. g : \E k \in Unsent' : co_list'[k].word = word
    <3> SUFFICES ASSUME NEW word \in lo .. g
                 PROVE  \E k \in Unsent' : co_list'[k].word = word
      OBVIOUS
    <3>1. CASE word = g
      BY <1>18, <1>19, <3>1
    <3>2. CASE word # g
      <4>1. word \in lo .. g - 1
        BY <2>1, <3>2
      <4>2. PICK k \in Unsent : co_list[k].word = word
        BY <1>17, <4>1 DEF Carried
      <4> QED BY <1>18, <1>19, <4>2
    <3> QED BY <3>1, <3>2
  <2>4. \A k, m \in Unsent' : k < m => co_list'[k].word < co_list'[m].word
    <3> SUFFICES ASSUME NEW k \in Unsent', NEW m \in Unsent', k < m
                 PROVE  co_list'[k].word < co_list'[m].word
      OBVIOUS
    <3>1. CASE k = e
      <4>1. m # e /\ m \in Unsent /\ m < e
        BY <1>18, <1>19, <3>1
      <4> QED BY <1>18, <3>1, <4>1
    <3>2. CASE k # e /\ m = e
      <4>1. k \in Unsent /\ co_list[k].word \in lo .. g - 1
        BY <1>17, <1>18, <3>2 DEF Carried
      <4> QED BY <1>19, <2>1, <3>2, <4>1
    <3>3. CASE k # e /\ m # e
      <4>1. k \in Unsent /\ m \in Unsent
        BY <1>18, <3>3
      <4> QED BY <1>17, <1>19, <4>1 DEF Carried
    <3> QED BY <3>1, <3>2, <3>3
  <2>5. lo <= h
    BY <1>20, <2>1
  <2>6. /\ \A k \in Unsent' : co_list'[k].word \in lo .. h - 1
        /\ \A word \in lo .. h - 1 : \E k \in Unsent' : co_list'[k].word = word
    BY <1>20, <2>2, <2>3
  <2> QED BY <2>4, <2>5, <2>6 DEF Carried
<1>22. Words'
  <2>1. /\ ps_to_pl' = ps_to_pl /\ pl_to_ps' = pl_to_ps
        /\ tx_tcount' = tx_tcount /\ rx_tcount' = rx_tcount
        /\ stage' = stage /\ i' = i
    BY DEF logic, program
  <2>2. (tstatus_r' <=> tstatus_r) /\ (applied' <=> applied)
    BY Zenon DEF logic, program
  <2>3. Written' = Written /\ Read' = Read
    BY <2>1, <2>2 DEF Written, Read
  <2>4. Given' = g + 1
    <3>1. Collected' = Collected /\ Collected \in Nat
      BY <1>12, <2>1, WordBounds DEF Collected
    <3>2. Given = Collected - b /\ Given' = Collected' - (b - 1)
      BY <1>3, <1>5 DEF Given
    <3> QED BY <1>3, <3>1, <3>2
  <2>5. Carried(rx_tcount, Given)'
    BY <1>17, <1>20, <1>21, <2>1, <2>4 DEF Carried
  <2>6. Numbered(ps_to_pl, tx_tcount)' /\ Numbered(pl_to_ps, Read)'
    BY <1>1, <2>1, <2>3 DEF Words, Numbered
  <2>7. \A n \in 1 .. b - 1 : buffer'[n] = g + 1 + n - 1
    <3> SUFFICES ASSUME NEW n \in 1 .. b - 1
                 PROVE  buffer'[n] = g + 1 + n - 1
      OBVIOUS
    <3>1. n + 1 \in 1 .. Len(buffer) /\ g + (n + 1) - 1 = g + 1 + n - 1
      BY <1>3
    <3>2. buffer[n + 1] = g + (n + 1) - 1
      BY <1>1, <1>3, <3>1 DEF Words, Numbered
    <3> QED BY <1>5, <3>1, <3>2
  <2>8. Numbered(buffer, Given)'
    BY <1>5, <2>4, <2>7 DEF Numbered
  <2>9. buffer' # << >> => buffer'[Len(buffer')] = Txn - 1
    <3> HAVE buffer' # << >>
    <3>1. b - 1 \in 1 .. b - 1 /\ g + 1 + (b - 1) - 1 = Txn - 1
      BY <1>3, <1>4, <1>5
    <3>2. buffer'[b - 1] = g + 1 + (b - 1) - 1
      BY <2>7, <3>1
    <3> QED BY <1>5, <3>1, <3>2
  <2>10. FullMeansWhole'
    BY <2>9, Zenon DEF FullMeansWhole
  <2> QED BY <1>1, <2>1, <2>2, <2>3, <2>5, <2>6, <2>8, <2>10 DEF Words
<1>23. Program'
  BY <1>1, ProgramAside
<1> QED BY <1>11, <1>12, <1>15, <1>16, <1>22, <1>23 DEF LoopInv

LEMMA LoopPollM == LoopInv /\ PollM => LoopInv'
<1> SUFFICES ASSUME LoopInv, PollM
             PROVE  LoopInv'
  OBVIOUS
<1>1. turn = "pollm" /\ turn' = "polls" /\ UNCHANGED <<pos, ports, logic, program>>
  BY Zenon DEF PollM
<1>2. CASE UNCHANGED <<co_list, device>>
  <2>1. UNCHANGED <<co_list, device, pos, ports, logic, program>>
    BY <1>1, <1>2, Zenon
  <2> QED BY <1>1, <2>1, LoopPollMIdle
<1>3. CASE /\ buffer_full /\ buffer' = Tail(buffer)
           /\ buffer_full' = (Tail(buffer) # << >>)
           /\ \E last \in BOOLEAN :
                /\ Tail(buffer) = << >> => last
                /\ Spawn(StreamThread("sp", Head(buffer), last))
  <2>1. buffer_full' <=> Tail(buffer) # << >>
    BY <1>3, Zenon
  <2> QED BY <1>1, <1>3, <2>1, LoopPollMGives
<1> QED BY <1>2, <1>3, Zenon DEF PollM

\* mp0 is asked for only when nobody has it or waits for it.
LEMMA LoopPollSAsks ==
  ASSUME LoopInv, turn = "polls", turn' = "tick", has_write,
         Spawn(StreamThread("mp", 0, FALSE)),
         UNCHANGED <<pos, ports, device, logic, program>>
  PROVE  LoopInv'
<1>1. Typed /\ SpPort /\ MpPort /\ Words /\ Program
  BY DEF LoopInv
<1>2. ~mp_mutex /\ mp_tvalid
  BY DEF has_write
<1>3. \A k \in 1 .. Len(co_list) : ~Mp(k)
  <2> SUFFICES ASSUME NEW k \in 1 .. Len(co_list), Mp(k)
               PROVE  FALSE
    OBVIOUS
  <2>1. MpAlone(co_list[k], TickToCome(k), Looked(k)) /\ Looked(k)
    BY <1>1 DEF MpPort, Looked
  <2> QED BY <1>2, <2>1 DEF MpAlone
<1>4. ~mp_tready /\ ~Taking
  BY <1>1, <1>3 DEF MpPort, Taking
<1>5. PICK u \in Thread : u = StreamThread("mp", 0, FALSE)
  <2>1. 0 \in Data
    BY LoopAssumption DEF Data
  <2> QED BY <2>1 DEF StreamThread, Thread, Yields
<1>6. u.port = "mp" /\ u.pc = "lock"
  BY <1>5 DEF StreamThread
<1>7. PICK o : o = [k \in 1 .. Len(co_list') |-> k]
  OBVIOUS
<1>8. PICK e \in Nat \ {0} : e = Len(co_list) + 1
  BY <1>1 DEF Typed
<1>9. /\ co_list' \in Seq(Thread) /\ Len(co_list') = e
      /\ co_list'[e] = u
      /\ \A k \in 1 .. Len(co_list') : k # e =>
           k \in 1 .. Len(co_list) /\ o[k] = k /\ Moved(o, k)
      /\ \A k, m \in 1 .. Len(co_list') : k < m => o[k] < o[m]
      /\ \A k \in 1 .. Len(co_list) :
           k \in 1 .. Len(co_list') /\ co_list'[k] = co_list[k] /\ o[k] = k
  BY <1>1, <1>5, <1>7, <1>8, SpawnMoves
<1>10. Typed'
  BY <1>1, <1>9 DEF Typed, ports, device, logic, program
<1>11. PICK lo \in Int, hi \in Int : lo = rx_tcount /\ hi = Given /\ Carried(lo, hi)
  BY <1>1, WordBounds DEF Words
<1>12. SpPort' /\ Carried(lo, hi)'
  <2>1. \A k \in 1 .. Len(co_list') : Sp(k)' => k # e
    BY <1>6, <1>9 DEF Sp
  <2>2. \A k \in 1 .. Len(co_list') : Sp(k)' => Moved(o, k)
    BY <1>9, <2>1
  <2>3. \A k \in 1 .. Len(co_list) : Sp(k) =>
          \E m \in 1 .. Len(co_list') : Sp(m)' /\ o[m] = k
    BY <1>9 DEF Sp
  <2>4. sp_mutex' <=> sp_mutex
    BY Zenon DEF ports
  <2>5. sp' = sp /\ pl_to_ps' = pl_to_ps
    BY DEF ports, logic
  <2> QED BY <1>1, <1>9, <1>10, <1>11, <2>2, <2>3, <2>4, <2>5, SpAside
<1>13. SpLine'
  BY DEF SpLine
<1>14. \A k \in 1 .. Len(co_list') : Mp(k)' => k = e
  BY <1>3, <1>9 DEF Mp
<1>15. (mp_mutex' <=> mp_mutex) /\ (mp_tready' <=> mp_tready)
  BY Zenon DEF ports
<1>16. MpPort' /\ ~Taking'
  <2>1. mp_tvalid'
    BY <1>2 DEF mp_tvalid, logic
  <2>2. ~mp_mutex' /\ ~mp_tready'
    BY <1>2, <1>4, <1>15, Zenon
  <2>3. co_list'[e].pc = "lock"
    BY <1>6, <1>9
  <2>4. ~Looked(e)'
    BY DEF Looked
  <2>5. MpAlone(co_list[e], TickToCome(e), Looked(e))'
    BY <2>1, <2>2, <2>3, <2>4 DEF MpAlone
  <2> QED BY <1>14, <2>2, <2>3, <2>5 DEF MpPort, Taking
<1>17. UNCHANGED <<device, logic, stage, i>> /\ (applied' <=> applied)
  BY Zenon DEF program
<1>18. Words'
  BY <1>1, <1>4, <1>11, <1>12, <1>16, <1>17, WordsAside
<1>19. Program'
  BY <1>1, ProgramAside
<1> QED BY <1>10, <1>12, <1>13, <1>16, <1>18, <1>19 DEF LoopInv

LEMMA LoopPollSIdle ==
  ASSUME LoopInv, turn = "polls", turn' = "tick",
         UNCHANGED <<co_list, device, pos, ports, logic, program>>
  PROVE  LoopInv'
<1>1. Typed /\ SpPort /\ MpPort /\ Words /\ Program
  BY DEF LoopInv
<1>2. Typed'
  BY <1>1 DEF Typed, ports, device, logic, program
<1>3. PICK lo \in Int, hi \in Int : lo = rx_tcount /\ hi = Given /\ Carried(lo, hi)
  BY <1>1, WordBounds DEF Words, LoopInv
<1>4. SpPort' /\ MpPort' /\ (Taking' <=> Taking) /\ Carried(lo, hi)'
  <2>1. \A k \in 1 .. Len(co_list) : TickToCome(k)' <=> TickToCome(k)
    BY DEF TickToCome
  <2>2. \A k \in 1 .. Len(co_list) : Looked(k)' => Looked(k)
    BY DEF Looked
  <2>3. UNCHANGED ports /\ ps_to_pl' = ps_to_pl /\ pl_to_ps' = pl_to_ps
    BY DEF logic
  <2> QED BY <1>1, <1>2, <1>3, <2>1, <2>2, <2>3, AllRest
<1>5. SpLine'
  BY DEF SpLine
<1>6. UNCHANGED <<device, logic, stage, i>> /\ (applied' <=> applied)
  BY Zenon DEF program
<1>7. Words'
  BY <1>1, <1>3, <1>4, <1>6, WordsAside
<1>8. Program'
  BY <1>1, ProgramAside
<1> QED BY <1>2, <1>4, <1>5, <1>7, <1>8 DEF LoopInv

LEMMA LoopPollS == LoopInv /\ PollS => LoopInv'
<1> SUFFICES ASSUME LoopInv, PollS
             PROVE  LoopInv'
  OBVIOUS
<1>1. turn = "polls" /\ turn' = "tick" /\ UNCHANGED <<pos, ports, device, logic, program>>
  BY Zenon DEF PollS
<1>2. CASE UNCHANGED co_list
  <2>1. UNCHANGED <<co_list, device, pos, ports, logic, program>>
    BY <1>1, <1>2, Zenon
  <2> QED BY <1>1, <2>1, LoopPollSIdle
<1>3. CASE has_write /\ Spawn(StreamThread("mp", 0, FALSE))
  BY <1>1, <1>3, LoopPollSAsks
<1> QED BY <1>2, <1>3, Zenon DEF PollS

-----------------------------------------------------------------------------
(***************************************************************************)
(* The tick.                                                               *)
(***************************************************************************)
\* What the pins say at the tick, and what the words are that pass.
LEMMA AtTick ==
  ASSUME LoopInv, turn = "tick"
  PROVE  /\ mp_tready <=> Taking
         /\ Taking => mp_tvalid
         /\ \A k \in 1 .. Len(co_list) : Sp(k) /\ co_list[k].pc = "taken" =>
              /\ sp # NoBeat /\ sp_tready
              /\ sp = [word |-> co_list[k].word, last |-> co_list[k].last]
              /\ co_list[k].word = rx_tcount
              /\ rx_tcount < Given
              /\ \A m \in 1 .. Len(co_list) : Sp(m) /\ m # k => k < m
         /\ sp # NoBeat /\ sp_tready =>
              \E k \in 1 .. Len(co_list) : Sp(k) /\ co_list[k].pc = "taken"
<1>1. Typed /\ SpPort /\ MpPort /\ Words
  BY DEF LoopInv
<1>2. \A k : TickToCome(k)
  BY DEF TickToCome
<1>3. (mp_tready <=> Taking) /\ (Taking => mp_tvalid)
  <2>1. mp_tready => Taking
    <3> HAVE mp_tready
    <3>1. PICK k \in 1 .. Len(co_list) : Mp(k)
      BY <1>1 DEF MpPort
    <3>2. MpAlone(co_list[k], TickToCome(k), Looked(k))
      BY <1>1, <3>1 DEF MpPort
    <3> QED BY <1>2, <3>1, <3>2 DEF MpAlone, Taking
  <2>2. Taking => mp_tready /\ mp_tvalid
    <3> HAVE Taking
    <3>1. PICK k \in 1 .. Len(co_list) :
            Mp(k) /\ co_list[k].pc = "taken" /\ TickToCome(k)
      BY DEF Taking
    <3>2. MpAlone(co_list[k], TickToCome(k), Looked(k))
      BY <1>1, <3>1 DEF MpPort
    <3> QED BY <3>1, <3>2 DEF MpAlone
  <2> QED BY <2>1, <2>2
<1>4. PICK lo \in Int, hi \in Int : lo = rx_tcount /\ hi = Given /\ Carried(lo, hi)
  BY <1>1, WordBounds DEF Words
<1>5. ASSUME NEW k \in 1 .. Len(co_list), Sp(k), co_list[k].pc = "taken"
      PROVE  /\ sp # NoBeat /\ sp_tready
             /\ sp = [word |-> co_list[k].word, last |-> co_list[k].last]
             /\ co_list[k].word = rx_tcount
             /\ rx_tcount < Given
             /\ \A m \in 1 .. Len(co_list) : Sp(m) /\ m # k => k < m
  <2>1. SpOwner(co_list[k], TickToCome(k))
    BY <1>1, <1>5 DEF SpPort, Waits
  <2>2. sp_tready /\ sp = [word |-> co_list[k].word, last |-> co_list[k].last]
    BY <1>2, <1>5, <2>1 DEF SpOwner
  <2>3. sp # NoBeat
    <3>1. co_list[k] \in Thread
      BY <1>1 DEF Typed
    <3>2. sp \in Beats
      BY <2>2, <3>1 DEF Thread, Beats
    <3> QED BY <3>2, LoopAssumption
  <2>4. \A m \in 1 .. Len(co_list) : Sp(m) /\ m # k => k < m
    <3> SUFFICES ASSUME NEW m \in 1 .. Len(co_list), Sp(m), m < k
                 PROVE  FALSE
      BY <1>1 DEF Typed
    <3>1. Waits(k)
      BY <1>1, <1>5 DEF SpPort
    <3> QED BY <1>5, <3>1 DEF Waits
  <2>5. k \in Unsent
    BY <1>2, <1>5 DEF Unsent, Threads, Sp
  <2>6. co_list[k].word \in lo .. hi - 1
    BY <1>4, <2>5 DEF Carried
  <2>7. PICK m \in Unsent : co_list[m].word = lo
    <3>1. lo \in lo .. hi - 1
      BY <2>6
    <3> QED BY <1>4, <3>1 DEF Carried
  <2>8. ~(k < m) \/ co_list[k].word < lo
    BY <1>4, <2>5, <2>7 DEF Carried
  <2>9. m \in 1 .. Len(co_list) /\ Sp(m)
    BY DEF Unsent, Threads, Sp
  <2>10. m = k
    BY <2>4, <2>6, <2>8, <2>9
  <2> QED BY <1>4, <2>2, <2>3, <2>4, <2>6, <2>7, <2>10
<1>6. ASSUME sp # NoBeat, sp_tready
      PROVE  \E k \in 1 .. Len(co_list) : Sp(k) /\ co_list[k].pc = "taken"
  <2>1. sp_mutex
    BY <1>1, <1>6 DEF SpPort
  <2>2. PICK k \in 1 .. Len(co_list) : Sp(k) /\ ~Waits(k)
    BY <1>1, <2>1 DEF SpPort
  <2>3. SpOwner(co_list[k], TickToCome(k))
    BY <1>1, <2>2 DEF SpPort
  <2>4. co_list[k].pc \in Yields
    <3>1. co_list[k] \in Thread
      BY <1>1 DEF Typed
    <3> QED BY <3>1 DEF Thread
  <2> QED BY <1>2, <1>6, <2>2, <2>3, <2>4 DEF SpOwner, Waits, Yields
<1> QED BY <1>3, <1>5, <1>6

\* csr_data_new_lo clears counters that are still at zero.
LEMMA ClearsNothing ==
  ASSUME LoopInv, tinit
  PROVE  tx_tcount = 0 /\ rx_tcount = 0 /\ Given = 0 /\ ps_to_pl = << >>
<1>1. Typed /\ Words /\ Program
  BY DEF LoopInv
<1>2. stage = "tinit"
  BY <1>1 DEF Program
<1>3. Written = 0 /\ Read = 0
  BY <1>2 DEF Written, Read
<1>4. /\ tx_tcount \in Nat /\ rx_tcount \in Nat /\ Len(ps_to_pl) \in Nat
      /\ Given \in Nat /\ Collected <= 0 /\ rx_tcount <= Given /\ Collected \in Nat
      /\ Len(buffer) \in Nat
  BY <1>1, <1>3, WordBounds DEF Typed
<1>5. tx_tcount = 0 - Len(ps_to_pl) /\ Given = Collected - Len(buffer)
  BY <1>1, <1>3 DEF Words, Given
<1>6. Len(ps_to_pl) = 0 /\ tx_tcount = 0 /\ Given = 0 /\ rx_tcount = 0
  BY <1>4, <1>5
<1> QED BY <1>1, <1>6 DEF Typed

(***************************************************************************)
(* Whether a word passes at an edge: from the FIFO of the PS to the buffer *)
(* (t), from sp0 to the other FIFO (g), from the call into the one (p) and *)
(* out of the other (r).                                                   *)
(***************************************************************************)
Passes(effect, t, g, p, r) ==
  /\ t \in 0 .. 1 /\ (t = 1 <=> Taking)
  /\ g \in 0 .. 1 /\ (g = 1 <=> sp # NoBeat /\ sp_tready)
  /\ p \in 0 .. 1 /\ (p = 1 <=> "put" \in effect /\ Len(ps_to_pl) < Els)
  /\ r \in 0 .. 1 /\ (r = 1 <=> "get" \in effect /\ pl_to_ps # << >>)

LEMMA SomePass ==
  ASSUME NEW effect
  PROVE  \E t, g, p, r \in 0 .. 1 : Passes(effect, t, g, p, r)
<1>1. ASSUME NEW A PROVE \E n \in 0 .. 1 : n = 1 <=> A
  <2>1. CASE A
    BY <2>1
  <2>2. CASE ~A
    BY <2>2
  <2> QED BY <2>1, <2>2
<1>2. PICK t \in 0 .. 1 : t = 1 <=> Taking
  BY <1>1
<1>3. PICK g \in 0 .. 1 : g = 1 <=> sp # NoBeat /\ sp_tready
  BY <1>1
<1>4. PICK p \in 0 .. 1 : p = 1 <=> "put" \in effect /\ Len(ps_to_pl) < Els
  BY <1>1
<1>5. PICK r \in 0 .. 1 : r = 1 <=> "get" \in effect /\ pl_to_ps # << >>
  BY <1>1
<1>6. Passes(effect, t, g, p, r)
  BY <1>2, <1>3, <1>4, <1>5, Zenon DEF Passes
<1> QED BY <1>6

(***************************************************************************)
(* The edge: the words that pass keep their numbers, and the counters      *)
(* follow them.                                                            *)
(***************************************************************************)
LEMMA EdgeMoves ==
  ASSUME LoopInv, turn = "tick", NEW effect, Edge(effect),
         NEW t \in 0 .. 1, NEW g \in 0 .. 1, NEW p \in 0 .. 1, NEW r \in 0 .. 1,
         Passes(effect, t, g, p, r), p = 1 => i \in Data /\ i = Written
  PROVE  /\ ps_to_pl' \in Seq(Data) /\ pl_to_ps' \in Seq(Data)
         /\ Len(ps_to_pl') = Len(ps_to_pl) - t + p /\ Len(ps_to_pl') <= Els
         /\ Len(pl_to_ps') = Len(pl_to_ps) - r + g /\ Len(pl_to_ps') <= Els
         /\ Numbered(ps_to_pl', tx_tcount + t) /\ Numbered(pl_to_ps', Read + r)
         /\ tx_tcount' = tx_tcount + t /\ rx_tcount' = rx_tcount + g
         /\ tinit' <=> "tinit" \in effect
         /\ tstatus_r' <=> rx_success_lo \/ (tstatus_r /\ ~tinit)
<1>1. Typed /\ Words
  BY DEF LoopInv
<1>2. /\ tx_tcount \in Nat /\ rx_tcount \in Nat /\ Read \in Nat /\ Els \in Nat
      /\ Len(ps_to_pl) \in Nat /\ Len(pl_to_ps) \in Nat
      /\ Len(ps_to_pl) <= Els /\ Len(pl_to_ps) <= Els
  BY <1>1, WordBounds, LoopAssumption DEF Typed
<1>0. /\ t = 1 <=> Taking
      /\ g = 1 <=> sp # NoBeat /\ sp_tready
      /\ p = 1 <=> "put" \in effect /\ Len(ps_to_pl) < Els
      /\ r = 1 <=> "get" \in effect /\ pl_to_ps # << >>
  BY Zenon DEF Passes
<1>3. t = 1 <=> mp_tready /\ mp_tvalid
  BY <1>0, AtTick
<1>4. ps_to_pl' = (IF t = 1 THEN Tail(ps_to_pl) ELSE ps_to_pl)
                    \o (IF p = 1 THEN <<i>> ELSE << >>)
  BY <1>0, <1>3 DEF Edge
<1>5. /\ ps_to_pl' \in Seq(Data)
      /\ Len(ps_to_pl') = Len(ps_to_pl) - t + p
      /\ Numbered(ps_to_pl', tx_tcount + t)
  <2>1. PICK q \in Seq(Data), n \in Seq(Data) \cup {ps_to_pl'} : q = ps_to_pl /\ n = ps_to_pl'
    BY <1>1 DEF Typed
  <2>2. PICK word : word = i
    OBVIOUS
  <2>3. n = Shifted(q, t, p, word)
    BY <1>4, <2>1, <2>2 DEF Shifted
  <2>4. (p = 1 => word \in Data) /\ (t = 1 => q # << >>)
    BY <1>3, <2>1, <2>2 DEF mp_tvalid
  <2>5. n \in Seq(Data)
    BY <2>3, <2>4, QueueType
  <2>6. Numbered(q, tx_tcount) /\ (p = 1 => word = tx_tcount + Len(q))
    <3>1. Numbered(ps_to_pl, tx_tcount) /\ tx_tcount = Written - Len(ps_to_pl)
      BY <1>1 DEF Words
    <3>2. p = 1 => i = tx_tcount + Len(ps_to_pl)
      <4> HAVE p = 1
      <4>1. i = Written /\ Written \in Nat
        BY WordBounds
      <4> QED BY <1>2, <3>1, <4>1
    <3> QED BY <2>1, <2>2, <3>1, <3>2
  <2>7. Len(n) = Len(q) - t + p
    BY <2>3, <2>4, QueueLength
  <2>8. PICK first \in Int : first = tx_tcount
    BY <1>2
  <2>9. Numbered(n, first + t)
    BY <2>3, <2>4, <2>6, <2>8, QueueNumbers
  <2> QED BY <2>1, <2>5, <2>7, <2>8, <2>9, Zenon
<1>6. g = 1 => sp.word = rx_tcount /\ sp.word \in Data
  <2> HAVE g = 1
  <2>1. PICK k \in 1 .. Len(co_list) : Sp(k) /\ co_list[k].pc = "taken"
    BY <1>0, AtTick
  <2>2. sp = [word |-> co_list[k].word, last |-> co_list[k].last]
        /\ co_list[k].word = rx_tcount
    BY <2>1, AtTick
  <2>3. co_list[k].word \in Data
    <3>1. co_list[k] \in Thread
      BY <1>1 DEF Typed
    <3> QED BY <3>1 DEF Thread
  <2> QED BY <2>2, <2>3
<1>7. pl_to_ps' = (IF r = 1 THEN Tail(pl_to_ps) ELSE pl_to_ps)
                    \o (IF g = 1 THEN <<sp.word>> ELSE << >>)
  BY <1>0 DEF Edge
<1>8. /\ pl_to_ps' \in Seq(Data)
      /\ Len(pl_to_ps') = Len(pl_to_ps) - r + g
      /\ Numbered(pl_to_ps', Read + r)
  <2>1. PICK q \in Seq(Data), n \in Seq(Data) \cup {pl_to_ps'} : q = pl_to_ps /\ n = pl_to_ps'
    BY <1>1 DEF Typed
  <2>2. PICK word : word = sp.word
    OBVIOUS
  <2>3. n = Shifted(q, r, g, word)
    BY <1>7, <2>1, <2>2 DEF Shifted
  <2>4. (g = 1 => word \in Data) /\ (r = 1 => q # << >>)
    BY <1>0, <1>6, <2>1, <2>2
  <2>5. n \in Seq(Data)
    BY <2>3, <2>4, QueueType
  <2>6. Numbered(q, Read) /\ (g = 1 => word = Read + Len(q))
    BY <1>1, <1>6, <2>1, <2>2 DEF Words
  <2>7. Len(n) = Len(q) - r + g
    BY <2>3, <2>4, QueueLength
  <2>8. PICK first \in Int : first = Read
    BY <1>2
  <2>9. Numbered(n, first + r)
    BY <2>3, <2>4, <2>6, <2>8, QueueNumbers
  <2> QED BY <2>1, <2>5, <2>7, <2>8, <2>9, Zenon
<1>9. Len(ps_to_pl') <= Els /\ Len(pl_to_ps') <= Els
  <2>1. p = 1 => Len(ps_to_pl) < Els
    BY <1>0
  <2>2. g = 1 => Len(pl_to_ps) < Els
    BY <1>0 DEF sp_tready
  <2> QED BY <1>2, <1>5, <1>8, <2>1, <2>2
<1>10. tx_tcount' = tx_tcount + t /\ rx_tcount' = rx_tcount + g
  <2>1. tx_tcount' = Counter(tx_tcount, tinit, t = 1)
    BY <1>3 DEF Edge
  <2>2. rx_tcount' = Counter(rx_tcount, tinit, g = 1)
    BY <1>0 DEF Edge
  <2>3. tinit => tx_tcount = 0 /\ rx_tcount = 0
    BY ClearsNothing
  <2> QED BY <1>2, <2>1, <2>2, <2>3 DEF Counter
<1>11. /\ tinit' <=> "tinit" \in effect
       /\ tstatus_r' <=> rx_success_lo \/ (tstatus_r /\ ~tinit)
  BY Zenon DEF Edge
<1> QED BY <1>5, <1>8, <1>9, <1>10, <1>11

\* The coroutines after the tick at which the beat of sp0 passes, or none.
LEMMA TickPorts ==
  ASSUME LoopInv, turn = "tick", turn' = "call", co_list' = co_list, UNCHANGED ports,
         NEW g \in 0 .. 1, g = 1 <=> sp # NoBeat /\ sp_tready,
         g = 1 => pl_to_ps' # << >>,
         ~Taking /\ mp_tvalid => mp_tvalid',
         NEW lo \in Int, NEW hi \in Int, lo = rx_tcount, hi = Given,
         NEW h \in Int, h = lo + g
  PROVE  SpPort' /\ SpLine' /\ MpPort' /\ ~Taking' /\ Carried(h, hi)'
<1>1. Typed /\ SpPort /\ MpPort /\ Words
  BY DEF LoopInv
<1>2. \A k : TickToCome(k) /\ ~TickToCome(k)' /\ ~Looked(k)'
  BY DEF TickToCome, Looked
<1>3. /\ sp' = sp /\ (sp_mutex' <=> sp_mutex) /\ (mp_mutex' <=> mp_mutex)
      /\ (mp_tready' <=> mp_tready)
  BY Zenon DEF ports
<1>4. \A k \in 1 .. Len(co_list) : (Sp(k)' <=> Sp(k)) /\ (Mp(k)' <=> Mp(k))
        /\ (Waits(k)' <=> Waits(k))
  BY DEF Sp, Mp, Waits
<1>5. SpPort'
  <2>1. \A k \in 1 .. Len(co_list') : Sp(k)' /\ ~Waits(k)' =>
          SpOwner(co_list[k], TickToCome(k))'
    <3> SUFFICES ASSUME NEW k \in 1 .. Len(co_list), Sp(k), ~Waits(k)
                 PROVE  SpOwner(co_list[k], TickToCome(k))'
      BY <1>4
    <3>1. SpOwner(co_list[k], TickToCome(k))
      BY <1>1 DEF SpPort
    <3>2. co_list[k].pc = "taken" => pl_to_ps' # << >>
      BY AtTick
    <3> QED BY <1>2, <1>3, <3>1, <3>2 DEF SpOwner
  <2>2. \A k \in 1 .. Len(co_list') : Sp(k)' /\ co_list'[k].word = Txn - 1 =>
          co_list'[k].last
    <3> SUFFICES ASSUME NEW k \in 1 .. Len(co_list), Sp(k), co_list[k].word = Txn - 1
                 PROVE  co_list[k].last
      BY <1>4, Zenon
    <3> QED BY <1>1, Zenon DEF SpPort
  <2>3. \A k, m \in 1 .. Len(co_list') : Sp(k)' /\ Sp(m)' /\ k < m => Waits(m)'
    BY <1>1, <1>4 DEF SpPort
  <2>4. sp_mutex' => \E k \in 1 .. Len(co_list') : Sp(k)' /\ ~Waits(k)'
    BY <1>1, <1>3, <1>4 DEF SpPort
  <2> QED BY <1>1, <1>3, <2>1, <2>2, <2>3, <2>4 DEF SpPort
<1>6. SpLine'
  BY DEF SpLine
<1>7. MpPort'
  <2>1. \A k \in 1 .. Len(co_list') : Mp(k)' =>
          MpAlone(co_list[k], TickToCome(k), Looked(k))'
    <3> SUFFICES ASSUME NEW k \in 1 .. Len(co_list), Mp(k)
                 PROVE  MpAlone(co_list[k], TickToCome(k), Looked(k))'
      BY <1>4
    <3>1. MpAlone(co_list[k], TickToCome(k), Looked(k))
      BY <1>1 DEF MpPort
    <3>2. co_list[k].pc = "lock" => mp_tvalid'
      <4> HAVE co_list[k].pc = "lock"
      <4>1. mp_tvalid /\ ~mp_tready
        BY <3>1 DEF MpAlone
      <4> QED BY <4>1, AtTick
    <3> QED BY <1>2, <1>3, <3>1, <3>2 DEF MpAlone
  <2> QED BY <1>1, <1>3, <1>4, <2>1 DEF MpPort
<1>8. ~Taking'
  BY <1>2 DEF Taking
<1>9. Carried(lo, hi)
  BY <1>1 DEF Words
<1>10. Unsent' \subseteq Unsent /\ Unsent \subseteq 1 .. Len(co_list)
  BY <1>2 DEF Unsent, Threads
<1>11. \A k \in Unsent : co_list[k].pc # "taken" => k \in Unsent'
  BY DEF Unsent, Threads
<1>12. \A k \in Unsent' : co_list[k].pc # "taken" /\ Sp(k)
  BY <1>2 DEF Unsent, Threads, Sp
<1>13. CASE g = 1
  <2>1. PICK k \in 1 .. Len(co_list) : Sp(k) /\ co_list[k].pc = "taken"
    BY <1>13, AtTick
  <2>2. /\ co_list[k].word = lo /\ lo < hi
        /\ \A m \in 1 .. Len(co_list) : Sp(m) /\ m # k => k < m
    BY <2>1, AtTick
  <2>3. k \in Unsent
    BY <1>2, <2>1 DEF Unsent, Threads, Sp
  <2>4. h = lo + 1
    BY <1>13
  <2>5. \A m \in Unsent' : m \in Unsent /\ k < m /\ co_list[m].word \in lo .. hi - 1
          /\ lo < co_list[m].word
    <3> SUFFICES ASSUME NEW m \in Unsent'
                 PROVE  m \in Unsent /\ k < m /\ co_list[m].word \in lo .. hi - 1
                          /\ lo < co_list[m].word
      OBVIOUS
    <3>1. m \in Unsent /\ m # k /\ Sp(m) /\ m \in 1 .. Len(co_list)
      BY <1>10, <1>12, <2>1
    <3>2. k < m
      BY <2>2, <3>1
    <3>3. co_list[k].word < co_list[m].word
      BY <1>9, <2>3, <3>1, <3>2 DEF Carried
    <3> QED BY <1>9, <2>2, <3>1, <3>2, <3>3 DEF Carried
  <2>6. \A m \in Unsent' : co_list'[m].word \in h .. hi - 1
    <3> SUFFICES ASSUME NEW m \in Unsent'
                 PROVE  co_list[m].word \in h .. hi - 1
      OBVIOUS
    <3>1. co_list[m].word \in lo .. hi - 1 /\ lo < co_list[m].word
      BY <2>5
    <3> QED BY <2>4, <3>1
  <2>7. \A word \in h .. hi - 1 : \E m \in Unsent' : co_list'[m].word = word
    <3> SUFFICES ASSUME NEW word \in h .. hi - 1
                 PROVE  \E m \in Unsent' : co_list[m].word = word
      OBVIOUS
    <3>1. word \in lo .. hi - 1 /\ word # lo
      BY <2>4
    <3>2. PICK m \in Unsent : co_list[m].word = word
      BY <1>9, <3>1 DEF Carried
    <3>3. m # k
      BY <2>2, <3>1, <3>2
    <3>4. co_list[m].pc # "taken"
      <4> SUFFICES ASSUME co_list[m].pc = "taken"
                   PROVE  FALSE
        OBVIOUS
      <4>1. Sp(m) /\ m \in 1 .. Len(co_list)
        BY DEF Unsent, Threads, Sp
      <4>2. co_list[m].word = lo
        BY <4>1, AtTick
      <4> QED BY <3>1, <3>2, <4>2
    <3> QED BY <1>11, <3>2, <3>4
  <2>8. \A m, n \in Unsent' : m < n => co_list'[m].word < co_list'[n].word
    BY <1>9, <1>10 DEF Carried
  <2>9. h <= hi
    BY <2>2, <2>4
  <2>10. Carried(h, hi)'
    BY <2>6, <2>7, <2>8, <2>9 DEF Carried
  <2> QED BY <1>5, <1>6, <1>7, <1>8, <2>10
<1>14. CASE g = 0
  <2>1. \A k \in Unsent : co_list[k].pc # "taken"
    <3> SUFFICES ASSUME NEW k \in Unsent, co_list[k].pc = "taken"
                 PROVE  FALSE
      OBVIOUS
    <3>1. Sp(k) /\ k \in 1 .. Len(co_list)
      BY DEF Unsent, Threads, Sp
    <3> QED BY <1>14, <3>1, AtTick
  <2>2. Unsent' = Unsent
    BY <1>10, <1>11, <2>1
  <2>3. h = lo
    BY <1>14
  <2>4. Carried(h, hi)'
    BY <1>9, <2>2, <2>3 DEF Carried
  <2> QED BY <1>5, <1>6, <1>7, <1>8, <2>4
<1> QED BY <1>5, <1>6, <1>7, <1>8, <1>13, <1>14

\* What a tick keeps, whether the call t = 1 effect at it or not.
LEMMA TickMoves ==
  ASSUME LoopInv, turn = "tick", turn' = "call",
         UNCHANGED <<pos, co_list, ports, device, stage, i>>,
         wait' \in Nat, rdata' \in Nat,
         NEW effect, Edge(effect),
         NEW t \in 0 .. 1, NEW g \in 0 .. 1, NEW p \in 0 .. 1, NEW r \in 0 .. 1,
         Passes(effect, t, g, p, r), p = 1 => stage = "put" /\ ~applied,
         Written' = Written + p, Read' = Read + r
  PROVE  /\ Typed' /\ SpPort' /\ SpLine' /\ MpPort' /\ Words'
         /\ p = 0 => Len(ps_to_pl') <= Len(ps_to_pl)
         /\ r = 0 => Len(pl_to_ps') >= Len(pl_to_ps)
         /\ tinit' <=> "tinit" \in effect
<1>1. Typed /\ Words /\ Program
  BY DEF LoopInv
<1>2. t = 1 <=> Taking
  BY Zenon DEF Passes
<1>3. g = 1 <=> sp # NoBeat /\ sp_tready
  BY Zenon DEF Passes
<1>4. p = 1 => i \in Data /\ i = Written
  <2> HAVE p = 1
  <2>1. stage = "put" /\ ~applied /\ i \in Nat
    BY <1>1 DEF Typed
  <2>2. i < Txn
    BY <1>1, <2>1 DEF Program, Running
  <2> QED BY <2>1, <2>2, LoopAssumption DEF Data, Written
<1>5. /\ ps_to_pl' \in Seq(Data) /\ pl_to_ps' \in Seq(Data)
      /\ Len(ps_to_pl') = Len(ps_to_pl) - t + p /\ Len(ps_to_pl') <= Els
      /\ Len(pl_to_ps') = Len(pl_to_ps) - r + g /\ Len(pl_to_ps') <= Els
      /\ Numbered(ps_to_pl', tx_tcount + t) /\ Numbered(pl_to_ps', Read + r)
      /\ tx_tcount' = tx_tcount + t /\ rx_tcount' = rx_tcount + g
      /\ tinit' <=> "tinit" \in effect
      /\ tstatus_r' <=> rx_success_lo \/ (tstatus_r /\ ~tinit)
  BY <1>4, EdgeMoves
<1>5a. tx_tcount' = tx_tcount + t /\ rx_tcount' = rx_tcount + g
  BY <1>5
<1>5b. /\ Len(ps_to_pl') = Len(ps_to_pl) - t + p
       /\ Len(pl_to_ps') = Len(pl_to_ps) - r + g
  BY <1>5
<1>6. /\ tx_tcount \in Nat /\ rx_tcount \in Nat /\ Given \in Nat /\ Txn \in Nat
      /\ Written \in Nat /\ Read \in Nat
      /\ Len(ps_to_pl) \in Nat /\ Len(pl_to_ps) \in Nat /\ Len(buffer) \in Nat
  <2>1. /\ rx_tcount \in Nat /\ Given \in Nat /\ Written \in 0 .. Txn /\ Read \in 0 .. Txn
    BY WordBounds
  <2>2. tx_tcount \in Nat /\ Txn \in Nat
    BY <1>1, LoopAssumption DEF Typed
  <2>3. Len(ps_to_pl) \in Nat /\ Len(pl_to_ps) \in Nat /\ Len(buffer) \in Nat
    BY <1>1, LenProperties DEF Typed
  <2> QED BY <2>1, <2>2, <2>3
<1>7. Typed'
  <2>1. sp' = sp /\ buffer' = buffer
    BY DEF ports, device
  <2>2. tx_tcount' \in Nat /\ rx_tcount' \in Nat
    BY <1>6, <1>5a
  <2> QED BY <1>1, <1>5, <2>1, <2>2 DEF Typed
<1>8. g = 1 => pl_to_ps' # << >>
  <2> HAVE g = 1
  <2>1. r <= Len(pl_to_ps)
    <3>1. r = 1 => Len(pl_to_ps) # 0
      BY <1>1 DEF Typed, Passes
    <3> QED BY <1>6, <3>1
  <2>2. Len(pl_to_ps') # 0
    BY <1>3, <1>5, <1>6, <2>1
  <2> QED BY <2>2
<1>9. ~Taking /\ mp_tvalid => mp_tvalid'
  <2> HAVE ~Taking /\ mp_tvalid
  <2>1. Len(ps_to_pl) # 0
    BY <1>1 DEF Typed, mp_tvalid
  <2>2. Len(ps_to_pl') # 0
    BY <1>2, <1>3, <1>5, <1>6, <2>1
  <2> QED BY <2>2 DEF mp_tvalid
<1>10. PICK lo \in Int, hi \in Int, h \in Int : lo = rx_tcount /\ hi = Given /\ h = lo + g
  BY <1>6
<1>11. SpPort' /\ SpLine' /\ MpPort' /\ ~Taking' /\ Carried(h, hi)'
  BY <1>2, <1>3, <1>8, <1>9, <1>10, TickPorts
<1>12. Given' = Given
  <2>1. buffer' = buffer
    BY DEF device
  <2>2. Collected' = tx_tcount + t
    BY <1>5, <1>6, <1>11 DEF Collected
  <2>3. Collected = tx_tcount + t
    BY <1>2, <1>3 DEF Collected
  <2> QED BY <2>1, <2>2, <2>3 DEF Given
<1>13. rx_tcount' = Txn => tstatus_r'
  <2> HAVE rx_tcount' = Txn
  <2>1. CASE g = 1
    <3>1. rx_tcount = Txn - 1
      BY <1>3, <1>5, <1>6, <2>1
    <3>2. PICK k \in 1 .. Len(co_list) : Sp(k) /\ co_list[k].pc = "taken"
      BY <1>3, <2>1, AtTick
    <3>3. /\ sp = [word |-> co_list[k].word, last |-> co_list[k].last]
          /\ co_list[k].word = rx_tcount
      BY <3>2, AtTick
    <3>4. co_list[k].last
      BY <3>1, <3>2, <3>3 DEF LoopInv, SpPort
    <3>5. sp.last = co_list[k].last
      BY <3>3
    <3>6. sp.last
      BY <3>4, <3>5, Zenon
    <3>7. rx_success_lo
      BY <1>3, <2>1, <3>1, <3>6 DEF rx_success_lo
    <3> QED BY <1>5, <3>7, Zenon
  <2>2. CASE g = 0
    <3>1. rx_tcount = Txn
      BY <1>3, <1>5, <1>6, <2>2
    <3>2. ~tinit
      BY <3>1, ClearsNothing, LoopAssumption
    <3>3. tstatus_r
      BY <1>1, <3>1 DEF Words
    <3> QED BY <1>5, <3>2, <3>3, Zenon
  <2> QED BY <2>1, <2>2
<1>14. Words'
  <2>1. FullMeansWhole'
    <3>1. (buffer_full' <=> buffer_full)
      BY Zenon DEF device
    <3>2. buffer' = buffer
      BY DEF device
    <3> QED BY <1>1, <3>1, <3>2 DEF Words, FullMeansWhole
  <2>2. Numbered(buffer, Given)'
    BY <1>1, <1>12 DEF Words, Numbered, device
  <2>3. Carried(rx_tcount, Given)'
    BY <1>5, <1>10, <1>11, <1>12 DEF Carried
  <2>4. tx_tcount' = Written' - Len(ps_to_pl') /\ rx_tcount' = Read' + Len(pl_to_ps')
    <3>1. tx_tcount = Written - Len(ps_to_pl) /\ rx_tcount = Read + Len(pl_to_ps)
      BY <1>1 DEF Words
    <3>2. PICK w \in Nat, x \in Nat, y \in Nat, z \in Nat :
            /\ w = Written /\ x = Read /\ y = Len(ps_to_pl) /\ z = Len(pl_to_ps)
            /\ Written' = w + p /\ Read' = x + r
            /\ Len(ps_to_pl') = y - t + p /\ Len(pl_to_ps') = z - r + g
      BY <1>5, <1>6
    <3>3. tx_tcount' = w - y + t /\ rx_tcount' = x + z + g
      BY <1>5, <3>1, <3>2
    <3>4. w - y + t = (w + p) - (y - t + p) /\ x + z + g = (x + r) + (z - r + g)
      BY <3>2
    <3> QED BY <3>2, <3>3, <3>4, Zenon
  <2>5. Numbered(ps_to_pl, tx_tcount)' /\ Numbered(pl_to_ps, Read)'
    BY <1>5 DEF Numbered
  <2> QED BY <1>13, <2>1, <2>2, <2>3, <2>4, <2>5 DEF Words
<1>15. (p = 0 => Len(ps_to_pl') <= Len(ps_to_pl)) /\ (r = 0 => Len(pl_to_ps') >= Len(pl_to_ps))
  BY <1>6, <1>5b
<1> QED BY <1>5, <1>7, <1>11, <1>14, <1>15

LEMMA LoopTickFalse == LoopInv /\ Tick(FALSE) => LoopInv'
<1> SUFFICES ASSUME LoopInv, Tick(FALSE)
             PROVE  LoopInv'
  OBVIOUS
<1>1. Typed /\ Program
  BY DEF LoopInv
<1>2. /\ turn = "tick" /\ turn' = "call" /\ Edge({})
      /\ wait' = (IF wait = 0 THEN 0 ELSE wait - 1) /\ rdata' = rdata
      /\ stage' = stage /\ i' = i
  BY DEF Tick
<1>3. (applied' <=> applied) /\ UNCHANGED <<pos, co_list, ports, device, stage, i>>
  BY Zenon DEF Tick
<1>4. PICK effect : effect = {}
  OBVIOUS
<1>5. PICK t \in 0 .. 1, g \in 0 .. 1, p \in 0 .. 1, r \in 0 .. 1 :
        Passes(effect, t, g, p, r) /\ p = 0 /\ r = 0
  <2>1. PICK t \in 0 .. 1, g \in 0 .. 1, p \in 0 .. 1, r \in 0 .. 1 :
          Passes(effect, t, g, p, r)
    BY SomePass
  <2>2. p = 0 /\ r = 0
    BY <1>4, <2>1 DEF Passes
  <2> QED BY <2>1, <2>2, Zenon
<1>6. wait' \in Nat /\ rdata' \in Nat
  BY <1>1, <1>2 DEF Typed
<1>7. Written' = Written + p /\ Read' = Read + r
  <2>1. Written' = Written /\ Read' = Read
    BY <1>2, <1>3 DEF Written, Read
  <2> QED BY <1>5, <2>1, WordBounds
<1>8. /\ Typed' /\ SpPort' /\ SpLine' /\ MpPort' /\ Words'
      /\ Len(ps_to_pl') <= Len(ps_to_pl)
      /\ Len(pl_to_ps') >= Len(pl_to_ps)
      /\ ~tinit'
  <2>1. Edge(effect) /\ (p = 1 => stage = "put" /\ ~applied)
    BY <1>2, <1>4, <1>5
  <2>2. /\ Typed' /\ SpPort' /\ SpLine' /\ MpPort' /\ Words'
        /\ p = 0 => Len(ps_to_pl') <= Len(ps_to_pl)
        /\ r = 0 => Len(pl_to_ps') >= Len(pl_to_ps)
        /\ tinit' <=> "tinit" \in effect
    BY <1>2, <1>3, <1>5, <1>6, <1>7, <2>1, TickMoves
  <2> QED BY <1>4, <1>5, <2>2
<1>9. PICK a \in Nat, b \in Nat, c \in Nat, d \in Nat :
        a = Len(ps_to_pl) /\ b = Len(ps_to_pl') /\ c = Len(pl_to_ps) /\ d = Len(pl_to_ps')
  <2>1. Len(ps_to_pl) \in Nat /\ Len(pl_to_ps) \in Nat
    BY <1>1 DEF Typed
  <2>2. Len(ps_to_pl') \in Nat /\ Len(pl_to_ps') \in Nat
    BY <1>8 DEF Typed
  <2> QED BY <2>1, <2>2
<1>10. Program'
  <2>1. stage = "room" /\ applied => rdata <= Els - Len(ps_to_pl')
    BY <1>1, <1>8, <1>9, LoopAssumption DEF Program, Typed
  <2>2. stage = "put" /\ ~applied => Len(ps_to_pl') < Els
    BY <1>1, <1>8, <1>9, LoopAssumption DEF Program
  <2>3. stage = "fill" /\ applied => rdata <= Len(pl_to_ps')
    BY <1>1, <1>8, <1>9 DEF Program, Typed
  <2>4. stage = "get" /\ ~applied => pl_to_ps' # << >>
    <3> HAVE stage = "get" /\ ~applied
    <3>1. Len(pl_to_ps) # 0
      BY <1>1 DEF Program, Typed
    <3>2. Len(pl_to_ps') # 0
      BY <1>8, <1>9, <3>1
    <3> QED BY <3>2
  <2> QED BY <1>1, <1>2, <1>3, <1>8, <2>1, <2>2, <2>3, <2>4 DEF Program, Running
<1> QED BY <1>8, <1>10 DEF LoopInv

\* The tick at which the call takes effect.
LEMMA LoopTickTrue == LoopInv /\ Tick(TRUE) => LoopInv'
<1> SUFFICES ASSUME LoopInv, Tick(TRUE)
             PROVE  LoopInv'
  OBVIOUS
<1>1. Typed /\ Words /\ Program
  BY DEF LoopInv
<1>2. /\ turn = "tick" /\ turn' = "call" /\ Edge({stage})
      /\ wait' = Latency /\ rdata' = ReadValue
      /\ stage' = stage /\ i' = i
  BY DEF Tick
<1>3. ~applied /\ applied' /\ UNCHANGED <<pos, co_list, ports, device, stage, i>>
  BY Zenon DEF Tick
<1>4. PICK effect : effect = {stage}
  OBVIOUS
<1>5. PICK t \in 0 .. 1, g \in 0 .. 1, p \in 0 .. 1, r \in 0 .. 1 :
        Passes(effect, t, g, p, r)
  BY SomePass
<1>6. (p = 1 <=> stage = "put") /\ (r = 1 <=> stage = "get")
  <2>1. stage = "put" => Len(ps_to_pl) < Els
    BY <1>1, <1>3 DEF Program
  <2>2. stage = "get" => pl_to_ps # << >>
    BY <1>1, <1>3 DEF Program
  <2>3. ("put" \in effect <=> stage = "put") /\ ("get" \in effect <=> stage = "get")
        /\ ("tinit" \in effect <=> stage = "tinit")
    BY <1>4
  <2> QED BY <1>5, <2>1, <2>2, <2>3, Zenon DEF Passes
<1>7. /\ i \in Nat /\ rdata \in Nat /\ Els \in Nat /\ Txn \in Nat /\ Latency \in Nat
      /\ Len(ps_to_pl) \in Nat /\ Len(pl_to_ps) \in Nat
      /\ Len(ps_to_pl) <= Els
  BY <1>1, LoopAssumption, LenProperties DEF Typed
<1>8. Written' = Written + p /\ Read' = Read + r
  <2>1. CASE stage = "put"
    <3>1. p = 1 /\ r = 0
      BY <1>6, <2>1
    <3> QED BY <1>2, <1>3, <1>7, <2>1, <3>1 DEF Written, Read
  <2>2. CASE stage = "get"
    <3>1. p = 0 /\ r = 1
      BY <1>6, <2>2
    <3> QED BY <1>2, <1>3, <1>7, <2>2, <3>1 DEF Written, Read
  <2>3. CASE stage \notin {"put", "get"}
    <3>1. p = 0 /\ r = 0
      BY <1>6, <2>3
    <3> QED BY <1>2, <1>3, <1>7, <2>3, <3>1 DEF Written, Read
  <2> QED BY <2>1, <2>2, <2>3
<1>9. stage = "get" => rdata' = i
  <2> HAVE stage = "get"
  <2>1. pl_to_ps # << >> /\ pl_to_ps \in Seq(Data)
    BY <1>1, <1>3 DEF Program, Typed
  <2>2. rdata' = pl_to_ps[1] /\ 1 \in 1 .. Len(pl_to_ps)
    BY <1>2, <2>1 DEF ReadValue
  <2>3. Read = i
    BY <1>3, <1>7 DEF Read
  <2> QED BY <1>1, <1>7, <2>2, <2>3 DEF Words, Numbered
<1>10. stage = "status" => rdata' = 1
  <2> HAVE stage = "status"
  <2>1. Read = Txn /\ Written = Txn
    BY DEF Read, Written
  <2>2. rx_tcount = Txn
    <3>1. rx_tcount = Txn + Len(pl_to_ps)
      BY <1>1, <2>1 DEF Words
    <3>2. rx_tcount <= Given /\ Collected <= Txn
      BY <2>1, WordBounds
    <3>3. Given = Collected - Len(buffer) /\ Len(buffer) \in Nat
      BY <1>1, LenProperties DEF Given, Typed
    <3>4. rx_tcount \in Nat /\ Given \in Nat /\ Collected \in Nat
      BY WordBounds
    <3> QED BY <1>7, <3>1, <3>2, <3>3, <3>4
  <2>3. tstatus_r
    BY <1>1, <2>2 DEF Words
  <2> QED BY <1>2, <2>3 DEF ReadValue
<1>11. /\ stage = "check" => rdata' = 0
       /\ stage = "room" => rdata' = Els - Len(ps_to_pl)
       /\ stage = "fill" => rdata' = Len(pl_to_ps)
  BY <1>2 DEF ReadValue
<1>12. wait' \in Nat /\ rdata' \in Nat
  <2>1. stage \notin {"check", "room", "fill", "get", "status"} => rdata' = rdata
    BY <1>2 DEF ReadValue
  <2>2. Els - Len(ps_to_pl) \in Nat
    BY <1>7
  <2> QED BY <1>2, <1>7, <1>9, <1>10, <1>11, <2>1, <2>2
<1>13. /\ Typed' /\ SpPort' /\ SpLine' /\ MpPort' /\ Words'
       /\ p = 0 => Len(ps_to_pl') <= Len(ps_to_pl)
       /\ r = 0 => Len(pl_to_ps') >= Len(pl_to_ps)
       /\ tinit' <=> "tinit" \in effect
  <2>1. Edge(effect) /\ (p = 1 => stage = "put" /\ ~applied)
    BY <1>2, <1>3, <1>4, <1>6
  <2> QED BY <1>2, <1>3, <1>5, <1>8, <1>12, <2>1, TickMoves
<1>14. tinit' => stage = "tinit"
  BY <1>4, <1>13
<1>15. Program'
  <2>1. stage = "room" => rdata' <= Els - Len(ps_to_pl')
    <3> HAVE stage = "room"
    <3>1. p = 0
      BY <1>6
    <3>2. Len(ps_to_pl') \in Nat
      BY <1>13, LenProperties DEF Typed
    <3> QED BY <1>7, <1>11, <1>13, <3>1, <3>2
  <2>2. stage = "fill" => rdata' <= Len(pl_to_ps')
    <3> HAVE stage = "fill"
    <3>1. r = 0
      BY <1>6
    <3>2. Len(pl_to_ps') \in Nat
      BY <1>13, LenProperties DEF Typed
    <3> QED BY <1>7, <1>11, <1>13, <3>1, <3>2
  <2> QED BY <1>1, <1>2, <1>3, <1>9, <1>10, <1>11, <1>14, <2>1, <2>2
        DEF Program, Running
<1> QED BY <1>13, <1>15 DEF LoopInv

(***************************************************************************)
(* When the program only ticks the clock there is nothing left to move.    *)
(***************************************************************************)
LEMMA Drained ==
  ASSUME LoopInv, turn = "call", stage = "ticks"
  PROVE  ps_to_pl = << >> /\ pl_to_ps = << >> /\ sp = NoBeat /\ ~tinit
<1>1. Typed /\ Words /\ Program /\ SpPort
  BY DEF LoopInv
<1>2. Read = Txn /\ Written = Txn
  BY DEF Read, Written
<1>3. ~Taking
  BY DEF Taking, TickToCome
<1>4. /\ tx_tcount \in Nat /\ rx_tcount \in Nat /\ Txn \in Nat
      /\ Len(ps_to_pl) \in Nat /\ Len(pl_to_ps) \in Nat /\ Len(buffer) \in Nat
  BY <1>1, LoopAssumption, LenProperties DEF Typed
<1>5. /\ tx_tcount = Txn - Len(ps_to_pl) /\ rx_tcount = Txn + Len(pl_to_ps)
      /\ Given = tx_tcount - Len(buffer) /\ rx_tcount <= Given
  <2>1. tx_tcount = Txn - Len(ps_to_pl) /\ rx_tcount = Txn + Len(pl_to_ps)
    BY <1>1, <1>2 DEF Words
  <2>2. Collected = tx_tcount
    BY <1>3, <1>4 DEF Collected
  <2> QED BY <2>1, <2>2, WordBounds DEF Given
<1>6. Len(ps_to_pl) = 0 /\ Len(pl_to_ps) = 0 /\ rx_tcount = Txn /\ Given = Txn
  BY <1>4, <1>5
<1>7. ps_to_pl = << >> /\ pl_to_ps = << >>
  BY <1>1, <1>6 DEF Typed
<1>8. Unsent = {}
  <2> SUFFICES ASSUME NEW k \in Unsent
               PROVE  FALSE
    OBVIOUS
  <2>1. co_list[k].word \in Txn .. Txn - 1
    BY <1>1, <1>6 DEF Words, Carried
  <2> QED BY <1>4, <2>1
<1>9. sp = NoBeat
  <2>1. CASE sp_mutex
    <3>1. PICK k \in 1 .. Len(co_list) : Sp(k) /\ ~Waits(k)
      BY <1>1, <2>1 DEF SpPort
    <3>2. SpOwner(co_list[k], TickToCome(k))
      BY <1>1, <3>1 DEF SpPort
    <3>3. co_list[k].pc \in Yields
      <4>1. co_list[k] \in Thread
        BY <1>1 DEF Typed
      <4> QED BY <4>1 DEF Thread
    <3>4. co_list[k].pc # "offer"
      BY <1>8, <3>1 DEF Unsent, Threads, Sp
    <3>5. co_list[k].pc # "taken"
      BY <1>7, <3>2 DEF SpOwner, TickToCome
    <3> QED BY <3>1, <3>2, <3>3, <3>4, <3>5 DEF SpOwner, Waits, Yields
  <2>2. CASE ~sp_mutex
    BY <1>1, <2>2 DEF SpPort
  <2> QED BY <2>1, <2>2
<1>10. ~tinit
  BY <1>1 DEF Program
<1> QED BY <1>7, <1>9, <1>10

LEMMA LoopRawTick == LoopInv /\ RawTick => LoopInv'
<1> SUFFICES ASSUME LoopInv, RawTick
             PROVE  LoopInv'
  OBVIOUS
<1>1. Typed /\ SpPort /\ SpLine /\ MpPort /\ Words /\ Program
  BY DEF LoopInv
<1>2. /\ turn = "call" /\ stage = "ticks" /\ stage' = stage /\ i' = i + 1
      /\ turn' = turn /\ pos' = pos /\ co_list' = co_list
      /\ wait' = wait /\ rdata' = rdata
  BY DEF RawTick, scheduler
<1>3. UNCHANGED <<ports, device>> /\ Edge({})
  BY Zenon DEF RawTick
<1>4. ps_to_pl = << >> /\ pl_to_ps = << >> /\ sp = NoBeat /\ ~tinit
  BY <1>2, Drained
<1>5. ps_to_pl' = << >> /\ pl_to_ps' = << >>
  <2>1. ps_to_pl' = << >> \o << >> /\ pl_to_ps' = << >> \o << >>
    BY <1>3, <1>4 DEF Edge, mp_tvalid
  <2>2. << >> \in Seq(Data) /\ Len(<< >>) = 0
    BY EmptySeq
  <2>3. << >> \o << >> \in Seq(Data) /\ Len(<< >> \o << >>) = 0
    BY <2>2, ConcatProperties
  <2>4. << >> \o << >> = << >>
    BY <2>3, EmptySeq
  <2> QED BY <2>1, <2>4
<1>6. tx_tcount' = tx_tcount /\ rx_tcount' = rx_tcount
  <2>1. /\ tx_tcount' = Counter(tx_tcount, tinit, mp_tready /\ mp_tvalid)
        /\ rx_tcount' = Counter(rx_tcount, tinit, sp # NoBeat /\ sp_tready)
    BY <1>3 DEF Edge
  <2>2. ~tinit /\ ~(mp_tready /\ mp_tvalid) /\ ~(sp # NoBeat /\ sp_tready)
    BY <1>4 DEF mp_tvalid
  <2>3. tx_tcount \in Nat /\ rx_tcount \in Nat
    BY <1>1 DEF Typed
  <2> QED BY <2>1, <2>2, <2>3 DEF Counter
<1>7. ~tinit' /\ (tstatus_r => tstatus_r')
  <2>1. /\ tinit' <=> "tinit" \in {}
        /\ tstatus_r' <=> rx_success_lo \/ (tstatus_r /\ ~tinit)
    BY <1>3, Zenon DEF Edge
  <2>2. "tinit" \notin {}
    OBVIOUS
  <2> QED BY <1>4, <2>1, <2>2, Zenon
<1>8. /\ sp' = sp /\ buffer' = buffer
      /\ (buffer_full' <=> buffer_full) /\ (sp_mutex' <=> sp_mutex)
  BY <1>3, Zenon DEF ports, device
<1>9. Typed'
  <2>1. ps_to_pl' = ps_to_pl /\ pl_to_ps' = pl_to_ps
    BY <1>4, <1>5
  <2>2. i' \in Nat
    BY <1>1, <1>2 DEF Typed
  <2> QED BY <1>1, <1>2, <1>6, <1>8, <2>1, <2>2 DEF Typed
<1>10. PICK lo \in Int, hi \in Int : lo = rx_tcount /\ hi = Given /\ Carried(lo, hi)
  BY <1>1, WordBounds DEF Words, LoopInv
<1>11. SpPort' /\ MpPort' /\ (Taking' <=> Taking) /\ Carried(lo, hi)'
  <2>1. \A k \in 1 .. Len(co_list) : TickToCome(k)' <=> TickToCome(k)
    BY <1>2 DEF TickToCome
  <2>2. \A k \in 1 .. Len(co_list) : Looked(k)' => Looked(k)
    BY <1>2 DEF Looked
  <2>3. UNCHANGED ports /\ ps_to_pl' = ps_to_pl /\ pl_to_ps' = pl_to_ps
    BY <1>3, <1>4, <1>5
  <2> QED BY <1>1, <1>2, <1>9, <1>10, <2>1, <2>2, <2>3, AllRest
<1>12. SpLine'
  BY <1>2 DEF SpLine
<1>13. Written' = Written /\ Read' = Read
  BY <1>2 DEF Written, Read
<1>14. Words'
  <2>1. Given' = Given
    BY <1>6, <1>8, <1>11 DEF Given, Collected
  <2>2. FullMeansWhole'
    BY <1>1, <1>8 DEF Words, FullMeansWhole
  <2>3. Carried(rx_tcount, Given)'
    BY <1>6, <1>10, <1>11, <2>1 DEF Carried
  <2>4. /\ Numbered(ps_to_pl, tx_tcount)' /\ Numbered(pl_to_ps, Read)'
        /\ Numbered(buffer, Given)'
    BY <1>1, <1>4, <1>5, <1>6, <1>8, <1>13, <2>1 DEF Words, Numbered
  <2>5. tx_tcount' = Written' - Len(ps_to_pl') /\ rx_tcount' = Read' + Len(pl_to_ps')
    BY <1>1, <1>4, <1>5, <1>6, <1>13 DEF Words
  <2>6. rx_tcount' = Txn => tstatus_r'
    BY <1>1, <1>6, <1>7 DEF Words
  <2> QED BY <2>1, <2>2, <2>3, <2>4, <2>5, <2>6 DEF Words
<1>15. Program'
  BY <1>2, <1>7 DEF Program, Running
<1> QED BY <1>9, <1>11, <1>12, <1>14, <1>15 DEF LoopInv

-----------------------------------------------------------------------------
(***************************************************************************)
(* The invariant of the loop.                                              *)
(***************************************************************************)
LEMMA LoopStarts == LoopInit => LoopInv
<1> SUFFICES ASSUME LoopInit
             PROVE  LoopInv
  OBVIOUS
<1>1. /\ turn = "sweep" /\ pos = 1 /\ co_list = << >> /\ sp = NoBeat
      /\ buffer = << >> /\ ps_to_pl = << >> /\ pl_to_ps = << >>
      /\ tx_tcount = 0 /\ rx_tcount = 0
      /\ stage = "tinit" /\ i = 0 /\ wait = 0 /\ rdata = 0
  BY DEF LoopInit, SchedulerInit
<1>2. /\ ~mp_mutex /\ ~mp_tready /\ ~sp_mutex /\ ~buffer_full /\ ~tinit /\ ~applied
  BY Zenon DEF LoopInit
<1>3. Txn \in Nat \ {0} /\ Els \in Nat
  BY LoopAssumption
<1>4. Typed
  BY <1>1, <1>3 DEF Typed, Stages
<1>5. 1 .. Len(co_list) = {}
  BY <1>1
<1>6. SpPort /\ SpLine /\ MpPort /\ ~Taking /\ Unsent = {}
  BY <1>1, <1>2, <1>5 DEF SpPort, SpLine, MpPort, Taking, Unsent, Threads
<1>7. Words
  <2>1. Written = 0 /\ Read = 0 /\ Given = 0
    BY <1>1, <1>6 DEF Written, Read, Given, Collected
  <2>2. Carried(rx_tcount, Given)
    BY <1>1, <1>6, <2>1 DEF Carried
  <2>3. FullMeansWhole
    BY <1>1, <1>2 DEF FullMeansWhole
  <2>4. Numbered(ps_to_pl, tx_tcount) /\ Numbered(pl_to_ps, Read) /\ Numbered(buffer, Given)
    BY <1>1 DEF Numbered
  <2>5. tx_tcount = Written - Len(ps_to_pl) /\ rx_tcount = Read + Len(pl_to_ps)
    <3>1. Len(ps_to_pl) = 0 /\ Len(pl_to_ps) = 0
      BY <1>1, EmptySeq
    <3>2. 0 = 0 - 0 /\ 0 = 0 + 0
      OBVIOUS
    <3> QED BY <1>1, <2>1, <3>1, <3>2
  <2>6. rx_tcount # Txn
    BY <1>1, <1>3
  <2> QED BY <2>2, <2>3, <2>4, <2>5, <2>6, Zenon DEF Words
<1>8. Program
  BY <1>1, <1>2, <1>3 DEF Program, Running
<1> QED BY <1>4, <1>6, <1>7, <1>8 DEF LoopInv

LEMMA LoopStep == LoopInv /\ [LoopNext]_loopVars => LoopInv'
BY LoopMpReceive, LoopMpTaken, LoopMpUnlock, LoopSpLock, LoopSpOffer, LoopSpTaken,
   LoopSpUnlock, LoopSwept, LoopPollM, LoopPollS, LoopTickTrue, LoopTickFalse,
   LoopAgain, LoopReturn, LoopRawTick, LoopStop, LoopStutter, Zenon
   DEF LoopNext, Stopped

(***************************************************************************)
(* In every state of the loop the ports, the words on their way, the flag  *)
(* of the buffer and the counts the program has read fit together.         *)
(***************************************************************************)
THEOREM LoopInvariant == LoopSpec => []LoopInv
<1>1. LoopInit => LoopInv
  BY LoopStarts
<1>2. LoopInv /\ [LoopNext]_loopVars => LoopInv'
  BY LoopStep
<1> QED BY <1>1, <1>2, PTL DEF LoopSpec

LEMMA HeldByOne == LoopInv => PortHeldByOne
<1> SUFFICES ASSUME LoopInv
             PROVE  PortHeldByOne
  OBVIOUS
<1>1. Typed /\ SpPort /\ MpPort
  BY DEF LoopInv
<1>2. \A k : k \in Holders("sp") <=> k \in 1 .. Len(co_list) /\ Sp(k) /\ ~Waits(k)
  BY DEF Holders, Threads, Sp, Waits
<1>3. \A k : k \in Holders("mp") <=> k \in 1 .. Len(co_list) /\ Mp(k) /\ ~Waits(k)
  BY DEF Holders, Threads, Mp, Waits
<1>4. \A k, m \in Holders("sp") : k = m
  <2> SUFFICES ASSUME NEW k \in Holders("sp"), NEW m \in Holders("sp")
               PROVE  ~(k < m) /\ ~(m < k)
    BY <1>2
  <2> QED BY <1>1, <1>2 DEF SpPort
<1>5. \A k, m \in Holders("mp") : k = m
  BY <1>1, <1>3 DEF MpPort
<1>6. \A k \in Holders("sp") : SpOwner(co_list[k], TickToCome(k))
  BY <1>1, <1>2 DEF SpPort
<1>7. sp_mutex <=> Holders("sp") # {}
  <2>1. sp_mutex => \E k \in 1 .. Len(co_list) : Sp(k) /\ ~Waits(k)
    BY <1>1 DEF SpPort
  <2>2. \A k \in Holders("sp") : sp_mutex
    BY <1>6 DEF SpOwner
  <2> QED BY <1>2, <2>1, <2>2
<1>8. mp_mutex <=> Holders("mp") # {}
  <2>1. \A k \in 1 .. Len(co_list) : Mp(k) => (mp_mutex <=> ~Waits(k))
    BY <1>1 DEF MpPort, MpAlone, Waits
  <2>2. mp_mutex => \E k \in 1 .. Len(co_list) : Mp(k)
    BY <1>1 DEF MpPort
  <2> QED BY <1>3, <2>1, <2>2
<1>9. sp # NoBeat <=> \E k \in Holders("sp") :
                        /\ co_list[k].pc # "unlock"
                        /\ sp = [word |-> co_list[k].word, last |-> co_list[k].last]
  <2>1. ASSUME sp # NoBeat
        PROVE  \E k \in Holders("sp") :
                        /\ co_list[k].pc # "unlock"
                        /\ sp = [word |-> co_list[k].word, last |-> co_list[k].last]
    <3>1. sp_mutex
      BY <1>1, <2>1 DEF SpPort
    <3>2. PICK k \in Holders("sp") : TRUE
      BY <1>7, <3>1
    <3> QED BY <1>6, <2>1, <3>2 DEF SpOwner
  <2>2. ASSUME NEW k \in Holders("sp"),
               sp = [word |-> co_list[k].word, last |-> co_list[k].last]
        PROVE  sp # NoBeat
    <3>1. co_list[k] \in Thread
      BY <1>1, <1>2 DEF Typed
    <3>2. co_list[k].word \in Data /\ co_list[k].last \in BOOLEAN
      BY <3>1 DEF Thread
    <3>3. sp \in Beats
      BY <2>2, <3>2, Zenon DEF Beats
    <3> QED BY <3>3, LoopAssumption
  <2> QED BY <2>1, <2>2
<1>10. mp_tready <=> \E k \in Holders("mp") : co_list[k].pc # "unlock"
  <2>1. \A k \in 1 .. Len(co_list) : Mp(k) => (mp_tready <=> co_list[k].pc = "taken")
    BY <1>1 DEF MpPort, MpAlone
  <2>2. mp_tready => \E k \in 1 .. Len(co_list) : Mp(k)
    BY <1>1 DEF MpPort
  <2>3. \A k \in Holders("mp") : co_list[k].pc \in {"taken", "unlock"}
    <3> SUFFICES ASSUME NEW k \in Holders("mp")
                 PROVE  co_list[k].pc \in {"taken", "unlock"}
      OBVIOUS
    <3>1. co_list[k] \in Thread /\ Mp(k) /\ ~Waits(k) /\ k \in 1 .. Len(co_list)
      BY <1>1, <1>3 DEF Typed
    <3>2. co_list[k].pc \in Yields
      BY <3>1 DEF Thread
    <3>3. co_list[k].pc # "offer"
      BY <1>1, <3>1 DEF MpPort, MpAlone
    <3> QED BY <3>1, <3>2, <3>3 DEF Yields, Waits
  <2> QED BY <1>3, <2>1, <2>2, <2>3 DEF Waits
<1> QED BY <1>4, <1>5, <1>7, <1>8, <1>9, <1>10 DEF PortHeldByOne

(***************************************************************************)
(* However many words wait, each stream port is driven by the one          *)
(* coroutine that holds its mutex, and its pins are that coroutine's.      *)
(***************************************************************************)
THEOREM OneDriver == LoopSpec => []PortHeldByOne
BY LoopInvariant, HeldByOne, PTL

(***************************************************************************)
(* For every length of the transaction the buffer is full exactly while it *)
(* holds the word with TLAST: no word is asked of an empty buffer, and     *)
(* none is taken in among the words of a transaction being given away.     *)
(***************************************************************************)
THEOREM BufferFullWhenWhole == LoopSpec => []FullMeansWhole
<1>1. LoopInv => FullMeansWhole
  BY DEF LoopInv, Words
<1> QED BY <1>1, LoopInvariant, PTL

(***************************************************************************)
(* The assertions of the program hold: each word read back is the one that *)
(* was written, and TSTATUS reads 1 after the last.                        *)
(***************************************************************************)
THEOREM ProgramAsserts == LoopSpec => []AssertsHold
<1>1. LoopInv => AssertsHold
  BY DEF LoopInv, Program, AssertsHold
<1> QED BY <1>1, LoopInvariant, PTL

LEMMA InOrder == LoopInv => WordsInOrder
<1> SUFFICES ASSUME LoopInv
             PROVE  WordsInOrder
  OBVIOUS
<1>1. Typed /\ Words
  BY DEF LoopInv
<1>2. PICK t \in 0 .. 1 : (t = 1 <=> Taking)
  OBVIOUS
<1>3. ToTake = IF t = 1 THEN Tail(ps_to_pl) ELSE ps_to_pl
  BY <1>2 DEF ToTake, Taking, Mp
<1>4. t = 1 => ps_to_pl # << >>
  <2> HAVE t = 1
  <2>1. PICK k \in 1 .. Len(co_list) : Mp(k) /\ co_list[k].pc = "taken" /\ TickToCome(k)
    BY <1>2 DEF Taking
  <2> QED BY <2>1 DEF LoopInv, MpPort, MpAlone, mp_tvalid
<1>5. PICK q \in Seq(Data), a \in Seq(Data) : q = ps_to_pl /\ a = buffer
  BY <1>1 DEF Typed
<1>6. /\ ToTake \in Seq(Data) /\ Len(ToTake) = Len(q) - t
      /\ \A n \in 1 .. Len(ToTake) : n + t \in 1 .. Len(q) /\ ToTake[n] = q[n + t]
  <2>1. CASE t = 1
    <3>1. ToTake = Tail(q) /\ q # << >>
      BY <1>3, <1>4, <1>5, <2>1
    <3> QED BY <2>1, <3>1, HeadTailProperties
  <2>2. CASE t = 0
    <3>1. ToTake = q
      BY <1>3, <1>5, <2>2
    <3>2. Len(q) \in Nat /\ \A n \in 1 .. Len(q) : n + 0 = n
      OBVIOUS
    <3> QED BY <2>2, <3>1, <3>2
  <2> QED BY <2>1, <2>2
<1>7. PICK b \in Seq(Data) : b = ToTake
  BY <1>6
<1>8. PICK behind : behind = a \o b
  OBVIOUS
<1>9. /\ behind \in Seq(Data) /\ Len(behind) = Len(a) + Len(b)
      /\ \A n \in 1 .. Len(a) + Len(b) :
           behind[n] = IF n <= Len(a) THEN a[n] ELSE b[n - Len(a)]
  BY <1>8, ConcatProperties, Zenon
<1>10. PICK lq \in Nat, la \in Nat, lb \in Nat, tx \in Nat, w \in Nat, g \in Nat :
         /\ lq = Len(q) /\ la = Len(a) /\ lb = Len(b)
         /\ tx = tx_tcount /\ w = Written /\ g = Given
         /\ lb = lq - t /\ tx = w - lq /\ g = tx + t - la
  <2>1. Len(q) \in Nat /\ Len(a) \in Nat /\ Len(b) \in Nat
    BY LenProperties
  <2>2. tx_tcount \in Nat /\ Written \in Nat /\ Given \in Nat
    BY <1>1, WordBounds DEF Typed
  <2>3. Len(b) = Len(q) - t
    BY <1>6, <1>7
  <2>4. tx_tcount = Written - Len(q)
    BY <1>1, <1>5 DEF Words
  <2>5. Given = tx_tcount + t - Len(a)
    BY <1>2, <1>5, <2>2 DEF Given, Collected
  <2> QED BY <2>1, <2>2, <2>3, <2>4, <2>5, Zenon
<1>11. Written - Len(behind) = g
  <2>1. Len(behind) = la + lb
    BY <1>9, <1>10
  <2>2. w - (la + lb) = g
    BY <1>10
  <2> QED BY <1>10, <2>1, <2>2
<1>12. \A n \in 1 .. Len(behind) : behind[n] = g + n - 1
  <2> SUFFICES ASSUME NEW n \in 1 .. la + lb
               PROVE  behind[n] = g + n - 1
    BY <1>9, <1>10
  <2>1. CASE n <= la
    <3>1. behind[n] = a[n] /\ n \in 1 .. la
      BY <1>9, <1>10, <2>1
    <3>2. a[n] = g + n - 1
      BY <1>1, <1>5, <1>10, <3>1 DEF Words, Numbered
    <3> QED BY <3>1, <3>2
  <2>2. CASE ~(n <= la)
    <3>1. n - la \in 1 .. lb
      BY <2>2
    <3>2. behind[n] = b[n - la]
      BY <1>9, <1>10, <2>2
    <3>3. b[n - la] = q[(n - la) + t] /\ (n - la) + t \in 1 .. lq
      BY <1>6, <1>7, <1>10, <3>1
    <3>4. q[(n - la) + t] = tx + ((n - la) + t) - 1
      BY <1>1, <1>5, <1>10, <3>3 DEF Words, Numbered
    <3>5. tx + ((n - la) + t) - 1 = g + n - 1
      BY <1>10
    <3> QED BY <3>2, <3>3, <3>4, <3>5, Zenon
  <2> QED BY <2>1, <2>2
<1>13. /\ \A n \in 1 .. Len(pl_to_ps) : pl_to_ps[n] = Read + n - 1
       /\ Carried(Read + Len(pl_to_ps), g)
  <2>1. Numbered(pl_to_ps, Read) /\ rx_tcount = Read + Len(pl_to_ps) /\ Carried(rx_tcount, g)
    BY <1>1, <1>10 DEF Words
  <2> QED BY <2>1, Zenon DEF Numbered
<1>14. behind = buffer \o ToTake
  BY <1>5, <1>7, <1>8
<1> QED BY <1>11, <1>12, <1>13, <1>14, Zenon DEF WordsInOrder

(***************************************************************************)
(* No word of the transaction is lost, doubled or overtaken, whatever its  *)
(* length, the size of the FIFOs and the latency of the calls.             *)
(***************************************************************************)
THEOREM InOrderAlways == LoopSpec => []WordsInOrder
BY LoopInvariant, InOrder, PTL

LEMMA BeatStays ==
  LoopInv /\ [LoopNext]_loopVars =>
    (sp # NoBeat /\ sp' # sp => \E k \in Holders("sp") : co_list[k].pc = "taken")
<1> SUFFICES ASSUME LoopInv, [LoopNext]_loopVars, sp # NoBeat, sp' # sp
             PROVE  \E k \in Holders("sp") : co_list[k].pc = "taken"
  OBVIOUS
<1>1. ~(UNCHANGED loopVars)
  BY DEF loopVars, ports
<1>2. sp_mutex
  BY DEF LoopInv, SpPort
<1>3. SpTaken
  <2>1. ~MpReceive /\ ~MpTaken /\ ~MpUnlock /\ ~SpOffer /\ ~SpUnlock /\ ~Swept
    BY DEF MpReceive, MpTaken, MpUnlock, SpOffer, SpUnlock, Swept, ports
  <2>2. ~PollM /\ ~PollS /\ ~Tick(TRUE) /\ ~Tick(FALSE)
    BY DEF PollM, PollS, Tick, ports
  <2>3. ~Again /\ ~Return /\ ~RawTick /\ ~Stop /\ ~Stopped
    BY <1>1 DEF Again, Return, RawTick, Stop, Stopped, ports
  <2>4. ~SpLock
    BY <1>2 DEF SpLock, ports
  <2> QED BY <1>1, <2>1, <2>2, <2>3, <2>4, Zenon DEF LoopNext
<1>4. pos \in 1 .. Len(co_list) /\ Sp(pos) /\ me.pc = "taken"
  BY <1>3, SpResumed DEF SpTaken, Yields
<1> QED BY <1>4 DEF Holders, Threads, Sp, me

(***************************************************************************)
(* A beat that sp0 offers is withdrawn or changed only by its coroutine,   *)
(* after it has seen READY.                                                *)
(***************************************************************************)
THEOREM BeatsStay == LoopSpec => BeatsHeld
BY LoopInvariant, BeatStays, PTL DEF LoopSpec, BeatsHeld
=============================================================================
