--------------------------- MODULE PacketLinkProofs ---------------------------
(***************************************************************************)
(* The packets of the PS programs stay whole and in order over FIFOs of    *)
(* any size, for packets of any number of words, any files, any number of  *)
(* credits and of demands.                                                 *)
(***************************************************************************)
EXTENDS PacketLink, SequenceTheorems, WellFoundedInduction, TLAPS

IsSeq(s) == \E S : s \in Seq(S)

LEMMA SeqOver ==
  ASSUME NEW s, NEW t, IsSeq(s), IsSeq(t), NEW x
  PROVE  \E S : s \in Seq(S) /\ t \in Seq(S) /\ x \in S
<1>1. PICK S : s \in Seq(S)
  BY DEF IsSeq
<1>2. PICK T : t \in Seq(T)
  BY DEF IsSeq
<1>3. PICK U : U = S \cup T \cup {x}
  OBVIOUS
<1>4. s \in Seq(U)
  BY <1>1, <1>3
<1>5. t \in Seq(U)
  BY <1>2, <1>3
<1> QED BY <1>3, <1>4, <1>5

LEMMA Appended ==
  ASSUME NEW s, IsSeq(s), NEW x, NEW r, r = Append(s, x)
  PROVE  /\ IsSeq(r) /\ Len(s) \in Nat /\ Len(r) = Len(s) + 1
         /\ \A j \in 1 .. Len(s) : r[j] = s[j]
         /\ r[Len(s) + 1] = x
<1>1. PICK S : s \in Seq(S) /\ x \in S
  BY SeqOver
<1> QED BY <1>1, AppendProperties DEF IsSeq

LEMMA AppendedTo ==
  ASSUME NEW s, IsSeq(s), NEW x
  PROVE  /\ IsSeq(Append(s, x)) /\ Len(s) \in Nat /\ Len(Append(s, x)) = Len(s) + 1
         /\ \A j \in 1 .. Len(s) : Append(s, x)[j] = s[j]
         /\ Append(s, x)[Len(s) + 1] = x
BY Appended

Grows(s, x, r) ==
  /\ IsSeq(r) /\ Len(s) \in Nat /\ Len(r) = Len(s) + 1
  /\ \A j \in 1 .. Len(s) : r[j] = s[j]
  /\ r[Len(s) + 1] = x

LEMMA Grown ==
  ASSUME NEW s, IsSeq(s), NEW x
  PROVE  Grows(s, x, Append(s, x))
BY Appended DEF Grows

LEMMA Shortened ==
  ASSUME NEW s, IsSeq(s), s # << >>, NEW r, r = Tail(s)
  PROVE  /\ IsSeq(r) /\ Len(s) \in Nat \ {0} /\ Len(r) = Len(s) - 1
         /\ \A j \in 1 .. Len(r) : r[j] = s[j + 1]
         /\ Head(s) = s[1]
<1>1. PICK S : s \in Seq(S)
  BY DEF IsSeq
<1>2. Len(s) \in Nat \ {0}
  BY <1>1, EmptySeq
<1> QED BY <1>1, <1>2, HeadTailProperties DEF IsSeq

LEMMA SeqFacts ==
  ASSUME NEW s, IsSeq(s)
  PROVE  /\ Len(s) \in Nat /\ (Len(s) = 0 <=> s = << >>)
         /\ s = [j \in 1 .. Len(s) |-> s[j]]
<1>1. PICK S : s \in Seq(S)
  BY DEF IsSeq
<1> QED BY <1>1, EmptySeq

LEMMA EmptyIsSeq == IsSeq(<< >>) /\ Len(<< >>) = 0
<1>1. << >> \in Seq({})
  BY EmptySeq
<1> QED BY <1>1, EmptySeq DEF IsSeq

-----------------------------------------------------------------------------
(***************************************************************************)
(* A line of packets: packets have been put on it one after the other, the *)
(* first gone of them have left it at its end.  The words of the others    *)
(* lie in front, where a packet is put together, in queue, and in back,    *)
(* which holds the words of the last that are yet to enter the queue.      *)
(***************************************************************************)
Word(packet, j) == [of |-> packet, part |-> j]

\* The words of n packets and p more.
Place(n, p) == n * Words + p

Line(packets, gone, front, queue, back) ==
  /\ IsSeq(packets) /\ gone \in Nat
  /\ IsSeq(front) /\ IsSeq(queue) /\ IsSeq(back)
  /\ Len(front) <= Words /\ Len(back) <= Words
  /\ back # << >> => packets # << >>
  /\ \A j \in 1 .. Len(front) : front[j] = Word(packets[gone + 1], j)
  /\ \A j \in 1 .. Len(queue) : \E n \in 1 .. Len(packets), p \in 1 .. Words :
       queue[j] = Word(packets[n], p) /\ Place(n - 1, p) = Place(gone, Len(front)) + j
  /\ \A j \in 1 .. Len(back) :
       back[j] = Word(packets[Len(packets)], Words - Len(back) + j)
  /\ Place(gone, Len(front)) + Len(queue) + Len(back) = Place(Len(packets), 0)

LEMMA WordsPositive == Words \in Nat \ {0} /\ Els \in Nat \ {0} /\ Credits \in Nat \ {0}
BY PacketLinkAssumption

LEMMA PlaceStep ==
  ASSUME NEW n \in Int
  PROVE  Place(n + 1, 0) = Place(n, Words) /\ Place(n, 0) \in Int
         /\ \A p \in Int : Place(n, p) = Place(n, 0) + p
BY WordsPositive DEF Place

LEMMA PlaceOrder ==
  ASSUME NEW n \in Nat, NEW m \in Nat, NEW p \in 1 .. Words, NEW q \in 1 .. Words,
         n < m
  PROVE  Place(n, p) < Place(m, q)
<1>1. PICK d \in Nat : m = n + 1 + d
  <2>1. m - n - 1 \in Nat /\ m = n + 1 + (m - n - 1)
    OBVIOUS
  <2> QED BY <2>1
<1>2. d * Words \in Nat /\ n * Words \in Nat
  BY WordsPositive
<1>3. (n + 1 + d) * Words = n * Words + Words + d * Words
  BY WordsPositive
<1> QED BY <1>1, <1>2, <1>3, WordsPositive DEF Place

LEMMA PlaceUnique ==
  ASSUME NEW n \in Nat, NEW m \in Nat, NEW p \in 1 .. Words, NEW q \in 1 .. Words,
         Place(n, p) = Place(m, q)
  PROVE  n = m /\ p = q
<1>1. ~(n < m) /\ ~(m < n)
  <2>1. Place(n, p) \in Int /\ Place(m, q) \in Int
    BY WordsPositive DEF Place
  <2> QED BY <2>1, PlaceOrder
<1> QED BY <1>1, WordsPositive DEF Place

\* What has left the line had been put on it, and so has what is in front.
LEMMA LineBounds ==
  ASSUME NEW packets, NEW gone, NEW front, NEW queue, NEW back,
         Line(packets, gone, front, queue, back)
  PROVE  /\ gone \in Nat /\ Len(packets) \in Nat /\ Len(front) \in 0 .. Words
         /\ Len(queue) \in Nat /\ Len(back) \in 0 .. Words
         /\ gone <= Len(packets)
         /\ Len(front) # 0 => gone + 1 \in 1 .. Len(packets)
         /\ back # << >> => Len(packets) \in 1 .. Len(packets)
<1>1. /\ gone \in Nat /\ Len(packets) \in Nat /\ Len(front) \in 0 .. Words
      /\ Len(queue) \in Nat /\ Len(back) \in 0 .. Words
  BY WordsPositive, SeqFacts DEF Line
<1>2. PICK L \in Nat, lf \in 0 .. Words, lq \in Nat, lb \in 0 .. Words :
        /\ L = Len(packets) /\ lf = Len(front) /\ lq = Len(queue) /\ lb = Len(back)
        /\ Place(gone, lf) + lq + lb = Place(L, 0)
  BY <1>1 DEF Line
<1>3. ASSUME NEW d \in Nat, gone = L + d
      PROVE  d = 0 /\ lf = 0
  <2>1. (L + d) * Words = L * Words + d * Words /\ L * Words \in Nat
    BY WordsPositive
  <2>2. d * Words + lf + lq + lb = 0 /\ d * Words \in Nat
    BY <1>2, <1>3, <2>1, WordsPositive DEF Place
  <2>3. d * Words = 0 /\ lf = 0
    <3>1. PICK w \in Nat : w = d * Words
      BY <2>2
    <3> QED BY <2>2, <3>1
  <2>4. d = 0
    BY <2>3, WordsPositive
  <2> QED BY <2>3, <2>4
<1>4. gone <= L
  <2> SUFFICES ASSUME gone > L PROVE FALSE
    BY <1>1
  <2>1. gone - L \in Nat /\ gone = L + (gone - L)
    BY <1>1
  <2>2. gone - L = 0
    BY <1>3, <2>1
  <2> QED BY <1>1, <2>2
<1>5. lf # 0 => gone # L
  BY <1>3
<1>6. back # << >> => Len(packets) # 0
  BY SeqFacts DEF Line
<1> QED BY <1>1, <1>2, <1>4, <1>5, <1>6

\* A packet is put on the line.
LEMMA LineStarts ==
  ASSUME NEW packets, NEW gone, NEW front, NEW queue,
         Line(packets, gone, front, queue, << >>),
         NEW x, NEW packets2, packets2 = Append(packets, x)
  PROVE  Line(packets2, gone, front, queue, InWords(x))
<1>1. /\ IsSeq(packets2) /\ Len(packets) \in Nat /\ Len(packets2) = Len(packets) + 1
      /\ \A j \in 1 .. Len(packets) : packets2[j] = packets[j]
      /\ packets2[Len(packets) + 1] = x
  <2>1. IsSeq(packets)
    BY DEF Line
  <2>2. packets2 = Append(packets, x)
    OBVIOUS
  <2> QED BY <2>1, <2>2, Appended, Zenon
<1>2. /\ gone \in Nat /\ Len(packets) \in Nat /\ Len(front) \in 0 .. Words
      /\ Len(queue) \in Nat
      /\ Len(front) # 0 => gone + 1 \in 1 .. Len(packets)
  BY LineBounds
<1>3. /\ IsSeq(InWords(x)) /\ Len(InWords(x)) = Words
      /\ \A j \in 1 .. Words : InWords(x)[j] = Word(x, j)
  <2>1. PICK S : S = {[of |-> x, part |-> j] : j \in 1 .. Words}
    OBVIOUS
  <2>2. InWords(x) \in Seq(S) /\ Len(InWords(x)) = Words
    BY <2>1, WordsPositive DEF InWords
  <2> QED BY <2>2, WordsPositive DEF InWords, Word, IsSeq
<1>4. \A j \in 1 .. Len(front) : front[j] = Word(packets2[gone + 1], j)
  BY <1>1, <1>2 DEF Line
<1>5. \A j \in 1 .. Len(queue) : \E n \in 1 .. Len(packets2), p \in 1 .. Words :
        queue[j] = Word(packets2[n], p) /\ Place(n - 1, p) = Place(gone, Len(front)) + j
  <2> TAKE j \in 1 .. Len(queue)
  <2>1. PICK n \in 1 .. Len(packets), p \in 1 .. Words :
        queue[j] = Word(packets[n], p) /\ Place(n - 1, p) = Place(gone, Len(front)) + j
    BY DEF Line
  <2>2. n \in 1 .. Len(packets2) /\ packets2[n] = packets[n]
    BY <1>1
  <2> QED BY <2>1, <2>2
<1>6. \A j \in 1 .. Words :
        InWords(x)[j] = Word(packets2[Len(packets2)], Words - Words + j)
  <2> TAKE j \in 1 .. Words
  <2>1. Words - Words + j = j
    BY WordsPositive
  <2> QED BY <1>1, <1>3, <2>1
<1>7. Place(gone, Len(front)) + Len(queue) + Words = Place(Len(packets2), 0)
  <2>1. Place(gone, Len(front)) + Len(queue) + 0 = Place(Len(packets), 0)
    BY EmptyIsSeq DEF Line
  <2>2. Place(gone, Len(front)) \in Int
    BY <1>2, WordsPositive DEF Place
  <2>3. Place(Len(packets) + 1, 0) = Place(Len(packets), 0) + Words
    BY <1>2, PlaceStep, WordsPositive
  <2> QED BY <1>1, <1>2, <2>1, <2>2, <2>3, WordsPositive
<1>8. packets2 # << >>
  BY <1>1, SeqFacts
<1>9. /\ gone \in Nat /\ IsSeq(front) /\ IsSeq(queue)
      /\ Len(front) <= Words /\ Words <= Words
  BY <1>2, WordsPositive DEF Line
<1> QED
  <2>1. PICK b : b = InWords(x)
    OBVIOUS
  <2> QED BY <1>1, <1>3, <1>4, <1>5, <1>6, <1>7, <1>8, <1>9, <2>1 DEF Line

\* A word of the last packet enters the queue.
LEMMA LineSends ==
  ASSUME NEW packets, NEW gone, NEW front, NEW queue, NEW back,
         Line(packets, gone, front, queue, back), back # << >>,
         NEW queue2, queue2 = Append(queue, back[1]),
         NEW back2, back2 = Tail(back)
  PROVE  Line(packets, gone, front, queue2, back2)
<1>1. IsSeq(packets) /\ IsSeq(front) /\ IsSeq(queue) /\ IsSeq(back)
  BY DEF Line
<1>2. /\ IsSeq(queue2) /\ Len(queue) \in Nat /\ Len(queue2) = Len(queue) + 1
      /\ \A j \in 1 .. Len(queue) : queue2[j] = queue[j]
      /\ queue2[Len(queue) + 1] = back[1]
  <2>1. queue2 = Append(queue, back[1])
    OBVIOUS
  <2> QED BY <1>1, <2>1, Appended, Zenon
<1>3. /\ IsSeq(back2) /\ Len(back) \in Nat \ {0} /\ Len(back2) = Len(back) - 1
      /\ \A j \in 1 .. Len(back2) : back2[j] = back[j + 1]
  <2>1. back2 = Tail(back)
    OBVIOUS
  <2> QED BY <1>1, <2>1, Shortened, Zenon
<1>4. /\ gone \in Nat /\ Len(packets) \in Nat /\ Len(front) \in 0 .. Words
      /\ Len(back) \in 0 .. Words /\ Len(packets) \in 1 .. Len(packets)
  BY LineBounds
<1>5. Place(gone, Len(front)) + Len(queue) + Len(back) = Place(Len(packets), 0)
  BY DEF Line
<1>6. Place(gone, Len(front)) \in Int /\ Place(Len(packets), 0) \in Int
  BY <1>4, WordsPositive DEF Place
<1>7. PICK p \in 1 .. Words :
        p = Words - Len(back) + 1 /\ back[1] = Word(packets[Len(packets)], p)
  <2>1. Words - Len(back) + 1 \in 1 .. Words /\ 1 \in 1 .. Len(back)
    BY <1>3, <1>4, WordsPositive
  <2> QED BY <2>1 DEF Line
<1>8. Place(Len(packets) - 1, p) = Place(gone, Len(front)) + (Len(queue) + 1)
  <2>1. PICK L \in Nat, lq \in Nat, lb \in Nat, base \in Int :
          /\ L = Len(packets) /\ lq = Len(queue) /\ lb = Len(back)
          /\ base = Place(gone, Len(front))
    BY <1>2, <1>3, <1>4, <1>6
  <2>2. base + lq + lb = Place(L, 0) /\ p = Words - lb + 1 /\ p \in Int
    BY <1>5, <1>7, <2>1, WordsPositive
  <2>3. Place(L - 1, p) = base + (lq + 1)
    <3>1. (L - 1) * Words = L * Words - Words /\ L * Words \in Int
      BY WordsPositive
    <3> QED BY <2>2, <3>1, WordsPositive DEF Place
  <2> QED BY <2>1, <2>3
<1>9. \A j \in 1 .. Len(queue2) : \E n \in 1 .. Len(packets), q \in 1 .. Words :
        queue2[j] = Word(packets[n], q) /\ Place(n - 1, q) = Place(gone, Len(front)) + j
  <2> TAKE j \in 1 .. Len(queue2)
  <2>1. CASE j = Len(queue) + 1
    <3>1. queue2[j] = Word(packets[Len(packets)], p)
      BY <1>2, <1>7, <2>1
    <3>2. Place(Len(packets) - 1, p) = Place(gone, Len(front)) + j
      BY <1>8, <2>1
    <3> QED BY <1>4, <3>1, <3>2
  <2>2. CASE j # Len(queue) + 1
    <3>1. j \in 1 .. Len(queue) /\ queue2[j] = queue[j]
      BY <1>2, <2>2
    <3> QED BY <3>1 DEF Line
  <2> QED BY <2>1, <2>2
<1>10. \A j \in 1 .. Len(back2) :
         back2[j] = Word(packets[Len(packets)], Words - Len(back2) + j)
  <2> TAKE j \in 1 .. Len(back2)
  <2>1. j + 1 \in 1 .. Len(back) /\ Words - Len(back2) + j = Words - Len(back) + (j + 1)
    BY <1>3, WordsPositive
  <2>2. back[j + 1] = Word(packets[Len(packets)], Words - Len(back) + (j + 1))
    BY <2>1 DEF Line
  <2> QED BY <1>3, <2>1, <2>2
<1>11. Place(gone, Len(front)) + Len(queue2) + Len(back2) = Place(Len(packets), 0)
  BY <1>2, <1>3, <1>5, <1>6
<1>12. packets # << >> /\ Len(front) <= Words /\ Len(back2) <= Words
  BY <1>3, <1>4, WordsPositive DEF Line
<1>13. \A j \in 1 .. Len(front) : front[j] = Word(packets[gone + 1], j)
  BY DEF Line
<1> QED BY <1>1, <1>2, <1>3, <1>4, <1>9, <1>10, <1>11, <1>12, <1>13 DEF Line

\* A word of the queue joins the packet that is being put together.
LEMMA LineGathers ==
  ASSUME NEW packets, NEW gone, NEW front, NEW queue, NEW back,
         Line(packets, gone, front, queue, back), queue # << >>, Len(front) < Words,
         NEW front2, front2 = Append(front, Head(queue)),
         NEW queue2, queue2 = Tail(queue)
  PROVE  Line(packets, gone, front2, queue2, back)
<1>1. IsSeq(packets) /\ IsSeq(front) /\ IsSeq(queue) /\ IsSeq(back)
  BY DEF Line
<1>2. /\ IsSeq(front2) /\ Len(front) \in Nat /\ Len(front2) = Len(front) + 1
      /\ \A j \in 1 .. Len(front) : front2[j] = front[j]
      /\ front2[Len(front) + 1] = Head(queue)
  <2>1. front2 = Append(front, Head(queue))
    OBVIOUS
  <2> QED BY <1>1, <2>1, Appended, Zenon
<1>3. /\ IsSeq(queue2) /\ Len(queue) \in Nat \ {0} /\ Len(queue2) = Len(queue) - 1
      /\ \A j \in 1 .. Len(queue2) : queue2[j] = queue[j + 1]
      /\ Head(queue) = queue[1]
  <2>1. queue2 = Tail(queue)
    OBVIOUS
  <2> QED BY <1>1, <2>1, Shortened, Zenon
<1>4. /\ gone \in Nat /\ Len(packets) \in Nat /\ Len(front) \in 0 .. Words
      /\ Len(back) \in 0 .. Words
  BY LineBounds
<1>5. /\ Place(gone, Len(front2)) = Place(gone, Len(front)) + 1
      /\ Place(gone, Len(front)) \in Int
  BY <1>2, <1>4, WordsPositive DEF Place
<1>6. front2[Len(front) + 1] = Word(packets[gone + 1], Len(front) + 1)
  <2>1. PICK n \in 1 .. Len(packets), p \in 1 .. Words :
          queue[1] = Word(packets[n], p) /\ Place(n - 1, p) = Place(gone, Len(front)) + 1
    <3>1. 1 \in 1 .. Len(queue)
      BY <1>3
    <3> QED BY <3>1 DEF Line
  <2>2. PICK m \in Nat : m = n - 1 /\ n = m + 1
    BY <1>4
  <2>3. PICK q \in 1 .. Words : q = Len(front) + 1
    BY <1>2, WordsPositive
  <2>4. Place(m, p) = Place(gone, q)
    BY <1>2, <1>5, <2>1, <2>2, <2>3
  <2>5. m = gone /\ p = q
    BY <1>4, <2>4, PlaceUnique
  <2> QED BY <1>2, <1>3, <2>1, <2>2, <2>3, <2>5
<1>7. \A j \in 1 .. Len(front2) : front2[j] = Word(packets[gone + 1], j)
  <2> TAKE j \in 1 .. Len(front2)
  <2>1. CASE j = Len(front) + 1
    BY <1>6, <2>1
  <2>2. CASE j # Len(front) + 1
    <3>1. j \in 1 .. Len(front) /\ front2[j] = front[j]
      BY <1>2, <2>2
    <3> QED BY <3>1 DEF Line
  <2> QED BY <2>1, <2>2
<1>8. \A j \in 1 .. Len(queue2) : \E n \in 1 .. Len(packets), p \in 1 .. Words :
        queue2[j] = Word(packets[n], p) /\ Place(n - 1, p) = Place(gone, Len(front2)) + j
  <2> TAKE j \in 1 .. Len(queue2)
  <2>1. j + 1 \in 1 .. Len(queue) /\ queue2[j] = queue[j + 1]
    BY <1>3
  <2>2. PICK n \in 1 .. Len(packets), p \in 1 .. Words :
          /\ queue[j + 1] = Word(packets[n], p)
          /\ Place(n - 1, p) = Place(gone, Len(front)) + (j + 1)
    BY <2>1 DEF Line
  <2>3. Place(n - 1, p) = Place(gone, Len(front2)) + j
    BY <1>5, <2>2
  <2> QED BY <2>1, <2>2, <2>3
<1>9. Place(gone, Len(front2)) + Len(queue2) + Len(back) = Place(Len(packets), 0)
  <2>1. Place(gone, Len(front)) + Len(queue) + Len(back) = Place(Len(packets), 0)
    BY DEF Line
  <2> QED BY <1>3, <1>4, <1>5, <2>1
<1>10. Len(front2) <= Words /\ Len(back) <= Words
  BY <1>2, <1>4, WordsPositive
<1>11. /\ back # << >> => packets # << >>
       /\ \A j \in 1 .. Len(back) :
            back[j] = Word(packets[Len(packets)], Words - Len(back) + j)
  BY DEF Line
<1> QED BY <1>1, <1>2, <1>3, <1>4, <1>7, <1>8, <1>9, <1>10, <1>11 DEF Line

\* A whole packet leaves the line: it is the next of those put on it.
LEMMA LineLeaves ==
  ASSUME NEW packets, NEW gone, NEW front, NEW queue, NEW back,
         Line(packets, gone, front, queue, back), Len(front) = Words
  PROVE  /\ gone + 1 \in 1 .. Len(packets)
         /\ Packet(front) = packets[gone + 1]
         /\ Line(packets, gone + 1, << >>, queue, back)
<1>1. /\ gone \in Nat /\ Len(packets) \in Nat /\ Len(queue) \in Nat
      /\ Len(back) \in 0 .. Words /\ gone + 1 \in 1 .. Len(packets)
  BY LineBounds, WordsPositive
<1>2. IsSeq(packets) /\ IsSeq(front) /\ IsSeq(queue) /\ IsSeq(back)
  BY DEF Line
<1>3. \A j \in 1 .. Words : front[j] = Word(packets[gone + 1], j)
  BY DEF Line
<1>4. front[1].of = packets[gone + 1]
  <2>1. 1 \in 1 .. Words
    BY WordsPositive
  <2> QED BY <1>3, <2>1 DEF Word
<1>5. front = InWords(packets[gone + 1])
  <2>1. front = [j \in 1 .. Words |-> front[j]]
    BY <1>2, SeqFacts
  <2>2. [j \in 1 .. Words |-> front[j]] = [j \in 1 .. Words |-> Word(packets[gone + 1], j)]
    BY <1>3
  <2> QED BY <2>1, <2>2 DEF InWords, Word
<1>6. Packet(front) = packets[gone + 1]
  BY <1>4, <1>5, Zenon DEF Packet
<1>7. Place(gone + 1, 0) = Place(gone, Words) /\ Place(gone, Words) \in Int
  BY <1>1, WordsPositive DEF Place
<1>8. \A j \in 1 .. Len(queue) : \E n \in 1 .. Len(packets), p \in 1 .. Words :
        queue[j] = Word(packets[n], p) /\ Place(n - 1, p) = Place(gone + 1, 0) + j
  BY <1>7 DEF Line
<1>9. Place(gone + 1, 0) + Len(queue) + Len(back) = Place(Len(packets), 0)
  BY <1>7 DEF Line
<1>10. /\ Len(back) <= Words /\ (back # << >> => packets # << >>)
       /\ \A j \in 1 .. Len(back) :
            back[j] = Word(packets[Len(packets)], Words - Len(back) + j)
  BY DEF Line
<1>11. /\ IsSeq(<< >>) /\ Len(<< >>) = 0 /\ 0 <= Words
       /\ \A j \in 1 .. 0 : << >>[j] = Word(packets[gone + 2], j)
  BY EmptyIsSeq, WordsPositive
<1>12. Line(packets, gone + 1, << >>, queue, back)
  <2>1. PICK e : e = << >> /\ IsSeq(e) /\ Len(e) = 0
    BY EmptyIsSeq
  <2>2. Line(packets, gone + 1, e, queue, back)
    <3>1. gone + 1 \in Nat /\ Len(e) <= Words
      BY <1>1, <2>1, WordsPositive
    <3>2. \A j \in 1 .. Len(e) : e[j] = Word(packets[gone + 1 + 1], j)
      BY <2>1
    <3>3. /\ \A j \in 1 .. Len(queue) : \E n \in 1 .. Len(packets), p \in 1 .. Words :
               queue[j] = Word(packets[n], p) /\ Place(n - 1, p) = Place(gone + 1, Len(e)) + j
          /\ Place(gone + 1, Len(e)) + Len(queue) + Len(back) = Place(Len(packets), 0)
      BY <1>8, <1>9, <2>1
    <3> QED BY <1>2, <1>10, <2>1, <3>1, <3>2, <3>3 DEF Line
  <2> QED BY <2>1, <2>2
<1> QED BY <1>1, <1>6, <1>12

\* A line that holds no whole packet has let every packet through.
LEMMA LineDry ==
  ASSUME NEW packets, NEW gone, NEW front, Line(packets, gone, front, << >>, << >>),
         Len(front) < Words
  PROVE  gone = Len(packets)
<1>1. gone \in Nat /\ Len(packets) \in Nat /\ Len(front) \in 0 .. Words
  BY LineBounds
<1>2. Place(gone, Len(front)) = Place(Len(packets), 0)
  <2>1. Place(gone, Len(front)) + Len(<< >>) + Len(<< >>) = Place(Len(packets), 0)
    BY DEF Line
  <2>2. Place(gone, Len(front)) \in Int
    BY <1>1, WordsPositive DEF Place
  <2> QED BY <2>1, <2>2, EmptyIsSeq
<1>3. PICK p \in 1 .. Words : p = Len(front) + 1
  BY <1>1, WordsPositive
<1>4. Place(gone, p) = Place(Len(packets), 1) /\ 1 \in 1 .. Words
  BY <1>1, <1>2, <1>3, WordsPositive DEF Place
<1> QED BY <1>1, <1>4, PlaceUnique

\* An empty line.
LEMMA LineEmpty == Line(<< >>, 0, << >>, << >>, << >>)
<1>1. PICK e : e = << >> /\ IsSeq(e) /\ Len(e) = 0
  BY EmptyIsSeq
<1>2. Place(0, 0) + 0 + 0 = Place(0, 0) /\ 0 \in Nat /\ 0 <= Words
  BY WordsPositive DEF Place
<1>3. Line(e, 0, e, e, e)
  BY <1>1, <1>2 DEF Line
<1> QED BY <1>1, <1>3

-----------------------------------------------------------------------------
(***************************************************************************)
(* The packets of the requests.                                            *)
(***************************************************************************)
\* All words of the outbox are of a packet that this function sends.
OutboxOf(by) == \A j \in 1 .. Len(outbox) : outbox[j].of.by = by

OutOf(by) == IF OutboxOf(by) THEN outbox ELSE << >>

Wiring ==
  /\ program \in Programs
  /\ ps2pl = [k \in 0 .. 1 |-> ps2pl[k]] /\ gathered = [k \in 0 .. 1 |-> gathered[k]]
  /\ IsSeq(outbox) /\ (OutboxOf("request") \/ OutboxOf("reply"))
  /\ IsSeq(served) /\ IsSeq(launched)

\* Until a bare word is written: the packets sent and not yet launched make a line.
RequestLine ==
  ~Bare =>
    /\ Line(sent, Len(launched), gathered[0], ps2pl[0], OutOf("request"))
    /\ \A j \in 1 .. Len(launched) : launched[j] = sent[j]

\* The programs use the FIFOs as the endpoint is wired.
LEMMA Wired ==
  ASSUME NEW p, p \in Programs
  PROVE  /\ Wires(p).request = 0 /\ Wires(p).reply = 1
         /\ Link(p).request = 0 /\ Link(p).reply = 1
         /\ Wires(p).answer \in 0 .. 1 /\ Wires(p).demand \in 0 .. 1
         /\ Wires(p).answer # Wires(p).demand
         /\ Link(p).answer = Wires(p).answer /\ Link(p).demand = Wires(p).demand
<1>1. p \in {"minimal", "manycore", "hammerblade"}
  BY PacketLinkAssumption
<1> QED BY <1>1 DEF Wires, Link, MinimalWires, MinimalLink, ManycoreWires, ManycoreLink,
             HammerbladeWires, HammerbladeLink

LEMMA InWordsFacts ==
  ASSUME NEW x
  PROVE  /\ IsSeq(InWords(x)) /\ Len(InWords(x)) = Words /\ InWords(x) # << >>
         /\ \A j \in 1 .. Words : InWords(x)[j] = Word(x, j)
<1>1. PICK S : S = {[of |-> x, part |-> j] : j \in 1 .. Words}
  OBVIOUS
<1>2. InWords(x) \in Seq(S) /\ Len(InWords(x)) = Words
  BY <1>1, WordsPositive DEF InWords
<1>3. InWords(x) # << >>
  BY <1>2, EmptyIsSeq, WordsPositive
<1> QED BY <1>2, <1>3, WordsPositive DEF InWords, Word, IsSeq

LEMMA OutboxFilled ==
  ASSUME NEW x, outbox' = InWords(x)
  PROVE  /\ IsSeq(outbox')
         /\ \A by : IF x.by = by THEN OutboxOf(by)' /\ OutOf(by)' = outbox'
                                 ELSE OutOf(by)' = << >>
<1>1. PICK b : b = InWords(x) /\ outbox' = b
  OBVIOUS
<1>2. IsSeq(b) /\ Len(b) = Words /\ \A j \in 1 .. Words : b[j] = Word(x, j)
  BY <1>1, InWordsFacts
<1>3. \A j \in 1 .. Words : b[j].of.by = x.by
  BY <1>2 DEF Word
<1>4. ASSUME NEW by, x.by = by
      PROVE  OutboxOf(by)' /\ OutOf(by)' = outbox'
  BY <1>1, <1>2, <1>3, <1>4 DEF OutboxOf, OutOf
<1>5. ASSUME NEW by, x.by # by
      PROVE  OutOf(by)' = << >>
  <2>1. b[1].of.by # by /\ 1 \in 1 .. Len(b)
    BY <1>2, <1>3, <1>5, WordsPositive
  <2>2. ~OutboxOf(by)'
    BY <1>1, <2>1 DEF OutboxOf
  <2> QED BY <2>2 DEF OutOf
<1> QED BY <1>1, <1>2, <1>4, <1>5

LEMMA OutboxEmpty ==
  ASSUME outbox = << >>
  PROVE  \A by : OutOf(by) = << >>
BY DEF OutOf

LEMMA OutboxShorter ==
  ASSUME IsSeq(outbox), OutboxOf("request") \/ OutboxOf("reply"),
         outbox # << >>, outbox' = Tail(outbox)
  PROVE  /\ IsSeq(outbox') /\ (OutboxOf("request")' \/ OutboxOf("reply")')
         /\ outbox[1].of.by \in {"request", "reply"}
         /\ \A by : IF outbox[1].of.by = by
                   THEN OutOf(by) = outbox /\ OutOf(by)' = Tail(outbox)
                   ELSE OutOf(by) = << >> /\ OutOf(by)' = << >>
<1>1. PICK b, c : b = outbox /\ c = Tail(b) /\ outbox' = c
  OBVIOUS
<1>2. /\ IsSeq(c) /\ Len(b) \in Nat \ {0} /\ Len(c) = Len(b) - 1
      /\ \A j \in 1 .. Len(c) : c[j] = b[j + 1]
  <2>1. IsSeq(b) /\ b # << >>
    BY <1>1
  <2> QED BY <1>1, <2>1, Shortened, Zenon
<1>3. \A by : OutboxOf(by) => OutboxOf(by)' /\ b[1].of.by = by
  <2> TAKE by
  <2> HAVE OutboxOf(by)
  <2>1. \A j \in 1 .. Len(b) : b[j].of.by = by
    BY <1>1 DEF OutboxOf
  <2>2. \A j \in 1 .. Len(c) : c[j].of.by = by
    BY <1>2, <2>1
  <2> QED BY <1>1, <1>2, <2>1, <2>2 DEF OutboxOf
<1>4. PICK own : own = b[1].of.by /\ own \in {"request", "reply"} /\ OutboxOf(own)
  BY <1>3
<1>5. OutOf(own) = outbox /\ OutOf(own)' = Tail(outbox)
  <2>1. OutboxOf(own)'
    BY <1>3, <1>4
  <2> QED BY <1>1, <1>4, <2>1 DEF OutOf
<1>6. ASSUME NEW by, by # own
      PROVE  OutOf(by) = << >> /\ OutOf(by)' = << >>
  <2>1. ~OutboxOf(by)
    BY <1>3, <1>4, <1>6
  <2>2. CASE c = << >>
    BY <1>1, <2>1, <2>2 DEF OutOf
  <2>3. CASE c # << >>
    <3>1. 1 \in 1 .. Len(c)
      <4>1. Len(c) # 0 /\ Len(c) \in Nat
        BY <1>2, <2>3, SeqFacts
      <4> QED BY <4>1
    <3>2. OutboxOf(own)'
      BY <1>3, <1>4
    <3>3. c[1].of.by = own
      BY <1>1, <3>1, <3>2 DEF OutboxOf
    <3>4. ~OutboxOf(by)'
      BY <1>1, <1>6, <3>1, <3>3 DEF OutboxOf
    <3> QED BY <2>1, <3>4 DEF OutOf
  <2> QED BY <2>2, <2>3
<1>7. OutboxOf("request")' \/ OutboxOf("reply")'
  BY <1>3, <1>4
<1> QED BY <1>1, <1>2, <1>4, <1>5, <1>6, <1>7

LEMMA BareLasts ==
  ASSUME IsSeq(served), NEW d, served' = Append(served, d)
  PROVE  IsSeq(served') /\ (Bare => Bare') /\ (d.kind = "getc" => Bare')
<1>1. PICK s, t : s = served /\ t = Append(s, d) /\ served' = t
  OBVIOUS
<1>2. /\ IsSeq(t) /\ Len(s) \in Nat /\ Len(t) = Len(s) + 1
      /\ \A j \in 1 .. Len(s) : t[j] = s[j]
      /\ t[Len(s) + 1] = d
  <2>1. IsSeq(s) /\ t = Append(s, d)
    BY <1>1
  <2>2. /\ IsSeq(Append(s, d)) /\ Len(s) \in Nat /\ Len(Append(s, d)) = Len(s) + 1
        /\ \A j \in 1 .. Len(s) : Append(s, d)[j] = s[j]
        /\ Append(s, d)[Len(s) + 1] = d
    BY <2>1, AppendedTo, Zenon
  <2> QED BY <2>1, <2>2, Zenon
<1>3. DOMAIN s = 1 .. Len(s) /\ DOMAIN t = 1 .. Len(t)
  <2>1. IsSeq(s)
    BY <1>1
  <2> QED BY <1>2, <2>1, SeqFacts
<1> QED BY <1>1, <1>2, <1>3 DEF Bare

LEMMA LineFrame ==
  ASSUME Wiring, RequestLine,
         UNCHANGED <<program, outbox, served, launched, sent, gathered, ps2pl>>
  PROVE  Wiring' /\ RequestLine'
<1>1. /\ program' = program /\ outbox' = outbox /\ served' = served
      /\ launched' = launched /\ sent' = sent /\ gathered' = gathered /\ ps2pl' = ps2pl
  OBVIOUS
<1>2. Bare' <=> Bare
  BY <1>1, Zenon DEF Bare
<1>3. OutboxOf("request")' <=> OutboxOf("request")
  BY <1>1, Zenon DEF OutboxOf
<1>4. OutboxOf("reply")' <=> OutboxOf("reply")
  BY <1>1, Zenon DEF OutboxOf
<1>5. OutOf("request")' = OutOf("request")
  BY <1>1, <1>3, Zenon DEF OutOf
<1>6. Wiring'
  BY <1>1, <1>3, <1>4, Zenon DEF Wiring
<1>7. RequestLine'
  BY <1>1, <1>2, <1>5, Zenon DEF RequestLine
<1> QED BY <1>6, <1>7

LEMMA StartSendLine ==
  ASSUME Wiring, RequestLine, StartSend
  PROVE  Wiring' /\ RequestLine'
<1>1. /\ outbox = << >> /\ outbox' = InWords(Numbered(instr.request))
      /\ sent' = Append(sent, Numbered(instr.request))
      /\ UNCHANGED <<program, served, launched, gathered, ps2pl>>
  BY DEF StartSend, At, pl
<1>2. PICK x : x = Numbered(instr.request) /\ x.by = "request"
  <2>1. Numbered(instr.request).by = "request"
    BY DEF Numbered
  <2> QED BY <2>1
<1>3. IsSeq(outbox') /\ OutboxOf("request")' /\ OutOf("request")' = outbox'
  BY <1>1, <1>2, OutboxFilled
<1>4. Wiring'
  BY <1>1, <1>3 DEF Wiring
<1>5. RequestLine'
  <2> SUFFICES ASSUME Bare' = FALSE, Bare = FALSE
               PROVE  /\ Line(sent, Len(launched), gathered[0], ps2pl[0], OutOf("request"))'
                      /\ \A j \in 1 .. Len(launched)' : launched'[j] = sent'[j]
    BY <1>1 DEF RequestLine, Bare
  <2>1. PICK s, t, n, f, q : /\ s = sent /\ n = Len(launched) /\ f = gathered[0]
                             /\ q = ps2pl[0] /\ t = Append(s, x)
    OBVIOUS
  <2>2. Line(s, n, f, q, << >>)
    BY <1>1, <2>1, OutboxEmpty DEF RequestLine
  <2>3. Line(t, n, f, q, InWords(x))
    BY <2>1, <2>2, LineStarts
  <2>4. Line(sent, Len(launched), gathered[0], ps2pl[0], OutOf("request"))'
    BY <1>1, <1>2, <1>3, <2>1, <2>3
  <2>5. \A j \in 1 .. Len(launched) : launched[j] = t[j]
    <3>1. n \in Nat /\ Len(s) \in Nat /\ n <= Len(s)
      BY <2>2, LineBounds
    <3>2. \A j \in 1 .. Len(s) : t[j] = s[j]
      <4>1. IsSeq(s) /\ t = Append(s, x)
        BY <2>1, <2>2 DEF Line
      <4>2. \A j \in 1 .. Len(s) : Append(s, x)[j] = s[j]
        <5>1. /\ IsSeq(Append(s, x)) /\ Len(s) \in Nat /\ Len(Append(s, x)) = Len(s) + 1
              /\ \A j \in 1 .. Len(s) : Append(s, x)[j] = s[j]
              /\ Append(s, x)[Len(s) + 1] = x
          BY <4>1, AppendedTo, Zenon
        <5> QED BY <5>1
      <4> QED BY <4>1, <4>2, Zenon
    <3>3. \A j \in 1 .. n : launched[j] = s[j]
      BY <2>1 DEF RequestLine
    <3> QED BY <2>1, <3>1, <3>2, <3>3
  <2> QED BY <1>1, <1>2, <2>1, <2>4, <2>5
<1> QED BY <1>4, <1>5

LEMMA SendWordLine ==
  ASSUME Wiring, RequestLine, SendWord
  PROVE  Wiring' /\ RequestLine'
<1>1. /\ outbox # << >> /\ outbox' = Tail(outbox) /\ Len(ps2pl[OutFifo]) < Els
      /\ ps2pl' = [ps2pl EXCEPT ![OutFifo] = Push(ps2pl[OutFifo], outbox[1])]
      /\ UNCHANGED <<program, served, launched, sent, gathered>>
  BY DEF SendWord, pl
<1>2. /\ IsSeq(outbox') /\ (OutboxOf("request")' \/ OutboxOf("reply")')
      /\ outbox[1].of.by \in {"request", "reply"}
      /\ IF outbox[1].of.by = "request"
         THEN OutOf("request") = outbox /\ OutOf("request")' = Tail(outbox)
         ELSE OutOf("request") = << >> /\ OutOf("request")' = << >>
  BY <1>1, OutboxShorter DEF Wiring
<1>3. Wiring'
  BY <1>1, <1>2 DEF Wiring
<1>4. OutFifo = IF outbox[1].of.by = "request" THEN 0 ELSE 1
  <2>1. Link(program).request = 0 /\ Link(program).reply = 1
    BY Wired DEF Wiring
  <2> QED BY <1>2, <2>1 DEF OutFifo
<1>5. Bare' <=> Bare
  BY <1>1, Zenon DEF Bare
<1>6. CASE outbox[1].of.by # "request"
  <2>1. ps2pl'[0] = ps2pl[0] /\ OutOf("request")' = OutOf("request")
    BY <1>1, <1>2, <1>4, <1>6 DEF Wiring
  <2>2. RequestLine'
    BY <1>1, <1>5, <2>1, Zenon DEF RequestLine
  <2> QED BY <1>3, <2>2
<1>7. CASE outbox[1].of.by = "request"
  <2> SUFFICES ASSUME ~Bare
               PROVE  Line(sent, Len(launched), gathered[0], ps2pl[0], OutOf("request"))'
    BY <1>1, <1>3, <1>5, Zenon DEF RequestLine
  <2>1. PICK s, n, f, q, b, q2, b2 :
          /\ s = sent /\ n = Len(launched) /\ f = gathered[0]
          /\ q = ps2pl[0] /\ b = outbox /\ q2 = Append(q, b[1]) /\ b2 = Tail(b)
    OBVIOUS
  <2>2. Line(s, n, f, q, b) /\ b # << >>
    BY <1>1, <1>2, <1>7, <2>1 DEF RequestLine
  <2>3. Line(s, n, f, q2, b2)
    BY <2>1, <2>2, LineSends
  <2>4. ps2pl'[0] = q2
    BY <1>1, <1>4, <1>7, <2>1 DEF Wiring, Push
  <2> QED BY <1>1, <1>2, <1>7, <2>1, <2>3, <2>4
<1> QED BY <1>6, <1>7

LEMMA HandleDemandLine ==
  ASSUME Wiring, RequestLine, HandleDemand
  PROVE  Wiring' /\ RequestLine'
<1>1. PICK d : d = Packet(inbox)
  OBVIOUS
<1>2. /\ outbox = << >> /\ served' = Append(served, d)
      /\ outbox' = InWords(RomReply(d)) \/ outbox' = outbox
      /\ d.kind # "getc" => ps2pl' = ps2pl
      /\ ps2pl' = ps2pl \/ \E w : ps2pl' = [ps2pl EXCEPT ![0] = w]
      /\ UNCHANGED <<program, launched, sent, gathered>>
  BY <1>1 DEF HandleDemand, At, pl
<1>3. IsSeq(served') /\ (Bare => Bare') /\ (d.kind = "getc" => Bare')
  BY <1>2, BareLasts DEF Wiring
<1>4. /\ IsSeq(outbox') /\ (OutboxOf("request")' \/ OutboxOf("reply")')
      /\ OutOf("request")' = << >>
  <2>1. CASE outbox' = outbox
    <3>1. outbox' = << >> /\ IsSeq(outbox')
      BY <1>2, <2>1 DEF Wiring
    <3>2. Len(outbox') = 0
      BY <3>1, EmptyIsSeq
    <3>3. OutboxOf("request")'
      BY <3>2 DEF OutboxOf
    <3>4. OutOf("request")' = << >>
      BY <3>1 DEF OutOf
    <3> QED BY <3>1, <3>3, <3>4
  <2>2. CASE outbox' = InWords(RomReply(d))
    <3>1. RomReply(d).by = "reply"
      BY DEF RomReply, Reply
    <3>2. PICK x : outbox' = InWords(x) /\ x.by = "reply"
      BY <2>2, <3>1
    <3> QED BY <3>2, OutboxFilled
  <2> QED BY <1>2, <2>1, <2>2
<1>5. OutOf("request") = << >>
  BY <1>2, OutboxEmpty
<1>6. ps2pl' = [k \in 0 .. 1 |-> ps2pl'[k]]
  BY <1>2 DEF Wiring
<1>7. Wiring'
  BY <1>2, <1>3, <1>4, <1>6 DEF Wiring
<1>8. RequestLine'
  <2> SUFFICES ASSUME ~Bare'
               PROVE  /\ Line(sent, Len(launched), gathered[0], ps2pl[0], OutOf("request"))'
                      /\ \A j \in 1 .. Len(launched)' : launched'[j] = sent'[j]
    BY DEF RequestLine
  <2>1. ~Bare /\ ps2pl' = ps2pl
    BY <1>2, <1>3
  <2> QED BY <1>2, <1>4, <1>5, <2>1, Zenon DEF RequestLine
<1> QED BY <1>7, <1>8

LEMMA GatherLine ==
  ASSUME Wiring, RequestLine, NEW k \in 0 .. 1, Gather(k)
  PROVE  Wiring' /\ RequestLine'
<1>1. /\ ps2pl[k] # << >> /\ Len(gathered[k]) < Words
      /\ gathered' = [gathered EXCEPT ![k] = Append(gathered[k], Head(ps2pl[k]))]
      /\ ps2pl' = [ps2pl EXCEPT ![k] = Tail(ps2pl[k])]
      /\ UNCHANGED <<program, outbox, served, launched, sent>>
  BY DEF Gather, ps
<1>2. /\ program' = program /\ outbox' = outbox /\ served' = served
      /\ launched' = launched /\ sent' = sent
  BY <1>1
<1>3. Bare' <=> Bare
  BY <1>2, Zenon DEF Bare
<1>4. /\ OutboxOf("request")' <=> OutboxOf("request")
      /\ OutboxOf("reply")' <=> OutboxOf("reply")
  BY <1>2, Zenon DEF OutboxOf
<1>5. OutOf("request")' = OutOf("request")
  BY <1>2, <1>4, Zenon DEF OutOf
<1>6. /\ ps2pl' = [i \in 0 .. 1 |-> ps2pl'[i]]
      /\ gathered' = [i \in 0 .. 1 |-> gathered'[i]]
  BY <1>1 DEF Wiring
<1>7. Wiring'
  BY <1>2, <1>4, <1>6 DEF Wiring
<1>8. CASE k = 1
  <2>1. ps2pl'[0] = ps2pl[0] /\ gathered'[0] = gathered[0]
    BY <1>1, <1>8 DEF Wiring
  <2>2. RequestLine'
    BY <1>2, <1>3, <1>5, <2>1, Zenon DEF RequestLine
  <2> QED BY <1>7, <2>2
<1>9. CASE k = 0
  <2> SUFFICES ASSUME ~Bare
               PROVE  Line(sent, Len(launched), gathered[0], ps2pl[0], OutOf("request"))'
    BY <1>2, <1>3, <1>7, Zenon DEF RequestLine
  <2>1. PICK s, n, f, q, b, q2, f2 :
          /\ s = sent /\ n = Len(launched) /\ f = gathered[0] /\ q = ps2pl[0]
          /\ b = OutOf("request") /\ f2 = Append(f, Head(q)) /\ q2 = Tail(q)
    OBVIOUS
  <2>2. Line(s, n, f, q, b)
    BY <2>1 DEF RequestLine
  <2>3. Line(s, n, f2, q2, b)
    BY <1>1, <1>9, <2>1, <2>2, LineGathers
  <2>4. ps2pl'[0] = q2 /\ gathered'[0] = f2
    BY <1>1, <1>9, <2>1 DEF Wiring
  <2> QED BY <1>2, <1>5, <2>1, <2>3, <2>4
<1> QED BY <1>8, <1>9

LEMMA LaunchLine ==
  ASSUME Wiring, RequestLine, Launch
  PROVE  /\ Wiring' /\ RequestLine'
         /\ ~Bare => /\ Len(launched) + 1 \in 1 .. Len(sent)
                     /\ Packet(gathered[0]) = sent[Len(launched) + 1]
<1>1. PICK r : r = Packet(gathered[0])
  OBVIOUS
<1>2. Wires(program).request = 0
  BY Wired DEF Wiring
<1>3. /\ Len(gathered[0]) = Words
      /\ gathered' = [gathered EXCEPT ![0] = << >>]
      /\ launched' = Append(launched, r)
      /\ UNCHANGED <<program, outbox, served, sent, ps2pl>>
  BY <1>1, <1>2 DEF Launch, ps
<1>4. /\ program' = program /\ outbox' = outbox /\ served' = served
      /\ sent' = sent /\ ps2pl' = ps2pl
  BY <1>3
<1>5. Bare' <=> Bare
  BY <1>4, Zenon DEF Bare
<1>6. /\ OutboxOf("request")' <=> OutboxOf("request")
      /\ OutboxOf("reply")' <=> OutboxOf("reply")
  BY <1>4, Zenon DEF OutboxOf
<1>7. OutOf("request")' = OutOf("request")
  BY <1>4, <1>6, Zenon DEF OutOf
<1>8. gathered' = [i \in 0 .. 1 |-> gathered'[i]] /\ gathered'[0] = << >>
  <2>1. PICK e, g : e = << >> /\ g = gathered /\ g = [i \in 0 .. 1 |-> g[i]]
    BY DEF Wiring
  <2>2. gathered' = [g EXCEPT ![0] = e] /\ g = [i \in 0 .. 1 |-> g[i]]
    BY <1>3, <2>1
  <2>3. gathered' = [i \in 0 .. 1 |-> gathered'[i]]
    BY <2>2
  <2>4. gathered'[0] = e
    BY <2>2
  <2> QED BY <2>1, <2>3, <2>4, Zenon
<1>9. PICK a, c : /\ a = launched /\ c = Append(a, r) /\ launched' = c
                  /\ IsSeq(a)
  BY <1>3 DEF Wiring
<1>10. /\ IsSeq(c) /\ Len(a) \in Nat /\ Len(c) = Len(a) + 1
       /\ \A j \in 1 .. Len(a) : c[j] = a[j]
       /\ c[Len(a) + 1] = r
  <2>1. IsSeq(a) /\ c = Append(a, r)
    BY <1>9
  <2>2. /\ IsSeq(Append(a, r)) /\ Len(a) \in Nat /\ Len(Append(a, r)) = Len(a) + 1
        /\ \A j \in 1 .. Len(a) : Append(a, r)[j] = a[j]
        /\ Append(a, r)[Len(a) + 1] = r
    BY <2>1, AppendedTo, Zenon
  <2> QED BY <2>1, <2>2, Zenon
<1>11. Wiring'
  BY <1>4, <1>6, <1>8, <1>9, <1>10 DEF Wiring
<1>12. ASSUME ~Bare
       PROVE  /\ Line(sent, Len(launched), gathered[0], ps2pl[0], OutOf("request"))'
              /\ \A j \in 1 .. Len(launched)' : launched'[j] = sent'[j]
              /\ Len(launched) + 1 \in 1 .. Len(sent)
              /\ r = sent[Len(launched) + 1]
  <2>1. PICK s, f, q, b :
          /\ s = sent /\ f = gathered[0] /\ q = ps2pl[0] /\ b = OutOf("request")
    OBVIOUS
  <2>2. Line(s, Len(a), f, q, b) /\ Len(f) = Words
    BY <1>3, <1>9, <1>12, <2>1 DEF RequestLine
  <2>3. /\ Len(a) + 1 \in 1 .. Len(s) /\ Packet(f) = s[Len(a) + 1]
        /\ Line(s, Len(a) + 1, << >>, q, b)
    BY <2>2, LineLeaves
  <2>4. Line(sent, Len(launched), gathered[0], ps2pl[0], OutOf("request"))'
    BY <1>4, <1>7, <1>8, <1>9, <1>10, <2>1, <2>3
  <2>5. \A j \in 1 .. Len(a) : a[j] = s[j]
    BY <1>9, <1>12, <2>1 DEF RequestLine
  <2>6. \A j \in 1 .. Len(c) : c[j] = s[j]
    BY <1>1, <1>10, <2>1, <2>3, <2>5
  <2> QED BY <1>1, <1>4, <1>9, <2>1, <2>3, <2>4, <2>6
<1> QED BY <1>1, <1>5, <1>11, <1>12 DEF RequestLine

LEMMA GetReplyLine ==
  ASSUME Wiring, RequestLine, GetReply
  PROVE  Wiring' /\ RequestLine'
<1>1. Wires(program).reply = 1
  BY Wired DEF Wiring
<1>2. /\ gathered' = [gathered EXCEPT ![1] = << >>]
      /\ UNCHANGED <<program, outbox, served, sent, ps2pl, launched>>
  BY <1>1 DEF GetReply, ps
<1>3. /\ program' = program /\ outbox' = outbox /\ served' = served
      /\ sent' = sent /\ ps2pl' = ps2pl /\ launched' = launched
  BY <1>2
<1>4. gathered' = [i \in 0 .. 1 |-> gathered'[i]] /\ gathered'[0] = gathered[0]
  <2>1. PICK e, g : e = << >> /\ g = gathered /\ g = [i \in 0 .. 1 |-> g[i]]
    BY DEF Wiring
  <2>2. gathered' = [g EXCEPT ![1] = e]
    BY <1>2, <2>1
  <2> QED BY <2>1, <2>2
<1>5. Bare' <=> Bare
  BY <1>3, Zenon DEF Bare
<1>6. /\ OutboxOf("request")' <=> OutboxOf("request")
      /\ OutboxOf("reply")' <=> OutboxOf("reply")
  BY <1>3, Zenon DEF OutboxOf
<1>7. OutOf("request")' = OutOf("request")
  BY <1>3, <1>6, Zenon DEF OutOf
<1>8. Wiring'
  BY <1>3, <1>4, <1>6 DEF Wiring
<1>9. RequestLine'
  BY <1>3, <1>4, <1>5, <1>7, Zenon DEF RequestLine
<1> QED BY <1>8, <1>9

LEMMA LineInit == Init => Wiring /\ RequestLine
<1> SUFFICES ASSUME Init
             PROVE  Wiring /\ RequestLine
  OBVIOUS
<1>1. /\ program \in Programs /\ outbox = << >> /\ served = << >> /\ launched = << >>
      /\ sent = << >> /\ ps2pl = [k \in 0 .. 1 |-> << >>]
      /\ gathered = [k \in 0 .. 1 |-> << >>]
  BY DEF Init
<1>2. PICK e : e = << >> /\ IsSeq(e) /\ Len(e) = 0 /\ Line(e, 0, e, e, e)
  BY EmptyIsSeq, LineEmpty
<1>3. /\ outbox = e /\ served = e /\ launched = e /\ sent = e
      /\ ps2pl = [k \in 0 .. 1 |-> e] /\ gathered = [k \in 0 .. 1 |-> e]
  BY <1>1, <1>2
<1>4. OutboxOf("request") /\ OutOf("request") = e
  BY <1>2, <1>3 DEF OutboxOf, OutOf
<1>5. ps2pl[0] = e /\ gathered[0] = e
  BY <1>3
<1>6. Wiring
  BY <1>1, <1>2, <1>3, <1>4 DEF Wiring
<1>7. RequestLine
  BY <1>2, <1>3, <1>4, <1>5 DEF RequestLine
<1> QED BY <1>6, <1>7

LEMMA LineNext == Wiring /\ RequestLine /\ [Next]_vars => Wiring' /\ RequestLine'
<1> SUFFICES ASSUME Wiring, RequestLine, [Next]_vars
             PROVE  Wiring' /\ RequestLine'
  OBVIOUS
<1> DEFINE Same == UNCHANGED <<program, outbox, served, launched, sent, gathered, ps2pl>>
<1>1. Same => Wiring' /\ RequestLine'
  BY LineFrame
<1>2. CASE StartSend
  BY <1>2, StartSendLine
<1>3. CASE SendWord
  BY <1>3, SendWordLine
<1>4. CASE HandleDemand
  BY <1>4, HandleDemandLine
<1>5. ASSUME NEW k \in 0 .. 1, Gather(k)
      PROVE  Wiring' /\ RequestLine'
  BY <1>5, GatherLine
<1>6. CASE Launch
  BY <1>6, LaunchLine
<1>7. CASE GetReply
  BY <1>7, GetReplyLine
<1>8. CASE WriteRegister \/ CheckRegister \/ TickClock \/ TakeArguments
  <2>1. Same
    BY <1>8 DEF WriteRegister, CheckRegister, TickClock, TakeArguments, pl
  <2> QED BY <1>1, <2>1
<1>9. CASE OpenFile \/ ReceiveWord \/ VerifyAnswer \/ DrainCredits \/ Done
  <2>1. Same
    BY <1>9 DEF OpenFile, ReceiveWord, VerifyAnswer, DrainCredits, Done, pl
  <2> QED BY <1>1, <2>1
<1>10. ASSUME NEW k \in 0 .. 1, Feed(k)
       PROVE  Wiring' /\ RequestLine'
  <2>1. Same
    BY <1>10 DEF Feed, ps
  <2> QED BY <1>1, <2>1
<1>11. ASSUME NEW i \in 1 .. Credits, Perform(i)
       PROVE  Wiring' /\ RequestLine'
  <2>1. Same
    BY <1>11 DEF Perform, ps
  <2> QED BY <1>1, <2>1
<1>12. ASSUME NEW kind, TileDemand(kind) \/ CoreDemand(kind)
       PROVE  Wiring' /\ RequestLine'
  <2>1. Same
    BY <1>12 DEF TileDemand, CoreDemand, Demand, ps
  <2> QED BY <1>1, <2>1
<1>13. CASE UNCHANGED vars
  <2>1. Same
    BY <1>13 DEF vars, ps, pl
  <2> QED BY <1>1, <2>1
<1> HIDE DEF Same
<1> QED BY <1>2, <1>3, <1>4, <1>5, <1>6, <1>7, <1>8, <1>9, <1>10, <1>11, <1>12, <1>13
        DEF Next, ProgramStep, EndpointStep, Network

\* The packets of the requests make a line in every state.
LEMMA LineAlways == Spec => [](Wiring /\ RequestLine)
BY LineInit, LineNext, PTL DEF Spec

LEMMA PrefixOf ==
  ASSUME NEW s, NEW t, IsSeq(s), IsSeq(t), Len(s) <= Len(t),
         \A j \in 1 .. Len(s) : s[j] = t[j]
  PROVE  IsPrefix(s, t)
<1>1. PICK S : s \in Seq(S) /\ t \in Seq(S)
  BY SeqOver
<1>2. Len(s) \in Nat /\ Len(t) \in Nat
  BY <1>1
<1>3. \A u : u \in Seq(S) /\ Len(s) <= Len(u) =>
              SubSeq(u, 1, Len(s)) = [j \in 1 .. Len(s) |-> u[j]]
  BY <1>2
<1>4. SubSeq(s, 1, Len(s)) = [j \in 1 .. Len(s) |-> s[j]]
  BY <1>1, <1>2, <1>3
<1>5. SubSeq(t, 1, Len(s)) = [j \in 1 .. Len(s) |-> t[j]]
  BY <1>1, <1>2, <1>3
<1>6. [j \in 1 .. Len(s) |-> s[j]] = [j \in 1 .. Len(s) |-> t[j]]
  OBVIOUS
<1> QED BY <1>2, <1>4, <1>5, <1>6, Zenon DEF IsPrefix

\* send_mc_request_packet, send_bp_fwd_packet: whatever the files, the program
\* and the order of the words, the endpoint launches the packets that the
\* program sent, whole and in order, and none is missing once no word is left.
THEOREM RequestsReachTheEndpoint == Spec => []RequestsWhole
<1>1. Wiring /\ RequestLine => RequestsWhole
  <2> SUFFICES ASSUME Wiring, RequestLine, ~Bare
               PROVE  /\ IsPrefix(launched, sent)
                      /\ outbox = << >> /\ ps2pl[0] = << >> /\ gathered[0] = << >>
                           => Len(launched) = Len(sent)
    <3>1. Wiring => Wires(program).request = 0
      BY Wired DEF Wiring
    <3> QED BY <3>1 DEF RequestsWhole
  <2>1. /\ Line(sent, Len(launched), gathered[0], ps2pl[0], OutOf("request"))
        /\ \A j \in 1 .. Len(launched) : launched[j] = sent[j]
    BY DEF RequestLine
  <2>2. IsSeq(sent) /\ IsSeq(launched) /\ Len(launched) <= Len(sent)
    BY <2>1, LineBounds DEF Wiring, Line
  <2>3. IsPrefix(launched, sent)
    BY <2>1, <2>2, PrefixOf
  <2>4. outbox = << >> /\ ps2pl[0] = << >> /\ gathered[0] = << >>
          => Len(launched) = Len(sent)
    BY <2>1, OutboxEmpty, LineDry, EmptyIsSeq, WordsPositive
  <2> QED BY <2>3, <2>4
<1> QED BY <1>1, LineAlways, PTL

-----------------------------------------------------------------------------
(***************************************************************************)
(* Induction over the naturals, for a set instead of a predicate, and the  *)
(* concatenation of the sequences of a sequence.                           *)
(***************************************************************************)
LEMMA Induct ==
  ASSUME NEW S, 0 \in S, \A n \in Nat : n \in S => n + 1 \in S
  PROVE  \A n \in Nat : n \in S
<1> DEFINE T == Nat \ S
<1> SUFFICES ASSUME T # {}
             PROVE  FALSE
  OBVIOUS
<1>1. PICK R : R = OpToRel(<, Nat)
  OBVIOUS
<1>2. IsWellFoundedOn(R, Nat)
  BY <1>1, NatLessThanWellFounded
<1>3. PICK m \in T : \A k \in T : ~(<<k, m>> \in R)
  BY <1>2, WFMin
<1>4. m - 1 \in Nat /\ m - 1 < m
  OBVIOUS
<1>5. m - 1 \in T
  BY <1>4
<1>6. <<m - 1, m>> \in R
  BY <1>1, <1>4 DEF OpToRel
<1> QED BY <1>3, <1>5, <1>6

LEMMA MinIn ==
  ASSUME NEW I, I \subseteq Nat, I # {}
  PROVE  Min(I) \in I /\ \A i \in I : Min(I) <= i
<1>1. PICK R : R = OpToRel(<, Nat)
  OBVIOUS
<1>2. IsWellFoundedOn(R, Nat)
  BY <1>1, NatLessThanWellFounded
<1>3. PICK m \in I : \A k \in I : ~(<<k, m>> \in R)
  BY <1>2, WFMin
<1>4. \A k \in I : m <= k
  <2> TAKE k \in I
  <2>1. <<k, m>> \in Nat \X Nat /\ (k < m => <<k, m>> \in R)
    BY <1>1 DEF OpToRel
  <2> QED BY <1>3, <2>1
<1> QED BY <1>3, <1>4 DEF Min

LEMMA MaxIn ==
  ASSUME NEW n \in Nat, NEW I, I \subseteq 1 .. n, I # {}
  PROVE  Max(I) \in I /\ \A i \in I : i <= Max(I)
<1>1. PICK J : J = {n - i : i \in I}
  OBVIOUS
<1>2. J \subseteq Nat /\ J # {}
  <2>1. \A i \in 1 .. n : n - i \in Nat
    OBVIOUS
  <2>2. \A i \in I : n - i \in Nat
    BY <2>1
  <2> QED BY <1>1, <2>2
<1>3. PICK l \in J : \A j \in J : l <= j
  BY <1>2, MinIn
<1>4. PICK m \in I : l = n - m
  BY <1>1, <1>3
<1>5. \A i \in I : n - m <= n - i
  BY <1>1, <1>3, <1>4
<1>6. \A i \in I : i <= m /\ m >= i
  BY <1>5
<1>7. ASSUME NEW k \in I, \A i \in I : k >= i
      PROVE  \A i \in I : i <= k
  BY <1>7
<1> QED BY <1>4, <1>6, <1>7 DEF Max

\* The partial concatenations of n sequences.
Partial(seqs, n, f) ==
  f = [i \in 1 .. n |-> IF i = 1 THEN seqs[i] ELSE f[i - 1] \o seqs[i]]

LEMMA PartialExists ==
  ASSUME NEW seqs
  PROVE  \A n \in Nat : \E f : Partial(seqs, n, f)
<1> DEFINE S == {n \in Nat : \E f : Partial(seqs, n, f)}
<1>1. 0 \in S
  <2>1. Partial(seqs, 0, [i \in 1 .. 0 |-> 0])
    BY DEF Partial
  <2> QED BY <2>1
<1>2. ASSUME NEW n \in Nat, n \in S
      PROVE  n + 1 \in S
  <2>1. PICK f : Partial(seqs, n, f)
    BY <1>2
  <2> DEFINE g == [i \in 1 .. n + 1 |-> IF i = 1 THEN seqs[i] ELSE f[i - 1] \o seqs[i]]
  <2>2. \A i \in 1 .. n : g[i] = f[i]
    <3> TAKE i \in 1 .. n
    <3>1. f[i] = IF i = 1 THEN seqs[i] ELSE f[i - 1] \o seqs[i]
      BY <2>1, Zenon DEF Partial
    <3>2. i \in 1 .. n + 1
      OBVIOUS
    <3>3. g[i] = IF i = 1 THEN seqs[i] ELSE f[i - 1] \o seqs[i]
      BY <3>2
    <3> QED BY <3>1, <3>3
  <2>3. \A i \in 1 .. n + 1 : i # 1 => i - 1 \in 1 .. n
    OBVIOUS
  <2>4. g = [i \in 1 .. n + 1 |-> IF i = 1 THEN seqs[i] ELSE g[i - 1] \o seqs[i]]
    BY <2>2, <2>3
  <2> HIDE DEF g
  <2>5. Partial(seqs, n + 1, g)
    BY <2>4 DEF Partial
  <2> QED BY <2>5
<1> HIDE DEF S
<1>3. \A n \in Nat : n \in S
  BY <1>1, <1>2, Induct
<1> QED BY <1>3 DEF S

LEMMA FlattenIsPartial ==
  ASSUME NEW seqs, Len(seqs) \in Nat \ {0}
  PROVE  \E f : Partial(seqs, Len(seqs), f) /\ FlattenSeq(seqs) = f[Len(seqs)]
<1>1. \E f : Partial(seqs, Len(seqs), f)
  BY PartialExists
<1>2. PICK h : h = CHOOSE f : f = [i \in 1 .. Len(seqs) |->
                                     IF i = 1 THEN seqs[i] ELSE f[i - 1] \o seqs[i]]
  OBVIOUS
<1>3. Partial(seqs, Len(seqs), h)
  BY <1>1, <1>2 DEF Partial
<1>4. FlattenSeq(seqs) = h[Len(seqs)]
  BY <1>2 DEF FlattenSeq
<1> QED BY <1>3, <1>4

-----------------------------------------------------------------------------
(***************************************************************************)
(* The text of a program.                                                  *)
(***************************************************************************)
LEMMA Concatenated ==
  ASSUME NEW first, NEW second, IsSeq(first), IsSeq(second)
  PROVE  /\ IsSeq(first \o second) /\ Len(first) \in Nat /\ Len(second) \in Nat
         /\ Len(first \o second) = Len(first) + Len(second)
         /\ \A j \in 1 .. Len(first) : (first \o second)[j] = first[j]
         /\ \A j \in 1 .. Len(second) : (first \o second)[Len(first) + j] = second[j]
<1>1. PICK S : first \in Seq(S) /\ second \in Seq(S)
  BY SeqOver
<1>2. PICK c \in Seq(S), d \in Seq(S) : c = first /\ d = second
  BY <1>1
<1>3. /\ c \o d \in Seq(S) /\ Len(c \o d) = Len(c) + Len(d)
      /\ \A i \in 1 .. Len(c) + Len(d) :
           (c \o d)[i] = IF i <= Len(c) THEN c[i] ELSE d[i - Len(c)]
  BY ConcatProperties, Zenon
<1>4. PICK r, m, n : /\ r = c \o d /\ m = Len(c) /\ n = Len(d)
                     /\ m \in Nat /\ n \in Nat
  <2>1. Len(c) \in Nat /\ Len(d) \in Nat
    OBVIOUS
  <2> QED BY <2>1, Zenon
<1>5. \A i \in 1 .. m + n : r[i] = IF i <= m THEN c[i] ELSE d[i - m]
  BY <1>3, <1>4, Zenon
<1>6. /\ \A j \in 1 .. m : r[j] = c[j]
      /\ \A j \in 1 .. n : r[m + j] = d[j]
  <2>1. \A j \in 1 .. m : j \in 1 .. m + n /\ j <= m
    BY <1>4
  <2>2. ASSUME NEW j \in 1 .. n
        PROVE  r[m + j] = d[j]
    <3>1. PICK i : i = m + j
      OBVIOUS
    <3>2. i \in 1 .. m + n /\ ~(i <= m) /\ i - m = j
      BY <1>4, <3>1
    <3>3. r[i] = d[i - m]
      BY <1>5, <3>2
    <3> QED BY <3>1, <3>2, <3>3
  <2> QED BY <1>5, <2>1, <2>2
<1>7. IsSeq(r) /\ Len(r) = m + n
  BY <1>3, <1>4, Zenon DEF IsSeq
<1> QED BY <1>2, <1>4, <1>6, <1>7, Zenon

\* What an instruction does.  The writes of the file, the write that lets the
\* core go, the loop that knows the ROM and the writes to the registers that hold
\* the core are told apart from others.
SendShape(request) ==
  IF request.reg = "data" THEN "data"
  ELSE IF request.reg = "freeze" /\ request.value = 0 THEN "unfreeze" ELSE "send"

WriteShape(reg, value) ==
  IF reg = "freezen" THEN IF value = "1" THEN "hold" ELSE "release"
  ELSE IF reg = "resetn" THEN "resetn" ELSE "write"

Shape(x) ==
  IF x.do = "send" THEN SendShape(x.request)
  ELSE IF x.do = "write" THEN WriteShape(x.reg, x.value)
  ELSE IF x.do = "serve" /\ "rom" \in x.understood THEN "rom serve" ELSE x.do

Writes == {"write", "hold", "release", "resetn"}
Sends == {"send", "unfreeze"}
Plain == {"check", "tick", "args"}

LEMMA ShapesKnown ==
  /\ \A reg, value : WriteShape(reg, value) \in Writes
  /\ \A request : SendShape(request) \in Sends \cup {"data"}
  /\ \A request : request.reg # "data" <=> SendShape(request) \in Sends
BY DEF WriteShape, SendShape, Writes, Sends

\* A sequence of instructions of these shapes.
Only(s, dos) == IsSeq(s) /\ \A j \in 1 .. Len(s) : Shape(s[j]) \in dos

LEMMA OnlyOne ==
  ASSUME NEW x, NEW dos, Shape(x) \in dos
  PROVE  Only(<<x>>, dos)
<1>1. PICK s : s = <<x>>
  OBVIOUS
<1>2. s \in Seq({x}) /\ Len(s) = 1 /\ s[1] = x
  BY <1>1
<1>3. Only(s, dos)
  BY <1>2 DEF Only, IsSeq
<1> QED BY <1>1, <1>3

LEMMA OnlyNone ==
  ASSUME NEW dos
  PROVE  Only(<< >>, dos)
<1>1. PICK e : e = << >> /\ IsSeq(e) /\ Len(e) = 0
  BY EmptyIsSeq
<1>2. Only(e, dos)
  BY <1>1 DEF Only
<1> QED BY <1>1, <1>2

LEMMA OnlyBoth ==
  ASSUME NEW dos, NEW a, NEW b, Only(a, dos), Only(b, dos)
  PROVE  Only(a \o b, dos)
<1>1. PICK r, m, n : r = a \o b /\ m = Len(a) /\ n = Len(b)
  OBVIOUS
<1>2. /\ IsSeq(r) /\ m \in Nat /\ n \in Nat /\ Len(r) = m + n
      /\ \A j \in 1 .. m : r[j] = a[j]
      /\ \A j \in 1 .. n : r[m + j] = b[j]
  <2>1. /\ IsSeq(a \o b) /\ Len(a) \in Nat /\ Len(b) \in Nat
        /\ Len(a \o b) = Len(a) + Len(b)
        /\ \A j \in 1 .. Len(a) : (a \o b)[j] = a[j]
        /\ \A j \in 1 .. Len(b) : (a \o b)[Len(a) + j] = b[j]
    <3>1. IsSeq(a) /\ IsSeq(b)
      BY DEF Only
    <3> QED BY <3>1, Concatenated
  <2> QED BY <1>1, <2>1, Zenon
<1>3. ASSUME NEW j \in 1 .. Len(r)
      PROVE  Shape(r[j]) \in dos
  <2>1. CASE j <= m
    <3>1. j \in 1 .. m
      BY <1>2, <2>1
    <3> QED BY <1>1, <1>2, <3>1 DEF Only
  <2>2. CASE j > m
    <3>1. PICK i \in 1 .. n : j = m + i
      <4>1. j - m \in 1 .. n /\ j = m + (j - m)
        BY <1>2, <2>2
      <4> QED BY <4>1
    <3> QED BY <1>1, <1>2, <3>1 DEF Only
  <2> QED BY <1>2, <2>1, <2>2
<1> QED BY <1>1, <1>2, <1>3 DEF Only

LEMMA FlattenOnly ==
  ASSUME NEW seqs, IsSeq(seqs), NEW dos, \A i \in 1 .. Len(seqs) : Only(seqs[i], dos)
  PROVE  Only(FlattenSeq(seqs), dos)
<1>1. Len(seqs) \in Nat
  BY SeqFacts
<1>2. CASE Len(seqs) = 0
  <2>1. FlattenSeq(seqs) = seqs
    BY <1>2 DEF FlattenSeq
  <2>2. Only(seqs, dos)
    BY <1>2 DEF Only
  <2> QED BY <2>1, <2>2
<1>3. CASE Len(seqs) # 0
  <2>1. Len(seqs) \in Nat \ {0}
    BY <1>1, <1>3
  <2>2. PICK f : Partial(seqs, Len(seqs), f) /\ FlattenSeq(seqs) = f[Len(seqs)]
    BY <2>1, FlattenIsPartial
  <2> DEFINE S == {n \in Nat : n \in 1 .. Len(seqs) => Only(f[n], dos)}
  <2>3. 0 \in S
    OBVIOUS
  <2>4. ASSUME NEW n \in Nat, n \in S
        PROVE  n + 1 \in S
    <3> SUFFICES ASSUME n + 1 \in 1 .. Len(seqs)
                 PROVE  Only(f[n + 1], dos)
      OBVIOUS
    <3>1. f[n + 1] = IF n + 1 = 1 THEN seqs[n + 1] ELSE f[(n + 1) - 1] \o seqs[n + 1]
      BY <2>2, Zenon DEF Partial
    <3>2. CASE n = 0
      <4>1. f[n + 1] = seqs[n + 1]
        BY <3>1, <3>2
      <4> QED BY <4>1
    <3>3. CASE n # 0
      <4>1. n \in 1 .. Len(seqs) /\ (n + 1) - 1 = n /\ n + 1 # 1
        BY <1>1, <3>3
      <4>2. f[n + 1] = f[n] \o seqs[n + 1]
        BY <3>1, <4>1
      <4>3. Only(f[n], dos)
        BY <2>4, <4>1
      <4> QED BY <4>2, <4>3, OnlyBoth
    <3> QED BY <3>2, <3>3
  <2> HIDE DEF S
  <2>5. \A n \in Nat : n \in S
    BY <2>3, <2>4, Induct
  <2>6. Len(seqs) \in S /\ Len(seqs) \in 1 .. Len(seqs)
    BY <2>1, <2>5
  <2> QED BY <2>2, <2>6 DEF S
<1> QED BY <1>2, <1>3

Initially == Writes \cup Sends \cup Plain \cup {"load"}
Loading == {"data", "drain", "await"}
Running == Writes \cup Sends \cup {"serve", "rom serve"}

LEMMA OneInstruction ==
  ASSUME NEW dos
  PROVE  /\ \A reg, value :
              WriteShape(reg, value) \in dos => Only(Write(reg, value), dos)
         /\ \A reg, value : "check" \in dos => Only(Check(reg, value), dos)
         /\ "tick" \in dos => Only(Tick, dos)
         /\ "args" \in dos => Only(Args, dos)
         /\ "load" \in dos => Only(Load, dos)
         /\ "drain" \in dos => Only(Drain, dos)
         /\ \A value : "await" \in dos => Only(Await(value), dos)
         /\ \A understood, count :
              (IF "rom" \in understood THEN "rom serve" ELSE "serve") \in dos
                => Only(Serve(understood, count), dos)
         /\ \A kind, dst, reg, value :
              SendShape(Request(kind, dst, reg, value)) \in dos
                => Only(Send(Request(kind, dst, reg, value)), dos)
<1>1. \A x : Shape(x) \in dos => Only(<<x>>, dos)
  BY OnlyOne
<1>2. /\ \A reg, value : Shape([do |-> "write", reg |-> reg, value |-> value])
                            = WriteShape(reg, value)
      /\ \A reg, value : Shape([do |-> "check", reg |-> reg, value |-> value]) = "check"
      /\ \A do \in {"tick", "args", "load", "drain"} : Shape([do |-> do]) = do
      /\ \A value : Shape([do |-> "await", value |-> value]) = "await"
  BY DEF Shape
<1>3. \A understood, count :
        Shape([do |-> "serve", understood |-> understood, count |-> count])
          = IF "rom" \in understood THEN "rom serve" ELSE "serve"
  BY DEF Shape
<1>4. \A kind, dst, reg, value :
        Shape([do |-> "send", request |-> Request(kind, dst, reg, value)])
          = SendShape(Request(kind, dst, reg, value))
  BY DEF Shape
<1>5. /\ \A reg, value : WriteShape(reg, value) \in dos => Only(Write(reg, value), dos)
      /\ \A reg, value : "check" \in dos => Only(Check(reg, value), dos)
      /\ \A value : "await" \in dos => Only(Await(value), dos)
  BY <1>1, <1>2 DEF Write, Check, Await
<1>6. /\ "tick" \in dos => Only(Tick, dos)
      /\ "args" \in dos => Only(Args, dos)
      /\ "load" \in dos => Only(Load, dos)
      /\ "drain" \in dos => Only(Drain, dos)
  BY <1>1, <1>2 DEF Tick, Args, Load, Drain
<1>7. \A understood, count :
        (IF "rom" \in understood THEN "rom serve" ELSE "serve") \in dos
          => Only(Serve(understood, count), dos)
  BY <1>1, <1>3 DEF Serve
<1>8. \A kind, dst, reg, value :
        SendShape(Request(kind, dst, reg, value)) \in dos
          => Only(Send(Request(kind, dst, reg, value)), dos)
  BY <1>1, <1>4 DEF Send
<1> QED BY <1>5, <1>6, <1>7, <1>8

\* Writes and sends of something else than a line, wherever they are let in.
LEMMA WriteOrSend ==
  ASSUME NEW dos
  PROVE  /\ Writes \subseteq dos => \A reg, value : Only(Write(reg, value), dos)
         /\ Sends \subseteq dos =>
              \A kind, dst, reg, value :
                reg # "data" => Only(Send(Request(kind, dst, reg, value)), dos)
<1>1. ASSUME Writes \subseteq dos, NEW reg, NEW value
      PROVE  Only(Write(reg, value), dos)
  <2>1. WriteShape(reg, value) \in dos
    BY <1>1, ShapesKnown
  <2> QED BY <2>1, OneInstruction
<1>2. ASSUME Sends \subseteq dos, NEW kind, NEW dst, NEW reg, NEW value, reg # "data"
      PROVE  Only(Send(Request(kind, dst, reg, value)), dos)
  <2>1. Request(kind, dst, reg, value).reg = reg
    BY DEF Request
  <2>2. PICK r : r = Request(kind, dst, reg, value)
    OBVIOUS
  <2>3. SendShape(r) \in dos
    BY <1>2, <2>1, <2>2, ShapesKnown
  <2> QED BY <2>2, <2>3, OneInstruction
<1> QED BY <1>1, <1>2

LEMMA SetupOnly ==
  ASSUME NEW p \in Programs, NEW val
  PROVE  Only(Setup(p, val), Initially)
<1>1. \A a, b : Only(a, Initially) /\ Only(b, Initially) => Only(a \o b, Initially)
  BY OnlyBoth
<1>2. /\ \A reg, value : Only(Write(reg, value), Initially)
      /\ \A reg, value : Only(Check(reg, value), Initially)
      /\ Only(Tick, Initially) /\ Only(Args, Initially) /\ Only(Load, Initially)
      /\ \A kind, dst, reg, value :
           reg # "data" => Only(Send(Request(kind, dst, reg, value)), Initially)
  <2>1. /\ {"check", "tick", "args", "load"} \subseteq Initially
        /\ Writes \subseteq Initially /\ Sends \subseteq Initially
    BY DEF Initially, Plain
  <2>2. /\ \A reg, value : Only(Check(reg, value), Initially)
        /\ Only(Tick, Initially) /\ Only(Args, Initially) /\ Only(Load, Initially)
    BY <2>1, OneInstruction
  <2> QED BY <2>1, <2>2, WriteOrSend
<1>3. \A value : Only(TestRegister(value), Initially)
  BY <1>1, <1>2 DEF TestRegister
<1>4. Only(MinimalSetup, Initially)
  BY <1>1, <1>2, <1>3 DEF MinimalSetup
<1>5. Only(MinimalConfig, Initially)
  BY <1>1, <1>2 DEF MinimalConfig, MinimalWrite
<1>6. Only(ManycoreSetup, Initially)
  BY <1>1, <1>2, <1>3 DEF ManycoreSetup
<1>7. Only(HammerbladeSetup(val), Initially)
  BY <1>1, <1>2, <1>3 DEF HammerbladeSetup
<1>8. p \in {"minimal", "manycore", "hammerblade"}
  BY PacketLinkAssumption
<1> QED BY <1>1, <1>2, <1>4, <1>5, <1>6, <1>7, <1>8 DEF Setup

LEMMA RestOnly ==
  ASSUME NEW p \in Programs
  PROVE  Only(Rest(p), Running)
<1>1. \A a, b : Only(a, Running) /\ Only(b, Running) => Only(a \o b, Running)
  BY OnlyBoth
<1>2. /\ \A reg, value : Only(Write(reg, value), Running)
      /\ \A understood, count : Only(Serve(understood, count), Running)
      /\ \A kind, dst, reg, value :
           reg # "data" => Only(Send(Request(kind, dst, reg, value)), Running)
  <2>1. /\ {"serve", "rom serve"} \subseteq Running
        /\ Writes \subseteq Running /\ Sends \subseteq Running
    BY DEF Running
  <2>2. \A understood, count : Only(Serve(understood, count), Running)
    BY <2>1, OneInstruction
  <2> QED BY <2>1, <2>2, WriteOrSend
<1>3. Only(MinimalRun, Running) /\ Only(MinimalEnd, Running)
  BY <1>1, <1>2 DEF MinimalRun, MinimalEnd, MinimalWrite
<1>4. Only(ManycoreServe, Running)
  BY <1>2 DEF ManycoreServe
<1>5. Only(HammerbladeServeTiles, Running) /\ Only(HammerbladeServeCore, Running)
  BY <1>2 DEF HammerbladeServeTiles, HammerbladeServeCore
<1>6. Only(HammerbladeConfig, Running)
  BY <1>1, <1>2 DEF HammerbladeConfig, HammerbladeWrite
<1>7. p \in {"minimal", "manycore", "hammerblade"}
  BY PacketLinkAssumption
<1> QED BY <1>1, <1>3, <1>4, <1>5, <1>6, <1>7 DEF Rest

LEMMA CommandOnly ==
  /\ \A command, k : Only(MinimalCommand(command, k), Loading)
  /\ \A command, k : Only(ManycoreCommand(command, k), Loading)
  /\ \A v, command, k : Only(HammerbladeCommand(v, command, k), Loading)
<1>1. \A a, b : Only(a, Loading) /\ Only(b, Loading) => Only(a \o b, Loading)
  BY OnlyBoth
<1>2. /\ \A value : Only(Await(value), Loading)
      /\ \A kind, dst, value : Only(Send(Request(kind, dst, "data", value)), Loading)
      /\ Only(Drain, Loading) /\ Only(<< >>, Loading)
  <2>1. {"data", "drain", "await"} \subseteq Loading
    BY DEF Loading
  <2>2. \A kind, dst, value : SendShape(Request(kind, dst, "data", value)) = "data"
    BY DEF SendShape, Request
  <2> QED BY <2>1, <2>2, OneInstruction, OnlyNone
<1>3. \A command, k : Only(MinimalCommand(command, k), Loading)
  BY <1>2 DEF MinimalCommand, MinimalWrite
<1>4. \A command, k : Only(ManycoreCommand(command, k), Loading)
  BY <1>2 DEF ManycoreCommand, ManycoreWrite
<1>5. \A dst, value : /\ Only(HammerbladeWrite(dst, "data", value), Loading)
                      /\ Only(HammerbladeRead(dst, "data", value), Loading)
  BY <1>1, <1>2 DEF HammerbladeWrite, HammerbladeRead
<1>6. \A v, command, k : Only(HammerbladeCommand(v, command, k), Loading)
  BY <1>1, <1>2, <1>5 DEF HammerbladeCommand
<1> QED BY <1>3, <1>4, <1>6

LEMMA LoadedOnly ==
  ASSUME NEW s, IsSeq(s), NEW v
  PROVE  /\ Only(FlattenSeq([k \in 1 .. Len(s) |-> MinimalCommand(s[k], k)]), Loading)
         /\ Only(FlattenSeq([k \in 1 .. Len(s) |-> ManycoreCommand(s[k], k)]), Loading)
         /\ Only(FlattenSeq([k \in 1 .. Len(s) |-> HammerbladeCommand(v, s[k], k)]), Loading)
<1>1. Len(s) \in Nat
  BY SeqFacts
<1>2. \A t : t = [k \in 1 .. Len(s) |-> t[k]] => IsSeq(t) /\ Len(t) = Len(s)
  <2> TAKE t
  <2> HAVE t = [k \in 1 .. Len(s) |-> t[k]]
  <2>1. PICK S : S = {t[k] : k \in 1 .. Len(s)}
    OBVIOUS
  <2>2. t \in Seq(S) /\ Len(t) = Len(s)
    BY <1>1, <2>1
  <2> QED BY <2>2 DEF IsSeq
<1>3. ASSUME NEW t, t = [k \in 1 .. Len(s) |-> t[k]],
             \A k \in 1 .. Len(s) : Only(t[k], Loading)
      PROVE  Only(FlattenSeq(t), Loading)
  BY <1>2, <1>3, FlattenOnly
<1>4. PICK t : t = [k \in 1 .. Len(s) |-> MinimalCommand(s[k], k)]
  OBVIOUS
<1>5. PICK u : u = [k \in 1 .. Len(s) |-> ManycoreCommand(s[k], k)]
  OBVIOUS
<1>6. PICK w : w = [k \in 1 .. Len(s) |-> HammerbladeCommand(v, s[k], k)]
  OBVIOUS
<1>7. Only(FlattenSeq(t), Loading)
  BY <1>3, <1>4, CommandOnly
<1>8. Only(FlattenSeq(u), Loading)
  BY <1>3, <1>5, CommandOnly
<1>9. Only(FlattenSeq(w), Loading)
  BY <1>3, <1>6, CommandOnly
<1> QED BY <1>4, <1>5, <1>6, <1>7, <1>8, <1>9, Zenon

\* The lines of a file before the first that the loader does not know.
LEMMA BeforeUnknown ==
  ASSUME NEW file, IsSeq(file), \E k \in 1 .. Len(file) : file[k].kind = "unknown"
  PROVE  IsSeq(SubSeq(file, 1, SelectInSeq(file, LAMBDA c : c.kind = "unknown") - 1))
<1>1. PICK s : s = SubSeq(file, 1, SelectInSeq(file, LAMBDA c : c.kind = "unknown") - 1)
  OBVIOUS
<1>2. PICK I : I = {i \in 1 .. Len(file) : file[i].kind = "unknown"}
  OBVIOUS
<1>3. PICK S : file \in Seq(S)
  BY DEF IsSeq
<1>4. I # {} /\ I \subseteq 1 .. Len(file) /\ Len(file) \in Nat
  BY <1>2, <1>3
<1>5. Min(I) \in I
  <2>1. I \subseteq Nat
    BY <1>4
  <2> QED BY <1>4, <2>1, MinIn
<1>6. SelectInSeq(file, LAMBDA c : c.kind = "unknown") = Min(I)
  BY <1>2, <1>4 DEF SelectInSeq
<1>7. PICK m \in 1 .. Len(file) : m = Min(I)
  BY <1>4, <1>5
<1>8. s = SubSeq(file, 1, m - 1)
  BY <1>1, <1>6, <1>7
<1>9. s \in Seq(S)
  BY <1>3, <1>4, <1>7, <1>8
<1> QED BY <1>1, <1>9 DEF IsSeq

LEMMA LoadOnly ==
  ASSUME NEW p \in Programs, NEW v, NEW file \in Files
  PROVE  Only(LoadFile(p, v, file), Loading)
<1>1. IsSeq(file)
  BY PacketLinkAssumption DEF IsSeq
<1>2. Only(MinimalLoad(file), Loading)
  <2>1. CASE \E k \in 1 .. Len(file) : file[k].kind = "unknown"
    <3>1. PICK s : /\ s = SubSeq(file, 1, SelectInSeq(file, LAMBDA c : c.kind = "unknown") - 1)
                   /\ IsSeq(s)
      BY <1>1, <2>1, BeforeUnknown
    <3>2. MinimalLoad(file) = FlattenSeq([k \in 1 .. Len(s) |-> MinimalCommand(s[k], k)])
      BY <2>1, <3>1 DEF MinimalLoad, Loaded
    <3> QED BY <3>1, <3>2, LoadedOnly
  <2>2. CASE ~\E k \in 1 .. Len(file) : file[k].kind = "unknown"
    <3>1. MinimalLoad(file)
            = FlattenSeq([k \in 1 .. Len(file) |-> MinimalCommand(file[k], k)]) \o Drain
      BY <2>2 DEF MinimalLoad, Loaded
    <3>2. Only(Drain, Loading)
      BY OneInstruction DEF Loading
    <3> QED BY <1>1, <3>1, <3>2, LoadedOnly, OnlyBoth
  <2> QED BY <2>1, <2>2
<1>3. p \in {"minimal", "manycore", "hammerblade"}
  BY PacketLinkAssumption
<1> QED BY <1>1, <1>2, <1>3, LoadedOnly DEF LoadFile, Loaded

\* The first m instructions are of the shapes A, the others of the shapes B.
Parts(s, m, A, B) ==
  /\ IsSeq(s) /\ m \in 0 .. Len(s)
  /\ \A j \in 1 .. m : Shape(s[j]) \in A
  /\ \A j \in m + 1 .. Len(s) : Shape(s[j]) \in B

JoinOf(a, b, r) ==
  /\ IsSeq(r) /\ Len(a) \in Nat /\ Len(b) \in Nat /\ Len(r) = Len(a) + Len(b)
  /\ \A j \in 1 .. Len(a) : r[j] = a[j]
  /\ \A j \in 1 .. Len(b) : r[Len(a) + j] = b[j]

LEMMA Joined ==
  ASSUME NEW a, NEW b, IsSeq(a), IsSeq(b)
  PROVE  JoinOf(a, b, a \o b)
BY Concatenated DEF JoinOf

LEMMA OnlyWider ==
  ASSUME NEW s, NEW A, NEW B, Only(s, A), A \subseteq B
  PROVE  Only(s, B)
BY DEF Only

LEMMA PartsWhole ==
  ASSUME NEW s, NEW A, NEW B, Only(s, A)
  PROVE  Parts(s, Len(s), A, B)
<1>1. Len(s) \in Nat
  BY SeqFacts DEF Only
<1> QED BY <1>1 DEF Only, Parts

LEMMA PartsNone ==
  ASSUME NEW s, NEW A, NEW B, Only(s, B)
  PROVE  Parts(s, 0, A, B)
<1>1. Len(s) \in Nat
  BY SeqFacts DEF Only
<1> QED BY <1>1 DEF Only, Parts

LEMMA PartsBefore ==
  ASSUME NEW A, NEW B, NEW s, NEW m, Parts(s, m, A, B), NEW b, Only(b, B)
  PROVE  Parts(s \o b, m, A, B)
<1>1. PICK r : r = s \o b /\ JoinOf(s, b, r)
  BY Joined DEF Parts, Only
<1>2. \A j \in 1 .. m : Shape(r[j]) \in A
  BY <1>1 DEF Parts, JoinOf
<1>3. \A j \in m + 1 .. Len(r) : Shape(r[j]) \in B
  <2> TAKE j \in m + 1 .. Len(r)
  <2>1. CASE j <= Len(s)
    BY <1>1, <2>1 DEF Parts, JoinOf
  <2>2. CASE j > Len(s)
    <3>1. PICK l \in 1 .. Len(b) : j = Len(s) + l
      <4>1. j - Len(s) \in 1 .. Len(b) /\ j = Len(s) + (j - Len(s))
        BY <1>1, <2>2 DEF Parts, JoinOf
      <4> QED BY <4>1
    <3> QED BY <1>1, <3>1 DEF Only, JoinOf
  <2> QED BY <1>1, <2>1, <2>2 DEF Parts, JoinOf
<1>4. IsSeq(r) /\ m \in 0 .. Len(r)
  BY <1>1 DEF Parts, JoinOf
<1> QED BY <1>1, <1>2, <1>3, <1>4 DEF Parts

LEMMA PartsAfter ==
  ASSUME NEW A, NEW B, NEW s, NEW m, Parts(s, m, A, B), NEW a, Only(a, A)
  PROVE  Parts(a \o s, Len(a) + m, A, B)
<1>1. PICK r : r = a \o s /\ JoinOf(a, s, r)
  BY Joined DEF Parts, Only
<1>2. PICK n \in Nat, l \in Nat : n = Len(a) /\ l = Len(s) /\ Len(r) = n + l
  BY <1>1 DEF JoinOf
<1>3. m \in 0 .. l
  BY <1>2 DEF Parts
<1>4. \A j \in n + 1 .. n + l : j - n \in 1 .. l /\ r[j] = s[j - n]
  <2> TAKE j \in n + 1 .. n + l
  <2>1. PICK i \in 1 .. l : j = n + i /\ i = j - n
    <3>1. j - n \in 1 .. l /\ j = n + (j - n)
      BY <1>2
    <3> QED BY <3>1
  <2>2. r[n + i] = s[i]
    BY <1>1, <1>2 DEF JoinOf
  <2> QED BY <2>1, <2>2
<1>5. \A j \in 1 .. n : r[j] = a[j] /\ Shape(a[j]) \in A
  BY <1>1, <1>2 DEF JoinOf, Only
<1>6. \A j \in 1 .. n + m : Shape(r[j]) \in A
  <2> TAKE j \in 1 .. n + m
  <2>1. CASE j <= n
    BY <1>2, <1>5, <2>1
  <2>2. CASE j > n
    <3>1. j \in n + 1 .. n + l /\ j - n \in 1 .. m
      BY <1>2, <1>3, <2>2
    <3> QED BY <1>4, <3>1 DEF Parts
  <2> QED BY <1>2, <1>3, <2>1, <2>2
<1>7. \A j \in n + m + 1 .. n + l : Shape(r[j]) \in B
  <2> TAKE j \in n + m + 1 .. n + l
  <2>1. j \in n + 1 .. n + l /\ j - n \in m + 1 .. l
    BY <1>2, <1>3
  <2> QED BY <1>2, <1>4, <2>1 DEF Parts
<1>8. IsSeq(r) /\ n + m \in 0 .. n + l
  BY <1>1, <1>2, <1>3 DEF JoinOf
<1> QED BY <1>1, <1>2, <1>6, <1>7, <1>8 DEF Parts

-----------------------------------------------------------------------------
(***************************************************************************)
(* Types and capacities.                                                   *)
(***************************************************************************)
Holds(s, most) == IsSeq(s) /\ Len(s) <= most

Fifos(f, most) ==
  /\ f = [k \in 0 .. 1 |-> f[k]]
  /\ \A k \in 0 .. 1 : Holds(f[k], most)

LEMMA HoldsNone ==
  ASSUME NEW most \in Nat
  PROVE  Holds(<< >>, most)
BY EmptyIsSeq DEF Holds

LEMMA HoldsOneMore ==
  ASSUME NEW most \in Nat, NEW s, Holds(s, most), Len(s) < most, NEW x
  PROVE  Holds(Append(s, x), most)
<1>1. IsSeq(s)
  BY DEF Holds
<1>2. PICK r : r = Append(s, x)
  OBVIOUS
<1>3. IsSeq(r) /\ Len(s) \in Nat /\ Len(r) = Len(s) + 1
  BY <1>1, <1>2, Appended
<1> QED BY <1>2, <1>3 DEF Holds

LEMMA HoldsOneLess ==
  ASSUME NEW most \in Nat, NEW s, Holds(s, most), s # << >>
  PROVE  Holds(Tail(s), most)
<1>1. IsSeq(s)
  BY DEF Holds
<1>2. PICK r : r = Tail(s)
  OBVIOUS
<1>3. IsSeq(r) /\ Len(s) \in Nat \ {0} /\ Len(r) = Len(s) - 1
  BY <1>1, <1>2, Shortened
<1> QED BY <1>2, <1>3 DEF Holds

LEMMA HoldsPushed ==
  ASSUME NEW s, Holds(s, Els), NEW x
  PROVE  Holds(Push(s, x), Els)
BY HoldsOneMore, WordsPositive DEF Push

LEMMA HoldsPacket ==
  ASSUME NEW x
  PROVE  Holds(InWords(x), Words)
BY InWordsFacts, WordsPositive DEF Holds

LEMMA FifoChanged ==
  ASSUME NEW most, NEW f, Fifos(f, most), NEW k \in 0 .. 1, NEW s, Holds(s, most),
         NEW g, g = [f EXCEPT ![k] = s]
  PROVE  Fifos(g, most)
<1>1. /\ g = [i \in 0 .. 1 |-> g[i]] /\ g[k] = s
      /\ \A i \in 0 .. 1 : i # k => g[i] = f[i]
  BY DEF Fifos
<1> QED BY <1>1 DEF Fifos

LEMMA Removed ==
  ASSUME NEW s, IsSeq(s), NEW i \in 1 .. Len(s), NEW r, r = RemoveAt(s, i)
  PROVE  /\ IsSeq(r) /\ Len(s) \in Nat /\ Len(r) = Len(s) - 1
         /\ \A j \in 1 .. i - 1 : r[j] = s[j]
         /\ \A j \in i .. Len(r) : r[j] = s[j + 1]
<1>1. PICK S : s \in Seq(S)
  BY DEF IsSeq
<1>2. PICK n \in Nat : n = Len(s) /\ i \in 1 .. n
  BY <1>1
<1>3. PICK a, b : /\ a = SubSeq(s, 1, i - 1) /\ b = SubSeq(s, i + 1, n)
                  /\ r = a \o b
  BY <1>2 DEF RemoveAt
<1>4. /\ a \in Seq(S) /\ Len(a) = i - 1
      /\ \A j \in 1 .. i - 1 : a[j] = s[j]
  BY <1>1, <1>2, <1>3
<1>5. /\ b \in Seq(S) /\ Len(b) = n - i
      /\ \A j \in 1 .. n - i : b[j] = s[j + i]
  BY <1>1, <1>2, <1>3
<1>6. IsSeq(a) /\ IsSeq(b)
  BY <1>4, <1>5 DEF IsSeq
<1>7. /\ IsSeq(r) /\ Len(r) = Len(a) + Len(b)
      /\ \A j \in 1 .. Len(a) : r[j] = a[j]
      /\ \A j \in 1 .. Len(b) : r[Len(a) + j] = b[j]
  <2>1. /\ IsSeq(a \o b) /\ Len(a \o b) = Len(a) + Len(b)
        /\ \A j \in 1 .. Len(a) : (a \o b)[j] = a[j]
        /\ \A j \in 1 .. Len(b) : (a \o b)[Len(a) + j] = b[j]
    BY <1>6, Concatenated
  <2> QED BY <1>3, <2>1, Zenon
<1>8. Len(r) = n - 1
  BY <1>2, <1>4, <1>5, <1>7
<1>9. \A j \in 1 .. i - 1 : r[j] = s[j]
  BY <1>4, <1>7
<1>10. \A j \in i .. n - 1 : r[j] = s[j + 1]
  <2> TAKE j \in i .. n - 1
  <2>1. PICK m \in 1 .. n - i : j = (i - 1) + m /\ m + i = j + 1
    <3>1. /\ j - (i - 1) \in 1 .. n - i /\ j = (i - 1) + (j - (i - 1))
          /\ (j - (i - 1)) + i = j + 1
      BY <1>2
    <3> QED BY <3>1
  <2>2. r[(i - 1) + m] = b[m]
    BY <1>4, <1>5, <1>7
  <2> QED BY <1>5, <2>1, <2>2
<1> QED BY <1>2, <1>7, <1>8, <1>9, <1>10

TextInv ==
  /\ program \in Programs
  /\ IsSeq(text) /\ pc \in 1 .. Len(text) + 1
  /\ \A i \in 1 .. Len(text) : text[i].do = "serve" =>
       \A j \in i .. Len(text) : Shape(text[j]) \in Running
  /\ served # << >> => \E i \in 1 .. Len(text) : i <= pc /\ text[i].do = "serve"

LEMMA TextStart ==
  ASSUME NEW p \in Programs, NEW val
  PROVE  /\ IsSeq(Setup(p, val)) /\ Len(Setup(p, val)) \in Nat
         /\ \A i \in 1 .. Len(Setup(p, val)) : Setup(p, val)[i].do # "serve"
<1>1. Only(Setup(p, val), Initially)
  BY SetupOnly
<1>2. PICK t : t = Setup(p, val)
  OBVIOUS
<1> QED BY <1>1, <1>2, SeqFacts DEF Only, Initially, Shape, Writes, Sends, Plain

LEMMA TextLoaded ==
  ASSUME NEW p \in Programs, NEW t,
         t = Rest(p) \/ \E v : \E file \in Files : t = LoadFile(p, v, file) \o Rest(p)
  PROVE  /\ IsSeq(t) /\ Len(t) \in Nat
         /\ \A i \in 1 .. Len(t) : t[i].do = "serve" =>
              \A j \in i .. Len(t) : Shape(t[j]) \in Running
<1>1. PICK rest : rest = Rest(p) /\ Only(rest, Running)
  BY RestOnly
<1>2. CASE t = Rest(p)
  <2>1. Only(t, Running) /\ IsSeq(t)
    BY <1>1, <1>2 DEF Only
  <2>2. Len(t) \in Nat
    BY <2>1, SeqFacts
  <2>3. \A i \in 1 .. Len(t) : \A j \in i .. Len(t) : j \in 1 .. Len(t)
    BY <2>2
  <2> QED BY <2>1, <2>2, <2>3 DEF Only
<1>3. CASE \E v : \E file \in Files : t = LoadFile(p, v, file) \o Rest(p)
  <2>1. PICK v : \E file \in Files : t = LoadFile(p, v, file) \o Rest(p)
    BY <1>3
  <2>2. PICK file \in Files : t = LoadFile(p, v, file) \o rest
    BY <1>1, <2>1
  <2>3. PICK load : load = LoadFile(p, v, file) /\ Only(load, Loading)
    BY LoadOnly
  <2>4. PICK m, n : m = Len(load) /\ n = Len(rest)
    OBVIOUS
  <2>5. /\ IsSeq(t) /\ m \in Nat /\ n \in Nat /\ Len(t) = m + n
        /\ \A j \in 1 .. m : t[j] = load[j]
        /\ \A j \in 1 .. n : t[m + j] = rest[j]
    <3>1. IsSeq(load) /\ IsSeq(rest) /\ t = load \o rest
      BY <1>1, <2>2, <2>3 DEF Only
    <3> QED BY <2>4, <3>1, Concatenated
  <2>6. \A i \in 1 .. m : t[i].do # "serve"
    BY <2>3, <2>4, <2>5 DEF Only, Loading, Shape
  <2>7. \A j \in m + 1 .. m + n : Shape(t[j]) \in Running
    <3> TAKE j \in m + 1 .. m + n
    <3>1. PICK l \in 1 .. n : j = m + l
      <4>1. j - m \in 1 .. n /\ j = m + (j - m)
        BY <2>5
      <4> QED BY <4>1
    <3> QED BY <1>1, <2>4, <2>5, <3>1 DEF Only
  <2>8. ASSUME NEW i \in 1 .. Len(t), t[i].do = "serve", NEW j \in i .. Len(t)
        PROVE  Shape(t[j]) \in Running
    <3>1. i \notin 1 .. m
      BY <2>6, <2>8
    <3>2. j \in m + 1 .. m + n
      BY <2>5, <3>1
    <3> QED BY <2>7, <3>2
  <2> QED BY <2>5, <2>8
<1> QED BY <1>2, <1>3

LEMMA TextInit == Init => TextInv
<1> SUFFICES ASSUME Init
             PROVE  TextInv
  OBVIOUS
<1>1. /\ program \in Programs /\ pc = 1 /\ served = << >>
      /\ \E val : text = Setup(program, val)
  BY DEF Init
<1>2. /\ IsSeq(text) /\ Len(text) \in Nat
      /\ \A i \in 1 .. Len(text) : text[i].do # "serve"
  BY <1>1, TextStart
<1> QED BY <1>1, <1>2 DEF TextInv

LEMMA TextFrame ==
  ASSUME TextInv, UNCHANGED <<program, text, served>>,
         pc' = pc \/ (pc' = pc + 1 /\ pc <= Len(text))
  PROVE  TextInv'
<1>1. PICK t, p, s : /\ t = text /\ t = text' /\ p = program /\ p = program'
                     /\ s = served /\ s = served'
  OBVIOUS
<1>2. Len(t) \in Nat /\ pc \in 1 .. Len(t) + 1
  BY <1>1, SeqFacts DEF TextInv
<1>3. pc' \in 1 .. Len(t) + 1 /\ pc <= pc'
  BY <1>1, <1>2
<1>4. ASSUME s # << >>
      PROVE  \E i \in 1 .. Len(t) : i <= pc' /\ t[i].do = "serve"
  <2>1. PICK i \in 1 .. Len(t) : i <= pc /\ t[i].do = "serve"
    BY <1>1, <1>4 DEF TextInv
  <2>2. i <= pc'
    BY <1>2, <1>3, <2>1
  <2> QED BY <2>1, <2>2
<1> QED BY <1>1, <1>3, <1>4 DEF TextInv

LEMMA BeforeServe ==
  ASSUME TextInv, At("load") \/ At("drain")
  PROVE  served = << >>
<1> SUFFICES ASSUME served # << >>
             PROVE  FALSE
  OBVIOUS
<1>1. PICK i \in 1 .. Len(text) : i <= pc /\ text[i].do = "serve"
  BY DEF TextInv
<1>2. Len(text) \in Nat /\ pc \in 1 .. Len(text) + 1 /\ pc <= Len(text)
  BY SeqFacts DEF TextInv, At
<1>3. pc \in i .. Len(text)
  BY <1>1, <1>2
<1>4. Shape(text[pc]) \in Running
  BY <1>1, <1>3 DEF TextInv
<1>5. text[pc].do \in {"load", "drain"}
  BY DEF At, instr
<1> QED BY <1>4, <1>5 DEF Running, Shape, Writes, Sends

LEMMA TextNext == TextInv /\ [Next]_vars => TextInv'
<1> SUFFICES ASSUME TextInv, [Next]_vars
             PROVE  TextInv'
  OBVIOUS
<1> DEFINE Same == /\ UNCHANGED <<program, text, served>>
                   /\ pc' = pc \/ (pc' = pc + 1 /\ pc <= Len(text))
<1>1. Same => TextInv'
  BY TextFrame
<1>2. CASE WriteRegister \/ CheckRegister \/ TickClock \/ TakeArguments
  <2>1. Same
    BY <1>2 DEF WriteRegister, CheckRegister, TickClock, TakeArguments, At
  <2> QED BY <1>1, <2>1
<1>3. CASE StartSend \/ SendWord \/ ReceiveWord \/ VerifyAnswer
  <2>1. Same
    BY <1>3 DEF StartSend, SendWord, ReceiveWord, VerifyAnswer, At
  <2> QED BY <1>1, <2>1
<1>4. CASE DrainCredits \/ Done
  <2>1. Same
    BY <1>4 DEF DrainCredits, Done, At
  <2> QED BY <1>1, <2>1
<1>5. CASE OpenFile
  <2>1. /\ At("load") /\ pc' = 1 /\ UNCHANGED <<program, served>>
        /\ \/ \E file \in Files : text' = LoadFile(program, verify, file) \o Rest(program)
           \/ text' = Rest(program)
    BY <1>5 DEF OpenFile
  <2>2. served = << >>
    BY <2>1, BeforeServe
  <2>3. PICK t, p : t = text' /\ p = program /\ p = program' /\ p \in Programs
    BY <2>1 DEF TextInv
  <2>4. t = Rest(p) \/ \E v : \E file \in Files : t = LoadFile(p, v, file) \o Rest(p)
    BY <2>1, <2>3
  <2>5. /\ IsSeq(t) /\ Len(t) \in Nat
        /\ \A i \in 1 .. Len(t) : t[i].do = "serve" =>
             \A j \in i .. Len(t) : Shape(t[j]) \in Running
    BY <2>3, <2>4, TextLoaded
  <2> QED BY <2>1, <2>2, <2>3, <2>5 DEF TextInv
<1>6. CASE HandleDemand
  <2>1. /\ At("serve") /\ UNCHANGED <<program, text>> /\ (pc' = pc \/ pc' = pc + 1)
    BY <1>6 DEF HandleDemand
  <2>2. PICK t, p : t = text /\ t = text' /\ p = program /\ p = program'
    BY <2>1
  <2>3. /\ pc \in 1 .. Len(t) /\ Len(t) \in Nat /\ t[pc].do = "serve"
        /\ p \in Programs /\ IsSeq(t)
        /\ \A i \in 1 .. Len(t) : t[i].do = "serve" =>
             \A j \in i .. Len(t) : Shape(t[j]) \in Running
    <3>1. pc <= Len(text) /\ text[pc].do = "serve"
      BY <2>1 DEF At, instr
    <3>2. Len(text) \in Nat /\ pc \in 1 .. Len(text) + 1
      BY SeqFacts DEF TextInv
    <3>3. pc \in 1 .. Len(text)
      BY <3>1, <3>2
    <3> QED BY <2>2, <3>1, <3>2, <3>3 DEF TextInv
  <2>4. pc' \in 1 .. Len(t) + 1 /\ pc <= pc'
    BY <2>1, <2>3
  <2> QED BY <2>2, <2>3, <2>4 DEF TextInv
<1>7. CASE EndpointStep
  <2>1. Same
    BY <1>7 DEF EndpointStep, Gather, Feed, Launch, GetReply, ps
  <2> QED BY <1>1, <2>1
<1>8. CASE Network
  <2>1. Same
    BY <1>8 DEF Network, Perform, ps
  <2> QED BY <1>1, <2>1
<1>9. ASSUME NEW kind, TileDemand(kind) \/ CoreDemand(kind)
      PROVE  TextInv'
  <2>1. Same
    BY <1>9 DEF TileDemand, CoreDemand, Demand, ps
  <2> QED BY <1>1, <2>1
<1>10. CASE UNCHANGED vars
  <2>1. Same
    BY <1>10 DEF vars, ps
  <2> QED BY <1>1, <2>1
<1> HIDE DEF Same
<1> QED BY <1>2, <1>3, <1>4, <1>5, <1>6, <1>7, <1>8, <1>9, <1>10 DEF Next, ProgramStep

FifoInv ==
  /\ status \in {"running", "done", "no file", "aborted", "undefined"}
  /\ Holds(net, Credits)
  /\ Fifos(ps2pl, Els) /\ Fifos(pl2ps, Els)
  /\ Fifos(gathered, Words) /\ Fifos(serial, Words)
  /\ Holds(inbox, Words) /\ Holds(outbox, Words)

LEMMA FifoInit == Init => FifoInv
<1> SUFFICES ASSUME Init
             PROVE  FifoInv
  OBVIOUS
<1>1. PICK e : e = << >> /\ Holds(e, Els) /\ Holds(e, Words) /\ Holds(e, Credits)
  BY HoldsNone, WordsPositive
<1>2. /\ ps2pl = [k \in 0 .. 1 |-> e] /\ pl2ps = [k \in 0 .. 1 |-> e]
      /\ gathered = [k \in 0 .. 1 |-> e] /\ serial = [k \in 0 .. 1 |-> e]
      /\ net = e /\ inbox = e /\ outbox = e /\ status = "running"
  BY <1>1 DEF Init
<1> QED BY <1>1, <1>2 DEF FifoInv, Fifos

LEMMA FifoNext == FifoInv /\ Wiring /\ [Next]_vars => FifoInv'
<1> SUFFICES ASSUME FifoInv, Wiring, [Next]_vars
             PROVE  FifoInv'
  OBVIOUS
<1> DEFINE Same == UNCHANGED <<net, ps2pl, pl2ps, gathered, serial, inbox, outbox>>
           Statuses == {"running", "done", "no file", "aborted", "undefined"}
<1>0. Words \in Nat \ {0} /\ Els \in Nat \ {0} /\ Credits \in Nat \ {0}
  BY WordsPositive
<1>1. Same /\ status' \in Statuses => FifoInv'
  BY DEF FifoInv
<1>2. status \in Statuses
  BY DEF FifoInv
<1> HIDE DEF Statuses
<1>3. CASE WriteRegister \/ CheckRegister \/ TickClock \/ TakeArguments
  <2>1. Same /\ status' \in Statuses
    BY <1>2, <1>3 DEF WriteRegister, CheckRegister, TickClock, TakeArguments, pl, Statuses
  <2> QED BY <1>1, <2>1
<1>4. CASE OpenFile \/ DrainCredits \/ Done
  <2>1. Same /\ status' \in Statuses
    BY <1>2, <1>4 DEF OpenFile, DrainCredits, Done, pl, Statuses
  <2> QED BY <1>1, <2>1
<1>5. CASE StartSend
  <2>1. /\ UNCHANGED <<net, ps2pl, pl2ps, gathered, serial, inbox, status>>
        /\ \E x : outbox' = InWords(x)
    BY <1>5 DEF StartSend, pl
  <2>2. Holds(outbox', Words)
    BY <2>1, HoldsPacket
  <2> QED BY <2>1, <2>2 DEF FifoInv
<1>6. CASE SendWord
  <2>1. /\ UNCHANGED <<net, pl2ps, gathered, serial, inbox, status>>
        /\ outbox # << >> /\ outbox' = Tail(outbox)
        /\ ps2pl' = [ps2pl EXCEPT ![OutFifo] = Push(ps2pl[OutFifo], outbox[1])]
    BY <1>6 DEF SendWord, pl
  <2>2. Holds(outbox', Words)
    BY <1>0, <2>1, HoldsOneLess DEF FifoInv
  <2>3. OutFifo \in 0 .. 1
    <3>1. Link(program).request = 0 /\ Link(program).reply = 1
      BY Wired DEF Wiring
    <3>2. outbox[1].of.by \in {"request", "reply"}
      BY <2>1, OutboxShorter DEF Wiring
    <3> QED BY <3>1, <3>2 DEF OutFifo
  <2>4. PICK k \in 0 .. 1 : k = OutFifo
    BY <2>3
  <2>5. Holds(Push(ps2pl[k], outbox[1]), Els)
    BY HoldsPushed DEF FifoInv, Fifos
  <2>6. Fifos(ps2pl', Els)
    <3>1. ps2pl' = [ps2pl EXCEPT ![k] = Push(ps2pl[k], outbox[1])]
      BY <2>1, <2>4
    <3> QED BY <2>5, <3>1, FifoChanged DEF FifoInv
  <2> QED BY <2>1, <2>2, <2>6 DEF FifoInv
<1>7. CASE ReceiveWord
  <2>1. /\ UNCHANGED <<net, ps2pl, gathered, serial, outbox, status>>
        /\ Len(inbox) < Words /\ pl2ps[InFifo] # << >>
        /\ inbox' = Append(inbox, Head(pl2ps[InFifo]))
        /\ pl2ps' = [pl2ps EXCEPT ![InFifo] = Tail(pl2ps[InFifo])]
    BY <1>7 DEF ReceiveWord, pl
  <2>2. Holds(inbox', Words)
    BY <1>0, <2>1, HoldsOneMore DEF FifoInv
  <2>3. PICK k \in 0 .. 1 : k = InFifo
    BY Wired DEF InFifo, Wiring
  <2>4. Holds(Tail(pl2ps[k]), Els)
    BY <1>0, <2>1, <2>3, HoldsOneLess DEF FifoInv, Fifos
  <2>5. Fifos(pl2ps', Els)
    <3>1. pl2ps' = [pl2ps EXCEPT ![k] = Tail(pl2ps[k])]
      BY <2>1, <2>3
    <3> QED BY <2>4, <3>1, FifoChanged DEF FifoInv
  <2> QED BY <2>1, <2>2, <2>5 DEF FifoInv
<1>8. CASE VerifyAnswer
  <2>1. /\ UNCHANGED <<net, ps2pl, pl2ps, gathered, serial, outbox, status>>
        /\ inbox' = << >>
    BY <1>8 DEF VerifyAnswer, pl
  <2>2. Holds(inbox', Words)
    BY <1>0, <2>1, HoldsNone
  <2> QED BY <2>1, <2>2 DEF FifoInv
<1>9. CASE HandleDemand
  <2>1. /\ UNCHANGED <<net, pl2ps, gathered, serial, status>> /\ inbox' = << >>
        /\ (\E x : outbox' = InWords(x)) \/ outbox' = outbox
        /\ \/ ps2pl' = ps2pl
           \/ \E x : ps2pl' = [ps2pl EXCEPT ![0] = Push(ps2pl[0], x)]
    BY <1>9 DEF HandleDemand, pl
  <2>2. Holds(inbox', Words) /\ Holds(outbox', Words)
    BY <1>0, <2>1, HoldsNone, HoldsPacket DEF FifoInv
  <2>3. Fifos(ps2pl', Els)
    <3>1. CASE ps2pl' = ps2pl
      BY <3>1 DEF FifoInv
    <3>2. CASE \E x : ps2pl' = [ps2pl EXCEPT ![0] = Push(ps2pl[0], x)]
      <4>1. PICK x : ps2pl' = [ps2pl EXCEPT ![0] = Push(ps2pl[0], x)]
        BY <3>2
      <4>2. 0 \in 0 .. 1 /\ Holds(ps2pl[0], Els)
        <5>1. \A k \in 0 .. 1 : Holds(ps2pl[k], Els)
          BY DEF FifoInv, Fifos
        <5>2. 0 \in 0 .. 1
          OBVIOUS
        <5> QED BY <5>1, <5>2
      <4>3. Holds(Push(ps2pl[0], x), Els)
        BY <4>2, HoldsPushed
      <4> QED BY <4>1, <4>2, <4>3, FifoChanged DEF FifoInv
    <3> QED BY <2>1, <3>1, <3>2
  <2> QED BY <2>1, <2>2, <2>3 DEF FifoInv
<1>10. ASSUME NEW k \in 0 .. 1, Gather(k)
       PROVE  FifoInv'
  <2>1. /\ UNCHANGED <<net, pl2ps, serial, inbox, outbox, status>>
        /\ ps2pl[k] # << >> /\ Len(gathered[k]) < Words
        /\ gathered' = [gathered EXCEPT ![k] = Append(gathered[k], Head(ps2pl[k]))]
        /\ ps2pl' = [ps2pl EXCEPT ![k] = Tail(ps2pl[k])]
    BY <1>10 DEF Gather, ps
  <2>2. Holds(Tail(ps2pl[k]), Els)
    BY <1>0, <2>1, HoldsOneLess DEF FifoInv, Fifos
  <2>3. Holds(Append(gathered[k], Head(ps2pl[k])), Words)
    BY <1>0, <2>1, HoldsOneMore DEF FifoInv, Fifos
  <2>4. Fifos(ps2pl', Els)
    BY <2>1, <2>2, FifoChanged DEF FifoInv
  <2>5. Fifos(gathered', Words)
    BY <2>1, <2>3, FifoChanged DEF FifoInv
  <2> QED BY <2>1, <2>4, <2>5 DEF FifoInv
<1>11. ASSUME NEW k \in 0 .. 1, Feed(k)
       PROVE  FifoInv'
  <2>1. /\ UNCHANGED <<net, ps2pl, gathered, inbox, outbox, status>> /\ serial[k] # << >>
        /\ pl2ps' = [pl2ps EXCEPT ![k] = Push(pl2ps[k], serial[k][1])]
        /\ serial' = [serial EXCEPT ![k] = Tail(serial[k])]
    BY <1>11 DEF Feed, ps
  <2>2. Holds(Tail(serial[k]), Words)
    BY <1>0, <2>1, HoldsOneLess DEF FifoInv, Fifos
  <2>3. Holds(Push(pl2ps[k], serial[k][1]), Els)
    BY HoldsPushed DEF FifoInv, Fifos
  <2>4. Fifos(pl2ps', Els)
    BY <2>1, <2>3, FifoChanged DEF FifoInv
  <2>5. Fifos(serial', Words)
    BY <2>1, <2>2, FifoChanged DEF FifoInv
  <2> QED BY <2>1, <2>4, <2>5 DEF FifoInv
<1>12. CASE Launch \/ GetReply
  <2>1. /\ UNCHANGED <<ps2pl, pl2ps, serial, inbox, outbox, status>>
        /\ net' = net \/ (Len(net) < Credits /\ \E x : net' = Append(net, x))
        /\ \E k \in 0 .. 1 : gathered' = [gathered EXCEPT ![k] = << >>]
    <3>1. Wires(program).request \in 0 .. 1 /\ Wires(program).reply \in 0 .. 1
      BY Wired DEF Wiring
    <3> QED BY <1>12, <3>1 DEF Launch, GetReply, ps
  <2>2. Holds(net', Credits)
    BY <1>0, <2>1, HoldsOneMore DEF FifoInv
  <2>3. Fifos(gathered', Words)
    <3>1. PICK e : e = << >> /\ \E k \in 0 .. 1 : gathered' = [gathered EXCEPT ![k] = e]
      BY <2>1
    <3>2. Holds(e, Words)
      BY <1>0, <3>1, HoldsNone
    <3> QED BY <3>1, <3>2, FifoChanged DEF FifoInv
  <2> QED BY <2>1, <2>2, <2>3 DEF FifoInv
<1>13. ASSUME NEW i \in 1 .. Credits, Perform(i)
       PROVE  FifoInv'
  <2>1. /\ UNCHANGED <<ps2pl, pl2ps, gathered, inbox, outbox, status>>
        /\ i \in 1 .. Len(net) /\ net' = RemoveAt(net, i)
        /\ \/ serial' = serial
           \/ \E k \in 0 .. 1 : \E x : serial' = [serial EXCEPT ![k] = InWords(x)]
    <3>1. Wires(program).answer \in 0 .. 1
      BY Wired DEF Wiring
    <3> QED BY <1>13, <3>1 DEF Perform, ps
  <2>2. Holds(net', Credits)
    <3>1. IsSeq(net) /\ Len(net) <= Credits
      BY DEF FifoInv, Holds
    <3>2. PICK r : r = RemoveAt(net, i) /\ net' = r
      BY <2>1
    <3>3. IsSeq(r) /\ Len(net) \in Nat /\ Len(r) = Len(net) - 1
      BY <2>1, <3>1, <3>2, Removed
    <3> QED BY <1>0, <3>1, <3>2, <3>3 DEF Holds
  <2>3. Fifos(serial', Words)
    BY <2>1, HoldsPacket, FifoChanged DEF FifoInv
  <2> QED BY <2>1, <2>2, <2>3 DEF FifoInv
<1>14. ASSUME NEW kind, TileDemand(kind) \/ CoreDemand(kind)
       PROVE  FifoInv'
  <2>1. /\ UNCHANGED <<net, ps2pl, pl2ps, gathered, inbox, outbox, status>>
        /\ \E k \in 0 .. 1 : \E x : serial' = [serial EXCEPT ![k] = InWords(x)]
    <3>1. Wires(program).demand \in 0 .. 1
      BY Wired DEF Wiring
    <3> QED BY <1>14, <3>1 DEF TileDemand, CoreDemand, Demand, ps
  <2>2. Fifos(serial', Words)
    BY <2>1, HoldsPacket, FifoChanged DEF FifoInv
  <2> QED BY <2>1, <2>2 DEF FifoInv
<1>15. CASE UNCHANGED vars
  <2>1. Same /\ status' \in Statuses
    BY <1>2, <1>15 DEF vars, ps, pl
  <2> QED BY <1>1, <2>1
<1> HIDE DEF Same
<1> QED BY <1>3, <1>4, <1>5, <1>6, <1>7, <1>8, <1>9, <1>10, <1>11, <1>12, <1>13, <1>14, <1>15
        DEF Next, ProgramStep, EndpointStep, Network

\* The types and the capacities in every state, whatever the sizes.
THEOREM LinkTypeCorrect == Spec => []LinkTypeOK
<1>1. Init => FifoInv /\ TextInv /\ Wiring /\ RequestLine
  BY FifoInit, TextInit, LineInit
<1>2. FifoInv /\ TextInv /\ Wiring /\ RequestLine /\ [Next]_vars
        => (FifoInv /\ TextInv /\ Wiring /\ RequestLine)'
  BY FifoNext, TextNext, LineNext
<1>3. FifoInv /\ TextInv => LinkTypeOK
  BY DEF FifoInv, Fifos, Holds, TextInv, LinkTypeOK
<1> QED BY <1>1, <1>2, <1>3, PTL DEF Spec

-----------------------------------------------------------------------------
(***************************************************************************)
(* The fences.  Nothing launched is lost: it is in the network or has been *)
(* performed.  A wait for the credits ends with everything sent performed. *)
(***************************************************************************)
Within(s, t) == \A j \in 1 .. Len(s) : \E m \in 1 .. Len(t) : s[j] = t[m]

Covered(s, t, u) ==
  \A j \in 1 .. Len(s) : \/ \E m \in 1 .. Len(t) : s[j] = t[m]
                         \/ \E m \in 1 .. Len(u) : s[j] = u[m]

Accounted(s, t, u) ==
  /\ IsSeq(s) /\ IsSeq(t) /\ IsSeq(u)
  /\ Covered(s, t, u) /\ Within(t, s) /\ Within(u, s)

NetInv == Accounted(launched, net, performed)

SentInv == IsSeq(sent) /\ \A j \in 1 .. Len(sent) : sent[j].n = j

\* The first c requests performed are those sent before a fence.
Fenced(f, c, done) ==
  /\ \A n \in 1 .. f : \E j \in 1 .. c : done[j].n = n
  /\ \A j \in 1 .. c : done[j].n \in 1 .. f

FenceInv ==
  \A f \in fences : f \in Nat /\ \E c \in 0 .. Len(performed) : Fenced(f, c, performed)

LEMMA NetLaunched ==
  ASSUME NEW s, NEW t, NEW u, Accounted(s, t, u), NEW r,
         NEW s2, s2 = Append(s, r), NEW t2, t2 = Append(t, r)
  PROVE  Accounted(s2, t2, u)
<1>0. /\ IsSeq(s) /\ IsSeq(t) /\ IsSeq(u)
      /\ Covered(s, t, u) /\ Within(t, s) /\ Within(u, s)
  BY DEF Accounted
<1>1. /\ IsSeq(s2) /\ Len(s) \in Nat /\ Len(s2) = Len(s) + 1
      /\ \A j \in 1 .. Len(s) : s2[j] = s[j]
      /\ s2[Len(s) + 1] = r
  <2>1. Grows(s, r, s2)
    BY <1>0, Grown
  <2> QED BY <2>1 DEF Grows
<1>2. /\ IsSeq(t2) /\ Len(t) \in Nat /\ Len(t2) = Len(t) + 1
      /\ \A j \in 1 .. Len(t) : t2[j] = t[j]
      /\ t2[Len(t) + 1] = r
  <2>1. Grows(t, r, t2)
    BY <1>0, Grown
  <2> QED BY <2>1 DEF Grows
<1>3. \A j \in 1 .. Len(s2) : j \in 1 .. Len(s) \/ s2[j] = r
  BY <1>1
<1>4. \A j \in 1 .. Len(t2) : j \in 1 .. Len(t) \/ t2[j] = r
  BY <1>2
<1>5. /\ Len(s) + 1 \in 1 .. Len(s2) /\ Len(t) + 1 \in 1 .. Len(t2)
      /\ \A j \in 1 .. Len(s) : j \in 1 .. Len(s2)
      /\ \A j \in 1 .. Len(t) : j \in 1 .. Len(t2)
  BY <1>1, <1>2
<1>6. Covered(s2, t2, u)
  <2> SUFFICES ASSUME NEW j \in 1 .. Len(s2)
               PROVE  \/ \E m \in 1 .. Len(t2) : s2[j] = t2[m]
                      \/ \E m \in 1 .. Len(u) : s2[j] = u[m]
    BY <1>0 DEF Covered
  <2>1. CASE s2[j] = r
    BY <1>2, <1>5, <2>1
  <2>2. CASE j \in 1 .. Len(s)
    <3>1. \/ \E m \in 1 .. Len(t) : s[j] = t[m]
          \/ \E m \in 1 .. Len(u) : s[j] = u[m]
      BY <1>0, <2>2 DEF Covered
    <3> QED BY <1>1, <1>2, <1>5, <2>2, <3>1
  <2> QED BY <1>3, <2>1, <2>2
<1>7. Within(t2, s2)
  <2> SUFFICES ASSUME NEW j \in 1 .. Len(t2)
               PROVE  \E m \in 1 .. Len(s2) : t2[j] = s2[m]
    BY <1>0 DEF Within
  <2>1. CASE t2[j] = r
    BY <1>1, <1>5, <2>1
  <2>2. CASE j \in 1 .. Len(t)
    <3>1. PICK m \in 1 .. Len(s) : t[j] = s[m]
      BY <1>0, <2>2 DEF Within
    <3> QED BY <1>1, <1>2, <1>5, <2>2, <3>1
  <2> QED BY <1>4, <2>1, <2>2
<1>8. Within(u, s2)
  <2> SUFFICES ASSUME NEW j \in 1 .. Len(u)
               PROVE  \E m \in 1 .. Len(s2) : u[j] = s2[m]
    BY <1>0 DEF Within
  <2>1. PICK m \in 1 .. Len(s) : u[j] = s[m]
    BY <1>0 DEF Within
  <2> QED BY <1>1, <1>5, <2>1
<1> QED BY <1>0, <1>1, <1>2, <1>6, <1>7, <1>8 DEF Accounted

LEMMA NetPerformed ==
  ASSUME NEW s, NEW t, NEW u, Accounted(s, t, u), NEW i \in 1 .. Len(t),
         NEW t2, t2 = RemoveAt(t, i), NEW u2, u2 = Append(u, t[i])
  PROVE  Accounted(s, t2, u2)
<1>0. /\ IsSeq(s) /\ IsSeq(t) /\ IsSeq(u)
      /\ Covered(s, t, u) /\ Within(t, s) /\ Within(u, s)
  BY DEF Accounted
<1>1. /\ IsSeq(u2) /\ Len(u) \in Nat /\ Len(u2) = Len(u) + 1
      /\ \A j \in 1 .. Len(u) : u2[j] = u[j]
      /\ u2[Len(u) + 1] = t[i]
  <2>1. Grows(u, t[i], u2)
    BY <1>0, Grown
  <2> QED BY <2>1 DEF Grows
<1>2. /\ IsSeq(t2) /\ Len(t) \in Nat /\ Len(t2) = Len(t) - 1
      /\ \A j \in 1 .. i - 1 : t2[j] = t[j]
      /\ \A j \in i .. Len(t2) : t2[j] = t[j + 1]
  BY <1>0, Removed
<1>3. \A j \in 1 .. Len(t2) : \E m \in 1 .. Len(t) : t2[j] = t[m]
  <2> TAKE j \in 1 .. Len(t2)
  <2>1. CASE j < i
    BY <1>2, <2>1
  <2>2. CASE j >= i
    <3>1. j \in i .. Len(t2) /\ j + 1 \in 1 .. Len(t)
      BY <1>2, <2>2
    <3> QED BY <1>2, <3>1
  <2> QED BY <1>2, <2>1, <2>2
<1>4. \A m \in 1 .. Len(t) : m = i \/ \E j \in 1 .. Len(t2) : t2[j] = t[m]
  <2> TAKE m \in 1 .. Len(t)
  <2>1. CASE m < i
    <3>1. m \in 1 .. i - 1 /\ m \in 1 .. Len(t2)
      BY <1>2, <2>1
    <3> QED BY <1>2, <3>1
  <2>2. CASE m > i
    <3>1. PICK l : l = m - 1
      OBVIOUS
    <3>2. l \in i .. Len(t2) /\ l \in 1 .. Len(t2) /\ l + 1 = m
      BY <1>2, <2>2, <3>1
    <3> QED BY <1>2, <3>2
  <2> QED BY <1>2, <2>1, <2>2
<1>5. /\ Len(u) + 1 \in 1 .. Len(u2) /\ \A j \in 1 .. Len(u) : j \in 1 .. Len(u2)
      /\ \A j \in 1 .. Len(u2) : j \in 1 .. Len(u) \/ u2[j] = t[i]
  BY <1>1
<1>6. Covered(s, t2, u2)
  <2> SUFFICES ASSUME NEW j \in 1 .. Len(s)
               PROVE  \/ \E m \in 1 .. Len(t2) : s[j] = t2[m]
                      \/ \E m \in 1 .. Len(u2) : s[j] = u2[m]
    BY <1>0 DEF Covered
  <2>1. CASE \E m \in 1 .. Len(t) : s[j] = t[m]
    <3>1. PICK m \in 1 .. Len(t) : s[j] = t[m]
      BY <2>1
    <3>2. CASE m = i
      BY <1>1, <1>5, <3>1, <3>2
    <3>3. CASE m # i
      BY <1>4, <3>1, <3>3
    <3> QED BY <3>2, <3>3
  <2>2. CASE \E m \in 1 .. Len(u) : s[j] = u[m]
    BY <1>1, <1>5, <2>2
  <2> QED BY <1>0, <2>1, <2>2 DEF Covered
<1>7. Within(t2, s)
  <2> SUFFICES ASSUME NEW j \in 1 .. Len(t2)
               PROVE  \E m \in 1 .. Len(s) : t2[j] = s[m]
    BY <1>0 DEF Within
  <2>1. PICK l \in 1 .. Len(t) : t2[j] = t[l]
    BY <1>3
  <2> QED BY <1>0, <2>1 DEF Within
<1>8. Within(u2, s)
  <2> SUFFICES ASSUME NEW j \in 1 .. Len(u2)
               PROVE  \E m \in 1 .. Len(s) : u2[j] = s[m]
    BY <1>0 DEF Within
  <2>1. \E m \in 1 .. Len(s) : t[i] = s[m]
    BY <1>0 DEF Within
  <2>2. CASE j \in 1 .. Len(u)
    BY <1>0, <1>1, <2>2 DEF Within
  <2> QED BY <1>5, <2>1, <2>2
<1> QED BY <1>0, <1>1, <1>2, <1>6, <1>7, <1>8 DEF Accounted

LEMMA NetNext == NetInv /\ [Next]_vars => NetInv'
<1> SUFFICES ASSUME NetInv, [Next]_vars
             PROVE  NetInv'
  OBVIOUS
<1> DEFINE Same == UNCHANGED <<net, launched, performed>>
<1>1. Same => NetInv'
  BY DEF NetInv
<1>2. CASE Launch
  <2>1. PICK s, t, u, r, s2, t2 :
          /\ s = launched /\ t = net /\ u = performed
          /\ s2 = Append(s, r) /\ t2 = Append(t, r)
          /\ launched' = s2 /\ net' = t2 /\ performed' = u
    BY <1>2 DEF Launch
  <2>2. Accounted(s2, t2, u)
    BY <2>1, NetLaunched DEF NetInv
  <2> QED BY <2>1, <2>2 DEF NetInv
<1>3. ASSUME NEW i, Perform(i)
      PROVE  NetInv'
  <2>1. PICK s, t, u, t2, u2 :
          /\ s = launched /\ t = net /\ u = performed
          /\ t2 = RemoveAt(t, i) /\ u2 = Append(u, t[i])
          /\ launched' = s /\ net' = t2 /\ performed' = u2 /\ i \in 1 .. Len(t)
    BY <1>3 DEF Perform
  <2>2. Accounted(s, t2, u2)
    BY <2>1, NetPerformed DEF NetInv
  <2> QED BY <2>1, <2>2 DEF NetInv
<1>4. CASE WriteRegister \/ CheckRegister \/ TickClock \/ TakeArguments \/ OpenFile
  <2>1. Same
    BY <1>4 DEF WriteRegister, CheckRegister, TickClock, TakeArguments, OpenFile, pl
  <2> QED BY <1>1, <2>1
<1>5. CASE StartSend \/ SendWord \/ ReceiveWord \/ VerifyAnswer \/ HandleDemand
  <2>1. Same
    BY <1>5 DEF StartSend, SendWord, ReceiveWord, VerifyAnswer, HandleDemand, pl
  <2> QED BY <1>1, <2>1
<1>6. CASE DrainCredits \/ Done
  <2>1. Same
    BY <1>6 DEF DrainCredits, Done, pl
  <2> QED BY <1>1, <2>1
<1>7. ASSUME NEW k, Gather(k) \/ Feed(k) \/ GetReply
      PROVE  NetInv'
  <2>1. Same
    BY <1>7 DEF Gather, Feed, GetReply
  <2> QED BY <1>1, <2>1
<1>8. ASSUME NEW kind, TileDemand(kind) \/ CoreDemand(kind)
      PROVE  NetInv'
  <2>1. Same
    BY <1>8 DEF TileDemand, CoreDemand, Demand
  <2> QED BY <1>1, <2>1
<1>9. CASE UNCHANGED vars
  <2>1. Same
    BY <1>9 DEF vars, pl
  <2> QED BY <1>1, <2>1
<1> HIDE DEF Same
<1> QED BY <1>2, <1>3, <1>4, <1>5, <1>6, <1>7, <1>8, <1>9
        DEF Next, ProgramStep, EndpointStep, Network

LEMMA SentNext == SentInv /\ [Next]_vars => SentInv'
<1> SUFFICES ASSUME SentInv, [Next]_vars
             PROVE  SentInv'
  OBVIOUS
<1> DEFINE Same == sent' = sent
<1>1. Same => SentInv'
  BY DEF SentInv
<1>2. CASE StartSend
  <2>1. PICK s, x, t : s = sent /\ x = Numbered(instr.request) /\ t = Append(s, x) /\ sent' = t
    BY <1>2 DEF StartSend
  <2>2. x.n = Len(s) + 1
    BY <2>1 DEF Numbered
  <2>3. IsSeq(s) /\ \A j \in 1 .. Len(s) : s[j].n = j
    BY <2>1 DEF SentInv
  <2>4. Grows(s, x, t)
    BY <2>1, <2>3, Grown
  <2> QED BY <2>1, <2>2, <2>3, <2>4 DEF Grows, SentInv
<1>3. CASE WriteRegister \/ CheckRegister \/ TickClock \/ TakeArguments \/ OpenFile
  <2>1. Same
    BY <1>3 DEF WriteRegister, CheckRegister, TickClock, TakeArguments, OpenFile
  <2> QED BY <1>1, <2>1
<1>4. CASE SendWord \/ ReceiveWord \/ VerifyAnswer \/ HandleDemand \/ DrainCredits \/ Done
  <2>1. Same
    BY <1>4 DEF SendWord, ReceiveWord, VerifyAnswer, HandleDemand, DrainCredits, Done
  <2> QED BY <1>1, <2>1
<1>5. CASE EndpointStep \/ Network
  <2>1. Same
    BY <1>5 DEF EndpointStep, Gather, Feed, Launch, GetReply, Network, Perform, ps
  <2> QED BY <1>1, <2>1
<1>6. ASSUME NEW kind, TileDemand(kind) \/ CoreDemand(kind)
      PROVE  SentInv'
  <2>1. Same
    BY <1>6 DEF TileDemand, CoreDemand, Demand, ps
  <2> QED BY <1>1, <2>1
<1>7. CASE UNCHANGED vars
  <2>1. Same
    BY <1>7 DEF vars, ps
  <2> QED BY <1>1, <2>1
<1> HIDE DEF Same
<1> QED BY <1>2, <1>3, <1>4, <1>5, <1>6, <1>7 DEF Next, ProgramStep

\* When the program sees no credit in use, all that it has sent has been performed.
LEMMA Drained ==
  ASSUME Wiring, RequestLine, TextInv, SentInv, NetInv, DrainCredits
  PROVE  /\ Len(sent) \in Nat /\ Fenced(Len(sent), Len(performed), performed)
         /\ \A j \in 1 .. Len(sent) : \E m \in 1 .. Len(performed) : performed[m] = sent[j]
<1>1. /\ At("drain") /\ Settled /\ net = << >>
      /\ outbox = << >> /\ served = << >>
  BY BeforeServe DEF DrainCredits, At
<1>2. ~Bare
  <2>1. PICK e : e = << >> /\ served = e /\ DOMAIN e = {}
    BY <1>1
  <2> QED BY <2>1 DEF Bare
<1>3. ps2pl[0] = << >> /\ Len(gathered[0]) < Words
  BY <1>1, Wired DEF Settled, Wiring
<1>4. /\ Line(sent, Len(launched), gathered[0], << >>, << >>)
      /\ \A j \in 1 .. Len(launched) : launched[j] = sent[j]
  BY <1>1, <1>2, <1>3, OutboxEmpty DEF RequestLine
<1>5. Len(launched) = Len(sent) /\ Len(sent) \in Nat
  BY <1>3, <1>4, LineDry, LineBounds
<1>6. Len(net) = 0
  BY <1>1, EmptyIsSeq
<1>7. PICK n \in Nat : n = Len(sent) /\ n = Len(launched)
  BY <1>5
<1>8. \A j \in 1 .. n : launched[j].n = j
  BY <1>4, <1>7 DEF SentInv
<1>9. \A j \in 1 .. n : \E m \in 1 .. Len(performed) : performed[m] = sent[j]
  <2> TAKE j \in 1 .. n
  <2>1. \E m \in 1 .. Len(performed) : launched[j] = performed[m]
    BY <1>6, <1>7 DEF NetInv, Accounted, Covered
  <2> QED BY <1>4, <1>7, <2>1
<1>10. \A m \in 1 .. Len(performed) : performed[m].n \in 1 .. n
  <2> TAKE m \in 1 .. Len(performed)
  <2>1. PICK j \in 1 .. n : performed[m] = launched[j]
    BY <1>7 DEF NetInv, Accounted, Within
  <2> QED BY <1>8, <2>1
<1>11. \A j \in 1 .. n : \E m \in 1 .. Len(performed) : performed[m].n = j
  BY <1>4, <1>7, <1>8, <1>9
<1> QED BY <1>5, <1>7, <1>9, <1>10, <1>11 DEF Fenced

LEMMA FenceNext ==
  /\ Wiring /\ RequestLine /\ TextInv /\ SentInv /\ NetInv /\ FenceInv /\ [Next]_vars
  => FenceInv'
<1> SUFFICES ASSUME Wiring, RequestLine, TextInv, SentInv, NetInv, FenceInv, [Next]_vars
             PROVE  FenceInv'
  OBVIOUS
<1> DEFINE Same == UNCHANGED <<fences, performed>>
<1>1. Same => FenceInv'
  BY DEF FenceInv
<1>2. CASE DrainCredits
  <2>1. fences' = fences \cup {Len(sent)} /\ performed' = performed
    BY <1>2 DEF DrainCredits, pl
  <2>2. Len(sent) \in Nat /\ Fenced(Len(sent), Len(performed), performed)
    BY <1>2, Drained
  <2>3. Len(performed) \in 0 .. Len(performed)
    BY SeqFacts DEF NetInv, Accounted
  <2> QED BY <2>1, <2>2, <2>3 DEF FenceInv
<1>3. ASSUME NEW i, Perform(i)
      PROVE  FenceInv'
  <2>1. PICK u, v, x : /\ u = performed /\ v = Append(u, x) /\ performed' = v
                       /\ fences' = fences
    BY <1>3 DEF Perform, ps
  <2>2. Grows(u, x, v)
    BY <2>1, Grown DEF NetInv, Accounted
  <2> SUFFICES ASSUME NEW f \in fences
               PROVE  f \in Nat /\ \E c \in 0 .. Len(v) : Fenced(f, c, v)
    BY <2>1 DEF FenceInv
  <2>3. PICK c \in 0 .. Len(u) : Fenced(f, c, u)
    BY <2>1 DEF FenceInv
  <2>4. c \in 0 .. Len(v) /\ \A j \in 1 .. c : v[j] = u[j]
    BY <2>2 DEF Grows
  <2>5. Fenced(f, c, v)
    BY <2>3, <2>4 DEF Fenced
  <2> QED BY <2>4, <2>5 DEF FenceInv
<1>4. CASE WriteRegister \/ CheckRegister \/ TickClock \/ TakeArguments \/ OpenFile
  <2>1. Same
    BY <1>4 DEF WriteRegister, CheckRegister, TickClock, TakeArguments, OpenFile, pl
  <2> QED BY <1>1, <2>1
<1>5. CASE StartSend \/ SendWord \/ ReceiveWord \/ VerifyAnswer \/ HandleDemand \/ Done
  <2>1. Same
    BY <1>5 DEF StartSend, SendWord, ReceiveWord, VerifyAnswer, HandleDemand, Done, pl
  <2> QED BY <1>1, <2>1
<1>6. CASE EndpointStep
  <2>1. Same
    BY <1>6 DEF EndpointStep, Gather, Feed, Launch, GetReply, ps
  <2> QED BY <1>1, <2>1
<1>7. ASSUME NEW kind, TileDemand(kind) \/ CoreDemand(kind)
      PROVE  FenceInv'
  <2>1. Same
    BY <1>7 DEF TileDemand, CoreDemand, Demand, ps
  <2> QED BY <1>1, <2>1
<1>8. CASE UNCHANGED vars
  <2>1. Same
    BY <1>8 DEF vars, ps, pl
  <2> QED BY <1>1, <2>1
<1> HIDE DEF Same
<1> QED BY <1>2, <1>3, <1>4, <1>5, <1>6, <1>7, <1>8 DEF Next, ProgramStep, Network

LEMMA FenceInit == Init => SentInv /\ NetInv /\ FenceInv
<1> SUFFICES ASSUME Init
             PROVE  SentInv /\ NetInv /\ FenceInv
  OBVIOUS
<1>1. PICK e : e = << >> /\ IsSeq(e) /\ Len(e) = 0
  BY EmptyIsSeq
<1>2. sent = e /\ launched = e /\ net = e /\ performed = e /\ fences = {}
  BY <1>1 DEF Init
<1> QED BY <1>1, <1>2 DEF SentInv, NetInv, Accounted, Covered, Within, FenceInv

\* What the fences rest on.
LinkInv ==
  Wiring /\ RequestLine /\ TextInv /\ SentInv /\ NetInv /\ FenceInv /\ FifoInv

LEMMA LinkInit == Init => LinkInv
BY LineInit, TextInit, FenceInit, FifoInit DEF LinkInv

LEMMA LinkNext == LinkInv /\ [Next]_vars => LinkInv'
BY LineNext, TextNext, SentNext, NetNext, FenceNext, FifoNext DEF LinkInv

LEMMA LinkAlways == Spec => []LinkInv
BY LinkInit, LinkNext, PTL DEF Spec

\* nbf_load's fence: whatever the file, the number of destinations and the order
\* in which the network serves them, a request sent after the program has seen
\* no credit in use takes effect after every request sent before.
THEOREM FencesOrder == Spec => []FenceOrders
<1>1. LinkInv => FenceOrders
  <2> SUFFICES ASSUME LinkInv, NEW f \in fences, NEW i \in DOMAIN performed,
                      performed[i].n > f, NEW n \in 1 .. f
               PROVE  \E j \in 1 .. i - 1 : performed[j].n = n
    BY DEF FenceOrders
  <2>1. PICK c \in 0 .. Len(performed) : Fenced(f, c, performed)
    BY DEF LinkInv, FenceInv
  <2>2. i \in 1 .. Len(performed) /\ Len(performed) \in Nat /\ f \in Nat
    BY SeqFacts DEF LinkInv, NetInv, Accounted, FenceInv
  <2>3. i \notin 1 .. c
    <3>1. ASSUME i \in 1 .. c
          PROVE  FALSE
      <4>1. performed[i].n \in 1 .. f
        BY <2>1, <3>1 DEF Fenced
      <4> QED BY <2>2, <4>1
    <3> QED BY <3>1
  <2>4. \A j \in 1 .. c : j \in 1 .. i - 1
    BY <2>2, <2>3
  <2>5. \E j \in 1 .. c : performed[j].n = n
    BY <2>1 DEF Fenced
  <2> QED BY <2>4, <2>5
<1> QED BY <1>1, LinkAlways, PTL

-----------------------------------------------------------------------------
(***************************************************************************)
(* The packets of the demands.                                             *)
(***************************************************************************)
\* The words of a demand that the program has read.
DemandIn == IF instr.do = "serve" THEN inbox ELSE << >>

DemandInv ==
  /\ inbox # << >> => instr.do \in {"await", "serve"}
  /\ Line(demands, Len(served), DemandIn,
          pl2ps[Wires(program).demand], serial[Wires(program).demand])
  /\ \A j \in 1 .. Len(served) : served[j] = demands[j]
  /\ \A j \in 1 .. Len(demands) : demands[j].n = j

LEMMA DemandInit == Init => DemandInv
<1> SUFFICES ASSUME Init
             PROVE  DemandInv
  OBVIOUS
<1>1. PICK e : e = << >> /\ IsSeq(e) /\ Len(e) = 0 /\ Line(e, 0, e, e, e)
  BY EmptyIsSeq, LineEmpty
<1>2. /\ inbox = e /\ demands = e /\ served = e /\ program \in Programs
      /\ pl2ps = [k \in 0 .. 1 |-> e] /\ serial = [k \in 0 .. 1 |-> e]
  BY <1>1 DEF Init
<1>3. PICK d \in 0 .. 1 : d = Wires(program).demand
  BY <1>2, Wired
<1>4. pl2ps[d] = e /\ serial[d] = e /\ DemandIn = e
  BY <1>1, <1>2 DEF DemandIn
<1> QED BY <1>1, <1>2, <1>3, <1>4 DEF DemandInv

LEMMA DemandFrame ==
  ASSUME DemandInv, UNCHANGED <<program, pl2ps, serial, demands, served, inbox>>,
         inbox = << >> \/ UNCHANGED <<text, pc>>
  PROVE  DemandInv'
<1>1. CASE UNCHANGED <<text, pc>>
  <2>1. instr' = instr
    BY <1>1 DEF instr
  <2>2. /\ program' = program /\ pl2ps' = pl2ps /\ serial' = serial
        /\ demands' = demands /\ served' = served /\ inbox' = inbox
    OBVIOUS
  <2>3. DemandIn' = DemandIn
    BY <2>1, <2>2, Zenon DEF DemandIn
  <2> QED BY <2>1, <2>2, <2>3, Zenon DEF DemandInv
<1>2. CASE inbox = << >>
  <2>1. DemandIn = << >> /\ DemandIn' = << >> /\ inbox' = << >>
    BY <1>2 DEF DemandIn
  <2>2. /\ program' = program /\ pl2ps' = pl2ps /\ serial' = serial
        /\ demands' = demands /\ served' = served
    OBVIOUS
  <2> QED BY <2>1, <2>2, Zenon DEF DemandInv
<1> QED BY <1>1, <1>2

LEMMA ReceiveDemand ==
  ASSUME DemandInv, FifoInv, Wiring, ReceiveWord
  PROVE  DemandInv'
<1>1. /\ At("await") \/ At("serve")
      /\ Len(inbox) < Words /\ pl2ps[InFifo] # << >>
      /\ inbox' = Append(inbox, Head(pl2ps[InFifo]))
      /\ pl2ps' = [pl2ps EXCEPT ![InFifo] = Tail(pl2ps[InFifo])]
      /\ program' = program /\ serial' = serial /\ demands' = demands
      /\ served' = served /\ text' = text /\ pc' = pc
  BY DEF ReceiveWord, pl
<1>2. instr' = instr /\ instr.do \in {"await", "serve"}
  BY <1>1 DEF instr, At
<1>3. PICK d \in 0 .. 1, a \in 0 .. 1 :
        /\ d = Wires(program).demand /\ a = Wires(program).answer /\ a # d
        /\ InFifo = IF instr.do = "await" THEN a ELSE d
  BY Wired DEF InFifo, Wiring
<1>4. CASE instr.do = "await"
  <2>1. DemandIn = << >> /\ DemandIn' = << >>
    BY <1>2, <1>4 DEF DemandIn
  <2>2. pl2ps'[d] = pl2ps[d]
    BY <1>1, <1>3, <1>4 DEF FifoInv, Fifos
  <2>3. program' = program /\ serial' = serial /\ demands' = demands /\ served' = served
    BY <1>1
  <2> QED BY <1>2, <1>3, <2>1, <2>2, <2>3 DEF DemandInv
<1>5. CASE instr.do = "serve"
  <2>1. DemandIn = inbox /\ DemandIn' = inbox' /\ InFifo = d
    BY <1>2, <1>3, <1>5 DEF DemandIn
  <2>2. PICK s, n, f, q, b, f2, q2 :
          /\ s = demands /\ n = Len(served) /\ f = inbox /\ q = pl2ps[d] /\ b = serial[d]
          /\ f2 = Append(f, Head(q)) /\ q2 = Tail(q)
    OBVIOUS
  <2>3. Line(s, n, f, q, b)
    BY <1>3, <2>1, <2>2 DEF DemandInv
  <2>4. Line(s, n, f2, q2, b)
    BY <1>1, <2>1, <2>2, <2>3, LineGathers
  <2>5. pl2ps'[d] = q2 /\ inbox' = f2
    BY <1>1, <2>1, <2>2 DEF FifoInv, Fifos
  <2>6. Line(demands, Len(served), DemandIn, pl2ps[d], serial[d])'
    BY <1>1, <2>1, <2>2, <2>4, <2>5
  <2> QED BY <1>1, <1>2, <1>3, <2>6 DEF DemandInv
<1> QED BY <1>2, <1>4, <1>5

LEMMA HandledDemand ==
  ASSUME DemandInv, FifoInv, Wiring, HandleDemand
  PROVE  /\ DemandInv'
         /\ Len(served) + 1 \in 1 .. Len(demands)
         /\ Packet(inbox) = demands[Len(served) + 1]
<1>1. PICK x, s, t : x = Packet(inbox) /\ s = served /\ t = Append(s, x)
  OBVIOUS
<1>2. /\ instr.do = "serve" /\ Len(inbox) = Words /\ inbox' = << >> /\ served' = t
      /\ program' = program /\ pl2ps' = pl2ps /\ serial' = serial /\ demands' = demands
  BY <1>1 DEF HandleDemand, At, pl
<1>3. DemandIn = inbox /\ DemandIn' = << >>
  BY <1>2 DEF DemandIn
<1>4. Grows(s, x, t)
  BY <1>1, Grown DEF Wiring
<1>5. PICK d, l, q, b : /\ d = Wires(program).demand /\ l = demands
                        /\ q = pl2ps[d] /\ b = serial[d]
  OBVIOUS
<1>6. Line(l, Len(s), inbox, q, b) /\ \A j \in 1 .. Len(s) : s[j] = l[j]
  BY <1>1, <1>3, <1>5 DEF DemandInv
<1>7. /\ Len(s) + 1 \in 1 .. Len(l) /\ x = l[Len(s) + 1]
      /\ Line(l, Len(s) + 1, << >>, q, b)
  BY <1>1, <1>2, <1>6, LineLeaves
<1>8. Line(demands, Len(served), DemandIn,
           pl2ps[Wires(program).demand], serial[Wires(program).demand])'
  <2>1. Line(l, Len(t), << >>, q, b)
    BY <1>4, <1>7 DEF Grows
  <2> QED BY <1>2, <1>3, <1>5, <2>1, Zenon
<1>9. \A j \in 1 .. Len(t) : t[j] = l[j]
  BY <1>4, <1>6, <1>7 DEF Grows
<1>10. DemandInv'
  <2>1. \A j \in 1 .. Len(demands) : demands[j].n = j
    BY DEF DemandInv
  <2> QED BY <1>2, <1>5, <1>8, <1>9, <2>1 DEF DemandInv
<1> QED BY <1>1, <1>5, <1>7, <1>10

LEMMA FedDemand ==
  ASSUME DemandInv, FifoInv, Wiring, NEW k \in 0 .. 1, Feed(k)
  PROVE  DemandInv'
<1>1. /\ serial[k] # << >> /\ Len(pl2ps[k]) < Els
      /\ pl2ps' = [pl2ps EXCEPT ![k] = Push(pl2ps[k], serial[k][1])]
      /\ serial' = [serial EXCEPT ![k] = Tail(serial[k])]
      /\ program' = program /\ demands' = demands /\ served' = served
      /\ text' = text /\ pc' = pc /\ inbox' = inbox
  BY DEF Feed, ps
<1>2. instr' = instr
  BY <1>1 DEF instr
<1>3. DemandIn' = DemandIn
  BY <1>1, <1>2, Zenon DEF DemandIn
<1>4. PICK d \in 0 .. 1 : d = Wires(program).demand
  BY Wired DEF Wiring
<1>5. CASE k # d
  <2>1. pl2ps'[d] = pl2ps[d] /\ serial'[d] = serial[d]
    BY <1>1, <1>5 DEF FifoInv, Fifos
  <2> QED BY <1>1, <1>2, <1>3, <1>4, <2>1 DEF DemandInv
<1>6. CASE k = d
  <2>1. PICK s, n, f, q, b, q2, b2 :
          /\ s = demands /\ n = Len(served) /\ f = DemandIn /\ q = pl2ps[d] /\ b = serial[d]
          /\ q2 = Append(q, b[1]) /\ b2 = Tail(b)
    OBVIOUS
  <2>2. Line(s, n, f, q, b)
    BY <1>4, <2>1 DEF DemandInv
  <2>3. Line(s, n, f, q2, b2)
    BY <1>1, <1>6, <2>1, <2>2, LineSends
  <2>4. pl2ps'[d] = q2 /\ serial'[d] = b2
    BY <1>1, <1>6, <2>1 DEF FifoInv, Fifos, Push
  <2>5. Line(demands, Len(served), DemandIn, pl2ps[d], serial[d])'
    BY <1>1, <1>3, <2>1, <2>3, <2>4
  <2> QED BY <1>1, <1>2, <1>4, <2>5 DEF DemandInv
<1> QED BY <1>5, <1>6

LEMMA MadeDemand ==
  ASSUME DemandInv, FifoInv, Wiring, NEW kind, TileDemand(kind) \/ CoreDemand(kind)
  PROVE  /\ DemandInv'
         /\ demands' = Append(demands, [kind |-> kind, n |-> Len(demands) + 1])
<1>1. PICK d \in 0 .. 1 : d = Wires(program).demand
  BY Wired DEF Wiring
<1>2. PICK x, s, t : /\ s = demands /\ x = [kind |-> kind, n |-> Len(s) + 1]
                     /\ t = Append(s, x)
  OBVIOUS
<1>3. /\ serial[d] = << >> /\ serial' = [serial EXCEPT ![d] = InWords(x)]
      /\ demands' = t /\ pl2ps' = pl2ps
      /\ program' = program /\ served' = served
      /\ text' = text /\ pc' = pc /\ inbox' = inbox
  BY <1>1, <1>2 DEF TileDemand, CoreDemand, Demand, ps
<1>4. instr' = instr
  BY <1>3 DEF instr
<1>5. DemandIn' = DemandIn
  BY <1>3, <1>4, Zenon DEF DemandIn
<1>6. PICK n, f, q : n = Len(served) /\ f = DemandIn /\ q = pl2ps[d]
  OBVIOUS
<1>7. /\ Line(s, n, f, q, << >>) /\ \A j \in 1 .. n : served[j] = s[j]
      /\ \A j \in 1 .. Len(s) : s[j].n = j
  BY <1>1, <1>2, <1>3, <1>6 DEF DemandInv
<1>8. Line(t, n, f, q, InWords(x))
  BY <1>2, <1>7, LineStarts
<1>9. Grows(s, x, t)
  BY <1>2, <1>7, Grown DEF Line
<1>10. n \in Nat /\ n <= Len(s)
  BY <1>7, LineBounds
<1>11. serial'[d] = InWords(x)
  BY <1>3 DEF FifoInv, Fifos
<1>12. Line(demands, Len(served), DemandIn, pl2ps[d], serial[d])'
  BY <1>3, <1>5, <1>6, <1>8, <1>11
<1>13. \A j \in 1 .. n : served[j] = t[j]
  BY <1>7, <1>9, <1>10 DEF Grows
<1>14. \A j \in 1 .. Len(t) : t[j].n = j
  <2>1. x.n = Len(s) + 1
    BY <1>2
  <2> QED BY <1>7, <1>9, <2>1 DEF Grows
<1> QED BY <1>1, <1>2, <1>3, <1>4, <1>6, <1>12, <1>13, <1>14 DEF DemandInv

LEMMA DemandNext == DemandInv /\ FifoInv /\ Wiring /\ [Next]_vars => DemandInv'
<1> SUFFICES ASSUME DemandInv, FifoInv, Wiring, [Next]_vars
             PROVE  DemandInv'
  OBVIOUS
<1> DEFINE Same == /\ UNCHANGED <<program, pl2ps, serial, demands, served, inbox>>
                   /\ inbox = << >> \/ UNCHANGED <<text, pc>>
<1>1. Same => DemandInv'
  BY DemandFrame
<1>2. ASSUME NEW do \in {"write", "check", "tick", "args", "load", "send", "drain"}, At(do)
      PROVE  inbox = << >>
  BY <1>2 DEF At, DemandInv
<1>3. CASE WriteRegister \/ CheckRegister \/ TickClock \/ TakeArguments
  <2>1. inbox = << >>
    BY <1>2, <1>3 DEF WriteRegister, CheckRegister, TickClock, TakeArguments
  <2>2. Same
    BY <1>3, <2>1 DEF WriteRegister, CheckRegister, TickClock, TakeArguments, pl
  <2> QED BY <1>1, <2>2
<1>4. CASE OpenFile \/ StartSend \/ DrainCredits
  <2>1. inbox = << >>
    BY <1>2, <1>4 DEF OpenFile, StartSend, DrainCredits
  <2>2. Same
    BY <1>4, <2>1 DEF OpenFile, StartSend, DrainCredits, pl
  <2> QED BY <1>1, <2>2
<1>5. CASE SendWord \/ Done
  <2>1. Same
    BY <1>5 DEF SendWord, Done, pl
  <2> QED BY <1>1, <2>1
<1>6. CASE ReceiveWord
  BY <1>6, ReceiveDemand
<1>7. CASE VerifyAnswer
  <2>1. /\ instr.do = "await" /\ inbox' = << >> /\ program' = program /\ pl2ps' = pl2ps
        /\ serial' = serial /\ demands' = demands /\ served' = served
    BY <1>7 DEF VerifyAnswer, At, pl
  <2>2. DemandIn = << >> /\ DemandIn' = << >>
    BY <2>1 DEF DemandIn
  <2> QED BY <2>1, <2>2, Zenon DEF DemandInv
<1>8. CASE HandleDemand
  BY <1>8, HandledDemand
<1>9. ASSUME NEW k \in 0 .. 1, Feed(k)
      PROVE  DemandInv'
  BY <1>9, FedDemand
<1>10. ASSUME NEW k \in 0 .. 1, Gather(k) \/ Launch \/ GetReply
       PROVE  DemandInv'
  <2>1. Same
    BY <1>10 DEF Gather, Launch, GetReply, ps
  <2> QED BY <1>1, <2>1
<1>11. ASSUME NEW i, Perform(i)
       PROVE  DemandInv'
  <2>1. PICK d \in 0 .. 1, a \in 0 .. 1 :
          d = Wires(program).demand /\ a = Wires(program).answer /\ a # d
    BY Wired DEF Wiring
  <2>2. /\ program' = program /\ pl2ps' = pl2ps /\ demands' = demands /\ served' = served
        /\ text' = text /\ pc' = pc /\ inbox' = inbox
        /\ serial' = serial \/ \E x : serial' = [serial EXCEPT ![a] = x]
    BY <1>11, <2>1 DEF Perform, ps
  <2>3. serial'[d] = serial[d]
    BY <2>1, <2>2 DEF FifoInv, Fifos
  <2>4. instr' = instr
    BY <2>2 DEF instr
  <2>5. DemandIn' = DemandIn
    BY <2>2, <2>4, Zenon DEF DemandIn
  <2> QED BY <2>1, <2>2, <2>3, <2>4, <2>5 DEF DemandInv
<1>12. ASSUME NEW kind, TileDemand(kind) \/ CoreDemand(kind)
       PROVE  DemandInv'
  BY <1>12, MadeDemand
<1>13. CASE UNCHANGED vars
  <2>1. Same
    BY <1>13 DEF vars, ps, pl
  <2> QED BY <1>1, <2>1
<1> HIDE DEF Same
<1> QED BY <1>3, <1>4, <1>5, <1>6, <1>7, <1>8, <1>9, <1>10, <1>11, <1>12, <1>13
        DEF Next, ProgramStep, EndpointStep, Network

-----------------------------------------------------------------------------
(***************************************************************************)
(* The reads of the ROM.  The core runs only after the program has sent    *)
(* the configuration, so the loop that takes its demands knows the ROM.    *)
(***************************************************************************)
\* The first m instructions send no configuration, the others do nothing but
\* send it and serve the core.
AtFirst == Writes \cup Plain \cup Loading \cup {"load", "serve"}
AtLast == Sends \cup {"rom serve"}

LEMMA HammerbladeStart ==
  ASSUME NEW val, NEW B
  PROVE  \E m : /\ m = Len(Setup("hammerblade", val))
                /\ Parts(Setup("hammerblade", val), m, AtFirst, B)
<1>1. \A a, b : Only(a, AtFirst) /\ Only(b, AtFirst) => Only(a \o b, AtFirst)
  BY OnlyBoth
<1>2. /\ \A reg, value : Only(Write(reg, value), AtFirst)
      /\ \A reg, value : Only(Check(reg, value), AtFirst)
      /\ Only(Args, AtFirst) /\ Only(Load, AtFirst)
  <2>1. {"check", "args", "load"} \cup Writes \subseteq AtFirst
    BY DEF AtFirst, Plain
  <2> QED BY <2>1, OneInstruction, ShapesKnown
<1>3. Only(TestRegister(val), AtFirst)
  BY <1>1, <1>2 DEF TestRegister
<1>4. Only(HammerbladeSetup(val), AtFirst)
  BY <1>1, <1>2, <1>3 DEF HammerbladeSetup
<1>5. Only(Setup("hammerblade", val), AtFirst)
  BY <1>1, <1>2, <1>4 DEF Setup
<1> QED BY <1>5, PartsWhole

LEMMA HammerbladeConfigOnly == Only(HammerbladeConfig, AtLast)
<1>1. \A b, c : Only(b, AtLast) /\ Only(c, AtLast) => Only(b \o c, AtLast)
  BY OnlyBoth
<1>2. \A dst, reg, value : reg # "data" => Only(HammerbladeWrite(dst, reg, value), AtLast)
  <2>1. Sends \subseteq AtLast
    BY DEF AtLast
  <2> QED BY <2>1, WriteOrSend DEF HammerbladeWrite
<1> QED BY <1>1, <1>2 DEF HammerbladeConfig

LEMMA HammerbladeRest == \E m : Parts(Rest("hammerblade"), m, AtFirst, AtLast)
<1>1. PICK a : a = HammerbladeServeTiles
  OBVIOUS
<1>2. Only(a, AtFirst)
  BY <1>1, OneInstruction DEF HammerbladeServeTiles, AtFirst
<1>3. Parts(a, Len(a), AtFirst, AtLast)
  BY <1>2, PartsWhole
<1>4. Only(HammerbladeServeCore, AtLast)
  BY OneInstruction DEF HammerbladeServeCore, AtLast
<1>5. Parts((a \o HammerbladeConfig) \o HammerbladeServeCore, Len(a), AtFirst, AtLast)
  BY <1>3, <1>4, HammerbladeConfigOnly, PartsBefore
<1> QED BY <1>1, <1>5 DEF Rest

LEMMA HammerbladeLoaded ==
  ASSUME "hammerblade" \in Programs, NEW t,
         \/ t = Rest("hammerblade")
         \/ \E v : \E file \in Files :
              t = LoadFile("hammerblade", v, file) \o Rest("hammerblade")
  PROVE  \E m : Parts(t, m, AtFirst, AtLast)
<1>1. CASE t = Rest("hammerblade")
  BY <1>1, HammerbladeRest
<1>2. CASE \E v : \E file \in Files :
             t = LoadFile("hammerblade", v, file) \o Rest("hammerblade")
  <2>1. PICK v : \E file \in Files :
                   t = LoadFile("hammerblade", v, file) \o Rest("hammerblade")
    BY <1>2
  <2>2. PICK file \in Files : t = LoadFile("hammerblade", v, file) \o Rest("hammerblade")
    BY <2>1
  <2>3. Only(LoadFile("hammerblade", v, file), Loading) /\ Loading \subseteq AtFirst
    BY LoadOnly DEF AtFirst
  <2>4. Only(LoadFile("hammerblade", v, file), AtFirst)
    BY <2>3, OnlyWider
  <2> QED BY <2>2, <2>4, HammerbladeRest, PartsAfter
<1> QED BY <1>1, <1>2

\* The program has sent something else than a line of the file.
Configured == \E m \in 1 .. Len(sent) : sent[m].request.reg # "data"

RomInv ==
  program = "hammerblade" =>
    \E m : Parts(text, m, AtFirst, AtLast) /\ (Configured => m < pc)

KindInv ==
  \A j \in 1 .. Len(demands) :
    /\ demands[j].kind = "getc" => program = "minimal"
    /\ demands[j].kind = "rom" => program = "hammerblade" /\ Configured

LEMMA ConfiguredLasts ==
  ASSUME SentInv, [Next]_vars
  PROVE  sent' = sent \/ (StartSend /\ Grows(sent, Numbered(instr.request), sent'))
<1>1. CASE StartSend
  BY <1>1, Grown DEF StartSend, SentInv
<1>2. CASE WriteRegister \/ CheckRegister \/ TickClock \/ TakeArguments \/ OpenFile
  BY <1>2 DEF WriteRegister, CheckRegister, TickClock, TakeArguments, OpenFile
<1>3. CASE SendWord \/ ReceiveWord \/ VerifyAnswer \/ HandleDemand \/ DrainCredits \/ Done
  BY <1>3 DEF SendWord, ReceiveWord, VerifyAnswer, HandleDemand, DrainCredits, Done
<1>4. CASE EndpointStep \/ Network
  BY <1>4 DEF EndpointStep, Gather, Feed, Launch, GetReply, Network, Perform, ps
<1>5. ASSUME NEW kind, TileDemand(kind) \/ CoreDemand(kind)
      PROVE  sent' = sent
  BY <1>5 DEF TileDemand, CoreDemand, Demand, ps
<1>6. CASE UNCHANGED vars
  BY <1>6 DEF vars, ps
<1> QED BY <1>1, <1>2, <1>3, <1>4, <1>5, <1>6 DEF Next, ProgramStep

LEMMA ConfiguredStays ==
  ASSUME SentInv, [Next]_vars
  PROVE  /\ Configured => Configured'
         /\ ~StartSend => (Configured' => Configured)
         /\ StartSend /\ Configured' /\ ~Configured => instr.request.reg # "data"
<1>1. CASE sent' = sent
  BY <1>1 DEF Configured
<1>2. CASE StartSend /\ Grows(sent, Numbered(instr.request), sent')
  <2>1. PICK s, t, x : /\ s = sent /\ t = sent' /\ x = Numbered(instr.request)
                       /\ Grows(s, x, t)
    BY <1>2
  <2>2. x.request = instr.request
    BY <2>1 DEF Numbered
  <2>3. \A j \in 1 .. Len(s) : j \in 1 .. Len(t) /\ t[j] = s[j]
    BY <2>1 DEF Grows
  <2>4. \A j \in 1 .. Len(t) : j \in 1 .. Len(s) \/ t[j] = x
    BY <2>1 DEF Grows
  <2>5. Configured => Configured'
    BY <2>1, <2>3 DEF Configured
  <2>6. Configured' /\ ~Configured => x.request.reg # "data"
    BY <2>1, <2>3, <2>4 DEF Configured
  <2> QED BY <1>2, <2>2, <2>5, <2>6
<1> QED BY <1>1, <1>2, ConfiguredLasts

LEMMA SameProgram ==
  ASSUME [Next]_vars
  PROVE  program' = program
<1>1. CASE ProgramStep
  BY <1>1 DEF ProgramStep, WriteRegister, CheckRegister, TickClock, TakeArguments,
              OpenFile, StartSend, SendWord, ReceiveWord, VerifyAnswer, HandleDemand,
              DrainCredits, Done
<1>2. CASE EndpointStep \/ Network
  BY <1>2 DEF EndpointStep, Gather, Feed, Launch, GetReply, Network, Perform, ps
<1>3. ASSUME NEW kind, TileDemand(kind) \/ CoreDemand(kind)
      PROVE  program' = program
  BY <1>3 DEF TileDemand, CoreDemand, Demand, ps
<1>4. CASE UNCHANGED vars
  BY <1>4 DEF vars, ps
<1> QED BY <1>1, <1>2, <1>3, <1>4 DEF Next

LEMMA RomNext == RomInv /\ TextInv /\ SentInv /\ [Next]_vars => RomInv'
<1> SUFFICES ASSUME RomInv, TextInv, SentInv, [Next]_vars, program' = "hammerblade"
             PROVE  \E m : Parts(text', m, AtFirst, AtLast) /\ (Configured' => m < pc')
  BY DEF RomInv
<1>0. program' = program
  BY SameProgram
<1>1. PICK m : Parts(text, m, AtFirst, AtLast) /\ (Configured => m < pc)
  BY <1>0 DEF RomInv
<1>2. m \in Nat /\ pc \in Nat /\ Len(text) \in Nat
  BY <1>1, SeqFacts DEF Parts, TextInv
<1>3. ASSUME ~StartSend, text' = text, pc' = pc \/ pc' = pc + 1
      PROVE  \E i : Parts(text', i, AtFirst, AtLast) /\ (Configured' => i < pc')
  <2>1. Configured' => Configured
    BY <1>3, ConfiguredStays
  <2>2. Configured' => m < pc'
    BY <1>1, <1>2, <1>3, <2>1
  <2> QED BY <1>1, <1>3, <2>2
<1>4. CASE StartSend
  <2>1. /\ text' = text /\ pc' = pc + 1 /\ pc <= Len(text) /\ text[pc].do = "send"
    BY <1>4 DEF StartSend, At, instr
  <2>2. ASSUME Configured'
        PROVE  m < pc'
    <3>1. CASE Configured
      BY <1>1, <1>2, <2>1, <3>1
    <3>2. CASE ~Configured
      <4>1. text[pc].request.reg # "data"
        BY <1>4, <2>2, <3>2, ConfiguredStays DEF instr
      <4>2. Shape(text[pc]) \in Sends
        BY <2>1, <4>1, ShapesKnown DEF Shape
      <4>3. pc \notin 1 .. m
        BY <1>1, <4>2 DEF Parts, AtFirst, Sends, Writes, Plain, Loading
      <4>4. pc \in 1 .. Len(text) + 1
        BY DEF TextInv
      <4> QED BY <1>2, <2>1, <4>3, <4>4
    <3> QED BY <3>1, <3>2
  <2> QED BY <1>1, <2>1, <2>2
<1>5. CASE OpenFile /\ ~StartSend
  <2>1. /\ pc <= Len(text) /\ text[pc].do = "load"
        /\ \/ \E file \in Files : text' = LoadFile(program, verify, file) \o Rest(program)
           \/ text' = Rest(program)
    BY <1>5 DEF OpenFile, At, instr
  <2>2. Shape(text[pc]) = "load"
    BY <2>1 DEF Shape
  <2>3. pc \notin m + 1 .. Len(text)
    BY <1>1, <2>2 DEF Parts, AtLast, Sends
  <2>4. ~Configured
    BY <1>1, <1>2, <2>1, <2>3
  <2>5. ~Configured'
    BY <1>5, <2>4, ConfiguredStays
  <2>6. "hammerblade" \in Programs /\ program = "hammerblade"
    BY <1>0 DEF TextInv
  <2>7. PICK t : /\ t = text'
                 /\ \/ t = Rest("hammerblade")
                    \/ \E v : \E file \in Files :
                         t = LoadFile("hammerblade", v, file) \o Rest("hammerblade")
    BY <2>1, <2>6
  <2>8. \E i : Parts(t, i, AtFirst, AtLast)
    BY <2>6, <2>7, HammerbladeLoaded
  <2> QED BY <2>5, <2>7, <2>8
<1>6. CASE (WriteRegister \/ CheckRegister \/ TickClock \/ TakeArguments) /\ ~StartSend
  BY <1>3, <1>6 DEF WriteRegister, CheckRegister, TickClock, TakeArguments
<1>7. CASE (SendWord \/ ReceiveWord \/ VerifyAnswer \/ DrainCredits \/ Done) /\ ~StartSend
  BY <1>3, <1>7 DEF SendWord, ReceiveWord, VerifyAnswer, DrainCredits, Done
<1>8. CASE HandleDemand /\ ~StartSend
  <2>1. text' = text /\ (pc' = pc \/ pc' = pc + 1)
    BY <1>8 DEF HandleDemand
  <2> QED BY <1>3, <1>8, <2>1
<1>9. CASE (EndpointStep \/ Network) /\ ~StartSend
  BY <1>3, <1>9 DEF EndpointStep, Gather, Feed, Launch, GetReply, Network, Perform, ps
<1>10. ASSUME NEW kind, TileDemand(kind) \/ CoreDemand(kind), ~StartSend
       PROVE  \E i : Parts(text', i, AtFirst, AtLast) /\ (Configured' => i < pc')
  BY <1>3, <1>10 DEF TileDemand, CoreDemand, Demand, ps
<1>11. CASE UNCHANGED vars /\ ~StartSend
  BY <1>3, <1>11 DEF vars, ps
<1> QED BY <1>4, <1>5, <1>6, <1>7, <1>8, <1>9, <1>10, <1>11 DEF Next, ProgramStep

LEMMA RomInit == Init => RomInv /\ KindInv
<1> SUFFICES ASSUME Init
             PROVE  RomInv /\ KindInv
  OBVIOUS
<1>1. PICK e : e = << >> /\ Len(e) = 0
  BY EmptyIsSeq
<1>2. sent = e /\ demands = e /\ \E val : text = Setup(program, val)
  BY <1>1 DEF Init
<1>3. ~Configured
  BY <1>1, <1>2 DEF Configured
<1>4. ASSUME program = "hammerblade"
      PROVE  \E m : Parts(text, m, AtFirst, AtLast)
  <2>1. PICK val : text = Setup("hammerblade", val)
    BY <1>2, <1>4
  <2> QED BY <2>1, HammerbladeStart
<1>5. RomInv
  BY <1>3, <1>4 DEF RomInv
<1>6. KindInv
  BY <1>1, <1>2 DEF KindInv
<1> QED BY <1>5, <1>6

\* Only the host of the minimal example writes bare words.
LEMMA NeverBare ==
  ASSUME KindInv, DemandInv, Wiring, program # "minimal"
  PROVE  ~Bare
<1> SUFFICES ASSUME NEW i \in DOMAIN served, served[i].kind = "getc"
             PROVE  FALSE
  BY DEF Bare
<1>1. PICK d, s, n : d = demands /\ s = served /\ n = Len(served)
  OBVIOUS
<1>2. i \in 1 .. n
  BY <1>1, SeqFacts DEF Wiring
<1>3. s[i] = d[i] /\ n \in Nat /\ Len(d) \in Nat /\ n <= Len(d)
  <2>1. \E f, q, b : Line(d, n, f, q, b)
    BY <1>1 DEF DemandInv
  <2>2. n \in Nat /\ Len(d) \in Nat /\ n <= Len(d)
    BY <2>1, LineBounds
  <2> QED BY <1>1, <1>2, <2>2 DEF DemandInv
<1>4. i \in 1 .. Len(d) /\ d[i].kind = "getc"
  BY <1>1, <1>2, <1>3
<1> QED BY <1>1, <1>4 DEF KindInv

\* The core of hammerblade runs only when a write to it has been performed.
LEMMA RunsConfigured ==
  ASSUME KindInv, DemandInv, Wiring, RequestLine, NetInv,
         program = "hammerblade", CoreRuns
  PROVE  Configured
<1>1. \E j \in DOMAIN performed : performed[j].request.reg = "freeze"
  <2> DEFINE writes == {j \in DOMAIN performed :
                          /\ performed[j] # Garbled
                          /\ performed[j].request.kind = "write"
                          /\ performed[j].request.dst = "core"
                          /\ performed[j].request.reg = "freeze"}
  <2>1. Stored("core", "freeze") = 0
    BY DEF CoreRuns
  <2>2. writes # {}
    <3> SUFFICES ASSUME writes = {}
                 PROVE  FALSE
      OBVIOUS
    <3>1. Stored("core", "freeze") = -1
      BY DEF Stored
    <3> QED BY <2>1, <3>1
  <2> QED BY <2>2
<1>2. PICK j \in 1 .. Len(performed) : performed[j].request.reg = "freeze"
  BY <1>1, SeqFacts DEF NetInv, Accounted
<1>3. PICK m \in 1 .. Len(launched) : performed[j] = launched[m]
  BY DEF NetInv, Accounted, Within
<1>4. ~Bare
  BY NeverBare
<1>5. launched[m] = sent[m] /\ m \in 1 .. Len(sent)
  <2>1. PICK n \in Nat : n = Len(launched)
    BY SeqFacts DEF Wiring
  <2>2. Len(sent) \in Nat /\ n <= Len(sent)
    BY <1>4, <2>1, LineBounds DEF RequestLine
  <2> QED BY <1>4, <2>1, <2>2 DEF RequestLine
<1> QED BY <1>2, <1>3, <1>5 DEF Configured

LEMMA KindNext ==
  /\ KindInv /\ DemandInv /\ FifoInv /\ Wiring /\ RequestLine /\ NetInv /\ SentInv
  /\ [Next]_vars
  => KindInv'
<1> SUFFICES ASSUME KindInv, DemandInv, FifoInv, Wiring, RequestLine, NetInv, SentInv,
                    [Next]_vars
             PROVE  KindInv'
  OBVIOUS
<1>1. program' = program /\ (Configured => Configured')
  BY SameProgram, ConfiguredStays
<1>2. demands' = demands => KindInv'
  BY <1>1 DEF KindInv
<1>3. ASSUME NEW kind, TileDemand(kind) \/ CoreDemand(kind)
      PROVE  KindInv'
  <2>1. PICK s, t, x : /\ s = demands /\ t = demands'
                       /\ x = [kind |-> kind, n |-> Len(demands) + 1] /\ t = Append(s, x)
    BY <1>3, MadeDemand
  <2>2. IsSeq(s)
    BY <2>1 DEF DemandInv, Line
  <2>3. Grows(s, x, t)
    BY <2>1, <2>2, Grown
  <2>4. kind = "getc" => program = "minimal"
    BY <1>3 DEF TileDemand, CoreDemand, Demand, TileKinds, CoreKinds
  <2>5. ASSUME kind = "rom"
        PROVE  program = "hammerblade" /\ Configured
    <3>1. CoreDemand(kind)
      BY <1>3, <2>5 DEF TileDemand, Demand, TileKinds
    <3>2. program = "hammerblade" /\ CoreRuns
      <4>1. program \in {"minimal", "manycore", "hammerblade"}
        BY PacketLinkAssumption DEF Wiring
      <4> QED BY <2>5, <3>1, <4>1 DEF CoreDemand, Demand, CoreKinds
    <3> QED BY <3>2, RunsConfigured
  <2>6. ASSUME NEW j \in 1 .. Len(t)
        PROVE  /\ t[j].kind = "getc" => program = "minimal"
               /\ t[j].kind = "rom" => program = "hammerblade" /\ Configured
    <3>1. CASE j \in 1 .. Len(s)
      <4>1. t[j] = s[j]
        BY <2>3, <3>1 DEF Grows
      <4> QED BY <2>1, <3>1, <4>1 DEF KindInv
    <3>2. CASE j \notin 1 .. Len(s)
      <4>1. t[j] = x
        BY <2>3, <3>2 DEF Grows
      <4>2. x.kind = kind
        BY <2>1
      <4> QED BY <2>4, <2>5, <4>1, <4>2
    <3> QED BY <3>1, <3>2
  <2> QED BY <1>1, <2>1, <2>6 DEF KindInv
<1>4. CASE WriteRegister \/ CheckRegister \/ TickClock \/ TakeArguments \/ OpenFile
  BY <1>2, <1>4 DEF WriteRegister, CheckRegister, TickClock, TakeArguments, OpenFile, pl
<1>5. CASE StartSend \/ SendWord \/ ReceiveWord \/ VerifyAnswer \/ HandleDemand
  BY <1>2, <1>5 DEF StartSend, SendWord, ReceiveWord, VerifyAnswer, HandleDemand, pl
<1>6. CASE DrainCredits \/ Done
  BY <1>2, <1>6 DEF DrainCredits, Done, pl
<1>7. CASE EndpointStep \/ Network
  BY <1>2, <1>7 DEF EndpointStep, Gather, Feed, Launch, GetReply, Network, Perform
<1>8. CASE UNCHANGED vars
  BY <1>2, <1>8 DEF vars, pl
<1> QED BY <1>3, <1>4, <1>5, <1>6, <1>7, <1>8 DEF Next, ProgramStep

-----------------------------------------------------------------------------
(***************************************************************************)
(* The packets of the replies make a line as those of the requests do.     *)
(***************************************************************************)
RomsBefore(s, n) == {m \in 1 .. n - 1 : s[m].kind = "rom"}

NumbersBefore(q, i) == {q[j].n : j \in 1 .. i - 1}

\* The packets of q answer the reads of the ROM in s, all of them and in order.
Answers(q, s) ==
  /\ \A i \in 1 .. Len(q) :
       /\ q[i].n \in 1 .. Len(s) /\ s[q[i].n].kind = "rom"
       /\ q[i].request.value = RomIndex(q[i].n)
       /\ NumbersBefore(q, i) = RomsBefore(s, q[i].n)
  /\ NumbersBefore(q, Len(q) + 1) = RomsBefore(s, Len(s) + 1)

Replied(q) ==
  /\ Line(q, Len(replies), gathered[1], ps2pl[1], OutOf("reply"))
  /\ \A j \in 1 .. Len(replies) : replies[j] = q[j]
  /\ Answers(q, served)

ReplyInv ==
  /\ IsSeq(replies)
  /\ regs = [r \in Registers |-> regs[r]]
  /\ \E q : Replied(q)

LEMMA RomsAfter ==
  ASSUME NEW s, NEW d, NEW s2, Grows(s, d, s2)
  PROVE  /\ \A n \in 1 .. Len(s) + 1 : RomsBefore(s2, n) = RomsBefore(s, n)
         /\ RomsBefore(s2, Len(s2) + 1) =
              IF d.kind = "rom" THEN RomsBefore(s, Len(s) + 1) \cup {Len(s) + 1}
                                ELSE RomsBefore(s, Len(s) + 1)
<1>1. PICK l \in Nat : /\ l = Len(s) /\ Len(s2) = l + 1 /\ s2[l + 1] = d
                       /\ \A j \in 1 .. l : s2[j] = s[j]
  BY DEF Grows
<1>2. \A n \in 1 .. l + 1 : \A m \in 1 .. n - 1 : m \in 1 .. l
  BY <1>1
<1>3. \A n \in 1 .. l + 1 : RomsBefore(s2, n) = RomsBefore(s, n)
  BY <1>1, <1>2 DEF RomsBefore
<1>4. \A m : m \in 1 .. (l + 2) - 1 <=> m \in 1 .. l \/ m = l + 1
  BY <1>1
<1>5. \A m : m \in 1 .. (l + 1) - 1 <=> m \in 1 .. l
  BY <1>1
<1>6. RomsBefore(s2, l + 2) =
        IF d.kind = "rom" THEN RomsBefore(s, l + 1) \cup {l + 1} ELSE RomsBefore(s, l + 1)
  BY <1>1, <1>4, <1>5 DEF RomsBefore
<1> QED BY <1>1, <1>3, <1>6

\* A demand that is no read of the ROM leaves the answers as they are.
LEMMA AnswersOther ==
  ASSUME NEW q, NEW s, Answers(q, s), NEW d, d.kind # "rom", NEW s2, Grows(s, d, s2)
  PROVE  Answers(q, s2)
<1>1. PICK l \in Nat : /\ l = Len(s) /\ Len(s2) = l + 1
                       /\ \A j \in 1 .. l : s2[j] = s[j]
  BY DEF Grows
<1>2. /\ \A n \in 1 .. l + 1 : RomsBefore(s2, n) = RomsBefore(s, n)
      /\ RomsBefore(s2, Len(s2) + 1) = RomsBefore(s, l + 1)
  BY <1>1, RomsAfter
<1>3. \A n \in 1 .. l : n \in 1 .. Len(s2) /\ n \in 1 .. l + 1
  BY <1>1
<1>4. \A i \in 1 .. Len(q) : q[i].n \in 1 .. l
  BY <1>1 DEF Answers
<1> QED BY <1>1, <1>2, <1>3, <1>4 DEF Answers

\* A read of the ROM is answered by the next packet.
LEMMA AnswersRom ==
  ASSUME NEW q, NEW s, Answers(q, s), NEW d, d.kind = "rom", NEW s2, Grows(s, d, s2),
         NEW x, x.n = Len(s) + 1, x.request.value = RomIndex(x.n), NEW q2, Grows(q, x, q2)
  PROVE  Answers(q2, s2)
<1>1. PICK l \in Nat : /\ l = Len(s) /\ Len(s2) = l + 1 /\ s2[l + 1] = d
                       /\ \A j \in 1 .. l : s2[j] = s[j]
  BY DEF Grows
<1>2. PICK c \in Nat : /\ c = Len(q) /\ Len(q2) = c + 1 /\ q2[c + 1] = x
                       /\ \A j \in 1 .. c : q2[j] = q[j]
  BY DEF Grows
<1>3. /\ \A n \in 1 .. l + 1 : RomsBefore(s2, n) = RomsBefore(s, n)
      /\ RomsBefore(s2, Len(s2) + 1) = RomsBefore(s, l + 1) \cup {l + 1}
  <2>1. /\ \A n \in 1 .. Len(s) + 1 : RomsBefore(s2, n) = RomsBefore(s, n)
        /\ RomsBefore(s2, Len(s2) + 1) =
             IF d.kind = "rom" THEN RomsBefore(s, Len(s) + 1) \cup {Len(s) + 1}
                               ELSE RomsBefore(s, Len(s) + 1)
    BY RomsAfter
  <2> QED BY <1>1, <2>1
<1>4. \A i \in 1 .. c + 1 : NumbersBefore(q2, i) = NumbersBefore(q, i)
  <2> TAKE i \in 1 .. c + 1
  <2>1. \A j \in 1 .. i - 1 : q2[j] = q[j]
    BY <1>2
  <2> QED BY <2>1 DEF NumbersBefore
<1>5. NumbersBefore(q2, c + 2) = NumbersBefore(q, c + 1) \cup {l + 1}
  <2>1. \A j : j \in 1 .. (c + 2) - 1 <=> j \in 1 .. c \/ j = c + 1
    BY <1>2
  <2>2. \A j : j \in 1 .. (c + 1) - 1 <=> j \in 1 .. c
    BY <1>2
  <2> QED BY <1>1, <1>2, <2>1, <2>2 DEF NumbersBefore
<1>6. ASSUME NEW i \in 1 .. Len(q2)
      PROVE  /\ q2[i].n \in 1 .. Len(s2) /\ s2[q2[i].n].kind = "rom"
             /\ q2[i].request.value = RomIndex(q2[i].n)
             /\ NumbersBefore(q2, i) = RomsBefore(s2, q2[i].n)
  <2>1. CASE i \in 1 .. c
    <3>1. q2[i] = q[i] /\ i \in 1 .. c + 1
      BY <1>2, <2>1
    <3>2. q[i].n \in 1 .. l /\ q[i].n \in 1 .. l + 1
      BY <1>1, <1>2, <2>1 DEF Answers
    <3> QED BY <1>1, <1>2, <1>3, <1>4, <2>1, <3>1, <3>2 DEF Answers
  <2>2. CASE i = c + 1
    <3>1. q2[i].n = l + 1 /\ l + 1 \in 1 .. l + 1
      BY <1>1, <1>2, <2>2
    <3>2. NumbersBefore(q, c + 1) = RomsBefore(s, l + 1)
      BY <1>1, <1>2 DEF Answers
    <3>3. NumbersBefore(q2, c + 1) = NumbersBefore(q, c + 1)
      BY <1>2, <1>4
    <3> QED BY <1>1, <1>2, <1>3, <2>2, <3>1, <3>2, <3>3
  <2> QED BY <1>2, <2>1, <2>2
<1>7. NumbersBefore(q2, Len(q2) + 1) = RomsBefore(s2, Len(s2) + 1)
  <2>1. NumbersBefore(q, c + 1) = RomsBefore(s, l + 1)
    BY <1>1, <1>2 DEF Answers
  <2>2. Len(q2) + 1 = c + 2
    BY <1>2
  <2> QED BY <1>3, <1>5, <2>1, <2>2
<1> QED BY <1>6, <1>7 DEF Answers

\* The loop that takes a read of the ROM is the one that knows it.
LEMMA RomKnown ==
  ASSUME KindInv, RomInv, TextInv, DemandInv, FifoInv, Wiring, HandleDemand,
         Packet(inbox).kind = "rom"
  PROVE  "rom" \in instr.understood
<1>1. PICK i \in 1 .. Len(demands) : Packet(inbox) = demands[i]
  BY HandledDemand
<1>2. program = "hammerblade" /\ Configured
  BY <1>1 DEF KindInv
<1>3. PICK m : Parts(text, m, AtFirst, AtLast) /\ m < pc
  BY <1>2 DEF RomInv
<1>4. /\ m \in Nat /\ pc \in Nat /\ Len(text) \in Nat /\ pc <= Len(text)
      /\ text[pc].do = "serve"
  BY <1>3, SeqFacts DEF Parts, TextInv, HandleDemand, At, instr
<1>5. Shape(text[pc]) \in AtLast
  BY <1>3, <1>4 DEF Parts
<1> QED BY <1>4, <1>5 DEF AtLast, Shape, instr, Sends

LEMMA ReplyFrame ==
  ASSUME ReplyInv, UNCHANGED <<served, replies, regs>>,
         gathered'[1] = gathered[1], ps2pl'[1] = ps2pl[1], OutOf("reply")' = OutOf("reply")
  PROVE  ReplyInv'
<1>1. PICK q : Replied(q)
  BY DEF ReplyInv
<1>2. served' = served /\ replies' = replies /\ regs' = regs
  OBVIOUS
<1>3. Replied(q)'
  BY <1>1, <1>2, Zenon DEF Replied
<1> QED BY <1>2, <1>3 DEF ReplyInv

LEMMA ReplyRegisters ==
  ASSUME ReplyInv, UNCHANGED <<served, replies, gathered, ps2pl, outbox>>,
         regs' = regs \/ \E r, x : regs' = [regs EXCEPT ![r] = x]
  PROVE  ReplyInv'
<1>1. PICK q : Replied(q)
  BY DEF ReplyInv
<1>2. /\ served' = served /\ replies' = replies /\ gathered' = gathered
      /\ ps2pl' = ps2pl /\ outbox' = outbox
  OBVIOUS
<1>3. OutboxOf("reply")' <=> OutboxOf("reply")
  BY <1>2, Zenon DEF OutboxOf
<1>4. OutOf("reply")' = OutOf("reply")
  BY <1>2, <1>3, Zenon DEF OutOf
<1>5. Replied(q)'
  BY <1>1, <1>2, <1>4, Zenon DEF Replied
<1>6. regs' = [r \in Registers |-> regs'[r]]
  BY DEF ReplyInv
<1> QED BY <1>2, <1>5, <1>6 DEF ReplyInv

LEMMA StartSendReply ==
  ASSUME ReplyInv, StartSend
  PROVE  ReplyInv'
<1>1. /\ outbox = << >> /\ outbox' = InWords(Numbered(instr.request))
      /\ UNCHANGED <<served, replies, regs, gathered, ps2pl>>
  BY DEF StartSend, At, pl
<1>2. PICK x : x = Numbered(instr.request) /\ x.by = "request" /\ x.by # "reply"
  <2>1. Numbered(instr.request).by = "request"
    BY DEF Numbered
  <2> QED BY <2>1
<1>3. OutOf("reply")' = << >>
  BY <1>1, <1>2, OutboxFilled
<1>4. OutOf("reply") = << >>
  BY <1>1, OutboxEmpty
<1> QED BY <1>1, <1>3, <1>4, ReplyFrame

LEMMA SendWordReply ==
  ASSUME ReplyInv, Wiring, SendWord
  PROVE  ReplyInv'
<1>1. /\ outbox # << >> /\ outbox' = Tail(outbox) /\ Len(ps2pl[OutFifo]) < Els
      /\ ps2pl' = [ps2pl EXCEPT ![OutFifo] = Push(ps2pl[OutFifo], outbox[1])]
      /\ served' = served /\ replies' = replies /\ regs' = regs /\ gathered' = gathered
  BY DEF SendWord, pl
<1>2. /\ outbox[1].of.by \in {"request", "reply"}
      /\ IF outbox[1].of.by = "reply"
         THEN OutOf("reply") = outbox /\ OutOf("reply")' = Tail(outbox)
         ELSE OutOf("reply") = << >> /\ OutOf("reply")' = << >>
  BY <1>1, OutboxShorter DEF Wiring
<1>3. OutFifo = IF outbox[1].of.by = "request" THEN 0 ELSE 1
  <2>1. Link(program).request = 0 /\ Link(program).reply = 1
    BY Wired DEF Wiring
  <2> QED BY <1>2, <2>1 DEF OutFifo
<1>4. CASE outbox[1].of.by # "reply"
  <2>1. ps2pl'[1] = ps2pl[1] /\ OutOf("reply")' = OutOf("reply")
    BY <1>1, <1>2, <1>3, <1>4 DEF Wiring
  <2> QED BY <1>1, <2>1, ReplyFrame
<1>5. CASE outbox[1].of.by = "reply"
  <2>1. PICK q : Replied(q)
    BY DEF ReplyInv
  <2>2. PICK n, f, l, b, l2, b2 :
          /\ n = Len(replies) /\ f = gathered[1] /\ l = ps2pl[1] /\ b = outbox
          /\ l2 = Append(l, b[1]) /\ b2 = Tail(b)
    OBVIOUS
  <2>3. Line(q, n, f, l, b) /\ b # << >>
    BY <1>1, <1>2, <1>5, <2>1, <2>2 DEF Replied
  <2>4. Line(q, n, f, l2, b2)
    BY <2>2, <2>3, LineSends
  <2>5. ps2pl'[1] = l2 /\ OutOf("reply")' = b2
    BY <1>1, <1>2, <1>3, <1>5, <2>2 DEF Wiring, Push
  <2>6. Line(q, Len(replies), gathered[1], ps2pl[1], OutOf("reply"))'
    BY <1>1, <2>2, <2>4, <2>5
  <2>7. Replied(q)'
    BY <1>1, <2>1, <2>6 DEF Replied
  <2> QED BY <1>1, <2>7 DEF ReplyInv
<1> QED BY <1>4, <1>5

LEMMA GatherReply ==
  ASSUME ReplyInv, Wiring, NEW k \in 0 .. 1, Gather(k)
  PROVE  ReplyInv'
<1>1. /\ ps2pl[k] # << >> /\ Len(gathered[k]) < Words
      /\ gathered' = [gathered EXCEPT ![k] = Append(gathered[k], Head(ps2pl[k]))]
      /\ ps2pl' = [ps2pl EXCEPT ![k] = Tail(ps2pl[k])]
      /\ outbox' = outbox /\ served' = served /\ replies' = replies /\ regs' = regs
  BY DEF Gather, ps
<1>2. OutboxOf("reply")' <=> OutboxOf("reply")
  BY <1>1, Zenon DEF OutboxOf
<1>3. OutOf("reply")' = OutOf("reply")
  BY <1>1, <1>2, Zenon DEF OutOf
<1>4. CASE k = 0
  <2>1. ps2pl'[1] = ps2pl[1] /\ gathered'[1] = gathered[1]
    BY <1>1, <1>4 DEF Wiring
  <2> QED BY <1>1, <1>3, <2>1, ReplyFrame
<1>5. CASE k = 1
  <2>1. PICK q : Replied(q)
    BY DEF ReplyInv
  <2>2. PICK n, f, l, b, l2, f2 :
          /\ n = Len(replies) /\ f = gathered[1] /\ l = ps2pl[1] /\ b = OutOf("reply")
          /\ f2 = Append(f, Head(l)) /\ l2 = Tail(l)
    OBVIOUS
  <2>3. Line(q, n, f, l, b)
    BY <2>1, <2>2 DEF Replied
  <2>4. Line(q, n, f2, l2, b)
    BY <1>1, <1>5, <2>2, <2>3, LineGathers
  <2>5. ps2pl'[1] = l2 /\ gathered'[1] = f2
    BY <1>1, <1>5, <2>2 DEF Wiring
  <2>6. Line(q, Len(replies), gathered[1], ps2pl[1], OutOf("reply"))'
    BY <1>1, <1>3, <2>2, <2>4, <2>5
  <2>7. Replied(q)'
    BY <1>1, <2>1, <2>6 DEF Replied
  <2> QED BY <1>1, <2>7 DEF ReplyInv
<1> QED BY <1>4, <1>5

LEMMA GetReplyReply ==
  ASSUME ReplyInv, Wiring, GetReply
  PROVE  ReplyInv'
<1>1. PICK x, r, r2 : x = Packet(gathered[1]) /\ r = replies /\ r2 = Append(r, x)
  OBVIOUS
<1>2. Wires(program).reply = 1
  BY Wired DEF Wiring
<1>3. /\ Len(gathered[1]) = Words /\ gathered' = [gathered EXCEPT ![1] = << >>]
      /\ replies' = r2
      /\ outbox' = outbox /\ served' = served /\ ps2pl' = ps2pl /\ regs' = regs
  BY <1>1, <1>2 DEF GetReply, ps
<1>4. OutboxOf("reply")' <=> OutboxOf("reply")
  BY <1>3, Zenon DEF OutboxOf
<1>5. OutOf("reply")' = OutOf("reply")
  BY <1>3, <1>4, Zenon DEF OutOf
<1>6. Grows(r, x, r2)
  BY <1>1, Grown DEF ReplyInv
<1>7. PICK q : Replied(q)
  BY DEF ReplyInv
<1>8. PICK f, l, b : f = gathered[1] /\ l = ps2pl[1] /\ b = OutOf("reply")
  OBVIOUS
<1>9. Line(q, Len(r), f, l, b) /\ Len(f) = Words
  BY <1>1, <1>3, <1>7, <1>8 DEF Replied
<1>10. /\ Len(r) + 1 \in 1 .. Len(q) /\ x = q[Len(r) + 1]
       /\ Line(q, Len(r) + 1, << >>, l, b)
  BY <1>1, <1>8, <1>9, LineLeaves
<1>11. gathered'[1] = << >>
  <2>1. PICK e, g : e = << >> /\ g = gathered /\ g = [i \in 0 .. 1 |-> g[i]]
    BY DEF Wiring
  <2>2. gathered' = [g EXCEPT ![1] = e]
    BY <1>3, <2>1
  <2>3. gathered'[1] = e
    BY <2>1, <2>2
  <2> QED BY <2>1, <2>3
<1>12. Line(q, Len(replies), gathered[1], ps2pl[1], OutOf("reply"))'
  <2>1. Line(q, Len(r2), << >>, l, b)
    BY <1>6, <1>10 DEF Grows
  <2> QED BY <1>3, <1>5, <1>8, <1>11, <2>1, Zenon
<1>13. \A j \in 1 .. Len(r2) : r2[j] = q[j]
  BY <1>1, <1>6, <1>7, <1>10 DEF Grows, Replied
<1>14. Replied(q)'
  BY <1>3, <1>7, <1>12, <1>13 DEF Replied
<1> QED BY <1>3, <1>6, <1>14 DEF ReplyInv, Grows

LEMMA HandleDemandReply ==
  ASSUME ReplyInv, KindInv, RomInv, TextInv, DemandInv, FifoInv, Wiring, HandleDemand
  PROVE  ReplyInv'
<1>1. PICK d, s, s2 : d = Packet(inbox) /\ s = served /\ s2 = Append(s, d)
  OBVIOUS
<1>2. /\ outbox = << >> /\ served' = s2
      /\ IF d.kind \in instr.understood /\ d.kind = "rom"
         THEN /\ regs' = [regs EXCEPT !["rom_addr"] = RomIndex(d.n)]
              /\ outbox' = InWords(RomReply(d))
         ELSE regs' = regs /\ outbox' = outbox
      /\ ps2pl' = ps2pl \/ \E w : ps2pl' = [ps2pl EXCEPT ![0] = w]
      /\ gathered' = gathered /\ replies' = replies
  BY <1>1 DEF HandleDemand, At, pl
<1>3. ps2pl'[1] = ps2pl[1]
  BY <1>2 DEF Wiring
<1>4. Grows(s, d, s2)
  BY <1>1, Grown DEF Wiring
<1>5. d.n = Len(s) + 1
  BY <1>1, HandledDemand DEF DemandInv
<1>6. PICK q : Replied(q)
  BY DEF ReplyInv
<1>7. OutOf("reply") = << >>
  BY <1>2, OutboxEmpty
<1>8. CASE d.kind # "rom"
  <2>1. outbox' = << >> /\ regs' = regs
    BY <1>2, <1>8
  <2>2. OutOf("reply")' = << >>
    BY <2>1 DEF OutOf
  <2>3. Answers(q, s2)
    BY <1>1, <1>4, <1>6, <1>8, AnswersOther DEF Replied
  <2>4. Line(q, Len(replies), gathered[1], ps2pl[1], OutOf("reply"))'
    BY <1>2, <1>3, <1>6, <1>7, <2>2, Zenon DEF Replied
  <2>5. Replied(q)'
    BY <1>2, <1>6, <2>3, <2>4 DEF Replied
  <2> QED BY <1>2, <2>1, <2>5 DEF ReplyInv
<1>9. CASE d.kind = "rom"
  <2>1. "rom" \in instr.understood
    BY <1>1, <1>9, RomKnown
  <2>2. regs' = [regs EXCEPT !["rom_addr"] = RomIndex(d.n)] /\ outbox' = InWords(RomReply(d))
    BY <1>2, <1>9, <2>1
  <2>3. regs' = [r \in Registers |-> regs'[r]] /\ regs'["rom_addr"] = RomIndex(d.n)
    <3>1. "rom_addr" \in Registers
      BY DEF Registers
    <3> QED BY <2>2, <3>1 DEF ReplyInv
  <2>4. PICK x : /\ x = RomReply(d) /\ x.by = "reply" /\ x.n = d.n
                 /\ x.request.value = RomIndex(d.n)
    <3>1. /\ RomReply(d).by = "reply" /\ RomReply(d).n = d.n
          /\ RomReply(d).request.value = regs'["rom_addr"]
      BY DEF RomReply, Reply, Request
    <3> QED BY <2>3, <3>1
  <2>5. OutOf("reply")' = InWords(x)
    <3>1. outbox' = InWords(x)
      BY <2>2, <2>4
    <3>2. OutOf("reply")' = outbox'
      BY <2>4, <3>1, OutboxFilled
    <3> QED BY <3>1, <3>2
  <2>6. PICK n, f, l, q2 : /\ n = Len(replies) /\ f = gathered[1] /\ l = ps2pl[1]
                           /\ q2 = Append(q, x)
    OBVIOUS
  <2>7. Line(q, n, f, l, << >>)
    BY <1>6, <1>7, <2>6 DEF Replied
  <2>8. Line(q2, n, f, l, InWords(x))
    BY <2>6, <2>7, LineStarts
  <2>9. Grows(q, x, q2)
    BY <2>6, <2>7, Grown DEF Line
  <2>10. Answers(q2, s2)
    BY <1>1, <1>4, <1>5, <1>6, <1>9, <2>4, <2>9, AnswersRom DEF Replied
  <2>11. n \in Nat /\ n <= Len(q)
    BY <2>7, LineBounds
  <2>12. \A j \in 1 .. n : replies[j] = q2[j]
    BY <1>6, <2>6, <2>9, <2>11 DEF Grows, Replied
  <2>13. Line(q2, Len(replies), gathered[1], ps2pl[1], OutOf("reply"))'
    BY <1>2, <1>3, <2>5, <2>6, <2>8, Zenon
  <2>14. Replied(q2)'
    BY <1>2, <2>6, <2>10, <2>12, <2>13 DEF Replied
  <2> QED BY <1>2, <2>3, <2>14 DEF ReplyInv
<1> QED BY <1>8, <1>9

LEMMA ReplyInit == Init => ReplyInv
<1> SUFFICES ASSUME Init
             PROVE  ReplyInv
  OBVIOUS
<1>1. PICK e : e = << >> /\ IsSeq(e) /\ Len(e) = 0 /\ Line(e, 0, e, e, e)
  BY EmptyIsSeq, LineEmpty
<1>2. /\ outbox = e /\ served = e /\ replies = e
      /\ ps2pl = [k \in 0 .. 1 |-> e] /\ gathered = [k \in 0 .. 1 |-> e]
      /\ regs = [[r \in Registers |-> "0"] EXCEPT !["rom_addr"] = 0]
  BY <1>1 DEF Init
<1>3. OutOf("reply") = e /\ ps2pl[1] = e /\ gathered[1] = e
  BY <1>1, <1>2 DEF OutOf
<1>4. Answers(e, e)
  <2>1. NumbersBefore(e, Len(e) + 1) = {} /\ RomsBefore(e, Len(e) + 1) = {}
    BY <1>1 DEF NumbersBefore, RomsBefore
  <2>2. \A i \in 1 .. Len(e) : FALSE
    BY <1>1
  <2> QED BY <2>1, <2>2, Zenon DEF Answers
<1>5. Replied(e)
  BY <1>1, <1>2, <1>3, <1>4 DEF Replied
<1>6. regs = [r \in Registers |-> regs[r]]
  BY <1>2
<1> QED BY <1>1, <1>2, <1>5, <1>6 DEF ReplyInv

LEMMA ReplyNext ==
  /\ ReplyInv /\ KindInv /\ RomInv /\ TextInv /\ DemandInv /\ FifoInv /\ Wiring
  /\ [Next]_vars
  => ReplyInv'
<1> SUFFICES ASSUME ReplyInv, KindInv, RomInv, TextInv, DemandInv, FifoInv, Wiring,
                    [Next]_vars
             PROVE  ReplyInv'
  OBVIOUS
<1> DEFINE Same == /\ UNCHANGED <<served, replies, gathered, ps2pl, outbox>>
                   /\ regs' = regs \/ \E r, x : regs' = [regs EXCEPT ![r] = x]
<1>1. Same => ReplyInv'
  BY ReplyRegisters
<1>2. CASE WriteRegister \/ CheckRegister \/ TickClock \/ TakeArguments \/ OpenFile
  <2>1. Same
    BY <1>2 DEF WriteRegister, CheckRegister, TickClock, TakeArguments, OpenFile, pl
  <2> QED BY <1>1, <2>1
<1>3. CASE ReceiveWord \/ VerifyAnswer \/ DrainCredits \/ Done
  <2>1. Same
    BY <1>3 DEF ReceiveWord, VerifyAnswer, DrainCredits, Done, pl
  <2> QED BY <1>1, <2>1
<1>4. CASE StartSend
  BY <1>4, StartSendReply
<1>5. CASE SendWord
  BY <1>5, SendWordReply
<1>6. CASE HandleDemand
  BY <1>6, HandleDemandReply
<1>7. ASSUME NEW k \in 0 .. 1, Gather(k)
      PROVE  ReplyInv'
  BY <1>7, GatherReply
<1>8. CASE GetReply
  BY <1>8, GetReplyReply
<1>9. CASE Launch
  <2>1. /\ served' = served /\ replies' = replies /\ regs' = regs
        /\ outbox' = outbox /\ ps2pl' = ps2pl
        /\ \E w : gathered' = [gathered EXCEPT ![Wires(program).request] = w]
    BY <1>9 DEF Launch, ps
  <2>2. Wires(program).request = 0
    BY Wired DEF Wiring
  <2>3. gathered'[1] = gathered[1]
    BY <2>1, <2>2 DEF Wiring
  <2>4. OutboxOf("reply")' <=> OutboxOf("reply")
    BY <2>1, Zenon DEF OutboxOf
  <2>5. OutOf("reply")' = OutOf("reply")
    BY <2>1, <2>4, Zenon DEF OutOf
  <2> QED BY <2>1, <2>3, <2>5, ReplyFrame
<1>10. ASSUME NEW k \in 0 .. 1, Feed(k)
       PROVE  ReplyInv'
  <2>1. Same
    BY <1>10 DEF Feed, ps
  <2> QED BY <1>1, <2>1
<1>11. ASSUME NEW i, Perform(i)
       PROVE  ReplyInv'
  <2>1. Same
    BY <1>11 DEF Perform, ps
  <2> QED BY <1>1, <2>1
<1>12. ASSUME NEW kind, TileDemand(kind) \/ CoreDemand(kind)
       PROVE  ReplyInv'
  <2>1. Same
    BY <1>12 DEF TileDemand, CoreDemand, Demand, ps
  <2> QED BY <1>1, <2>1
<1>13. CASE UNCHANGED vars
  <2>1. Same
    BY <1>13 DEF vars, ps, pl
  <2> QED BY <1>1, <2>1
<1> HIDE DEF Same
<1> QED BY <1>2, <1>3, <1>4, <1>5, <1>6, <1>7, <1>8, <1>9, <1>10, <1>11, <1>12, <1>13
        DEF Next, ProgramStep, EndpointStep, Network

\* What the order of demands and replies rests on.
ServeInv == LinkInv /\ DemandInv /\ RomInv /\ KindInv /\ ReplyInv

LEMMA ServeInit == Init => ServeInv
BY LinkInit, DemandInit, RomInit, ReplyInit DEF ServeInv

LEMMA ServeNext == ServeInv /\ [Next]_vars => ServeInv'
BY LinkNext, DemandNext, RomNext, KindNext, ReplyNext DEF LinkInv, ServeInv

LEMMA ServeAlways == Spec => []ServeInv
BY ServeInit, ServeNext, PTL DEF Spec

\* recv_mc_request_packet, send_mc_response_packet: however the words of the
\* demands of the tiles and of the core, of the answers and of the requests
\* interleave, the loops handle the demands whole and in the order in which they
\* were made, and the reads of the ROM are answered in that order with their words.
THEOREM DemandsServedInOrder == Spec => []ServedInOrder
<1>1. ServeInv => ServedInOrder
  <2> SUFFICES ASSUME ServeInv
               PROVE  ServedInOrder
    OBVIOUS
  <2>1. /\ \E f, l, b : Line(demands, Len(served), f, l, b)
        /\ \A j \in 1 .. Len(served) : served[j] = demands[j]
    BY DEF ServeInv, DemandInv
  <2>2. IsSeq(demands) /\ IsSeq(served) /\ Len(served) <= Len(demands)
    BY <2>1, LineBounds DEF ServeInv, LinkInv, Wiring, Line
  <2>3. IsPrefix(served, demands)
    BY <2>1, <2>2, PrefixOf
  <2>4. PICK q : Replied(q)
    BY DEF ServeInv, ReplyInv
  <2>5. PICK n \in Nat : n = Len(replies) /\ DOMAIN replies = 1 .. n
    BY SeqFacts DEF ServeInv, ReplyInv
  <2>6. n <= Len(q) /\ Len(q) \in Nat
    BY <2>4, <2>5, LineBounds DEF Replied
  <2>7. DOMAIN served = 1 .. Len(served)
    BY <2>2, SeqFacts
  <2>8. ASSUME NEW i \in 1 .. n
        PROVE  /\ replies[i].n \in DOMAIN served /\ served[replies[i].n].kind = "rom"
               /\ replies[i].request.value = RomIndex(replies[i].n)
               /\ {replies[j].n : j \in 1 .. i - 1}
                    = {m \in 1 .. replies[i].n - 1 : served[m].kind = "rom"}
    <3>1. i \in 1 .. Len(q) /\ replies[i] = q[i]
      BY <2>4, <2>5, <2>6 DEF Replied
    <3>2. \A j \in 1 .. i - 1 : replies[j] = q[j]
      BY <2>4, <2>5, <2>6 DEF Replied
    <3>3. {replies[j].n : j \in 1 .. i - 1} = NumbersBefore(q, i)
      BY <3>2 DEF NumbersBefore
    <3>4. /\ q[i].n \in 1 .. Len(served) /\ served[q[i].n].kind = "rom"
          /\ q[i].request.value = RomIndex(q[i].n)
          /\ NumbersBefore(q, i) = RomsBefore(served, q[i].n)
      BY <2>4, <3>1 DEF Replied, Answers
    <3> QED BY <2>7, <3>1, <3>3, <3>4 DEF RomsBefore
  <2> QED BY <2>3, <2>5, <2>8 DEF ServedInOrder
<1> QED BY <1>1, ServeAlways, PTL

-----------------------------------------------------------------------------
(***************************************************************************)
(* The start of hammerblade's core.  The write that lets it go is the last *)
(* that the program sends, and the network keeps the requests to the core  *)
(* in order.                                                               *)
(***************************************************************************)
Early == Writes \cup Plain \cup Loading \cup {"load", "send", "serve", "rom serve"}
Every == Early \cup {"unfreeze"}

\* The first l instructions do not let the core go, and from the next on the
\* program sends nothing more.
UnfreezesLast(s, l, m) ==
  /\ Parts(s, l, Early, Every) /\ Parts(s, m, Every, {"rom serve"})
  /\ m <= l + 1

LEMMA LastAlone ==
  ASSUME NEW s, Only(s, Early)
  PROVE  UnfreezesLast(s, Len(s), Len(s))
<1>1. Early \subseteq Every
  BY DEF Every
<1>2. Only(s, Every)
  BY <1>1, OnlyWider
<1>3. PICK n \in Nat : n = Len(s) /\ n <= n + 1
  BY SeqFacts DEF Only
<1>4. Parts(s, n, Early, Every) /\ Parts(s, n, Every, {"rom serve"})
  BY <1>2, <1>3, PartsWhole
<1> QED BY <1>3, <1>4 DEF UnfreezesLast

LEMMA LastBounds ==
  ASSUME NEW s, NEW l, NEW m, UnfreezesLast(s, l, m)
  PROVE  l \in Nat /\ m \in Nat /\ m <= l + 1 /\ Len(s) \in Nat
<1>1. /\ Parts(s, l, Early, Every) /\ Parts(s, m, Every, {"rom serve"})
      /\ m <= l + 1
  BY DEF UnfreezesLast
<1>2. IsSeq(s) /\ l \in 0 .. Len(s) /\ m \in 0 .. Len(s)
  BY <1>1 DEF Parts
<1>3. Len(s) \in Nat
  BY <1>2, SeqFacts
<1>4. l \in Nat /\ m \in Nat
  BY <1>2, <1>3
<1> QED BY <1>1, <1>3, <1>4, Zenon

LEMMA LastAfter ==
  ASSUME NEW s, NEW l, NEW m, UnfreezesLast(s, l, m), NEW a, Only(a, Early)
  PROVE  UnfreezesLast(a \o s, Len(a) + l, Len(a) + m)
<1>0. Early \subseteq Every
  BY DEF Every
<1>1. Only(a, Every) /\ Len(a) \in Nat
  BY <1>0, OnlyWider, SeqFacts DEF Only
<1>2. l \in Nat /\ m \in Nat /\ m <= l + 1
  BY LastBounds
<1>3. Len(a) + m <= (Len(a) + l) + 1
  BY <1>1, <1>2
<1>4. Parts(s, l, Early, Every) /\ Parts(s, m, Every, {"rom serve"})
  BY DEF UnfreezesLast
<1>5. Parts(a \o s, Len(a) + l, Early, Every)
  BY <1>4, PartsAfter
<1>6. Parts(a \o s, Len(a) + m, Every, {"rom serve"})
  BY <1>1, <1>4, PartsAfter
<1> QED BY <1>3, <1>5, <1>6 DEF UnfreezesLast

LEMMA LastBefore ==
  ASSUME NEW s, NEW l, NEW m, UnfreezesLast(s, l, m), NEW b, Only(b, {"rom serve"})
  PROVE  UnfreezesLast(s \o b, l, m)
<1>1. Only(b, Every)
  <2>1. {"rom serve"} \subseteq Every
    BY DEF Every, Early
  <2> QED BY <2>1, OnlyWider
<1>2. Parts(s, l, Early, Every) /\ Parts(s, m, Every, {"rom serve"}) /\ m <= l + 1
  BY DEF UnfreezesLast
<1>3. Parts(s \o b, l, Early, Every)
  BY <1>1, <1>2, PartsBefore
<1>4. Parts(s \o b, m, Every, {"rom serve"})
  BY <1>2, PartsBefore
<1> QED BY <1>2, <1>3, <1>4 DEF UnfreezesLast

LEMMA HammerbladeSetupLast ==
  ASSUME NEW val, "hammerblade" \in Programs
  PROVE  \E l, m : UnfreezesLast(Setup("hammerblade", val), l, m)
<1>1. PICK s : s = Setup("hammerblade", val)
  OBVIOUS
<1>2. PICK n : n = Len(s) /\ Parts(s, n, AtFirst, {})
  BY <1>1, HammerbladeStart
<1>3. Only(s, AtFirst)
  BY <1>2 DEF Parts, Only
<1>4. AtFirst \subseteq Early
  BY DEF AtFirst, Early
<1>5. Only(s, Early)
  BY <1>3, <1>4, OnlyWider
<1> QED BY <1>1, <1>5, LastAlone

LEMMA HammerbladeConfigLast ==
  \E l, m : UnfreezesLast(HammerbladeConfig, l, m)
<1>1. \A b, c : Only(b, Early) /\ Only(c, Early) => Only(b \o c, Early)
  BY OnlyBoth
<1>2. ASSUME NEW reg, NEW value, reg # "data", reg # "freeze" \/ value # 0
      PROVE  Only(HammerbladeWrite("core", reg, value), Early)
  <2>1. SendShape(Request("write", "core", reg, value)) = "send"
    BY <1>2 DEF SendShape, Request
  <2>2. "send" \in Early
    BY DEF Early
  <2> QED BY <2>1, <2>2, OneInstruction DEF HammerbladeWrite
<1>3. Only(HammerbladeWrite("core", "freeze", 0), Every)
  <2>1. SendShape(Request("write", "core", "freeze", 0)) = "unfreeze"
    BY DEF SendShape, Request
  <2>2. "unfreeze" \in Every
    BY DEF Every
  <2> QED BY <2>1, <2>2, OneInstruction DEF HammerbladeWrite
<1> DEFINE set(reg, value) == HammerbladeWrite("core", reg, value)
<1>4. PICK x : x = set("freeze", 1) \o set("npc", 1) \o set("hio_mask", 1)
                    \o set("icache", 1) \o set("dcache", 1) \o set("dram_offset", 1)
                    \o set("dram_pod", 1) \o set("my_cord", 0) \o set("host_cord", 1)
  OBVIOUS
<1>5. PICK u : u = HammerbladeWrite("core", "freeze", 0) /\ Only(u, Every)
  BY <1>3
<1>6. HammerbladeConfig = x \o u
  BY <1>4, <1>5 DEF HammerbladeConfig
<1>7. Only(x, Early)
  <2>1. /\ Only(set("freeze", 1), Early) /\ Only(set("npc", 1), Early)
        /\ Only(set("hio_mask", 1), Early) /\ Only(set("icache", 1), Early)
        /\ Only(set("dcache", 1), Early) /\ Only(set("dram_offset", 1), Early)
        /\ Only(set("dram_pod", 1), Early) /\ Only(set("my_cord", 0), Early)
        /\ Only(set("host_cord", 1), Early)
    BY <1>2
  <2> HIDE DEF set
  <2> QED BY <1>1, <1>4, <2>1
<1>8. Len(u) = 1
  BY <1>5 DEF HammerbladeWrite, Send
<1>9. PICK n \in Nat : n = Len(x)
  BY <1>7, SeqFacts DEF Only
<1>10. Parts(x, n, Early, Every)
  BY <1>7, <1>9, PartsWhole
<1>11. Parts(x \o u, n, Early, Every)
  BY <1>5, <1>10, PartsBefore
<1>12. JoinOf(x, u, x \o u)
  BY <1>5, <1>7, Joined DEF Only
<1>13. Len(x \o u) = n + 1
  BY <1>8, <1>9, <1>12 DEF JoinOf
<1>14. Only(x, Every)
  BY <1>7, OnlyWider DEF Every
<1>15. Only(x \o u, Every)
  BY <1>5, <1>14, OnlyBoth
<1>16. Parts(x \o u, n + 1, Every, {"rom serve"})
  BY <1>13, <1>15, PartsWhole
<1>17. UnfreezesLast(x \o u, n, n + 1)
  <2>1. n + 1 <= n + 1
    OBVIOUS
  <2> QED BY <1>11, <1>16, <2>1 DEF UnfreezesLast
<1> QED BY <1>6, <1>17

LEMMA HammerbladeTextLast ==
  ASSUME "hammerblade" \in Programs, NEW t,
         \/ t = Rest("hammerblade")
         \/ \E v : \E file \in Files :
              t = LoadFile("hammerblade", v, file) \o Rest("hammerblade")
  PROVE  \E l, m : UnfreezesLast(t, l, m)
<1>1. Only(HammerbladeServeTiles, Early)
  BY OneInstruction DEF HammerbladeServeTiles, Early
<1>2. Only(HammerbladeServeCore, {"rom serve"})
  <2>1. ASSUME NEW dos, "rom serve" \in dos
        PROVE  Only(HammerbladeServeCore, dos)
    BY <2>1, OneInstruction DEF HammerbladeServeCore
  <2>2. "rom serve" \in {"rom serve"}
    OBVIOUS
  <2> QED BY <2>1, <2>2, Zenon
<1>3. PICK l, m : UnfreezesLast(HammerbladeConfig, l, m)
  BY HammerbladeConfigLast
<1>4. \E i, j : UnfreezesLast(HammerbladeServeTiles \o HammerbladeConfig, i, j)
  BY <1>1, <1>3, LastAfter
<1>5. \E i, j : UnfreezesLast((HammerbladeServeTiles \o HammerbladeConfig)
                                \o HammerbladeServeCore, i, j)
  BY <1>2, <1>4, LastBefore
<1>6. \E i, j : UnfreezesLast(Rest("hammerblade"), i, j)
  BY <1>5 DEF Rest
<1>7. ASSUME NEW v, NEW file \in Files
      PROVE  \E i, j : UnfreezesLast(LoadFile("hammerblade", v, file)
                                       \o Rest("hammerblade"), i, j)
  <2>1. Loading \subseteq Early
    BY DEF Early
  <2>2. Only(LoadFile("hammerblade", v, file), Early)
    BY <2>1, LoadOnly, OnlyWider
  <2> QED BY <1>6, <2>2, LastAfter
<1> QED BY <1>6, <1>7

\* A write that lets the core go.
Unfreezes(packet) == packet.request.reg = "freeze" /\ packet.request.value = 0

LastInv ==
  program = "hammerblade" =>
    \E l, m : /\ UnfreezesLast(text, l, m)
              /\ \A i \in 1 .. Len(sent) :
                   Unfreezes(sent[i]) => i = Len(sent) /\ m < pc

LEMMA LoadsUnconfigured ==
  ASSUME RomInv, TextInv, program = "hammerblade", At("load")
  PROVE  ~Configured
<1>1. PICK m : Parts(text, m, AtFirst, AtLast) /\ (Configured => m < pc)
  BY DEF RomInv
<1>2. m \in Nat /\ pc \in Nat /\ Len(text) \in Nat
  BY <1>1, SeqFacts DEF Parts, TextInv
<1>3. pc <= Len(text) /\ Shape(text[pc]) = "load"
  BY DEF At, instr, Shape
<1>4. pc \notin m + 1 .. Len(text)
  BY <1>1, <1>3 DEF Parts, AtLast, Sends
<1> QED BY <1>1, <1>2, <1>3, <1>4

\* Most steps of the program only go on to the next instruction.
LEMMA MovesOn ==
  ASSUME [Next]_vars, ~StartSend, ~OpenFile
  PROVE  text' = text /\ sent' = sent /\ (pc' = pc \/ pc' = pc + 1)
<1>1. CASE WriteRegister \/ CheckRegister \/ TickClock \/ TakeArguments
  BY <1>1 DEF WriteRegister, CheckRegister, TickClock, TakeArguments
<1>2. CASE SendWord \/ ReceiveWord \/ VerifyAnswer \/ DrainCredits \/ Done
  BY <1>2 DEF SendWord, ReceiveWord, VerifyAnswer, DrainCredits, Done
<1>3. CASE HandleDemand
  BY <1>3 DEF HandleDemand
<1>4. CASE EndpointStep \/ Network
  BY <1>4 DEF EndpointStep, Gather, Feed, Launch, GetReply, Network, Perform, ps
<1>5. ASSUME NEW kind, TileDemand(kind) \/ CoreDemand(kind)
      PROVE  text' = text /\ sent' = sent /\ (pc' = pc \/ pc' = pc + 1)
  BY <1>5 DEF TileDemand, CoreDemand, Demand, ps
<1>6. CASE UNCHANGED vars
  BY <1>6 DEF vars, ps
<1> QED BY <1>1, <1>2, <1>3, <1>4, <1>5, <1>6 DEF Next, ProgramStep

LEMMA LastInit == Init => LastInv
<1> SUFFICES ASSUME Init, program = "hammerblade"
             PROVE  \E l, m : /\ UnfreezesLast(text, l, m)
                              /\ \A i \in 1 .. Len(sent) :
                                   Unfreezes(sent[i]) => i = Len(sent) /\ m < pc
  BY DEF LastInv
<1>1. PICK e : e = << >> /\ Len(e) = 0
  BY EmptyIsSeq
<1>2. sent = e /\ "hammerblade" \in Programs /\ \E val : text = Setup("hammerblade", val)
  BY <1>1 DEF Init
<1>3. \E l, m : UnfreezesLast(text, l, m)
  BY <1>2, HammerbladeSetupLast
<1> QED BY <1>1, <1>2, <1>3

LEMMA LastNext == LastInv /\ RomInv /\ TextInv /\ SentInv /\ [Next]_vars => LastInv'
<1> SUFFICES ASSUME LastInv, RomInv, TextInv, SentInv, [Next]_vars, program' = "hammerblade"
             PROVE  \E l, m : /\ UnfreezesLast(text', l, m)
                              /\ \A i \in 1 .. Len(sent') :
                                   Unfreezes(sent'[i]) => i = Len(sent') /\ m < pc'
  BY DEF LastInv
<1>0. program = "hammerblade"
  BY SameProgram
<1>1. PICK l, m : /\ UnfreezesLast(text, l, m)
                  /\ \A i \in 1 .. Len(sent) :
                       Unfreezes(sent[i]) => i = Len(sent) /\ m < pc
  BY <1>0 DEF LastInv
<1>2. /\ Parts(text, l, Early, Every) /\ Parts(text, m, Every, {"rom serve"})
      /\ m <= l + 1
  BY <1>1 DEF UnfreezesLast
<1>3. l \in Nat /\ m \in Nat /\ m <= l + 1 /\ pc \in Nat \ {0} /\ Len(text) \in Nat
  BY <1>1, LastBounds DEF TextInv
<1>4. CASE ~StartSend /\ ~OpenFile
  <2>1. text' = text /\ sent' = sent /\ (pc' = pc \/ pc' = pc + 1)
    BY <1>4, MovesOn
  <2>2. m < pc => m < pc'
    BY <1>3, <2>1
  <2> QED BY <1>1, <2>1, <2>2
<1>5. CASE OpenFile
  <2>1. /\ At("load") /\ sent' = sent
        /\ \/ \E file \in Files : text' = LoadFile(program, verify, file) \o Rest(program)
           \/ text' = Rest(program)
    BY <1>5 DEF OpenFile
  <2>2. ~Configured
    BY <1>0, <2>1, LoadsUnconfigured
  <2>3. \A i \in 1 .. Len(sent') : ~Unfreezes(sent'[i])
    BY <2>1, <2>2 DEF Configured, Unfreezes
  <2>4. "hammerblade" \in Programs
    BY <1>0 DEF TextInv
  <2>5. PICK t : /\ t = text'
                 /\ \/ t = Rest("hammerblade")
                    \/ \E v : \E file \in Files :
                         t = LoadFile("hammerblade", v, file) \o Rest("hammerblade")
    BY <1>0, <2>1
  <2>6. \E i, j : UnfreezesLast(t, i, j)
    BY <2>4, <2>5, HammerbladeTextLast
  <2> QED BY <2>3, <2>5, <2>6
<1>6. CASE StartSend
  <2>1. /\ text' = text /\ pc' = pc + 1 /\ pc <= Len(text) /\ text[pc].do = "send"
        /\ sent' = Append(sent, Numbered(instr.request))
    BY <1>6 DEF StartSend, At, instr
  <2>2. PICK s, x, t : /\ s = sent /\ t = sent' /\ x = Numbered(instr.request)
                       /\ Grows(s, x, t)
    BY <2>1, Grown DEF SentInv
  <2>3. x.request = text[pc].request
    BY <2>2 DEF Numbered, instr
  <2>4. Shape(text[pc]) = SendShape(text[pc].request)
    BY <2>1 DEF Shape
  <2>5. pc \notin m + 1 .. Len(text)
    BY <1>2, <2>4 DEF Parts, SendShape
  <2>6. pc <= m
    BY <1>3, <2>1, <2>5
  <2>7. \A i \in 1 .. Len(s) : ~Unfreezes(s[i])
    BY <1>1, <1>3, <2>2, <2>6
  <2>8. Unfreezes(x) => m < pc'
    <3>1. ASSUME Unfreezes(x)
          PROVE  pc \notin 1 .. l
      <4>1. Shape(text[pc]) = "unfreeze"
        BY <2>3, <2>4, <3>1 DEF Unfreezes, SendShape
      <4> QED BY <1>2, <4>1 DEF Parts, Early, Writes, Plain, Loading
    <3>2. pc \notin 1 .. l => m < pc + 1
      <4> SUFFICES ASSUME pc \notin 1 .. l
                   PROVE  m < pc + 1
        OBVIOUS
      <4>1. l + 1 <= pc
        BY <1>3
      <4> QED BY <1>3, <4>1
    <3> QED BY <2>1, <3>1, <3>2
  <2>9. ASSUME NEW i \in 1 .. Len(t), Unfreezes(t[i])
        PROVE  i = Len(t) /\ m < pc'
    <3>1. i \in 1 .. Len(s) => t[i] = s[i]
      BY <2>2 DEF Grows
    <3>2. i \notin 1 .. Len(s)
      BY <2>7, <2>9, <3>1
    <3>3. i = Len(t) /\ t[i] = x
      BY <2>2, <3>2 DEF Grows
    <3> QED BY <2>8, <2>9, <3>3
  <2> QED BY <1>1, <2>1, <2>2, <2>9
<1> QED BY <1>4, <1>5, <1>6

-----------------------------------------------------------------------------
(***************************************************************************)
(* The order in which the network performs the requests.                   *)
(***************************************************************************)
\* Requests under way are in the order in which they were launched, and those
\* performed come before those under way to the same destination.
Ordered(t, u) ==
  /\ \A q \in 1 .. Len(t) : t[q].n \in Nat
  /\ \A p, q \in 1 .. Len(t) : p < q => t[p].n < t[q].n
  /\ \A p \in 1 .. Len(u), q \in 1 .. Len(t) :
       u[p].request.dst = t[q].request.dst => u[p].n < t[q].n

RouteInv == program # "minimal" => Ordered(net, performed)

LEMMA OrderLaunched ==
  ASSUME NEW t, NEW u, Ordered(t, u), NEW r, NEW t2, Grows(t, r, t2), r.n \in Nat,
         \A q \in 1 .. Len(t) : t[q].n < r.n,
         \A p \in 1 .. Len(u) : u[p].n < r.n
  PROVE  Ordered(t2, u)
<1>1. \A q \in 1 .. Len(t2) : \/ q \in 1 .. Len(t) /\ t2[q] = t[q]
                              \/ q = Len(t) + 1 /\ t2[q] = r
  BY DEF Grows
<1>2. \A q \in 1 .. Len(t2) : t2[q].n \in Nat
  BY <1>1 DEF Ordered
<1>3. ASSUME NEW p \in 1 .. Len(t2), NEW q \in 1 .. Len(t2), p < q
      PROVE  t2[p].n < t2[q].n
  <2>1. p \in 1 .. Len(t) /\ t2[p] = t[p]
    <3>1. p # Len(t) + 1
      BY <1>3 DEF Grows
    <3> QED BY <1>1, <3>1
  <2>2. CASE q \in 1 .. Len(t) /\ t2[q] = t[q]
    BY <1>3, <2>1, <2>2 DEF Ordered
  <2>3. CASE t2[q] = r
    BY <2>1, <2>3
  <2> QED BY <1>1, <2>2, <2>3
<1>4. ASSUME NEW p \in 1 .. Len(u), NEW q \in 1 .. Len(t2),
             u[p].request.dst = t2[q].request.dst
      PROVE  u[p].n < t2[q].n
  <2>1. CASE q \in 1 .. Len(t) /\ t2[q] = t[q]
    BY <1>4, <2>1 DEF Ordered
  <2>2. CASE t2[q] = r
    BY <2>2
  <2> QED BY <1>1, <2>1, <2>2
<1> QED BY <1>2, <1>3, <1>4 DEF Ordered

LEMMA OrderPerformed ==
  ASSUME NEW t, NEW u, Ordered(t, u), IsSeq(t), IsSeq(u), NEW i \in 1 .. Len(t),
         \A j \in 1 .. i - 1 : t[j].request.dst # t[i].request.dst,
         NEW t2, t2 = RemoveAt(t, i), NEW u2, u2 = Append(u, t[i])
  PROVE  Ordered(t2, u2)
<1>1. /\ Len(t) \in Nat /\ Len(t2) = Len(t) - 1
      /\ \A j \in 1 .. i - 1 : t2[j] = t[j]
      /\ \A j \in i .. Len(t2) : t2[j] = t[j + 1]
  BY Removed
<1> DEFINE From(j) == IF j < i THEN j ELSE j + 1
<1>2. \A j \in 1 .. Len(t2) : From(j) \in 1 .. Len(t) /\ From(j) # i
  BY <1>1
<1>3. \A j \in 1 .. Len(t2) : t2[j] = t[From(j)]
  <2> TAKE j \in 1 .. Len(t2)
  <2>1. CASE j < i
    BY <1>1, <2>1
  <2>2. CASE ~(j < i)
    <3>1. j \in i .. Len(t2)
      BY <1>1, <2>2
    <3> QED BY <1>1, <2>2, <3>1
  <2> QED BY <2>1, <2>2
<1>4. \A p, q \in 1 .. Len(t2) : p < q => From(p) < From(q)
  BY <1>1
<1> HIDE DEF From
<1>5. \A q \in 1 .. Len(t2) : t2[q].n \in Nat
  BY <1>2, <1>3 DEF Ordered
<1>6. \A p, q \in 1 .. Len(t2) : p < q => t2[p].n < t2[q].n
  BY <1>2, <1>3, <1>4 DEF Ordered
<1>7. Grows(u, t[i], u2)
  BY Grown
<1>8. ASSUME NEW p \in 1 .. Len(u2), NEW q \in 1 .. Len(t2),
             u2[p].request.dst = t2[q].request.dst
      PROVE  u2[p].n < t2[q].n
  <2>1. PICK m \in 1 .. Len(t) : t2[q] = t[m] /\ m # i
    BY <1>2, <1>3
  <2>2. CASE p \in 1 .. Len(u)
    <3>1. u2[p] = u[p]
      BY <1>7, <2>2 DEF Grows
    <3> QED BY <1>8, <2>1, <2>2, <3>1 DEF Ordered
  <2>3. CASE p \notin 1 .. Len(u)
    <3>1. u2[p] = t[i]
      BY <1>7, <2>3 DEF Grows
    <3>2. m \notin 1 .. i - 1
      BY <1>8, <2>1, <3>1
    <3>3. i < m
      BY <1>1, <2>1, <3>2
    <3> QED BY <2>1, <3>1, <3>3 DEF Ordered
  <2> QED BY <2>2, <2>3
<1> QED BY <1>5, <1>6, <1>8 DEF Ordered

\* What the endpoint has launched, of the programs that write no bare words.
LEMMA LaunchedNumbers ==
  ASSUME ServeInv, program # "minimal"
  PROVE  /\ Len(launched) \in Nat /\ Len(sent) \in Nat /\ Len(launched) <= Len(sent)
         /\ \A j \in 1 .. Len(launched) : launched[j] = sent[j] /\ launched[j].n = j
<1>1. ~Bare
  BY NeverBare DEF ServeInv, LinkInv
<1>2. /\ Line(sent, Len(launched), gathered[0], ps2pl[0], OutOf("request"))
      /\ \A j \in 1 .. Len(launched) : launched[j] = sent[j]
  BY <1>1 DEF ServeInv, LinkInv, RequestLine
<1>3. Len(launched) \in Nat /\ Len(sent) \in Nat /\ Len(launched) <= Len(sent)
  BY <1>2, LineBounds
<1>4. \A j \in 1 .. Len(sent) : sent[j].n = j
  BY DEF ServeInv, LinkInv, SentInv
<1> QED BY <1>2, <1>3, <1>4

LEMMA RouteInit == Init => RouteInv
<1> SUFFICES ASSUME Init
             PROVE  Ordered(net, performed)
  BY DEF RouteInv
<1>1. PICK e : e = << >> /\ Len(e) = 0
  BY EmptyIsSeq
<1>2. net = e /\ performed = e
  BY <1>1 DEF Init
<1> QED BY <1>1, <1>2 DEF Ordered

LEMMA RouteNext ==
  RouteInv /\ ServeInv /\ RequestLine' /\ SentInv' /\ [Next]_vars => RouteInv'
<1> SUFFICES ASSUME RouteInv, ServeInv, RequestLine', SentInv', [Next]_vars,
                    program' # "minimal"
             PROVE  Ordered(net', performed')
  BY DEF RouteInv
<1>0. program # "minimal" /\ Ordered(net, performed)
  BY SameProgram DEF RouteInv
<1> DEFINE Same == UNCHANGED <<net, performed>>
<1>1. Same => Ordered(net', performed')
  BY <1>0
<1>2. CASE Launch
  <2>1. PICK s, t, u, r, s2, t2 :
          /\ s = launched /\ t = net /\ u = performed
          /\ s2 = Append(s, r) /\ t2 = Append(t, r)
          /\ launched' = s2 /\ net' = t2 /\ performed' = u
    BY <1>2 DEF Launch
  <2>2. sent' = sent /\ served' = served
    BY <1>2 DEF Launch, ps
  <2>3. ~Bare'
    <3>1. ~Bare
      BY <1>0, NeverBare DEF ServeInv, LinkInv
    <3> QED BY <2>2, <3>1 DEF Bare
  <2>4. Accounted(s, t, u)
    BY <2>1 DEF ServeInv, LinkInv, NetInv
  <2>5. Grows(s, r, s2) /\ Grows(t, r, t2)
    BY <2>1, <2>4, Grown DEF Accounted
  <2>6. r.n = Len(s) + 1
    <3>1. \A j \in 1 .. Len(s2) : s2[j] = sent[j]
      BY <2>1, <2>2, <2>3 DEF RequestLine
    <3>2. Len(s2) <= Len(sent) /\ Len(sent) \in Nat
      <4>1. Line(sent', Len(launched'), gathered'[0], ps2pl'[0], OutOf("request")')
        BY <2>3 DEF RequestLine
      <4> QED BY <2>1, <2>2, <4>1, LineBounds
    <3>3. PICK m : m = Len(s) + 1 /\ m = Len(s2) /\ m \in 1 .. Len(s2) /\ s2[m] = r
      BY <2>5 DEF Grows
    <3>4. m \in 1 .. Len(sent)
      BY <2>5, <3>2, <3>3 DEF Grows
    <3>5. sent[m].n = m
      BY <3>4 DEF ServeInv, LinkInv, SentInv
    <3> QED BY <3>1, <3>3, <3>5
  <2>7. \A j \in 1 .. Len(s) : s[j].n = j
    BY <1>0, <2>1, LaunchedNumbers
  <2>8. Len(s) \in Nat
    BY <2>5 DEF Grows
  <2>9. \A q \in 1 .. Len(t) : t[q].n < r.n
    <3> TAKE q \in 1 .. Len(t)
    <3>1. PICK j \in 1 .. Len(s) : t[q] = s[j]
      BY <2>4 DEF Accounted, Within
    <3> QED BY <2>6, <2>7, <2>8, <3>1
  <2>10. \A p \in 1 .. Len(u) : u[p].n < r.n
    <3> TAKE p \in 1 .. Len(u)
    <3>1. PICK j \in 1 .. Len(s) : u[p] = s[j]
      BY <2>4 DEF Accounted, Within
    <3> QED BY <2>6, <2>7, <2>8, <3>1
  <2>11. Ordered(t2, u)
    <3>1. Ordered(t, u) /\ r.n \in Nat
      BY <1>0, <2>1, <2>6, <2>8
    <3> QED BY <2>5, <2>9, <2>10, <3>1, OrderLaunched
  <2> QED BY <2>1, <2>11
<1>3. ASSUME NEW i, Perform(i)
      PROVE  Ordered(net', performed')
  <2>1. PICK t, u, t2, u2 :
          /\ t = net /\ u = performed
          /\ t2 = RemoveAt(t, i) /\ u2 = Append(u, t[i])
          /\ net' = t2 /\ performed' = u2 /\ i \in 1 .. Len(t)
    BY <1>3 DEF Perform
  <2>2. \A j \in 1 .. i - 1 : t[j].request.dst # t[i].request.dst
    BY <1>3, <2>1 DEF Perform, SameRoute
  <2>3. IsSeq(t) /\ IsSeq(u) /\ Ordered(t, u)
    BY <1>0, <2>1 DEF ServeInv, LinkInv, NetInv, Accounted
  <2>4. Ordered(t2, u2)
    BY <2>1, <2>2, <2>3, OrderPerformed
  <2> QED BY <2>1, <2>4
<1>4. CASE WriteRegister \/ CheckRegister \/ TickClock \/ TakeArguments \/ OpenFile
  <2>1. Same
    BY <1>4 DEF WriteRegister, CheckRegister, TickClock, TakeArguments, OpenFile, pl
  <2> QED BY <1>1, <2>1
<1>5. CASE StartSend \/ SendWord \/ ReceiveWord \/ VerifyAnswer \/ HandleDemand
  <2>1. Same
    BY <1>5 DEF StartSend, SendWord, ReceiveWord, VerifyAnswer, HandleDemand, pl
  <2> QED BY <1>1, <2>1
<1>6. CASE DrainCredits \/ Done
  <2>1. Same
    BY <1>6 DEF DrainCredits, Done, pl
  <2> QED BY <1>1, <2>1
<1>7. ASSUME NEW k, Gather(k) \/ Feed(k) \/ GetReply
      PROVE  Ordered(net', performed')
  <2>1. Same
    BY <1>7 DEF Gather, Feed, GetReply
  <2> QED BY <1>1, <2>1
<1>8. ASSUME NEW kind, TileDemand(kind) \/ CoreDemand(kind)
      PROVE  Ordered(net', performed')
  <2>1. Same
    BY <1>8 DEF TileDemand, CoreDemand, Demand
  <2> QED BY <1>1, <2>1
<1>9. CASE UNCHANGED vars
  <2>1. Same
    BY <1>9 DEF vars, pl
  <2> QED BY <1>1, <2>1
<1> HIDE DEF Same
<1> QED BY <1>2, <1>3, <1>4, <1>5, <1>6, <1>7, <1>8, <1>9
        DEF Next, ProgramStep, EndpointStep, Network

\* manycore sends nothing but the lines of its file.
ManycoreInv == program = "manycore" => Only(text, AtFirst) /\ ~Configured

LEMMA ManycoreTexts ==
  ASSUME "manycore" \in Programs
  PROVE  /\ \A val : Only(Setup("manycore", val), AtFirst)
         /\ Only(Rest("manycore"), AtFirst)
         /\ \A v : \A file \in Files :
              Only(LoadFile("manycore", v, file) \o Rest("manycore"), AtFirst)
<1>1. \A a, b : Only(a, AtFirst) /\ Only(b, AtFirst) => Only(a \o b, AtFirst)
  BY OnlyBoth
<1>2. Writes \subseteq AtFirst /\ {"check", "args", "load", "serve"} \subseteq AtFirst
  BY DEF AtFirst, Plain
<1>3. /\ \A reg, value : Only(Check(reg, value), AtFirst)
      /\ Only(Args, AtFirst) /\ Only(Load, AtFirst)
  BY <1>2, OneInstruction
<1>4. \A reg, value : Only(Write(reg, value), AtFirst)
  BY <1>2, WriteOrSend
<1>5. \A value : Only(TestRegister(value), AtFirst)
  BY <1>1, <1>3, <1>4 DEF TestRegister
<1>6. Only(ManycoreSetup, AtFirst)
  BY <1>1, <1>3, <1>4, <1>5 DEF ManycoreSetup
<1>7. \A val : Only(Setup("manycore", val), AtFirst)
  BY <1>1, <1>3, <1>6 DEF Setup
<1>8. Only(Rest("manycore"), AtFirst)
  BY <1>2, OneInstruction DEF Rest, ManycoreServe
<1>9. ASSUME NEW v, NEW file \in Files
      PROVE  Only(LoadFile("manycore", v, file) \o Rest("manycore"), AtFirst)
  <2>1. Only(LoadFile("manycore", v, file), Loading) /\ Loading \subseteq AtFirst
    BY LoadOnly DEF AtFirst
  <2>2. Only(LoadFile("manycore", v, file), AtFirst)
    BY <2>1, OnlyWider
  <2> QED BY <1>1, <1>8, <2>2
<1> QED BY <1>7, <1>8, <1>9

LEMMA ManycoreInit == Init => ManycoreInv
<1> SUFFICES ASSUME Init, program = "manycore"
             PROVE  Only(text, AtFirst) /\ ~Configured
  BY DEF ManycoreInv
<1>1. PICK e : e = << >> /\ Len(e) = 0
  BY EmptyIsSeq
<1>2. sent = e /\ "manycore" \in Programs /\ \E val : text = Setup("manycore", val)
  BY <1>1 DEF Init
<1>3. Only(text, AtFirst)
  BY <1>2, ManycoreTexts
<1> QED BY <1>1, <1>2, <1>3 DEF Configured

LEMMA ManycoreNext ==
  ManycoreInv /\ TextInv /\ SentInv /\ [Next]_vars => ManycoreInv'
<1> SUFFICES ASSUME ManycoreInv, TextInv, SentInv, [Next]_vars, program' = "manycore"
             PROVE  Only(text', AtFirst) /\ ~Configured'
  BY DEF ManycoreInv
<1>1. program = "manycore" /\ Only(text, AtFirst) /\ ~Configured
  BY SameProgram DEF ManycoreInv
<1>2. CASE ~StartSend /\ ~OpenFile
  <2>1. text' = text /\ ~Configured'
    BY <1>1, <1>2, MovesOn, ConfiguredStays
  <2> QED BY <1>1, <2>1
<1>3. CASE OpenFile
  <2>1. /\ sent' = sent
        /\ \/ \E file \in Files : text' = LoadFile(program, verify, file) \o Rest(program)
           \/ text' = Rest(program)
    BY <1>3 DEF OpenFile
  <2>2. "manycore" \in Programs
    BY <1>1 DEF TextInv
  <2>3. Only(text', AtFirst)
    BY <1>1, <2>1, <2>2, ManycoreTexts
  <2> QED BY <1>1, <2>1, <2>3 DEF Configured
<1>4. CASE StartSend
  <2>1. /\ text' = text /\ pc <= Len(text) /\ text[pc].do = "send"
    BY <1>4 DEF StartSend, At, instr
  <2>2. pc \in 1 .. Len(text)
    <3>1. Len(text) \in Nat /\ pc \in 1 .. Len(text) + 1
      BY SeqFacts DEF TextInv
    <3> QED BY <2>1, <3>1
  <2>3. Shape(text[pc]) \in AtFirst
    BY <1>1, <2>2 DEF Only
  <2>4. Shape(text[pc]) \notin Sends
    BY <2>3 DEF AtFirst, Sends, Writes, Plain, Loading
  <2>5. instr.request.reg = "data"
    BY <2>1, <2>4, ShapesKnown DEF Shape, instr
  <2> QED BY <1>1, <1>4, <2>1, <2>5, ConfiguredStays
<1> QED BY <1>2, <1>3, <1>4

\* The core of hammerblade runs: the last of the writes that stop it or let it go
\* lets it go.
LEMMA RunsUnfrozen ==
  ASSUME ServeInv, program # "minimal", CoreRuns
  PROVE  \E p \in 1 .. Len(performed), i \in 1 .. Len(launched) :
           /\ performed[p] = sent[i] /\ Unfreezes(sent[i])
           /\ sent[i].request.dst = "core"
<1> DEFINE writes == {j \in DOMAIN performed :
                        /\ performed[j] # Garbled
                        /\ performed[j].request.kind = "write"
                        /\ performed[j].request.dst = "core"
                        /\ performed[j].request.reg = "freeze"}
<1>1. Stored("core", "freeze") = 0
  BY DEF CoreRuns
<1>2. Stored("core", "freeze")
        = IF writes = {} THEN -1 ELSE performed[Max(writes)].request.value
  BY DEF Stored
<1>3. writes # {} /\ performed[Max(writes)].request.value = 0
  <2>1. ASSUME writes = {}
        PROVE  FALSE
    <3>1. Stored("core", "freeze") = -1
      BY <1>2, <2>1
    <3> QED BY <1>1, <3>1
  <2> QED BY <1>1, <1>2, <2>1
<1>4. PICK n \in Nat : n = Len(performed) /\ DOMAIN performed = 1 .. n
  BY SeqFacts DEF ServeInv, LinkInv, NetInv, Accounted
<1>5. writes \subseteq 1 .. n
  BY <1>4
<1>6. Max(writes) \in writes
  BY <1>3, <1>4, <1>5, MaxIn
<1>7. PICK p \in 1 .. n : /\ performed[p].request.dst = "core"
                          /\ performed[p].request.reg = "freeze"
                          /\ performed[p].request.value = 0
  BY <1>3, <1>5, <1>6
<1>8. PICK i \in 1 .. Len(launched) : performed[p] = launched[i]
  BY <1>4 DEF ServeInv, LinkInv, NetInv, Accounted, Within
<1>9. launched[i] = sent[i]
  BY LaunchedNumbers
<1> QED BY <1>4, <1>7, <1>8, <1>9 DEF Unfreezes

LEMMA HammerbladeStarts ==
  ASSUME ServeInv, ManycoreInv, LastInv, RouteInv, program # "minimal", CoreRuns,
         NEW i \in 1 .. Len(sent), sent[i].request.dst = "core"
  PROVE  \E j \in 1 .. Len(performed) : performed[j] = sent[i]
<1>1. PICK p \in 1 .. Len(performed), f \in 1 .. Len(launched) :
        /\ performed[p] = sent[f] /\ Unfreezes(sent[f])
        /\ sent[f].request.dst = "core"
  BY RunsUnfrozen
<1>2. /\ Len(launched) \in Nat /\ Len(sent) \in Nat /\ Len(launched) <= Len(sent)
      /\ \A j \in 1 .. Len(launched) : launched[j] = sent[j] /\ launched[j].n = j
  BY LaunchedNumbers
<1>3. f \in 1 .. Len(sent)
  BY <1>2
<1>4. Configured
  BY <1>1, <1>3 DEF Configured, Unfreezes
<1>5. program \in {"manycore", "hammerblade"}
  BY PacketLinkAssumption DEF ServeInv, LinkInv, Wiring
<1>6. program = "hammerblade"
  BY <1>4, <1>5 DEF ManycoreInv
<1>7. f = Len(sent)
  BY <1>1, <1>3, <1>6 DEF LastInv
<1>8. i \in 1 .. Len(launched) /\ i <= f
  BY <1>2, <1>7
<1>9. CASE \E m \in 1 .. Len(performed) : launched[i] = performed[m]
  BY <1>2, <1>8, <1>9
<1>10. CASE \E m \in 1 .. Len(net) : launched[i] = net[m]
  <2>1. PICK m \in 1 .. Len(net) : launched[i] = net[m]
    BY <1>10
  <2>2. net[m].request.dst = performed[p].request.dst
    BY <1>1, <1>2, <1>8, <2>1
  <2>3. performed[p].n < net[m].n
    BY <2>2 DEF RouteInv, Ordered
  <2>4. performed[p].n = f /\ net[m].n = i
    BY <1>1, <1>2, <1>8, <2>1
  <2>5. f < i
    BY <2>3, <2>4
  <2>6. f \in Nat /\ i \in Nat
    BY <1>2
  <2> QED BY <1>8, <2>5, <2>6
<1>11. \/ \E m \in 1 .. Len(net) : launched[i] = net[m]
       \/ \E m \in 1 .. Len(performed) : launched[i] = performed[m]
  BY <1>8 DEF ServeInv, LinkInv, NetInv, Accounted, Covered
<1> QED BY <1>9, <1>10, <1>11

-----------------------------------------------------------------------------
(***************************************************************************)
(* The start of the core of the minimal example.  The CSR FREEZEN holds it *)
(* from before the reset ends until the credits have been seen drained     *)
(* behind the lines of the file.                                           *)
(***************************************************************************)
Boot == {"write", "check"}
Held == {"write", "hold", "resetn", "send", "load"} \cup Plain

\* The core is held by the instruction after the first m, which come before the
\* end of the reset; what follows does not let it go.
HoldsCore(s, m) ==
  /\ Parts(s, m, Boot, Held) /\ m + 1 \in 1 .. Len(s)
  /\ s[m + 1].do = "write" /\ Shape(s[m + 1]) = "hold"

LEMMA HoldsBefore ==
  ASSUME NEW s, NEW m, HoldsCore(s, m), NEW b, Only(b, Held)
  PROVE  HoldsCore(s \o b, m)
<1>1. PICK r : r = s \o b /\ JoinOf(s, b, r)
  BY Joined DEF HoldsCore, Parts, Only
<1>2. Parts(r, m, Boot, Held)
  BY <1>1, PartsBefore DEF HoldsCore
<1>3. m + 1 \in 1 .. Len(r)
  BY <1>1 DEF HoldsCore, JoinOf
<1>4. r[m + 1] = s[m + 1]
  BY <1>1 DEF HoldsCore, JoinOf
<1> QED BY <1>1, <1>2, <1>3, <1>4 DEF HoldsCore

LEMMA HoldsMade ==
  ASSUME NEW a, Only(a, Boot), NEW b, Only(b, {"hold"}), Len(b) = 1,
         b[1].do = "write"
  PROVE  HoldsCore(a \o b, Len(a))
<1>1. PICK n \in Nat : n = Len(a)
  BY SeqFacts DEF Only
<1>2. Parts(a, n, Boot, Held)
  BY <1>1, PartsWhole
<1>3. Only(b, Held)
  <2>1. {"hold"} \subseteq Held
    BY DEF Held
  <2> QED BY <2>1, OnlyWider
<1>4. PICK r : r = a \o b /\ JoinOf(a, b, r)
  BY Joined DEF Only
<1>5. Parts(r, n, Boot, Held)
  BY <1>2, <1>3, <1>4, PartsBefore
<1>6. Len(r) = n + 1 /\ 1 \in 1 .. Len(b)
  BY <1>1, <1>4 DEF JoinOf
<1>7. r[n + 1] = b[1]
  BY <1>1, <1>4, <1>6 DEF JoinOf
<1>8. Shape(b[1]) = "hold"
  BY <1>6 DEF Only
<1>9. n + 1 \in 1 .. Len(r)
  BY <1>1, <1>6
<1> QED BY <1>1, <1>4, <1>5, <1>7, <1>8, <1>9 DEF HoldsCore

LEMMA MinimalSetupHolds ==
  ASSUME NEW val
  PROVE  \E m : HoldsCore(Setup("minimal", val), m)
<1>1. \A a, b : (\E m : HoldsCore(a, m)) /\ Only(b, Held) => \E m : HoldsCore(a \o b, m)
  BY HoldsBefore
<1>2. \A a, b : Only(a, Held) /\ Only(b, Held) => Only(a \o b, Held)
  BY OnlyBoth
<1>3. \A a, b : Only(a, Boot) /\ Only(b, Boot) => Only(a \o b, Boot)
  BY OnlyBoth
<1>4. Only(TestRegister("found"), Boot)
  <2>1. /\ \A value : WriteShape("dram_base", value) \in Boot
        /\ "check" \in Boot
    BY DEF WriteShape, Boot
  <2>2. \A value : Only(Write("dram_base", value), Boot) /\ Only(Check("dram_base", value), Boot)
    BY <2>1, OneInstruction
  <2> QED BY <1>3, <2>2 DEF TestRegister
<1>5. /\ Only(Write("freezen", "1"), {"hold"}) /\ Len(Write("freezen", "1")) = 1
      /\ Write("freezen", "1")[1].do = "write"
  <2>1. PICK dos : dos = {"hold"}
    OBVIOUS
  <2>2. Only(Write("freezen", "1"), {"hold"})
    <3>1. WriteShape("freezen", "1") \in dos
      BY <2>1 DEF WriteShape
    <3>2. Only(Write("freezen", "1"), dos)
      BY <3>1, OneInstruction
    <3> QED BY <2>1, <3>2
  <2>3. Len(Write("freezen", "1")) = 1 /\ Write("freezen", "1")[1].do = "write"
    BY DEF Write
  <2> QED BY <2>2, <2>3
<1>6. \E m : HoldsCore(TestRegister("found") \o Write("freezen", "1"), m)
  BY <1>4, <1>5, HoldsMade
<1>7. ASSUME NEW reg, NEW value, reg # "freezen"
      PROVE  Only(Write(reg, value), Held)
  <2>1. WriteShape(reg, value) \in Held
    BY <1>7 DEF WriteShape, Held
  <2> QED BY <2>1, OneInstruction
<1>8. {"check", "tick", "args", "load", "send"} \subseteq Held
  BY DEF Held, Plain
<1>9. /\ \A reg, value : Only(Check(reg, value), Held)
      /\ Only(Tick, Held) /\ Only(Args, Held) /\ Only(Load, Held)
  BY <1>8, OneInstruction
<1>10. \E m : HoldsCore(MinimalSetup, m)
  <2>1. /\ Only(Write("resetn", "1"), Held) /\ Only(Write("debug_irq", "1"), Held)
        /\ Only(Write("debug_irq", "0"), Held) /\ Only(Write("dram_base", "phys"), Held)
        /\ Only(Write("dram_inited", "1"), Held)
    BY <1>7
  <2> QED BY <1>1, <1>6, <1>9, <2>1 DEF MinimalSetup
<1>11. ASSUME NEW reg, reg # "data"
       PROVE  Only(MinimalWrite("core", reg, 1), Held)
  <2>1. SendShape(Request("write", "core", reg, 1)) = "send"
    BY <1>11 DEF SendShape, Request
  <2> QED BY <1>8, <2>1, OneInstruction DEF MinimalWrite
<1>12. Only(MinimalConfig, Held)
  <2>1. /\ Only(MinimalWrite("core", "freeze", 1), Held)
        /\ Only(MinimalWrite("core", "npc", 1), Held)
        /\ Only(MinimalWrite("core", "icache", 1), Held)
        /\ Only(MinimalWrite("core", "dcache", 1), Held)
        /\ Only(MinimalWrite("core", "cce", 1), Held)
    BY <1>11
  <2> QED BY <1>2, <2>1 DEF MinimalConfig
<1>13. \E m : HoldsCore((MinimalSetup \o MinimalConfig) \o Load, m)
  BY <1>1, <1>9, <1>10, <1>12
<1> QED BY <1>13 DEF Setup

\* The first m instructions load the file, and the last of them waits.
Waits(s, m) == Parts(s, m, Loading, Running) /\ (m = 0 \/ s[m].do = "drain")

LEMMA MinimalLoadWaits ==
  ASSUME "minimal" \in Programs, NEW v, NEW file \in Files,
         ~ \E k \in DOMAIN file : file[k].kind = "unknown"
  PROVE  \E m : Waits(LoadFile("minimal", v, file) \o Rest("minimal"), m)
<1>1. IsSeq(file)
  BY PacketLinkAssumption DEF IsSeq
<1>2. DOMAIN file = 1 .. Len(file)
  BY <1>1, SeqFacts
<1>3. PICK a : a = FlattenSeq([k \in 1 .. Len(file) |-> MinimalCommand(file[k], k)])
  OBVIOUS
<1>4. LoadFile("minimal", v, file) = a \o Drain
  BY <1>2, <1>3 DEF LoadFile, MinimalLoad, Loaded
<1>5. Only(a, Loading) /\ Only(Drain, Loading)
  BY <1>1, <1>3, LoadedOnly, OneInstruction DEF Loading
<1>6. PICK x : x = a \o Drain /\ JoinOf(a, Drain, x)
  BY <1>5, Joined DEF Only
<1>7. Only(x, Loading)
  BY <1>5, <1>6, OnlyBoth
<1>8. PICK n \in Nat : n = Len(a)
  BY <1>5, SeqFacts DEF Only
<1>9. Len(Drain) = 1 /\ Drain[1].do = "drain"
  BY DEF Drain
<1>10. Len(x) = n + 1 /\ x[n + 1].do = "drain"
  <2>1. Len(x) = n + 1
    BY <1>6, <1>8, <1>9 DEF JoinOf
  <2>2. x[n + 1] = Drain[1]
    <3>1. 1 \in 1 .. Len(Drain)
      BY <1>9
    <3> QED BY <1>6, <1>8, <3>1 DEF JoinOf
  <2> QED BY <1>9, <2>1, <2>2
<1>11. Only(Rest("minimal"), Running)
  BY RestOnly
<1>12. PICK r : r = x \o Rest("minimal") /\ JoinOf(x, Rest("minimal"), r)
  BY <1>7, <1>11, Joined DEF Only
<1>13. Parts(x, n + 1, Loading, Running)
  BY <1>7, <1>10, PartsWhole
<1>14. Parts(r, n + 1, Loading, Running)
  BY <1>11, <1>12, <1>13, PartsBefore
<1>15. r[n + 1] = x[n + 1]
  BY <1>10, <1>12 DEF JoinOf
<1>16. Waits(r, n + 1)
  BY <1>10, <1>14, <1>15 DEF Waits
<1> QED BY <1>4, <1>6, <1>12, <1>16

LEMMA MinimalRestWaits ==
  ASSUME "minimal" \in Programs
  PROVE  Waits(Rest("minimal"), 0)
BY RestOnly, PartsNone DEF Waits

\* The writes of the file that have been sent, and whether they have taken effect.
NoData == \A i \in 1 .. Len(sent) : sent[i].request.reg # "data"

DataPerformed ==
  \A i \in 1 .. Len(sent) :
    sent[i].request.reg = "data" => \E j \in 1 .. Len(performed) : performed[j] = sent[i]

BootInv(m) ==
  /\ HoldsCore(text, m)
  /\ pc <= m + 1 => regs["resetn"] # "1"
  /\ pc > m + 1 => regs["freezen"] = "1"
  /\ NoData

WaitInv(m) ==
  /\ Waits(text, m)
  /\ pc <= m => regs["freezen"] = "1"
  /\ pc > m => DataPerformed

FileInv == Only(text, Loading \cup Running) /\ (unknown \/ \E m : WaitInv(m))

MinimalInv ==
  /\ {"resetn", "freezen"} \subseteq DOMAIN regs
  /\ program = "minimal" => (\E m : BootInv(m)) \/ FileInv

LEMMA RegsWritten ==
  ASSUME WriteRegister, {"resetn", "freezen"} \subseteq DOMAIN regs
  PROVE  /\ DOMAIN regs' = DOMAIN regs
         /\ Shape(instr) \in Writes
         /\ Shape(instr) # "resetn" => regs'["resetn"] = regs["resetn"]
         /\ Shape(instr) \notin {"hold", "release"} => regs'["freezen"] = regs["freezen"]
         /\ Shape(instr) = "hold" => regs'["freezen"] = "1"
<1>1. PICK f, g, r, v : /\ f = regs /\ g = regs' /\ r = instr.reg /\ v = instr.value
                        /\ g = [f EXCEPT ![r] = Word32(v)]
  BY DEF WriteRegister
<1>2. DOMAIN g = DOMAIN f
  BY <1>1
<1>3. \A q \in DOMAIN f : q # r => g[q] = f[q]
  BY <1>1
<1>4. r \in DOMAIN f => g[r] = Word32(v)
  BY <1>1
<1>5. Shape(instr) = WriteShape(r, v)
  BY <1>1 DEF WriteRegister, At, Shape
<1>6. Shape(instr) # "resetn" => r # "resetn"
  BY <1>5 DEF WriteShape
<1>7. Shape(instr) \notin {"hold", "release"} => r # "freezen"
  BY <1>5 DEF WriteShape
<1>8. Shape(instr) = "hold" => r = "freezen" /\ v = "1"
  BY <1>5 DEF WriteShape
<1>9. Word32("1") = "1"
  BY DEF Word32
<1>10. Shape(instr) \in Writes
  BY <1>5, ShapesKnown
<1> QED BY <1>1, <1>2, <1>3, <1>4, <1>6, <1>7, <1>8, <1>9, <1>10

LEMMA RegsKept ==
  ASSUME [Next]_vars, ~WriteRegister, {"resetn", "freezen"} \subseteq DOMAIN regs
  PROVE  /\ DOMAIN regs' = DOMAIN regs
         /\ regs'["resetn"] = regs["resetn"] /\ regs'["freezen"] = regs["freezen"]
<1>1. CASE regs' = regs
  BY <1>1
<1>2. CASE HandleDemand
  <2>1. regs' = regs \/ \E n : regs' = [regs EXCEPT !["rom_addr"] = n]
    BY <1>2 DEF HandleDemand
  <2>2. CASE \E n : regs' = [regs EXCEPT !["rom_addr"] = n]
    <3>1. PICK f, g, n : f = regs /\ g = regs' /\ g = [f EXCEPT !["rom_addr"] = n]
      BY <2>2
    <3>2. DOMAIN g = DOMAIN f /\ \A q \in DOMAIN f : q # "rom_addr" => g[q] = f[q]
      BY <3>1
    <3> QED BY <3>1, <3>2
  <2> QED BY <1>1, <2>1, <2>2
<1>3. CASE CheckRegister \/ TickClock \/ TakeArguments \/ OpenFile \/ StartSend
  BY <1>1, <1>3 DEF CheckRegister, TickClock, TakeArguments, OpenFile, StartSend
<1>4. CASE SendWord \/ ReceiveWord \/ VerifyAnswer \/ DrainCredits \/ Done
  BY <1>1, <1>4 DEF SendWord, ReceiveWord, VerifyAnswer, DrainCredits, Done
<1>5. CASE EndpointStep \/ Network
  BY <1>1, <1>5 DEF EndpointStep, Gather, Feed, Launch, GetReply, Network, Perform, ps
<1>6. ASSUME NEW kind, TileDemand(kind) \/ CoreDemand(kind)
      PROVE  regs' = regs
  BY <1>6 DEF TileDemand, CoreDemand, Demand, ps
<1>7. CASE UNCHANGED vars
  BY <1>1, <1>7 DEF vars, ps
<1> QED BY <1>1, <1>2, <1>3, <1>4, <1>5, <1>6, <1>7 DEF Next, ProgramStep

LEMMA UnknownKept ==
  ASSUME [Next]_vars, ~OpenFile
  PROVE  unknown' = unknown
<1>1. CASE WriteRegister \/ CheckRegister \/ TickClock \/ TakeArguments \/ StartSend
  BY <1>1 DEF WriteRegister, CheckRegister, TickClock, TakeArguments, StartSend
<1>2. CASE SendWord \/ ReceiveWord \/ VerifyAnswer \/ HandleDemand \/ DrainCredits \/ Done
  BY <1>2 DEF SendWord, ReceiveWord, VerifyAnswer, HandleDemand, DrainCredits, Done
<1>3. CASE EndpointStep \/ Network
  BY <1>3 DEF EndpointStep, Gather, Feed, Launch, GetReply, Network, Perform, ps
<1>4. ASSUME NEW kind, TileDemand(kind) \/ CoreDemand(kind)
      PROVE  unknown' = unknown
  BY <1>4 DEF TileDemand, CoreDemand, Demand, ps
<1>5. CASE UNCHANGED vars
  BY <1>5 DEF vars, ps
<1> QED BY <1>1, <1>2, <1>3, <1>4, <1>5 DEF Next, ProgramStep

LEMMA PerformedLasts ==
  ASSUME NetInv, [Next]_vars, DataPerformed, sent' = sent
  PROVE  DataPerformed'
<1>1. CASE performed' = performed
  BY <1>1 DEF DataPerformed
<1>2. ASSUME NEW i, Perform(i)
      PROVE  DataPerformed'
  <2>1. PICK u, x, v : u = performed /\ v = performed' /\ v = Append(u, x)
    BY <1>2 DEF Perform
  <2>2. Grows(u, x, v)
    BY <2>1, Grown DEF NetInv, Accounted
  <2>3. \A j \in 1 .. Len(u) : j \in 1 .. Len(v) /\ v[j] = u[j]
    BY <2>2 DEF Grows
  <2> QED BY <2>1, <2>3 DEF DataPerformed
<1>3. CASE ProgramStep
  <2>1. performed' = performed
    BY <1>3 DEF ProgramStep, WriteRegister, CheckRegister, TickClock, TakeArguments,
                OpenFile, StartSend, SendWord, ReceiveWord, VerifyAnswer, HandleDemand,
                DrainCredits, Done, pl
  <2> QED BY <1>1, <2>1
<1>4. CASE EndpointStep
  BY <1>1, <1>4 DEF EndpointStep, Gather, Feed, Launch, GetReply
<1>5. ASSUME NEW kind, TileDemand(kind) \/ CoreDemand(kind)
      PROVE  performed' = performed
  BY <1>5 DEF TileDemand, CoreDemand, Demand
<1>6. CASE UNCHANGED vars
  BY <1>1, <1>6 DEF vars, pl
<1> QED BY <1>1, <1>2, <1>3, <1>4, <1>5, <1>6 DEF Next, Network

\* The instructions that only go on.
LEMMA PassesOn ==
  ASSUME [Next]_vars, ~StartSend, ~OpenFile, ~WriteRegister, ~DrainCredits
  PROVE  pc' = pc \/ (pc' = pc + 1 /\ text[pc].do \notin {"write", "drain"})
<1>1. CASE CheckRegister \/ TickClock \/ TakeArguments \/ VerifyAnswer
  BY <1>1 DEF CheckRegister, TickClock, TakeArguments, VerifyAnswer, At, instr
<1>2. CASE HandleDemand
  BY <1>2 DEF HandleDemand, At, instr
<1>3. CASE SendWord \/ ReceiveWord \/ Done
  BY <1>3 DEF SendWord, ReceiveWord, Done
<1>4. CASE EndpointStep \/ Network
  BY <1>4 DEF EndpointStep, Gather, Feed, Launch, GetReply, Network, Perform, ps
<1>5. ASSUME NEW kind, TileDemand(kind) \/ CoreDemand(kind)
      PROVE  pc' = pc
  BY <1>5 DEF TileDemand, CoreDemand, Demand, ps
<1>6. CASE UNCHANGED vars
  BY <1>6 DEF vars, ps
<1> QED BY <1>1, <1>2, <1>3, <1>4, <1>5, <1>6 DEF Next, ProgramStep

LEMMA MinimalInit == Init => MinimalInv
<1> SUFFICES ASSUME Init
             PROVE  MinimalInv
  OBVIOUS
<1>1. PICK e : e = << >> /\ Len(e) = 0
  BY EmptyIsSeq
<1>2. sent = e /\ pc = 1 /\ \E val : text = Setup(program, val)
  BY <1>1 DEF Init
<1>3. {"resetn", "freezen"} \subseteq DOMAIN regs /\ regs["resetn"] = "0"
  <2>1. PICK f, g : /\ f = [r \in Registers |-> "0"]
                    /\ g = [f EXCEPT !["rom_addr"] = 0] /\ regs = g
    BY DEF Init
  <2>2. {"resetn", "freezen"} \subseteq Registers
    BY DEF Registers
  <2>3. DOMAIN g = Registers /\ \A r \in Registers : r # "rom_addr" => g[r] = "0"
    BY <2>1
  <2>4. "resetn" \in Registers
    BY <2>2
  <2> QED BY <2>1, <2>2, <2>3, <2>4
<1>4. ASSUME program = "minimal"
      PROVE  \E m : BootInv(m)
  <2>1. PICK m : HoldsCore(text, m)
    BY <1>2, <1>4, MinimalSetupHolds
  <2>2. m \in Nat
    BY <2>1, SeqFacts DEF HoldsCore, Parts
  <2>3. ~(pc > m + 1)
    BY <1>2, <2>2
  <2>4. NoData
    BY <1>1, <1>2 DEF NoData
  <2> QED BY <1>3, <2>1, <2>3, <2>4 DEF BootInv
<1> QED BY <1>3, <1>4 DEF MinimalInv

LEMMA BootNext ==
  ASSUME TextInv, SentInv, [Next]_vars, ~OpenFile, NEW m, BootInv(m),
         {"resetn", "freezen"} \subseteq DOMAIN regs
  PROVE  BootInv(m)'
<1>1. /\ Parts(text, m, Boot, Held) /\ m + 1 \in 1 .. Len(text)
      /\ text[m + 1].do = "write" /\ Shape(text[m + 1]) = "hold"
  BY DEF BootInv, HoldsCore
<1>2. m \in Nat /\ Len(text) \in Nat /\ pc \in 1 .. Len(text) + 1
  BY <1>1, SeqFacts DEF Parts, TextInv
<1>3. text[m + 1].do = "write"
  BY <1>1
<1>4. /\ pc <= m + 1 => regs["resetn"] # "1"
      /\ pc > m + 1 => regs["freezen"] = "1"
      /\ NoData /\ HoldsCore(text, m)
  BY DEF BootInv
<1>5. pc \in Nat /\ (pc <= m => pc \in 1 .. m)
      /\ (pc > m /\ pc <= Len(text) => pc \in m + 1 .. Len(text))
  BY <1>2
<1>6. CASE WriteRegister
  <2>1. /\ text' = text /\ sent' = sent /\ pc' = pc + 1
        /\ pc <= Len(text) /\ text[pc].do = "write" /\ instr = text[pc]
    BY <1>6 DEF WriteRegister, At, instr
  <2>2. /\ Shape(text[pc]) \in Writes
        /\ Shape(text[pc]) # "resetn" => regs'["resetn"] = regs["resetn"]
        /\ Shape(text[pc]) \notin {"hold", "release"} => regs'["freezen"] = regs["freezen"]
        /\ Shape(text[pc]) = "hold" => regs'["freezen"] = "1"
    BY <1>6, <2>1, RegsWritten
  <2>3. NoData'
    BY <1>4, <2>1 DEF NoData
  <2>4. CASE pc <= m
    <3>1. Shape(text[pc]) \in Boot
      BY <1>1, <1>5, <2>4 DEF Parts
    <3>2. regs'["resetn"] # "1"
      <4>1. regs["resetn"] # "1"
        BY <1>2, <1>4, <1>5, <2>4
      <4> QED BY <2>2, <3>1, <4>1 DEF Boot
    <3>3. pc' <= m + 1 /\ ~(pc' > m + 1)
      BY <1>2, <1>5, <2>1, <2>4
    <3> QED BY <1>4, <2>1, <2>3, <3>2, <3>3 DEF BootInv
  <2>5. CASE pc > m
    <3>1. regs'["freezen"] = "1"
      <4>1. CASE pc = m + 1
        BY <1>1, <2>2, <4>1
      <4>2. CASE pc # m + 1
        <5>1. pc > m + 1
          BY <1>2, <1>5, <2>5, <4>2
        <5>2. Shape(text[pc]) \in Held
          BY <1>1, <1>5, <2>1, <2>5 DEF Parts
        <5> QED BY <1>4, <2>2, <5>1, <5>2 DEF Held, Plain
      <4> QED BY <4>1, <4>2
    <3>2. ~(pc' <= m + 1)
      BY <1>2, <1>5, <2>1, <2>5
    <3> QED BY <1>4, <2>1, <2>3, <3>1, <3>2 DEF BootInv
  <2> QED BY <1>2, <1>5, <2>4, <2>5
<1>7. CASE ~WriteRegister
  <2>1. regs'["resetn"] = regs["resetn"] /\ regs'["freezen"] = regs["freezen"]
    BY <1>7, RegsKept
  <2>2. CASE StartSend
    <3>1. /\ text' = text /\ pc' = pc + 1 /\ pc <= Len(text) /\ text[pc].do = "send"
          /\ sent' = Append(sent, Numbered(instr.request))
      BY <2>2 DEF StartSend, At, instr
    <3>2. Shape(text[pc]) = SendShape(text[pc].request)
      BY <3>1 DEF Shape
    <3>3. pc \notin 1 .. m
      BY <1>1, <3>2 DEF Parts, Boot, SendShape
    <3>4. pc # m + 1
      BY <1>3, <3>1
    <3>5. pc > m + 1 /\ pc > m
      BY <1>2, <1>5, <3>3, <3>4
    <3>6. Shape(text[pc]) \in Held
      BY <1>1, <1>5, <3>1, <3>5 DEF Parts
    <3>7. instr.request.reg # "data"
      BY <3>2, <3>6 DEF Held, Plain, SendShape, instr
    <3>8. NoData'
      <4>1. PICK s, x, t : /\ s = sent /\ t = sent' /\ x = Numbered(instr.request)
                           /\ Grows(s, x, t)
        BY <3>1, Grown DEF SentInv
      <4>2. x.request.reg # "data"
        BY <3>7, <4>1 DEF Numbered
      <4>3. \A i \in 1 .. Len(t) : t[i] = x \/ (i \in 1 .. Len(s) /\ t[i] = s[i])
        BY <4>1 DEF Grows
      <4> QED BY <1>4, <4>1, <4>2, <4>3 DEF NoData
    <3>9. ~(pc' <= m + 1)
      BY <1>2, <1>5, <3>1, <3>5
    <3> QED BY <1>4, <2>1, <3>1, <3>5, <3>8, <3>9 DEF BootInv
  <2>3. CASE ~StartSend
    <3>1. text' = text /\ sent' = sent
      BY <2>3, MovesOn
    <3>2. NoData'
      BY <1>4, <3>1 DEF NoData
    <3>3. pc' = pc \/ (pc' = pc + 1 /\ pc # m + 1)
      <4>1. CASE DrainCredits
        BY <1>3, <4>1 DEF DrainCredits, At, instr
      <4>2. CASE ~DrainCredits
        BY <1>3, <1>7, <2>3, <4>2, PassesOn
      <4> QED BY <4>1, <4>2
    <3>4. (pc' <= m + 1 => pc <= m + 1) /\ (pc' > m + 1 => pc > m + 1)
      BY <1>2, <1>5, <3>3
    <3> QED BY <1>4, <2>1, <3>1, <3>2, <3>4 DEF BootInv
  <2> QED BY <2>2, <2>3
<1> QED BY <1>6, <1>7

LEMMA WaitNext ==
  ASSUME LinkInv, [Next]_vars, ~OpenFile, program = "minimal", FileInv,
         {"resetn", "freezen"} \subseteq DOMAIN regs
  PROVE  FileInv'
<1>1. text' = text /\ unknown' = unknown
  <2>1. text' = text
    BY MovesOn DEF StartSend
  <2> QED BY <2>1, UnknownKept
<1>2. CASE unknown
  BY <1>1, <1>2 DEF FileInv
<1>3. CASE \E m : WaitInv(m)
  <2>1. PICK m : WaitInv(m)
    BY <1>3
  <2>2. Parts(text, m, Loading, Running) /\ (m = 0 \/ text[m].do = "drain")
    BY <2>1 DEF WaitInv, Waits
  <2>3. /\ pc <= m => regs["freezen"] = "1"
        /\ pc > m => DataPerformed
        /\ Waits(text, m)
    BY <2>1 DEF WaitInv
  <2>4. m \in Nat /\ pc \in Nat \ {0} /\ Len(text) \in Nat
    BY <2>2, SeqFacts DEF Parts, LinkInv, TextInv
  <2>5. (pc <= m => pc \in 1 .. m) /\ (pc > m /\ pc <= Len(text) => pc \in m + 1 .. Len(text))
    BY <2>4
  <2>6. CASE WriteRegister
    <3>1. /\ sent' = sent /\ pc' = pc + 1 /\ pc <= Len(text) /\ instr = text[pc]
      BY <2>6 DEF WriteRegister, At, instr
    <3>2. Shape(text[pc]) \in Writes
      BY <2>6, <3>1, RegsWritten
    <3>3. pc \notin 1 .. m
      BY <2>2, <3>2 DEF Parts, Loading, Writes
    <3>4. pc > m
      BY <2>4, <2>5, <3>3
    <3>5. pc' > m /\ ~(pc' <= m)
      BY <2>4, <3>1, <3>4
    <3>6. DataPerformed'
      BY <2>3, <3>1, <3>4, PerformedLasts DEF LinkInv
    <3> QED BY <1>1, <2>3, <3>5, <3>6 DEF FileInv, WaitInv
  <2>7. CASE DrainCredits
    <3>1. sent' = sent /\ pc' = pc + 1 /\ regs' = regs
      BY <2>7 DEF DrainCredits
    <3>2. DataPerformed
      BY <2>7, Drained DEF LinkInv, DataPerformed
    <3>3. DataPerformed'
      BY <3>1, <3>2, PerformedLasts DEF LinkInv
    <3>4. pc' <= m => pc <= m
      BY <2>4, <3>1
    <3>5. WaitInv(m)'
      BY <1>1, <2>3, <3>1, <3>3, <3>4 DEF WaitInv
    <3> QED BY <1>1, <3>5 DEF FileInv
  <2>8. CASE StartSend
    <3>1. /\ pc' = pc + 1 /\ pc <= Len(text) /\ text[pc].do = "send"
          /\ sent' = Append(sent, Numbered(instr.request)) /\ regs' = regs
          /\ performed' = performed
      BY <2>8 DEF StartSend, At, instr, pl
    <3>2. CASE pc <= m
      <4>1. pc # m
        BY <2>2, <2>4, <3>1, <3>2
      <4>2. pc' <= m /\ ~(pc' > m)
        BY <2>4, <3>1, <3>2, <4>1
      <4>3. WaitInv(m)'
        BY <1>1, <2>3, <3>1, <3>2, <4>2 DEF WaitInv
      <4> QED BY <1>1, <4>3 DEF FileInv
    <3>3. CASE pc > m
      <4>1. Shape(text[pc]) \in Running
        BY <2>2, <2>5, <3>1, <3>3 DEF Parts
      <4>2. instr.request.reg # "data"
        BY <3>1, <4>1 DEF Shape, SendShape, Running, Writes, Sends, instr
      <4>3. DataPerformed'
        <5>1. PICK s, x, t : /\ s = sent /\ t = sent' /\ x = Numbered(instr.request)
                             /\ Grows(s, x, t)
          BY <3>1, Grown DEF LinkInv, SentInv
        <5>2. x.request.reg # "data"
          BY <4>2, <5>1 DEF Numbered
        <5>3. \A i \in 1 .. Len(t) : t[i] = x \/ (i \in 1 .. Len(s) /\ t[i] = s[i])
          BY <5>1 DEF Grows
        <5>4. DataPerformed
          BY <2>3, <3>3
        <5> QED BY <3>1, <5>1, <5>2, <5>3, <5>4 DEF DataPerformed
      <4>4. ~(pc' <= m)
        BY <2>4, <3>1, <3>3
      <4>5. WaitInv(m)'
        BY <1>1, <2>3, <4>3, <4>4 DEF WaitInv
      <4> QED BY <1>1, <4>5 DEF FileInv
    <3> QED BY <2>4, <3>2, <3>3
  <2>9. CASE ~WriteRegister /\ ~DrainCredits /\ ~StartSend
    <3>1. /\ sent' = sent /\ regs'["freezen"] = regs["freezen"]
          /\ pc' = pc \/ (pc' = pc + 1 /\ text[pc].do # "drain")
      <4>1. sent' = sent
        BY <2>9, MovesOn
      <4>2. regs'["freezen"] = regs["freezen"]
        BY <2>9, RegsKept
      <4>3. pc' = pc \/ (pc' = pc + 1 /\ text[pc].do # "drain")
        BY <2>9, PassesOn
      <4> QED BY <4>1, <4>2, <4>3
    <3>2. (pc' <= m => pc <= m) /\ (pc' > m => pc > m)
      BY <2>2, <2>4, <3>1
    <3>3. DataPerformed => DataPerformed'
      BY <3>1, PerformedLasts DEF LinkInv
    <3>4. WaitInv(m)'
      BY <1>1, <2>3, <3>1, <3>2, <3>3 DEF WaitInv
    <3> QED BY <1>1, <3>4 DEF FileInv
  <2> QED BY <2>6, <2>7, <2>8, <2>9
<1> QED BY <1>2, <1>3 DEF FileInv

LEMMA FileOpened ==
  ASSUME TextInv, OpenFile, program = "minimal", MinimalInv
  PROVE  FileInv'
<1>1. /\ At("load") /\ pc' = 1 /\ sent' = sent /\ regs' = regs /\ performed' = performed
      /\ \/ \E file \in Files :
              /\ text' = LoadFile("minimal", verify, file) \o Rest("minimal")
              /\ unknown' = (\E k \in DOMAIN file : file[k].kind = "unknown")
         \/ text' = Rest("minimal")
  BY DEF OpenFile, pl
<1>2. pc <= Len(text) /\ text[pc].do = "load" /\ Shape(text[pc]) = "load"
  BY <1>1 DEF At, instr, Shape
<1>3. Len(text) \in Nat /\ pc \in 1 .. Len(text)
  <2>1. Len(text) \in Nat /\ pc \in 1 .. Len(text) + 1
    BY SeqFacts DEF TextInv
  <2> QED BY <1>2, <2>1
<1>4. ~FileInv
  BY <1>2, <1>3 DEF FileInv, Only, Loading, Running, Writes, Sends
<1>5. PICK m : BootInv(m)
  BY <1>4 DEF MinimalInv
<1>6. NoData /\ regs["freezen"] = "1"
  <2>1. /\ Parts(text, m, Boot, Held) /\ text[m + 1].do = "write"
        /\ pc > m + 1 => regs["freezen"] = "1"
        /\ NoData
    BY <1>5 DEF BootInv, HoldsCore
  <2>2. m \in Nat /\ pc \in Nat
    BY <1>3, <2>1 DEF Parts
  <2>3. pc \notin 1 .. m
    BY <1>2, <2>1 DEF Parts, Boot
  <2>4. pc # m + 1
    BY <1>2, <2>1
  <2>5. pc > m + 1
    BY <1>3, <2>2, <2>3, <2>4
  <2> QED BY <2>1, <2>5
<1>7. DataPerformed' /\ regs'["freezen"] = "1"
  BY <1>1, <1>6 DEF DataPerformed, NoData
<1>8. "minimal" \in Programs
  BY DEF TextInv
<1>9. \A m2 : Waits(text', m2) => WaitInv(m2)'
  BY <1>7 DEF WaitInv
<1>10. Only(Rest("minimal"), Loading \cup Running)
  <2>1. Only(Rest("minimal"), Running) /\ Running \subseteq Loading \cup Running
    BY <1>8, RestOnly
  <2> QED BY <2>1, OnlyWider
<1>11. CASE text' = Rest("minimal")
  <2>1. Waits(text', 0)
    BY <1>8, <1>11, MinimalRestWaits
  <2> QED BY <1>9, <1>10, <1>11, <2>1 DEF FileInv
<1>12. ASSUME NEW file \in Files,
              text' = LoadFile("minimal", verify, file) \o Rest("minimal"),
              unknown' = (\E k \in DOMAIN file : file[k].kind = "unknown")
       PROVE  FileInv'
  <2>1. Only(text', Loading \cup Running)
    <3>1. PICK a : a = LoadFile("minimal", verify, file) /\ Only(a, Loading)
      BY <1>8, LoadOnly
    <3>2. Only(a, Loading \cup Running)
      <4>1. Loading \subseteq Loading \cup Running
        OBVIOUS
      <4> QED BY <3>1, <4>1, OnlyWider
    <3> QED BY <1>10, <1>12, <3>1, <3>2, OnlyBoth
  <2>2. CASE unknown'
    BY <2>1, <2>2 DEF FileInv
  <2>3. CASE ~unknown'
    <3>1. ~ \E k \in DOMAIN file : file[k].kind = "unknown"
      BY <1>12, <2>3
    <3>2. \E m2 : Waits(text', m2)
      BY <1>8, <1>12, <3>1, MinimalLoadWaits
    <3>3. \E m2 : WaitInv(m2)'
      BY <1>9, <3>2
    <3> QED BY <2>1, <3>3 DEF FileInv
  <2> QED BY <2>2, <2>3
<1> QED BY <1>1, <1>11, <1>12

LEMMA MinimalNext == MinimalInv /\ LinkInv /\ [Next]_vars => MinimalInv'
<1> SUFFICES ASSUME MinimalInv, LinkInv, [Next]_vars
             PROVE  MinimalInv'
  OBVIOUS
<1>1. program' = program
  BY SameProgram
<1>2. {"resetn", "freezen"} \subseteq DOMAIN regs /\ DOMAIN regs' = DOMAIN regs
  <2>1. {"resetn", "freezen"} \subseteq DOMAIN regs
    BY DEF MinimalInv
  <2>2. DOMAIN regs' = DOMAIN regs
    BY <2>1, RegsWritten, RegsKept
  <2> QED BY <2>1, <2>2
<1>3. ASSUME program = "minimal"
      PROVE  (\E m : BootInv(m))' \/ FileInv'
  <2>1. CASE OpenFile
    BY <1>3, <2>1, FileOpened DEF LinkInv
  <2>2. CASE ~OpenFile /\ FileInv
    BY <1>2, <1>3, <2>2, WaitNext
  <2>3. CASE ~OpenFile /\ \E m : BootInv(m)
    <3>1. PICK m : BootInv(m)
      BY <2>3
    <3>2. BootInv(m)'
      BY <1>2, <2>3, <3>1, BootNext DEF LinkInv
    <3> QED BY <3>2
  <2> QED BY <1>3, <2>1, <2>2, <2>3 DEF MinimalInv
<1> QED BY <1>1, <1>2, <1>3 DEF MinimalInv

LEMMA MinimalStarts ==
  ASSUME MinimalInv, LinkInv, program = "minimal", CoreRuns, ~unknown,
         NEW i \in 1 .. Len(sent), sent[i].request.reg = "data"
  PROVE  \E j \in 1 .. Len(performed) : performed[j] = sent[i]
<1>1. regs["resetn"] = "1" /\ regs["freezen"] = "0"
  BY DEF CoreRuns, OutOfReset
<1>2. pc \in Nat
  BY SeqFacts DEF LinkInv, TextInv
<1>3. ASSUME NEW m, BootInv(m)
      PROVE  FALSE
  <2>1. m \in Nat
    BY <1>3, SeqFacts DEF BootInv, HoldsCore, Parts
  <2>2. ~(pc <= m + 1) /\ ~(pc > m + 1)
    BY <1>1, <1>3 DEF BootInv
  <2> QED BY <1>2, <2>1, <2>2
<1>4. PICK m : WaitInv(m)
  BY <1>3 DEF MinimalInv, FileInv
<1>5. m \in Nat
  BY <1>4, SeqFacts DEF WaitInv, Waits, Parts
<1>6. ~(pc <= m)
  BY <1>1, <1>4 DEF WaitInv
<1>7. DataPerformed
  BY <1>2, <1>4, <1>5, <1>6 DEF WaitInv
<1> QED BY <1>7 DEF DataPerformed

\* What the start of the core rests on.
StartInv == ServeInv /\ LastInv /\ RouteInv /\ ManycoreInv /\ MinimalInv

LEMMA StartAlways == Spec => []StartInv
<1>1. Init => StartInv
  BY ServeInit, LastInit, RouteInit, ManycoreInit, MinimalInit DEF StartInv
<1>2. StartInv /\ [Next]_vars => StartInv'
  BY ServeNext, LastNext, RouteNext, ManycoreNext, MinimalNext DEF LinkInv, ServeInv, StartInv
<1> QED BY <1>1, <1>2, PTL DEF Spec

\* nbf_load and the writes behind it: whatever the file and the order in which
\* the endpoint, the network and the core take their steps, the core runs only
\* after the writes of the file (minimal) or to its configuration (hammerblade)
\* have been performed.
THEOREM CoreStartsOnWholeImage == Spec => []StartsOnWholeImage
<1>1. StartInv => StartsOnWholeImage
  <2> SUFFICES ASSUME StartInv, CoreRuns, ~unknown, NEW i \in DOMAIN sent,
                      IF program = "minimal" THEN sent[i].request.reg = "data"
                                             ELSE sent[i].request.dst = "core"
               PROVE  \E j \in DOMAIN performed : performed[j] = sent[i]
    BY DEF StartsOnWholeImage
  <2>1. DOMAIN sent = 1 .. Len(sent) /\ DOMAIN performed = 1 .. Len(performed)
    BY SeqFacts DEF StartInv, ServeInv, LinkInv, SentInv, NetInv, Accounted
  <2>2. CASE program = "minimal"
    BY <2>1, <2>2, MinimalStarts DEF StartInv, ServeInv
  <2>3. CASE program # "minimal"
    BY <2>1, <2>3, HammerbladeStarts DEF StartInv
  <2> QED BY <2>2, <2>3
<1> QED BY <1>1, StartAlways, PTL

-----------------------------------------------------------------------------
\* The instructions of a line that is verified: the write, the read behind it
\* and the wait for the answer, which is to hold what was written.
WriteOf(dst, value) == [do |-> "send", request |-> Request("write", dst, "data", value)]
ReadOf(dst) == [do |-> "send", request |-> Request("read", dst, "data", 0)]

\* Reads are sent by hammerblade only, each between its write and its wait.
Verified(p, t) ==
  /\ IsSeq(t)
  /\ \A i \in 1 .. Len(t) : t[i].do = "await" =>
       /\ p = "hammerblade" /\ i > 2
       /\ \E dst : t[i - 2] = WriteOf(dst, t[i].value) /\ t[i - 1] = ReadOf(dst)
  /\ \A i \in 1 .. Len(t) : t[i].do = "send" /\ t[i].request.kind = "read" =>
       i < Len(t) /\ t[i + 1].do = "await"

Alone(x) == x.do # "await" /\ (x.do = "send" => x.request.kind # "read")

LEMMA VerifiedOne ==
  ASSUME NEW p, NEW x, Alone(x)
  PROVE  Verified(p, <<x>>)
<1>1. PICK s : s = <<x>>
  OBVIOUS
<1>2. s \in Seq({x}) /\ Len(s) = 1 /\ s[1] = x
  BY <1>1
<1>3. Verified(p, s)
  BY <1>2 DEF Verified, Alone, IsSeq
<1> QED BY <1>1, <1>3

LEMMA VerifiedNone ==
  ASSUME NEW p
  PROVE  Verified(p, << >>)
<1>1. PICK e : e = << >> /\ IsSeq(e) /\ Len(e) = 0
  BY EmptyIsSeq
<1>2. Verified(p, e)
  BY <1>1 DEF Verified
<1> QED BY <1>1, <1>2

LEMMA VerifiedBoth ==
  ASSUME NEW p, NEW a, NEW b, Verified(p, a), Verified(p, b)
  PROVE  Verified(p, a \o b)
<1>1. PICK r : r = a \o b /\ JoinOf(a, b, r)
  BY Joined DEF Verified
<1>2. PICK m, n : /\ m = Len(a) /\ n = Len(b) /\ m \in Nat /\ n \in Nat
                  /\ IsSeq(r) /\ Len(r) = m + n
                  /\ \A j \in 1 .. m : r[j] = a[j]
                  /\ \A j \in 1 .. n : r[m + j] = b[j]
  BY <1>1 DEF JoinOf
<1>3. ASSUME NEW i \in 1 .. Len(r), r[i].do = "await"
      PROVE  /\ p = "hammerblade" /\ i > 2
             /\ \E dst : r[i - 2] = WriteOf(dst, r[i].value) /\ r[i - 1] = ReadOf(dst)
  <2>1. CASE i <= m
    <3>1. i \in 1 .. m /\ a[i].do = "await"
      BY <1>2, <1>3, <2>1
    <3>2. PICK dst : /\ p = "hammerblade" /\ i > 2
                     /\ a[i - 2] = WriteOf(dst, a[i].value) /\ a[i - 1] = ReadOf(dst)
      BY <1>2, <3>1 DEF Verified
    <3>3. i - 2 \in 1 .. m /\ i - 1 \in 1 .. m
      BY <1>2, <3>1, <3>2
    <3> QED BY <1>2, <3>1, <3>2, <3>3
  <2>2. CASE i > m
    <3>1. PICK l \in 1 .. n : i = m + l
      <4>1. i - m \in 1 .. n /\ i = m + (i - m)
        BY <1>2, <2>2
      <4> QED BY <4>1
    <3>2. PICK dst : /\ p = "hammerblade" /\ l > 2
                     /\ b[l - 2] = WriteOf(dst, b[l].value) /\ b[l - 1] = ReadOf(dst)
      BY <1>2, <1>3, <3>1 DEF Verified
    <3>3. l - 2 \in 1 .. n /\ l - 1 \in 1 .. n /\ i > 2
      BY <1>2, <3>1, <3>2
    <3>4. m + (l - 2) = i - 2 /\ m + (l - 1) = i - 1
      BY <1>2, <3>1
    <3>5. r[i - 2] = b[l - 2] /\ r[i - 1] = b[l - 1] /\ r[i] = b[l]
      BY <1>2, <3>1, <3>3, <3>4
    <3> QED BY <3>2, <3>3, <3>5
  <2> QED BY <1>2, <2>1, <2>2
<1>4. ASSUME NEW i \in 1 .. Len(r), r[i].do = "send", r[i].request.kind = "read"
      PROVE  i < Len(r) /\ r[i + 1].do = "await"
  <2>1. CASE i <= m
    <3>1. i \in 1 .. m /\ r[i] = a[i]
      BY <1>2, <2>1
    <3>2. i < m /\ a[i + 1].do = "await"
      BY <1>2, <1>4, <3>1 DEF Verified
    <3>3. i + 1 \in 1 .. m /\ i < Len(r)
      BY <1>2, <3>1, <3>2
    <3> QED BY <1>2, <3>2, <3>3
  <2>2. CASE i > m
    <3>1. PICK l \in 1 .. n : i = m + l
      <4>1. i - m \in 1 .. n /\ i = m + (i - m)
        BY <1>2, <2>2
      <4> QED BY <4>1
    <3>2. l < n /\ b[l + 1].do = "await"
      BY <1>2, <1>4, <3>1 DEF Verified
    <3>3. l + 1 \in 1 .. n /\ m + (l + 1) = i + 1 /\ i < Len(r)
      BY <1>2, <3>1, <3>2
    <3>4. r[i + 1] = b[l + 1]
      BY <1>2, <3>3
    <3> QED BY <3>2, <3>3, <3>4
  <2> QED BY <1>2, <2>1, <2>2
<1>5. Verified(p, r)
  BY <1>2, <1>3, <1>4 DEF Verified
<1> QED BY <1>1, <1>5

LEMMA FlattenVerified ==
  ASSUME NEW p, NEW seqs, IsSeq(seqs), \A i \in 1 .. Len(seqs) : Verified(p, seqs[i])
  PROVE  Verified(p, FlattenSeq(seqs))
<1>1. Len(seqs) \in Nat
  BY SeqFacts
<1>2. CASE Len(seqs) = 0
  <2>1. FlattenSeq(seqs) = seqs /\ seqs = << >>
    BY <1>2, SeqFacts DEF FlattenSeq
  <2> QED BY <2>1, VerifiedNone
<1>3. CASE Len(seqs) # 0
  <2>1. Len(seqs) \in Nat \ {0}
    BY <1>1, <1>3
  <2>2. PICK f : Partial(seqs, Len(seqs), f) /\ FlattenSeq(seqs) = f[Len(seqs)]
    BY <2>1, FlattenIsPartial
  <2> DEFINE S == {n \in Nat : n \in 1 .. Len(seqs) => Verified(p, f[n])}
  <2>3. 0 \in S
    OBVIOUS
  <2>4. ASSUME NEW n \in Nat, n \in S
        PROVE  n + 1 \in S
    <3> SUFFICES ASSUME n + 1 \in 1 .. Len(seqs)
                 PROVE  Verified(p, f[n + 1])
      OBVIOUS
    <3>1. f[n + 1] = IF n + 1 = 1 THEN seqs[n + 1] ELSE f[(n + 1) - 1] \o seqs[n + 1]
      BY <2>2, Zenon DEF Partial
    <3>2. CASE n = 0
      <4>1. f[n + 1] = seqs[n + 1]
        BY <3>1, <3>2
      <4> QED BY <4>1
    <3>3. CASE n # 0
      <4>1. n \in 1 .. Len(seqs) /\ (n + 1) - 1 = n /\ n + 1 # 1
        BY <1>1, <3>3
      <4>2. f[n + 1] = f[n] \o seqs[n + 1]
        BY <3>1, <4>1
      <4>3. Verified(p, f[n])
        BY <2>4, <4>1
      <4> QED BY <4>2, <4>3, VerifiedBoth
    <3> QED BY <3>2, <3>3
  <2> HIDE DEF S
  <2>5. \A n \in Nat : n \in S
    BY <2>3, <2>4, Induct
  <2>6. Len(seqs) \in S /\ Len(seqs) \in 1 .. Len(seqs)
    BY <2>1, <2>5
  <2> QED BY <2>2, <2>6 DEF S
<1> QED BY <1>2, <1>3

\* One instruction that neither reads nor waits for an answer.
LEMMA InstructionVerified ==
  ASSUME NEW p
  PROVE  /\ \A reg, value : Verified(p, Write(reg, value))
         /\ \A reg, value : Verified(p, Check(reg, value))
         /\ Verified(p, Tick) /\ Verified(p, Args) /\ Verified(p, Load)
         /\ Verified(p, Drain)
         /\ \A understood, count : Verified(p, Serve(understood, count))
         /\ \A dst, reg, value : Verified(p, Send(Request("write", dst, reg, value)))
<1>1. \A x : Alone(x) => Verified(p, <<x>>)
  BY VerifiedOne
<1>2. /\ \A reg, value : Alone([do |-> "write", reg |-> reg, value |-> value])
      /\ \A reg, value : Alone([do |-> "check", reg |-> reg, value |-> value])
      /\ \A do \in {"tick", "args", "load", "drain"} : Alone([do |-> do])
      /\ \A understood, count :
           Alone([do |-> "serve", understood |-> understood, count |-> count])
      /\ \A dst, reg, value :
           Alone([do |-> "send", request |-> Request("write", dst, reg, value)])
  BY DEF Alone, Request
<1>3. /\ \A reg, value : Verified(p, Write(reg, value))
      /\ \A reg, value : Verified(p, Check(reg, value))
  BY <1>1, <1>2 DEF Write, Check
<1>4. Verified(p, Tick) /\ Verified(p, Args) /\ Verified(p, Load) /\ Verified(p, Drain)
  BY <1>1, <1>2 DEF Tick, Args, Load, Drain
<1>5. \A understood, count : Verified(p, Serve(understood, count))
  BY <1>1, <1>2 DEF Serve
<1>6. \A dst, reg, value : Verified(p, Send(Request("write", dst, reg, value)))
  BY <1>1, <1>2 DEF Send
<1> QED BY <1>3, <1>4, <1>5, <1>6

LEMMA SetupVerified ==
  ASSUME NEW p \in Programs, NEW val
  PROVE  Verified(p, Setup(p, val))
<1>1. \A a, b : Verified(p, a) /\ Verified(p, b) => Verified(p, a \o b)
  BY VerifiedBoth
<1>2. /\ \A reg, value : Verified(p, Write(reg, value))
      /\ \A reg, value : Verified(p, Check(reg, value))
      /\ Verified(p, Tick) /\ Verified(p, Args) /\ Verified(p, Load)
      /\ \A dst, reg, value : Verified(p, Send(Request("write", dst, reg, value)))
  BY InstructionVerified
<1>3. \A value : Verified(p, TestRegister(value))
  BY <1>1, <1>2 DEF TestRegister
<1>4. Verified(p, MinimalSetup)
  BY <1>1, <1>2, <1>3 DEF MinimalSetup
<1>5. Verified(p, MinimalConfig)
  BY <1>1, <1>2 DEF MinimalConfig, MinimalWrite
<1>6. Verified(p, ManycoreSetup)
  BY <1>1, <1>2, <1>3 DEF ManycoreSetup
<1>7. Verified(p, HammerbladeSetup(val))
  BY <1>1, <1>2, <1>3 DEF HammerbladeSetup
<1>8. p \in {"minimal", "manycore", "hammerblade"}
  BY PacketLinkAssumption
<1> QED BY <1>1, <1>2, <1>4, <1>5, <1>6, <1>7, <1>8 DEF Setup

LEMMA RestVerified ==
  ASSUME NEW p \in Programs
  PROVE  Verified(p, Rest(p))
<1>1. \A a, b : Verified(p, a) /\ Verified(p, b) => Verified(p, a \o b)
  BY VerifiedBoth
<1>2. /\ \A reg, value : Verified(p, Write(reg, value))
      /\ \A understood, count : Verified(p, Serve(understood, count))
      /\ \A dst, reg, value : Verified(p, Send(Request("write", dst, reg, value)))
  BY InstructionVerified
<1>3. Verified(p, MinimalRun) /\ Verified(p, MinimalEnd)
  BY <1>1, <1>2 DEF MinimalRun, MinimalEnd, MinimalWrite
<1>4. Verified(p, ManycoreServe)
  BY <1>2 DEF ManycoreServe
<1>5. Verified(p, HammerbladeServeTiles) /\ Verified(p, HammerbladeServeCore)
  BY <1>2 DEF HammerbladeServeTiles, HammerbladeServeCore
<1>6. Verified(p, HammerbladeConfig)
  BY <1>1, <1>2 DEF HammerbladeConfig, HammerbladeWrite
<1>7. p \in {"minimal", "manycore", "hammerblade"}
  BY PacketLinkAssumption
<1> QED BY <1>1, <1>3, <1>4, <1>5, <1>6, <1>7 DEF Rest

\* A line with the read that verifies it.
LEMMA ReadVerified ==
  ASSUME NEW dst, NEW value
  PROVE  Verified("hammerblade",
                  HammerbladeWrite(dst, "data", value) \o HammerbladeRead(dst, "data", value))
<1>1. PICK w, r, a : /\ w = WriteOf(dst, value) /\ r = ReadOf(dst)
                     /\ a = [do |-> "await", value |-> value]
  OBVIOUS
<1>2. HammerbladeWrite(dst, "data", value) = <<w>>
  BY <1>1 DEF HammerbladeWrite, Send, WriteOf
<1>3. HammerbladeRead(dst, "data", value) = <<r>> \o <<a>>
  BY <1>1 DEF HammerbladeRead, Send, Await, ReadOf
<1>4. PICK s : s = <<w>> \o (<<r>> \o <<a>>)
  OBVIOUS
<1>5. s \in Seq({w, r, a}) /\ Len(s) = 3 /\ s[1] = w /\ s[2] = r /\ s[3] = a
  BY <1>4
<1>6. /\ w.do = "send" /\ w.request.kind = "write" /\ r.do = "send"
      /\ a.do = "await" /\ a.value = value
  BY <1>1 DEF WriteOf, ReadOf, Request
<1>7. \A i \in 1 .. Len(s) : i = 1 \/ i = 2 \/ i = 3
  BY <1>5
<1>8. ASSUME NEW i \in 1 .. Len(s), s[i].do = "await"
      PROVE  i > 2 /\ s[i - 2] = WriteOf(dst, s[i].value) /\ s[i - 1] = ReadOf(dst)
  <2>1. i = 3
    BY <1>5, <1>6, <1>7, <1>8
  <2>2. i - 2 = 1 /\ i - 1 = 2
    BY <2>1
  <2> QED BY <1>1, <1>5, <1>6, <2>1, <2>2
<1>9. ASSUME NEW i \in 1 .. Len(s), s[i].do = "send", s[i].request.kind = "read"
      PROVE  i < Len(s) /\ s[i + 1].do = "await"
  <2>1. i = 2
    BY <1>5, <1>6, <1>7, <1>9
  <2> QED BY <1>5, <1>6, <2>1
<1>10. Verified("hammerblade", s)
  BY <1>5, <1>8, <1>9 DEF Verified, IsSeq
<1> QED BY <1>2, <1>3, <1>4, <1>10

LEMMA CommandVerified ==
  /\ \A p, command, k : Verified(p, MinimalCommand(command, k))
  /\ \A p, command, k : Verified(p, ManycoreCommand(command, k))
  /\ \A v, command, k : Verified("hammerblade", HammerbladeCommand(v, command, k))
<1>1. /\ \A p, dst, value : Verified(p, Send(Request("write", dst, "data", value)))
      /\ \A p : Verified(p, Drain)
  BY InstructionVerified
<1>2. \A p : Verified(p, << >>)
  BY VerifiedNone
<1>3. \A p, command, k : Verified(p, MinimalCommand(command, k))
  BY <1>1, <1>2 DEF MinimalCommand, MinimalWrite
<1>4. \A p, command, k : Verified(p, ManycoreCommand(command, k))
  BY <1>1, <1>2 DEF ManycoreCommand, ManycoreWrite
<1>5. \A dst, value :
        Verified("hammerblade", HammerbladeWrite(dst, "data", value) \o << >>)
  BY <1>1, <1>2, VerifiedBoth DEF HammerbladeWrite
<1>6. ASSUME NEW v, NEW command, NEW k
      PROVE  Verified("hammerblade", HammerbladeCommand(v, command, k))
  <2>1. CASE v
    BY <1>1, <1>2, <2>1, ReadVerified DEF HammerbladeCommand
  <2>2. CASE ~v
    BY <1>1, <1>2, <1>5, <2>2 DEF HammerbladeCommand
  <2> QED BY <2>1, <2>2
<1> QED BY <1>3, <1>4, <1>6

LEMMA LoadedVerified ==
  ASSUME NEW s, IsSeq(s), NEW v, NEW p
  PROVE  /\ Verified(p, FlattenSeq([k \in 1 .. Len(s) |-> MinimalCommand(s[k], k)]))
         /\ Verified(p, FlattenSeq([k \in 1 .. Len(s) |-> ManycoreCommand(s[k], k)]))
         /\ Verified("hammerblade",
                     FlattenSeq([k \in 1 .. Len(s) |-> HammerbladeCommand(v, s[k], k)]))
<1>1. Len(s) \in Nat
  BY SeqFacts
<1>2. \A t : t = [k \in 1 .. Len(s) |-> t[k]] => IsSeq(t) /\ Len(t) = Len(s)
  <2> TAKE t
  <2> HAVE t = [k \in 1 .. Len(s) |-> t[k]]
  <2>1. PICK S : S = {t[k] : k \in 1 .. Len(s)}
    OBVIOUS
  <2>2. t \in Seq(S) /\ Len(t) = Len(s)
    BY <1>1, <2>1
  <2> QED BY <2>2 DEF IsSeq
<1>3. ASSUME NEW q, NEW t, t = [k \in 1 .. Len(s) |-> t[k]],
             \A k \in 1 .. Len(s) : Verified(q, t[k])
      PROVE  Verified(q, FlattenSeq(t))
  BY <1>2, <1>3, FlattenVerified
<1>4. PICK t : t = [k \in 1 .. Len(s) |-> MinimalCommand(s[k], k)]
  OBVIOUS
<1>5. PICK u : u = [k \in 1 .. Len(s) |-> ManycoreCommand(s[k], k)]
  OBVIOUS
<1>6. PICK w : w = [k \in 1 .. Len(s) |-> HammerbladeCommand(v, s[k], k)]
  OBVIOUS
<1>7. Verified(p, FlattenSeq(t))
  BY <1>3, <1>4, CommandVerified
<1>8. Verified(p, FlattenSeq(u))
  BY <1>3, <1>5, CommandVerified
<1>9. Verified("hammerblade", FlattenSeq(w))
  BY <1>3, <1>6, CommandVerified
<1> QED BY <1>4, <1>5, <1>6, <1>7, <1>8, <1>9, Zenon

LEMMA LoadVerified ==
  ASSUME NEW p \in Programs, NEW v, NEW file \in Files
  PROVE  Verified(p, LoadFile(p, v, file))
<1>1. IsSeq(file)
  BY PacketLinkAssumption DEF IsSeq
<1>2. Verified(p, MinimalLoad(file))
  <2>1. CASE \E k \in 1 .. Len(file) : file[k].kind = "unknown"
    <3>1. PICK s : /\ s = SubSeq(file, 1, SelectInSeq(file, LAMBDA c : c.kind = "unknown") - 1)
                   /\ IsSeq(s)
      BY <1>1, <2>1, BeforeUnknown
    <3>2. MinimalLoad(file) = FlattenSeq([k \in 1 .. Len(s) |-> MinimalCommand(s[k], k)])
      BY <2>1, <3>1 DEF MinimalLoad, Loaded
    <3> QED BY <3>1, <3>2, LoadedVerified
  <2>2. CASE ~\E k \in 1 .. Len(file) : file[k].kind = "unknown"
    <3>1. MinimalLoad(file)
            = FlattenSeq([k \in 1 .. Len(file) |-> MinimalCommand(file[k], k)]) \o Drain
      BY <2>2 DEF MinimalLoad, Loaded
    <3>2. Verified(p, Drain)
      BY InstructionVerified
    <3> QED BY <1>1, <3>1, <3>2, LoadedVerified, VerifiedBoth
  <2> QED BY <2>1, <2>2
<1>3. p \in {"minimal", "manycore", "hammerblade"}
  BY PacketLinkAssumption
<1>4. Verified(p, Loaded(file, ManycoreCommand))
  BY <1>1, LoadedVerified DEF Loaded
<1>5. CASE p = "hammerblade"
  <2>1. LoadFile(p, v, file)
          = FlattenSeq([k \in 1 .. Len(file) |-> HammerbladeCommand(v, file[k], k)])
    BY <1>5 DEF LoadFile, Loaded
  <2> QED BY <1>1, <1>5, <2>1, LoadedVerified
<1> QED BY <1>2, <1>3, <1>4, <1>5 DEF LoadFile

-----------------------------------------------------------------------------
\* What has been sent when the program reads behind a line, and when it waits.
TailInv ==
  /\ Verified(program, text)
  /\ pc + 1 <= Len(text) /\ text[pc + 1].do = "await" =>
       /\ Len(sent) > 0
       /\ \E dst : /\ text[pc] = ReadOf(dst)
                   /\ sent[Len(sent)].request
                        = Request("write", dst, "data", text[pc + 1].value)
  /\ pc <= Len(text) /\ text[pc].do = "await" =>
       /\ Len(sent) > 1
       /\ \E dst : /\ sent[Len(sent)].request = Request("read", dst, "data", 0)
                   /\ sent[Len(sent) - 1].request
                        = Request("write", dst, "data", text[pc].value)

LEMMA OnlySends ==
  ASSUME [Next]_vars, ~StartSend, ~OpenFile
  PROVE  /\ text' = text /\ sent' = sent
         /\ pc' = pc \/ (pc' = pc + 1 /\ pc <= Len(text) /\ text[pc].do # "send")
<1>1. text' = text /\ sent' = sent
  BY MovesOn
<1>2. CASE WriteRegister \/ CheckRegister \/ TickClock \/ TakeArguments \/ VerifyAnswer
  BY <1>1, <1>2 DEF WriteRegister, CheckRegister, TickClock, TakeArguments, VerifyAnswer,
                    At, instr
<1>3. CASE HandleDemand \/ DrainCredits
  BY <1>1, <1>3 DEF HandleDemand, DrainCredits, At, instr
<1>4. CASE SendWord \/ ReceiveWord \/ Done
  BY <1>1, <1>4 DEF SendWord, ReceiveWord, Done
<1>5. CASE EndpointStep \/ Network
  BY <1>1, <1>5 DEF EndpointStep, Gather, Feed, Launch, GetReply, Network, Perform, ps
<1>6. ASSUME NEW kind, TileDemand(kind) \/ CoreDemand(kind)
      PROVE  pc' = pc
  BY <1>6 DEF TileDemand, CoreDemand, Demand, ps
<1>7. CASE UNCHANGED vars
  BY <1>1, <1>7 DEF vars, ps
<1> QED BY <1>1, <1>2, <1>3, <1>4, <1>5, <1>6, <1>7 DEF Next, ProgramStep

LEMMA VerifiedOpened ==
  ASSUME TextInv, OpenFile
  PROVE  Verified(program, text') /\ pc' = 1
<1>1. /\ pc' = 1
      /\ \/ \E file \in Files : text' = LoadFile(program, verify, file) \o Rest(program)
         \/ text' = Rest(program)
  BY DEF OpenFile
<1>2. PICK p, rest : p = program /\ p \in Programs /\ rest = Rest(p) /\ Verified(p, rest)
  BY RestVerified DEF TextInv
<1>3. CASE text' = Rest(program)
  BY <1>1, <1>2, <1>3
<1>4. ASSUME NEW file \in Files, text' = LoadFile(program, verify, file) \o Rest(program)
      PROVE  Verified(program, text')
  <2>1. Verified(p, LoadFile(p, verify, file))
    BY <1>2, LoadVerified
  <2> QED BY <1>2, <1>4, <2>1, VerifiedBoth
<1> QED BY <1>1, <1>3, <1>4

LEMMA TailNext == TailInv /\ TextInv /\ SentInv /\ [Next]_vars => TailInv'
<1> SUFFICES ASSUME TailInv, TextInv, SentInv, [Next]_vars
             PROVE  TailInv'
  OBVIOUS
<1>1. PICK p : p = program /\ p = program'
  BY SameProgram
<1>2. PICK t, c, l : /\ t = text /\ c = pc /\ l = Len(text) /\ l \in Nat /\ c \in 1 .. l + 1
                     /\ Verified(p, t)
  BY <1>1, SeqFacts DEF TextInv, TailInv
<1>3. ASSUME NEW i \in 1 .. l, t[i].do = "await"
      PROVE  i > 2 /\ t[i - 2].do = "send" /\ t[i - 1].do = "send"
  <2>1. PICK dst : /\ i > 2
                   /\ t[i - 2] = WriteOf(dst, t[i].value) /\ t[i - 1] = ReadOf(dst)
    BY <1>2, <1>3 DEF Verified
  <2> QED BY <2>1 DEF WriteOf, ReadOf
<1>4. CASE OpenFile
  <2>1. PICK u : u = text' /\ Verified(p, u) /\ pc' = 1
    BY <1>1, <1>4, VerifiedOpened
  <2>2. Len(u) \in Nat
    BY <2>1, SeqFacts DEF Verified
  <2>3. \A i \in 1 .. Len(u) : u[i].do = "await" => i > 2
    BY <2>1 DEF Verified
  <2>4. ~(1 <= Len(u) /\ u[1].do = "await") /\ ~(1 + 1 <= Len(u) /\ u[1 + 1].do = "await")
    BY <2>2, <2>3
  <2> QED BY <1>1, <2>1, <2>4 DEF TailInv
<1>5. CASE StartSend
  <2>1. /\ text' = t /\ pc' = c + 1 /\ c \in 1 .. l /\ t[c].do = "send"
        /\ sent' = Append(sent, Numbered(t[c].request))
    BY <1>2, <1>5 DEF StartSend, At, instr
  <2>2. PICK s, x, s2 : /\ s = sent /\ s2 = sent' /\ x = Numbered(t[c].request)
                        /\ Grows(s, x, s2)
    BY <2>1, Grown DEF SentInv
  <2>3. PICK n \in Nat : /\ n = Len(s) /\ Len(s2) = n + 1 /\ s2[n + 1] = x
                         /\ \A j \in 1 .. n : s2[j] = s[j]
    BY <2>2 DEF Grows
  <2>4. x.request = t[c].request
    BY <2>2 DEF Numbered
  <2>5. ASSUME c + 2 <= l, t[c + 2].do = "await"
        PROVE  \E dst : /\ t[c + 1] = ReadOf(dst)
                        /\ x.request = Request("write", dst, "data", t[c + 2].value)
    <3>1. c + 2 \in 1 .. l /\ (c + 2) - 2 = c /\ (c + 2) - 1 = c + 1
      BY <2>1, <2>5
    <3>2. PICK dst : t[c] = WriteOf(dst, t[c + 2].value) /\ t[c + 1] = ReadOf(dst)
      BY <1>2, <2>5, <3>1 DEF Verified
    <3> QED BY <2>4, <3>2 DEF WriteOf
  <2>6. ASSUME c + 1 <= l, t[c + 1].do = "await"
        PROVE  /\ n > 0
               /\ \E dst : /\ x.request = Request("read", dst, "data", 0)
                           /\ s[n].request = Request("write", dst, "data", t[c + 1].value)
    <3>1. PICK dst : /\ Len(s) > 0 /\ t[c] = ReadOf(dst)
                     /\ s[Len(s)].request = Request("write", dst, "data", t[c + 1].value)
      BY <1>2, <2>2, <2>6 DEF TailInv
    <3> QED BY <2>3, <2>4, <3>1 DEF ReadOf
  <2>7. Len(s2) > 0 /\ (n > 0 => Len(s2) > 1 /\ s2[Len(s2) - 1] = s[n])
        /\ s2[Len(s2)] = x
    BY <2>3
  <2>8. (c + 1) + 1 = c + 2
    BY <1>2
  <2>9. ASSUME (c + 1) + 1 <= l, t[(c + 1) + 1].do = "await"
        PROVE  /\ Len(s2) > 0
               /\ \E dst : /\ t[c + 1] = ReadOf(dst)
                           /\ s2[Len(s2)].request
                                = Request("write", dst, "data", t[(c + 1) + 1].value)
    BY <2>5, <2>7, <2>8, <2>9
  <2>10. ASSUME c + 1 <= l, t[c + 1].do = "await"
         PROVE  /\ Len(s2) > 1
                /\ \E dst : /\ s2[Len(s2)].request = Request("read", dst, "data", 0)
                            /\ s2[Len(s2) - 1].request
                                 = Request("write", dst, "data", t[c + 1].value)
    BY <2>6, <2>7, <2>10
  <2> QED BY <1>1, <1>2, <2>1, <2>2, <2>9, <2>10 DEF TailInv
<1>6. CASE ~OpenFile /\ ~StartSend
  <2>1. /\ text' = t /\ sent' = sent
        /\ pc' = c \/ (pc' = c + 1 /\ c \in 1 .. l /\ t[c].do # "send")
    BY <1>2, <1>6, OnlySends
  <2>2. CASE pc' = c
    BY <1>1, <1>2, <2>1, <2>2 DEF TailInv
  <2>3. CASE pc' = c + 1 /\ c \in 1 .. l /\ t[c].do # "send"
    <3>1. ~(c + 1 <= l /\ t[c + 1].do = "await")
      <4>1. (c + 1 <= l => c + 1 \in 1 .. l) /\ (c + 1) - 1 = c
        BY <1>2
      <4> QED BY <1>3, <2>3, <4>1
    <3>2. ~((c + 1) + 1 <= l /\ t[(c + 1) + 1].do = "await")
      <4>1. ((c + 1) + 1 <= l => (c + 1) + 1 \in 1 .. l) /\ ((c + 1) + 1) - 2 = c
        BY <1>2
      <4> QED BY <1>3, <2>3, <4>1
    <3> QED BY <1>1, <1>2, <2>1, <2>3, <3>1, <3>2 DEF TailInv
  <2> QED BY <2>1, <2>2, <2>3
<1> QED BY <1>4, <1>5, <1>6

LEMMA TailInit == Init => TailInv
<1> SUFFICES ASSUME Init
             PROVE  TailInv
  OBVIOUS
<1>1. program \in Programs /\ pc = 1 /\ \E val : text = Setup(program, val)
  BY DEF Init
<1>2. PICK t : t = text /\ Verified(program, t)
  BY <1>1, SetupVerified
<1>3. Len(t) \in Nat
  BY <1>2, SeqFacts DEF Verified
<1>4. \A i \in 1 .. Len(t) : t[i].do = "await" => i > 2
  BY <1>2 DEF Verified
<1>5. ~(1 <= Len(t) /\ t[1].do = "await") /\ ~(1 + 1 <= Len(t) /\ t[1 + 1].do = "await")
  BY <1>3, <1>4
<1> QED BY <1>1, <1>2, <1>5 DEF TailInv

-----------------------------------------------------------------------------
\* Requests to one destination are performed in the order they were sent in.
Sorted(u) ==
  \A p, q \in 1 .. Len(u) :
    p < q /\ u[p].request.dst = u[q].request.dst => u[p].n < u[q].n

SortedInv == program # "minimal" => Sorted(performed)

WholeSent == \A j \in 1 .. Len(sent) : sent[j] # Garbled

LEMMA SortedInit == Init => SortedInv /\ WholeSent
<1>1. PICK e : e = << >> /\ Len(e) = 0
  BY EmptyIsSeq
<1> QED BY <1>1 DEF Init, SortedInv, Sorted, WholeSent

LEMMA WholeSentNext == WholeSent /\ SentInv /\ [Next]_vars => WholeSent'
<1> SUFFICES ASSUME WholeSent, SentInv, [Next]_vars
             PROVE  WholeSent'
  OBVIOUS
<1>1. PICK s, s2, x : s = sent /\ s2 = sent' /\ x = Numbered(instr.request)
  OBVIOUS
<1>2. s2 = s \/ Grows(s, x, s2)
  BY <1>1, ConfiguredLasts
<1>3. x # Garbled
  <2>1. x.by = "request" /\ "by" \in DOMAIN x /\ DOMAIN Garbled = {"kind"}
    BY <1>1 DEF Numbered, Garbled
  <2> QED BY <2>1
<1>4. CASE s2 = s
  BY <1>1, <1>4 DEF WholeSent
<1>5. CASE Grows(s, x, s2)
  <2>1. \A j \in 1 .. Len(s2) : s2[j] = x \/ (j \in 1 .. Len(s) /\ s2[j] = s[j])
    BY <1>5 DEF Grows
  <2> QED BY <1>1, <1>3, <2>1 DEF WholeSent
<1> QED BY <1>2, <1>4, <1>5

LEMMA PerformedBy ==
  ASSUME [Next]_vars
  PROVE  performed' = performed \/ \E i : Perform(i)
<1>1. CASE ProgramStep
  BY <1>1 DEF ProgramStep, WriteRegister, CheckRegister, TickClock, TakeArguments,
              OpenFile, StartSend, SendWord, ReceiveWord, VerifyAnswer, HandleDemand,
              DrainCredits, Done, pl
<1>2. CASE EndpointStep
  BY <1>2 DEF EndpointStep, Gather, Feed, Launch, GetReply
<1>3. ASSUME NEW kind, TileDemand(kind) \/ CoreDemand(kind)
      PROVE  performed' = performed
  BY <1>3 DEF TileDemand, CoreDemand, Demand
<1>4. CASE UNCHANGED vars
  BY <1>4 DEF vars, pl
<1> QED BY <1>1, <1>2, <1>3, <1>4 DEF Next, Network

LEMMA SortedNext == SortedInv /\ RouteInv /\ NetInv /\ [Next]_vars => SortedInv'
<1> SUFFICES ASSUME SortedInv, RouteInv, NetInv, [Next]_vars, program' # "minimal"
             PROVE  Sorted(performed')
  BY DEF SortedInv
<1>1. program # "minimal" /\ Sorted(performed) /\ Ordered(net, performed)
  BY SameProgram DEF SortedInv, RouteInv
<1>2. CASE performed' = performed
  BY <1>1, <1>2
<1>3. ASSUME NEW i, Perform(i)
      PROVE  Sorted(performed')
  <2>1. PICK t, u, x, v : /\ t = net /\ u = performed /\ v = performed' /\ x = t[i]
                          /\ v = Append(u, x) /\ i \in 1 .. Len(t)
    BY <1>3 DEF Perform
  <2>2. PICK n \in Nat : /\ n = Len(u) /\ Len(v) = n + 1 /\ v[n + 1] = x
                         /\ \A j \in 1 .. n : v[j] = u[j]
    <3>1. Grows(u, x, v)
      BY <2>1, Grown DEF NetInv, Accounted
    <3> QED BY <3>1 DEF Grows
  <2>3. ASSUME NEW p \in 1 .. Len(v), NEW q \in 1 .. Len(v), p < q,
               v[p].request.dst = v[q].request.dst
        PROVE  v[p].n < v[q].n
    <3>1. p \in 1 .. n /\ v[p] = u[p]
      BY <2>2, <2>3
    <3>2. CASE q \in 1 .. n
      <4>1. v[q] = u[q]
        BY <2>2, <3>2
      <4> QED BY <1>1, <2>1, <2>2, <2>3, <3>1, <3>2, <4>1 DEF Sorted
    <3>3. CASE q = n + 1
      BY <1>1, <2>1, <2>2, <2>3, <3>1, <3>3 DEF Ordered
    <3> QED BY <2>2, <3>2, <3>3
  <2> QED BY <2>1, <2>3 DEF Sorted
<1> QED BY <1>2, <1>3, PerformedBy

\* What is under way was sent, and has not been performed.
LEMMA NetSent ==
  ASSUME ServeInv, RouteInv, program # "minimal", NEW i \in 1 .. Len(net)
  PROVE  /\ net[i].n \in 1 .. Len(launched) /\ net[i] = sent[net[i].n]
         /\ \A m \in 1 .. Len(performed) : performed[m] # net[i]
<1>1. PICK t, u, s : t = net /\ u = performed /\ s = launched /\ Accounted(s, t, u)
  BY DEF ServeInv, LinkInv, NetInv
<1>2. PICK j \in 1 .. Len(s) : t[i] = s[j]
  BY <1>1 DEF Accounted, Within
<1>3. s[j] = sent[j] /\ s[j].n = j
  BY <1>1, LaunchedNumbers
<1>4. ASSUME NEW m \in 1 .. Len(u), u[m] = t[i]
      PROVE  FALSE
  <2>1. u[m].n < t[i].n
    BY <1>1, <1>4 DEF RouteInv, Ordered
  <2>2. t[i].n \in Nat
    BY <1>1 DEF RouteInv, Ordered
  <2> QED BY <1>4, <2>1, <2>2
<1> QED BY <1>1, <1>2, <1>3, <1>4

\* When a request takes effect, what the one sent before it wrote to the same
\* destination is what is stored there.
LEMMA StoredBefore ==
  ASSUME ServeInv, RouteInv, SortedInv, WholeSent, program # "minimal",
         NEW i, Perform(i), NEW w \in 1 .. Len(sent), net[i].n = w + 1,
         NEW dst, NEW reg, NEW value, net[i].request.dst = dst,
         sent[w].request = Request("write", dst, reg, value)
  PROVE  Stored(dst, reg) = value
<1>1. PICK t, u, s : t = net /\ u = performed /\ s = launched /\ Accounted(s, t, u)
  BY DEF ServeInv, LinkInv, NetInv
<1>2. /\ i \in 1 .. Len(t)
      /\ \A j \in 1 .. i - 1 : t[j].request.dst # t[i].request.dst
  BY <1>1 DEF Perform, SameRoute
<1>3. /\ Ordered(t, u) /\ Sorted(u)
      /\ \A j \in 1 .. Len(s) : s[j] = sent[j] /\ s[j].n = j
      /\ Len(s) \in Nat /\ Len(sent) \in Nat /\ Len(s) <= Len(sent)
      /\ Len(t) \in Nat /\ Len(u) \in Nat
  <2>1. Ordered(t, u) /\ Sorted(u)
    BY <1>1 DEF RouteInv, SortedInv
  <2>2. Len(t) \in Nat /\ Len(u) \in Nat
    BY <1>1, SeqFacts DEF Accounted
  <2> QED BY <1>1, <2>1, <2>2, LaunchedNumbers
<1>4. w \in 1 .. Len(s) /\ w \in Nat /\ t[i].n = w + 1
  <2>1. net[i].n \in 1 .. Len(launched)
    BY <1>1, <1>2, NetSent
  <2> QED BY <1>1, <1>3, <2>1
<1>5. /\ s[w].request.kind = "write" /\ s[w].request.dst = dst
      /\ s[w].request.reg = reg /\ s[w].request.value = value /\ s[w].n = w
  BY <1>3, <1>4 DEF Request
<1>6. PICK m \in 1 .. Len(u) : u[m] = s[w]
  <2>1. ASSUME NEW q \in 1 .. Len(t), t[q] = s[w]
        PROVE  FALSE
    <3>1. t[q].n < t[i].n
      BY <1>4, <1>5, <2>1
    <3>2. q < i
      <4>1. ~(i < q)
        BY <1>2, <1>3, <1>4, <1>5, <2>1, <3>1 DEF Ordered
      <4>2. q # i
        BY <1>4, <1>5, <2>1
      <4> QED BY <1>2, <1>3, <4>1, <4>2
    <3>3. q \in 1 .. i - 1
      BY <1>2, <1>3, <3>2
    <3> QED BY <1>1, <1>2, <1>5, <2>1, <3>3
  <2> QED BY <1>1, <1>4, <2>1 DEF Accounted, Covered
<1>7. PICK writes : writes = {j \in DOMAIN performed :
                   /\ performed[j] # Garbled
                   /\ performed[j].request.kind = "write"
                   /\ performed[j].request.dst = dst /\ performed[j].request.reg = reg}
  OBVIOUS
<1>8. DOMAIN u = 1 .. Len(u)
  BY <1>1, SeqFacts DEF Accounted
<1>9. m \in writes /\ writes \subseteq 1 .. Len(u)
  <2>1. u[m] # Garbled
    BY <1>3, <1>4, <1>6 DEF WholeSent
  <2> QED BY <1>1, <1>5, <1>6, <1>7, <1>8, <2>1
<1>10. ASSUME NEW j \in writes
       PROVE  j <= m
  <2>1. j \in 1 .. Len(u) /\ u[j].request.dst = dst
    BY <1>1, <1>7, <1>9
  <2>2. u[j].n < w + 1
    BY <1>1, <1>2, <1>3, <1>4, <2>1 DEF Ordered
  <2>3. u[j].n \in Nat
    <3>1. PICK k \in 1 .. Len(s) : u[j] = s[k]
      BY <1>1, <2>1 DEF Accounted, Within
    <3> QED BY <1>3, <3>1
  <2>4. ~(m < j)
    <3> SUFFICES ASSUME m < j
                 PROVE  FALSE
      OBVIOUS
    <3>1. u[m].n < u[j].n
      BY <1>3, <1>5, <1>6, <2>1 DEF Sorted
    <3> QED BY <1>4, <1>5, <1>6, <2>2, <2>3, <3>1
  <2> QED BY <1>3, <2>1, <2>4
<1>11. Max(writes) = m
  <2>1. Max(writes) \in writes /\ m <= Max(writes)
    <3>1. writes # {}
      BY <1>9
    <3> QED BY <1>3, <1>9, <3>1, MaxIn
  <2>2. PICK h : h = Max(writes) /\ h \in writes /\ m <= h
    BY <2>1
  <2>3. h \in 1 .. Len(u) /\ h <= m
    BY <1>9, <1>10, <2>2
  <2> QED BY <1>3, <2>2, <2>3
<1>12. Stored(dst, reg) = performed[Max(writes)].request.value
  BY <1>7, <1>9, Zenon DEF Stored
<1> QED BY <1>1, <1>5, <1>6, <1>11, <1>12

-----------------------------------------------------------------------------
\* The program waits for an answer.
Awaiting == pc <= Len(text) /\ text[pc].do = "await"

ReadPerformed(j) ==
  sent[j].request.kind = "read" =>
    \E m \in 1 .. Len(performed) : performed[m] = sent[j]

Answered == \A j \in 1 .. Len(sent) : ReadPerformed(j)

Quiet == pl2ps[Wires(program).answer] = << >> /\ serial[Wires(program).answer] = << >>

\* The read has been sent and its answer is not on its way yet, or it is.
Unanswered ==
  /\ \A j \in 1 .. Len(sent) - 1 : ReadPerformed(j)
  /\ Quiet /\ inbox = << >>

\* What was read at a destination is what the awaited line wrote, unless it is a
\* register.
Agrees(dst, found) == found = text[pc].value \/ dst \in Csrs

Answering(x) ==
  /\ Answered /\ Agrees(x.request.dst, x.request.value)
  /\ Line(<<x>>, 0, inbox, pl2ps[Wires(program).answer], serial[Wires(program).answer])

ReadInv ==
  program = "hammerblade" =>
    /\ Awaiting => Unanswered \/ \E x : Answering(x)
    /\ ~Awaiting => Answered /\ Quiet

LEMMA ReadInit == Init => ReadInv
<1> SUFFICES ASSUME Init
             PROVE  ReadInv
  OBVIOUS
<1>1. PICK e : e = << >> /\ Len(e) = 0
  BY EmptyIsSeq
<1>2. sent = e /\ inbox = e /\ pl2ps = [k \in 0 .. 1 |-> e] /\ serial = [k \in 0 .. 1 |-> e]
  BY <1>1 DEF Init
<1>3. program \in Programs
  BY DEF Init
<1>4. Answered /\ \A j \in 1 .. Len(sent) - 1 : ReadPerformed(j)
  BY <1>1, <1>2 DEF Answered
<1>5. Quiet
  <2>1. Wires(program).answer \in 0 .. 1
    BY <1>3, Wired
  <2> QED BY <1>1, <1>2, <2>1 DEF Quiet
<1> QED BY <1>1, <1>2, <1>4, <1>5 DEF ReadInv, Unanswered

LEMMA ReadsStay ==
  ASSUME NetInv, [Next]_vars, NEW j, sent'[j] = sent[j], ReadPerformed(j)
  PROVE  ReadPerformed(j)'
<1>1. CASE performed' = performed
  BY <1>1 DEF ReadPerformed
<1>2. ASSUME NEW i, Perform(i)
      PROVE  ReadPerformed(j)'
  <2>1. PICK u, x, v : u = performed /\ v = performed' /\ v = Append(u, x)
    BY <1>2 DEF Perform
  <2>2. Grows(u, x, v)
    BY <2>1, Grown DEF NetInv, Accounted
  <2>3. \A m \in 1 .. Len(u) : m \in 1 .. Len(v) /\ v[m] = u[m]
    BY <2>2 DEF Grows
  <2> QED BY <2>1, <2>3 DEF ReadPerformed
<1> QED BY <1>1, <1>2, PerformedBy

\* A step that leaves the answers, what was sent and the program's place alone.
LEMMA ReadFrame ==
  ASSUME ReadInv, NetInv, [Next]_vars, sent' = sent, text' = text, pc' = pc,
         LET a == Wires(program).answer
         IN /\ pl2ps'[a] = pl2ps[a] /\ serial'[a] = serial[a]
            /\ Awaiting => inbox' = inbox
  PROVE  ReadInv'
<1>1. program' = program
  BY SameProgram
<1>2. Awaiting' <=> Awaiting
  BY Zenon DEF Awaiting
<1>3. \A j : ReadPerformed(j) => ReadPerformed(j)'
  BY ReadsStay
<1>4. Answered => Answered'
  BY <1>3 DEF Answered
<1>5. Quiet => Quiet'
  BY <1>1 DEF Quiet
<1>6. Awaiting /\ Unanswered => Unanswered'
  BY <1>3, <1>5 DEF Unanswered
<1>7. ASSUME Awaiting, NEW x, Answering(x)
      PROVE  Answering(x)'
  <2>1. inbox' = inbox
    BY <1>7
  <2> QED BY <1>1, <1>4, <1>7, <2>1 DEF Answering, Agrees
<1>8. Awaiting /\ (\E x : Answering(x)) => (\E x : Answering(x))'
  BY <1>7
<1> QED BY <1>1, <1>2, <1>4, <1>5, <1>6, <1>8 DEF ReadInv

\* A step to the next instruction, from one that waits for no answer.
LEMMA ReadMoves ==
  ASSUME ReadInv, NetInv, [Next]_vars, sent' = sent, ~Awaiting, ~Awaiting',
         pl2ps' = pl2ps, serial' = serial
  PROVE  ReadInv'
<1>1. program' = program
  BY SameProgram
<1>2. \A j : ReadPerformed(j) => ReadPerformed(j)'
  BY ReadsStay
<1> QED BY <1>1, <1>2 DEF ReadInv, Answered, Quiet

\* An instruction that sends nothing is followed by none that waits.
LEMMA NoneWaits ==
  ASSUME TailInv, TextInv, text' = text,
         pc <= Len(text), text[pc].do # "send", pc' = pc + 1
  PROVE  ~Awaiting'
<1>1. PICK t, l : t = text /\ l = Len(t) /\ l \in Nat /\ pc \in 1 .. l + 1
                  /\ Verified(program, t)
  BY SeqFacts DEF TextInv, TailInv
<1> SUFFICES ASSUME pc + 1 <= l, t[pc + 1].do = "await"
             PROVE  FALSE
  BY <1>1 DEF Awaiting
<1>2. pc + 1 \in 1 .. l /\ (pc + 1) - 1 = pc
  BY <1>1
<1>3. PICK dst : t[(pc + 1) - 1] = ReadOf(dst)
  BY <1>1, <1>2 DEF Verified
<1> QED BY <1>1, <1>2, <1>3 DEF ReadOf

LEMMA NotAwaiting ==
  ASSUME NEW do, At(do), do # "await"
  PROVE  ~Awaiting
BY DEF At, instr, Awaiting

LEMMA StartSendRead ==
  ASSUME ReadInv, TailInv, TextInv, SentInv, DemandInv, NetInv, StartSend, [Next]_vars
  PROVE  ReadInv'
<1> SUFFICES ASSUME program' = "hammerblade"
             PROVE  ReadInv'
  BY DEF ReadInv
<1>1. program = "hammerblade" /\ program' = program
  BY SameProgram
<1>2. /\ At("send") /\ text' = text /\ pc' = pc + 1 /\ inbox' = inbox
      /\ pl2ps' = pl2ps /\ serial' = serial
      /\ sent' = Append(sent, Numbered(instr.request))
  BY DEF StartSend, pl
<1>3. Answered /\ Quiet
  BY <1>1, <1>2, NotAwaiting DEF ReadInv
<1>4. inbox = << >>
  BY <1>2 DEF DemandInv, At
<1>5. Quiet' /\ inbox' = << >>
  BY <1>1, <1>2, <1>3, <1>4 DEF Quiet
<1>6. PICK s, x, v : s = sent /\ v = sent' /\ x = Numbered(instr.request) /\ Grows(s, x, v)
  BY <1>2, Grown DEF SentInv
<1>7. PICK n \in Nat : n = Len(s) /\ Len(v) = n + 1 /\ v[n + 1] = x
                       /\ \A j \in 1 .. n : v[j] = s[j]
  BY <1>6 DEF Grows
<1>8. \A j \in 1 .. n : ReadPerformed(j)'
  <2> TAKE j \in 1 .. n
  <2>1. sent'[j] = sent[j] /\ ReadPerformed(j)
    BY <1>3, <1>6, <1>7 DEF Answered
  <2> QED BY <2>1, ReadsStay
<1>9. CASE Awaiting'
  <2>1. Len(sent') - 1 = n
    BY <1>6, <1>7
  <2>2. Unanswered'
    BY <1>5, <1>8, <2>1 DEF Unanswered
  <2> QED BY <1>9, <2>2 DEF ReadInv
<1>10. CASE ~Awaiting'
  <2>1. x.request.kind # "read"
    <3> SUFFICES ASSUME x.request.kind = "read"
                 PROVE  FALSE
      OBVIOUS
    <3>1. PICK t, c, l : /\ t = text /\ c = pc /\ l = Len(t) /\ l \in Nat
                         /\ c \in 1 .. l /\ Verified(program, t)
                         /\ t[c].do = "send" /\ x.request = t[c].request
      <4>1. Len(text) \in Nat /\ pc \in 1 .. Len(text) + 1
        BY SeqFacts DEF TextInv
      <4>2. pc <= Len(text) /\ text[pc].do = "send" /\ x.request = text[pc].request
        BY <1>2, <1>6 DEF At, instr, Numbered
      <4> QED BY <4>1, <4>2 DEF TailInv
    <3>2. c < l /\ t[c + 1].do = "await"
      BY <3>1 DEF Verified
    <3>3. c + 1 <= l
      BY <3>1, <3>2
    <3> QED BY <1>2, <1>10, <3>1, <3>2, <3>3 DEF Awaiting
  <2>2. ReadPerformed(n + 1)'
    BY <1>6, <1>7, <2>1 DEF ReadPerformed
  <2>3. \A j \in 1 .. n + 1 : j \in 1 .. n \/ j = n + 1
    BY <1>7
  <2>4. Answered'
    BY <1>6, <1>7, <1>8, <2>2, <2>3 DEF Answered
  <2> QED BY <1>5, <1>10, <2>4 DEF ReadInv
<1> QED BY <1>9, <1>10

LEMMA OpenFileRead ==
  ASSUME ReadInv, TextInv, NetInv, OpenFile, [Next]_vars
  PROVE  ReadInv'
<1>1. /\ At("load") /\ sent' = sent /\ pl2ps' = pl2ps /\ serial' = serial
  BY DEF OpenFile, pl
<1>2. ~Awaiting
  BY <1>1, NotAwaiting
<1>3. Verified(program, text') /\ pc' = 1
  BY VerifiedOpened
<1>4. ~Awaiting'
  <2>1. PICK t : t = text' /\ Verified(program, t)
    BY <1>3
  <2>2. Len(t) \in Nat
    BY <2>1, SeqFacts DEF Verified
  <2>3. \A i \in 1 .. Len(t) : t[i].do = "await" => i > 2
    BY <2>1 DEF Verified
  <2>4. ~(1 <= Len(t) /\ t[1].do = "await")
    BY <2>2, <2>3
  <2> QED BY <1>3, <2>1, <2>4 DEF Awaiting
<1> QED BY <1>1, <1>2, <1>4, ReadMoves

\* The program takes a word of the answer.
LEMMA ReceiveRead ==
  ASSUME ReadInv, FifoInv, Wiring, NetInv, ReceiveWord, [Next]_vars
  PROVE  ReadInv'
<1>1. /\ At("await") \/ At("serve")
      /\ Len(inbox) < Words /\ pl2ps[InFifo] # << >>
      /\ inbox' = Append(inbox, Head(pl2ps[InFifo]))
      /\ pl2ps' = [pl2ps EXCEPT ![InFifo] = Tail(pl2ps[InFifo])]
      /\ program' = program /\ serial' = serial /\ text' = text /\ pc' = pc
      /\ sent' = sent /\ performed' = performed
  BY DEF ReceiveWord, pl
<1>2. PICK d \in 0 .. 1, a \in 0 .. 1 :
        /\ a = Wires(program).answer /\ a # d
        /\ InFifo = IF instr.do = "await" THEN a ELSE d
  BY Wired DEF InFifo, Wiring
<1>3. CASE At("serve")
  <2>1. ~Awaiting /\ InFifo = d
    BY <1>2, <1>3, NotAwaiting DEF At
  <2>2. pl2ps'[a] = pl2ps[a]
    BY <1>1, <1>2, <2>1 DEF FifoInv, Fifos
  <2> QED BY <1>1, <1>2, <2>1, <2>2, ReadFrame
<1>4. CASE At("await")
  <2> SUFFICES ASSUME program = "hammerblade"
               PROVE  ReadInv'
    BY <1>1 DEF ReadInv
  <2>1. Awaiting /\ Awaiting' /\ InFifo = a
    BY <1>1, <1>2, <1>4 DEF At, Awaiting, instr
  <2>2. ~Unanswered
    BY <1>1, <1>2, <2>1 DEF Unanswered, Quiet
  <2>3. PICK x : Answering(x)
    BY <2>1, <2>2 DEF ReadInv
  <2>4. PICK s, f, q, b, f2, q2 :
          /\ s = <<x>> /\ f = inbox /\ q = pl2ps[a] /\ b = serial[a]
          /\ f2 = Append(f, Head(q)) /\ q2 = Tail(q)
    OBVIOUS
  <2>5. Line(s, 0, f, q, b) /\ Answered /\ Agrees(x.request.dst, x.request.value)
    BY <1>2, <2>3, <2>4 DEF Answering
  <2>6. Line(s, 0, f2, q2, b)
    BY <1>1, <2>1, <2>4, <2>5, LineGathers
  <2>7. pl2ps'[a] = q2 /\ inbox' = f2
    BY <1>1, <2>1, <2>4 DEF FifoInv, Fifos
  <2>8. Answered'
    BY <1>1, <2>5 DEF Answered, ReadPerformed
  <2>9. Answering(x)'
    BY <1>1, <1>2, <2>4, <2>5, <2>6, <2>7, <2>8 DEF Answering, Agrees
  <2> QED BY <2>1, <2>9 DEF ReadInv
<1> QED BY <1>1, <1>3, <1>4

\* The endpoint puts a word in a FIFO of the program.
LEMMA FedRead ==
  ASSUME ReadInv, FifoInv, Wiring, NetInv, NEW k \in 0 .. 1, Feed(k), [Next]_vars
  PROVE  ReadInv'
<1>1. /\ serial[k] # << >> /\ Len(pl2ps[k]) < Els
      /\ pl2ps' = [pl2ps EXCEPT ![k] = Push(pl2ps[k], serial[k][1])]
      /\ serial' = [serial EXCEPT ![k] = Tail(serial[k])]
      /\ program' = program /\ text' = text /\ pc' = pc /\ inbox' = inbox
      /\ sent' = sent /\ performed' = performed
  BY DEF Feed, ps
<1>2. PICK a \in 0 .. 1 : a = Wires(program).answer
  BY Wired DEF Wiring
<1>3. CASE k # a
  <2>1. pl2ps'[a] = pl2ps[a] /\ serial'[a] = serial[a]
    BY <1>1, <1>3 DEF FifoInv, Fifos
  <2> QED BY <1>1, <1>2, <2>1, ReadFrame
<1>4. CASE k = a
  <2> SUFFICES ASSUME program = "hammerblade"
               PROVE  ReadInv'
    BY <1>1 DEF ReadInv
  <2>1. ~Quiet
    BY <1>1, <1>2, <1>4 DEF Quiet
  <2>2. Awaiting
    BY <2>1 DEF ReadInv
  <2>3. Awaiting'
    BY <1>1, <2>2, Zenon DEF Awaiting
  <2>4. PICK x : Answering(x)
    BY <2>1, <2>2 DEF ReadInv, Unanswered
  <2>5. PICK s, f, q, b, q2, b2 :
          /\ s = <<x>> /\ f = inbox /\ q = pl2ps[a] /\ b = serial[a]
          /\ q2 = Append(q, b[1]) /\ b2 = Tail(b)
    OBVIOUS
  <2>6. Line(s, 0, f, q, b) /\ Answered /\ Agrees(x.request.dst, x.request.value)
    BY <1>2, <2>4, <2>5 DEF Answering
  <2>7. Line(s, 0, f, q2, b2)
    BY <1>1, <1>4, <2>5, <2>6, LineSends
  <2>8. pl2ps'[a] = q2 /\ serial'[a] = b2
    BY <1>1, <1>4, <2>5 DEF FifoInv, Fifos, Push
  <2>9. Answered'
    BY <1>1, <2>6 DEF Answered, ReadPerformed
  <2>10. Answering(x)'
    BY <1>1, <1>2, <2>5, <2>6, <2>7, <2>8, <2>9 DEF Answering, Agrees
  <2> QED BY <2>3, <2>10 DEF ReadInv
<1> QED BY <1>3, <1>4

\* Only registers are added to the destinations whose verification failed.
Failing == mismatches' \subseteq mismatches \cup Csrs

\* The packet the program has put together is the answer, with what was written.
LEMMA AnswerRead ==
  ASSUME ReadInv, TailInv, TextInv, FifoInv, Wiring, NetInv, VerifyAnswer, [Next]_vars
  PROVE  ReadInv' /\ Failing
<1>1. /\ At("await") /\ Len(inbox) = Words /\ pc' = pc + 1 /\ inbox' = << >>
      /\ mismatches' = IF Packet(inbox).request.value = instr.value
                       THEN mismatches ELSE mismatches \cup {Packet(inbox).request.dst}
      /\ program' = program /\ serial' = serial /\ pl2ps' = pl2ps /\ text' = text
      /\ sent' = sent /\ performed' = performed
  BY DEF VerifyAnswer, pl
<1>2. Awaiting /\ pc <= Len(text) /\ text[pc].do = "await" /\ instr = text[pc]
  BY <1>1 DEF At, Awaiting, instr
<1>3. program = "hammerblade"
  <2>1. pc \in 1 .. Len(text)
    <3>1. Len(text) \in Nat /\ pc \in 1 .. Len(text) + 1
      BY SeqFacts DEF TextInv
    <3> QED BY <1>2, <3>1
  <2> QED BY <1>2, <2>1 DEF TailInv, Verified
<1>4. ~Unanswered
  BY <1>1, EmptyIsSeq, WordsPositive DEF Unanswered
<1>5. PICK x : Answering(x)
  BY <1>2, <1>3, <1>4 DEF ReadInv
<1>6. PICK a, s, f, q, b :
        /\ a = Wires(program).answer /\ s = <<x>> /\ f = inbox
        /\ q = pl2ps[a] /\ b = serial[a]
  OBVIOUS
<1>7. Line(s, 0, f, q, b) /\ Answered /\ Agrees(x.request.dst, x.request.value)
  BY <1>5, <1>6 DEF Answering
<1>8. Packet(f) = s[0 + 1] /\ Line(s, 0 + 1, << >>, q, b)
  BY <1>1, <1>6, <1>7, LineLeaves
<1>9. Packet(f) = x
  BY <1>6, <1>8
<1>10. Failing
  BY <1>1, <1>2, <1>6, <1>7, <1>9 DEF Failing, Agrees
<1>11. q = << >> /\ b = << >>
  <2>1. /\ IsSeq(q) /\ IsSeq(b) /\ Len(s) = 1 /\ Len(<< >>) = 0
        /\ Place(0 + 1, Len(<< >>)) + Len(q) + Len(b) = Place(Len(s), 0)
    BY <1>6, <1>8, EmptyIsSeq DEF Line
  <2>2. Place(1, 0) \in Int /\ Len(q) \in Nat /\ Len(b) \in Nat
    BY <2>1, SeqFacts, WordsPositive DEF Place
  <2>3. Place(1, 0) + Len(q) + Len(b) = Place(1, 0)
    BY <2>1
  <2>4. Len(q) = 0 /\ Len(b) = 0
    BY <2>2, <2>3
  <2> QED BY <2>1, <2>4, SeqFacts
<1>12. Quiet'
  BY <1>1, <1>6, <1>11 DEF Quiet
<1>13. Answered'
  BY <1>1, <1>7 DEF Answered, ReadPerformed
<1>14. ~Awaiting'
  <2>1. text[pc].do # "send"
    BY <1>2
  <2> QED BY <1>1, <1>2, <2>1, NoneWaits
<1> QED BY <1>10, <1>12, <1>13, <1>14 DEF ReadInv

LEMMA OnePacket ==
  ASSUME NEW y
  PROVE  <<y>> = Append(<< >>, y)
<1>1. PICK e, s : e = << >> /\ s = <<y>>
  OBVIOUS
<1>2. s \in Seq({y}) /\ Len(s) = 1 /\ s[1] = y
  BY <1>1
<1>3. PICK t : t = Append(e, y) /\ Grows(e, y, t)
  BY <1>1, EmptyIsSeq, Grown
<1>4. IsSeq(t) /\ Len(t) = 1 /\ t[1] = y
  BY <1>1, <1>3, EmptyIsSeq DEF Grows
<1>5. s = [j \in 1 .. 1 |-> s[j]] /\ t = [j \in 1 .. 1 |-> t[j]]
  BY <1>2, <1>4, SeqFacts DEF IsSeq
<1>6. s = t
  BY <1>2, <1>4, <1>5
<1> QED BY <1>1, <1>3, <1>6

\* A read takes effect: it is the last request sent, and finds what the one
\* before it wrote.
LEMMA PerformedRead ==
  ASSUME ReadInv, TailInv, TextInv, ServeInv, RouteInv, SortedInv, WholeSent,
         program = "hammerblade", NEW i, Perform(i), net[i].request.kind = "read",
         [Next]_vars
  PROVE  ReadInv'
<1>1. PICK x : x = net[i] /\ i \in 1 .. Len(net)
  BY DEF Perform
<1>2. /\ x.n \in 1 .. Len(launched) /\ x = sent[x.n]
      /\ \A m \in 1 .. Len(performed) : performed[m] # x
  BY <1>1, NetSent
<1>3. PICK L \in Nat : /\ L = Len(sent) /\ x.n \in 1 .. L
  BY <1>2, LaunchedNumbers
<1>4. ~ReadPerformed(x.n)
  BY <1>1, <1>2, <1>3 DEF ReadPerformed
<1>5. Awaiting /\ Unanswered
  BY <1>3, <1>4 DEF ReadInv, Answering, Answered
<1>6. x.n = L
  <2>1. x.n \notin 1 .. L - 1
    BY <1>3, <1>4, <1>5 DEF Unanswered
  <2> QED BY <1>3, <2>1
<1>7. PICK dst : /\ L > 1 /\ sent[L].request = Request("read", dst, "data", 0)
                 /\ sent[L - 1].request = Request("write", dst, "data", text[pc].value)
  BY <1>3, <1>5 DEF TailInv, Awaiting
<1>8. Stored(dst, "data") = text[pc].value
  <2>1. PICK w \in 1 .. L : w = L - 1 /\ L = w + 1
    BY <1>3, <1>7
  <2>2. net[i].n = w + 1 /\ net[i].request.dst = dst
    BY <1>1, <1>2, <1>6, <1>7, <2>1 DEF Request
  <2>3. w \in 1 .. Len(sent)
    BY <1>3, <2>1
  <2>4. PICK value : value = text[pc].value
    OBVIOUS
  <2>5. sent[w].request = Request("write", dst, "data", value)
    BY <1>7, <2>1, <2>4
  <2>6. program # "minimal"
    OBVIOUS
  <2>7. /\ ServeInv /\ RouteInv /\ SortedInv /\ WholeSent
        /\ program # "minimal" /\ Perform(i)
    BY <2>6
  <2>8. PICK reg : reg = "data"
    OBVIOUS
  <2>9. sent[w].request = Request("write", dst, reg, value)
    BY <2>5, <2>8
  <2>10. Stored(dst, reg) = value
    BY ONLY <2>2, <2>3, <2>7, <2>9, StoredBefore
  <2> QED BY <2>4, <2>8, <2>10
<1>9. PICK a \in 0 .. 1 : a = Wires(program).answer
  BY Wired DEF ServeInv, LinkInv, Wiring
<1>10. x # Garbled
  BY <1>2, <1>3 DEF WholeSent
<1>11. PICK found, y :
         /\ found \in Found(x.request.dst, x.request.reg)
         /\ y = [x EXCEPT !.request.value = found]
         /\ serial' = [serial EXCEPT ![a] = InWords(y)]
  BY <1>1, <1>9, <1>10 DEF Perform
<1>12. /\ serial' = [serial EXCEPT ![a] = InWords(y)]
       /\ program' = program /\ text' = text /\ pc' = pc /\ inbox' = inbox
       /\ sent' = sent /\ pl2ps' = pl2ps /\ performed' = Append(performed, x)
  BY <1>1, <1>11 DEF Perform, ps
<1>13. Agrees(y.request.dst, y.request.value)
  <2>1. x.request = Request("read", dst, "data", 0)
    BY <1>2, <1>6, <1>7
  <2>2. found = text[pc].value \/ dst \in Csrs
    BY <1>8, <1>11, <2>1 DEF Found, Request
  <2>3. y.request.value = found /\ y.request.dst = dst
    BY <1>2, <1>3, <1>11, <2>1 DEF Request
  <2> QED BY <2>2, <2>3 DEF Agrees
<1>14. Line(<<y>>, 0, inbox, pl2ps[a], InWords(y))
  <2>1. inbox = << >> /\ pl2ps[a] = << >>
    BY <1>5, <1>9 DEF Unanswered, Quiet
  <2>2. PICK e, s : e = << >> /\ s = <<y>> /\ s = Append(e, y)
    BY OnePacket
  <2>3. Line(e, 0, e, e, << >>)
    BY <2>2, LineEmpty
  <2>4. Line(s, 0, e, e, InWords(y))
    BY <2>2, <2>3, LineStarts
  <2> QED BY <2>1, <2>2, <2>4
<1>15. serial'[a] = InWords(y)
  BY <1>12 DEF ServeInv, LinkInv, FifoInv, Fifos
<1>16. Answered'
  <2>1. PICK u, v : u = performed /\ v = performed' /\ Grows(u, x, v)
    BY <1>12, Grown DEF ServeInv, LinkInv, NetInv, Accounted
  <2>2. Len(u) + 1 \in 1 .. Len(v) /\ v[Len(u) + 1] = x
    BY <2>1 DEF Grows
  <2>3. ReadPerformed(L)'
    BY <1>2, <1>6, <1>12, <2>1, <2>2 DEF ReadPerformed
  <2>4. \A j \in 1 .. L - 1 : ReadPerformed(j)'
    <3> TAKE j \in 1 .. L - 1
    <3>1. ReadPerformed(j) /\ sent'[j] = sent[j]
      BY <1>3, <1>5, <1>12 DEF Unanswered
    <3> QED BY <3>1, ReadsStay DEF ServeInv, LinkInv
  <2>5. \A j \in 1 .. L : j \in 1 .. L - 1 \/ j = L
    BY <1>3
  <2> QED BY <1>3, <1>12, <2>3, <2>4, <2>5 DEF Answered
<1>17. Answering(y)'
  BY <1>9, <1>12, <1>13, <1>14, <1>15, <1>16 DEF Answering, Agrees
<1>18. Awaiting'
  BY <1>5, <1>12, Zenon DEF Awaiting
<1> QED BY <1>17, <1>18 DEF ReadInv

LEMMA ReadNext ==
  /\ ReadInv /\ TailInv /\ SortedInv /\ WholeSent /\ ServeInv /\ RouteInv /\ [Next]_vars
  => ReadInv' /\ Failing
<1> SUFFICES ASSUME ReadInv, TailInv, SortedInv, WholeSent, ServeInv, RouteInv, [Next]_vars
             PROVE  ReadInv' /\ Failing
  OBVIOUS
<1>1. /\ TextInv /\ SentInv /\ DemandInv /\ NetInv /\ FifoInv /\ Wiring
  BY DEF ServeInv, LinkInv
<1>2. CASE StartSend
  BY <1>1, <1>2, StartSendRead DEF StartSend, Failing
<1>3. CASE OpenFile
  BY <1>1, <1>3, OpenFileRead DEF OpenFile, Failing
<1>4. CASE ReceiveWord
  BY <1>1, <1>4, ReceiveRead DEF ReceiveWord, Failing
<1>5. CASE VerifyAnswer
  BY <1>1, <1>5, AnswerRead
<1>6. ASSUME NEW k \in 0 .. 1, Feed(k)
      PROVE  ReadInv' /\ Failing
  BY <1>1, <1>6, FedRead DEF Feed, ps, Failing
<1>7. ASSUME NEW i, Perform(i)
      PROVE  ReadInv' /\ Failing
  <2>1. Failing
    BY <1>7 DEF Perform, ps, Failing
  <2>2. CASE program # "hammerblade"
    <3>1. program' # "hammerblade"
      BY <2>2, SameProgram
    <3>2. ReadInv'
      BY <3>1 DEF ReadInv
    <3> QED BY <2>1, <3>2
  <2>3. CASE program = "hammerblade" /\ net[i].request.kind = "read"
    <3>1. ReadInv'
      BY <1>1, <1>7, <2>3, PerformedRead
    <3> QED BY <2>1, <3>1
  <2>4. CASE net[i].request.kind # "read"
    <3>1. /\ serial' = serial /\ pl2ps' = pl2ps /\ text' = text /\ pc' = pc
          /\ inbox' = inbox /\ sent' = sent
      BY <1>7, <2>4 DEF Perform, ps
    <3> QED BY <1>1, <2>1, <3>1, ReadFrame DEF Failing
  <2> QED BY <2>1, <2>2, <2>3, <2>4
<1>8. ASSUME NEW kind, TileDemand(kind) \/ CoreDemand(kind)
      PROVE  ReadInv' /\ Failing
  <2>1. PICK d \in 0 .. 1, a \in 0 .. 1 :
          d = Wires(program).demand /\ a = Wires(program).answer /\ a # d
    BY <1>1, Wired DEF Wiring
  <2>2. /\ \E w : serial' = [serial EXCEPT ![d] = w]
        /\ pl2ps' = pl2ps /\ text' = text /\ pc' = pc /\ inbox' = inbox /\ sent' = sent
        /\ mismatches' = mismatches
    BY <1>8, <2>1 DEF TileDemand, CoreDemand, Demand, ps
  <2>3. serial'[a] = serial[a]
    BY <1>1, <2>1, <2>2 DEF FifoInv, Fifos
  <2> QED BY <1>1, <2>1, <2>2, <2>3, ReadFrame DEF Failing
<1>9. CASE WriteRegister \/ CheckRegister \/ TickClock \/ TakeArguments
  <2>1. /\ pl2ps' = pl2ps /\ serial' = serial /\ inbox' = inbox /\ mismatches' = mismatches
        /\ ~StartSend /\ ~OpenFile /\ ~Awaiting
    BY <1>9 DEF WriteRegister, CheckRegister, TickClock, TakeArguments, At, instr,
                StartSend, OpenFile, Awaiting, pl
  <2> QED BY <1>1, <2>1, OnlySends, NoneWaits, ReadMoves, ReadFrame DEF Failing
<1>10. CASE HandleDemand \/ DrainCredits
  <2>1. /\ pl2ps' = pl2ps /\ serial' = serial /\ mismatches' = mismatches
        /\ ~StartSend /\ ~OpenFile /\ ~Awaiting
    BY <1>10 DEF HandleDemand, DrainCredits, At, instr,
                 StartSend, OpenFile, Awaiting, pl
  <2> QED BY <1>1, <2>1, OnlySends, NoneWaits, ReadMoves, ReadFrame DEF Failing
<1>11. CASE SendWord \/ Done
  <2>1. /\ pl2ps' = pl2ps /\ serial' = serial /\ inbox' = inbox /\ mismatches' = mismatches
        /\ text' = text /\ pc' = pc /\ sent' = sent
    BY <1>11 DEF SendWord, Done, pl
  <2> QED BY <1>1, <2>1, ReadFrame DEF Failing
<1>12. ASSUME NEW k, Gather(k) \/ Launch \/ GetReply
       PROVE  ReadInv' /\ Failing
  <2>1. /\ pl2ps' = pl2ps /\ serial' = serial /\ inbox' = inbox /\ mismatches' = mismatches
        /\ text' = text /\ pc' = pc /\ sent' = sent
    BY <1>12 DEF Gather, Launch, GetReply, ps
  <2> QED BY <1>1, <2>1, ReadFrame DEF Failing
<1>13. CASE UNCHANGED vars
  <2>1. /\ pl2ps' = pl2ps /\ serial' = serial /\ inbox' = inbox /\ mismatches' = mismatches
        /\ text' = text /\ pc' = pc /\ sent' = sent
    BY <1>13 DEF vars, ps, pl
  <2> QED BY <1>1, <2>1, ReadFrame DEF Failing
<1> QED BY <1>2, <1>3, <1>4, <1>5, <1>6, <1>7, <1>8, <1>9, <1>10, <1>11, <1>12, <1>13
        DEF Next, ProgramStep, EndpointStep, Network

\* What the verifying reads rest on.
VerifyInv ==
  /\ ServeInv /\ RouteInv /\ TailInv /\ SortedInv /\ WholeSent /\ ReadInv
  /\ VerifyAgrees

\* VERIFY_NBF in nbf_load: a verifying read of a word of memory is answered with
\* what the line before it wrote, whatever the order in which the network performs
\* the requests to other destinations; only reads of CSRs are reported as failed.
THEOREM ReadsFindTheirWrites == Spec => []VerifyAgrees
<1>1. Init => VerifyInv
  <2>1. Init => VerifyAgrees
    BY DEF Init, VerifyAgrees
  <2> QED BY <2>1, ServeInit, RouteInit, TailInit, SortedInit, ReadInit DEF VerifyInv
<1>2. VerifyInv /\ [Next]_vars => VerifyInv'
  <2>1. VerifyAgrees /\ Failing => VerifyAgrees'
    BY DEF VerifyAgrees, Failing
  <2> QED BY <2>1, ServeNext, RouteNext, TailNext, SortedNext, WholeSentNext, ReadNext
             DEF VerifyInv, ServeInv, LinkInv
<1>3. VerifyInv => VerifyAgrees
  BY DEF VerifyInv
<1> QED BY <1>1, <1>2, <1>3, PTL DEF Spec
=============================================================================
