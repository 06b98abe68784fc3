------------------------- MODULE TraceEncoderProofs -------------------------
(***************************************************************************)
(* Proofs about rtl/simple_fifo.sv for every DEPTH and every word width:   *)
(* the registers stay consistent and the ring buffer implements the        *)
(* bounded queue.                                                          *)
(*                                                                         *)
(* Proofs about the trace path for every bus width, instruction size, span *)
(* of short deltas, counter width and FIFO depth: the decoder is off by    *)
(* exactly the deltas that were not reported.                              *)
(***************************************************************************)
EXTENDS TraceEncoder, SequenceTheorems, TLAPS

(***************************************************************************)
(* Pointer arithmetic: a sum of at most two turns of the ring wraps by one *)
(* subtraction.                                                            *)
(***************************************************************************)
LEMMA WrapSum ==
  ASSUME NEW p \in Slots, NEW n \in 0 .. Depth
  PROVE  /\ Wrap(p + n) = IF p + n < Depth THEN p + n ELSE p + n - Depth
         /\ Wrap(p + n) \in Slots
BY DepthAssumption DEF Wrap, Slots

LEMMA WrapZero == Wrap(0) = 0
BY DepthAssumption DEF Wrap

LEMMA NextPtrWraps ==
  ASSUME NEW p \in Slots
  PROVE  /\ NextPtr(p) = IF p = Depth - 1 THEN 0 ELSE p + 1
         /\ NextPtr(p) \in Slots
BY DepthAssumption, WrapSum DEF Slots, NextPtr

-----------------------------------------------------------------------------
(***************************************************************************)
(* The inductive invariant is the type invariant with PointersAgree.       *)
(***************************************************************************)
FifoInv == FifoTypeOK /\ PointersAgree

\* The invariant holds when reset ends.
LEMMA FifoInitInv == FifoInit => FifoInv
BY DepthAssumption, WrapZero
   DEF FifoInit, FifoInv, FifoTypeOK, PointersAgree, Slots

\* One clock edge keeps the invariant, whatever the two sides drive.
LEMMA FifoClockInv ==
  ASSUME FifoInv, NEW v \in BOOLEAN, NEW y \in BOOLEAN, NEW d \in Data,
         FifoClock(v, d, y)
  PROVE  FifoInv'
<1> DEFINE wr == v /\ ~full
           rd == y /\ ~empty
<1> USE DEF FifoInv, FifoTypeOK
<1>1. mem_r' \in [Slots -> Data] /\ wptr_r' \in Slots
  BY NextPtrWraps DEF FifoClock, Write
<1>2. rptr_r' \in Slots
  BY NextPtrWraps DEF FifoClock, Read
<1>3. count_r' = count_r + (IF wr THEN 1 ELSE 0) - (IF rd THEN 1 ELSE 0)
  BY DepthAssumption DEF FifoClock, Count
<1>4. count_r' \in 0 .. Depth
  BY <1>3, DepthAssumption DEF full, empty
<1>5. wptr_r' = Wrap(rptr_r' + count_r')
  <2>1. wptr_r' = IF wr THEN NextPtr(wptr_r) ELSE wptr_r
    BY DEF FifoClock, Write
  <2>2. rptr_r' = IF rd THEN NextPtr(rptr_r) ELSE rptr_r
    BY DEF FifoClock, Read
  <2>3. wptr_r = IF rptr_r + count_r < Depth
                 THEN rptr_r + count_r ELSE rptr_r + count_r - Depth
    BY WrapSum DEF PointersAgree
  <2>4. wptr_r' = IF rptr_r' + count_r' < Depth
                  THEN rptr_r' + count_r' ELSE rptr_r' + count_r' - Depth
    <3> HIDE DEF wr, rd
    <3>1. wr \in BOOLEAN /\ rd \in BOOLEAN
      BY DEF wr, rd, full, empty
    <3>2. wr => count_r < Depth
      BY DepthAssumption DEF wr, full
    <3>3. rd => count_r > 0
      BY DepthAssumption DEF rd, empty
    <3>4. /\ NextPtr(wptr_r) = IF wptr_r = Depth - 1 THEN 0 ELSE wptr_r + 1
          /\ NextPtr(rptr_r) = IF rptr_r = Depth - 1 THEN 0 ELSE rptr_r + 1
      BY NextPtrWraps
    <3> QED
      BY <1>1, <1>2, <1>3, <1>4, <2>1, <2>2, <2>3, <3>1, <3>2, <3>3, <3>4,
         DepthAssumption DEF Slots
  <2> QED
    BY <1>2, <1>4, <2>4, WrapSum
<1> QED
  BY <1>1, <1>2, <1>4, <1>5 DEF PointersAgree

LEMMA FifoResetInv == FifoInv /\ FifoReset => FifoInv'
BY DepthAssumption, WrapZero
   DEF FifoReset, FifoInv, FifoTypeOK, PointersAgree, Slots

\* Every step of the FIFO keeps the invariant.
LEMMA FifoNextInv == FifoInv /\ [FifoNext]_fifoVars => FifoInv'
<1> SUFFICES ASSUME FifoInv, [FifoNext]_fifoVars PROVE FifoInv'
  OBVIOUS
<1>1. ASSUME NEW v \in BOOLEAN, NEW y \in BOOLEAN, NEW d \in Data,
             FifoClock(v, d, y)
      PROVE  FifoInv'
  BY <1>1, FifoClockInv
<1>2. CASE FifoReset
  BY <1>2, FifoResetInv
<1>3. CASE UNCHANGED fifoVars
  BY <1>3 DEF fifoVars, FifoInv, FifoTypeOK, PointersAgree
<1> QED
  BY <1>1, <1>2, <1>3 DEF FifoNext

(***************************************************************************)
(* The registers of the FIFO keep their types and the write pointer is     *)
(* always count_r slots past the read pointer.                             *)
(***************************************************************************)
THEOREM FifoCorrect == FifoSpec => [](FifoTypeOK /\ PointersAgree)
<1> QED
  BY FifoInitInv, FifoNextInv, PTL DEF FifoSpec, FifoInv

-----------------------------------------------------------------------------
(***************************************************************************)
(* The ring buffer implements the bounded queue.  First the geometry of    *)
(* the ring: the slots of the held items are distinct, the write pointer   *)
(* is the slot after them, and releasing an item shifts the numbering by   *)
(* one.                                                                    *)
(***************************************************************************)
LEMMA SlotValue ==
  ASSUME FifoInv, NEW i \in 1 .. Depth
  PROVE  /\ Slot(i) \in Slots
         /\ Slot(i) = IF rptr_r + (i - 1) < Depth
                      THEN rptr_r + (i - 1) ELSE rptr_r + (i - 1) - Depth
<1>1. i - 1 \in 0 .. Depth /\ rptr_r \in Slots
  BY DepthAssumption DEF FifoInv, FifoTypeOK
<1>2. rptr_r + i - 1 = rptr_r + (i - 1)
  BY <1>1, DepthAssumption DEF Slots
<1>3. Wrap(rptr_r + (i - 1)) = IF rptr_r + (i - 1) < Depth
                      THEN rptr_r + (i - 1) ELSE rptr_r + (i - 1) - Depth
  BY <1>1, WrapSum
<1> QED
  BY <1>1, <1>2, <1>3, DepthAssumption DEF Slot, Slots

LEMMA SlotInjective ==
  ASSUME FifoInv, NEW i \in 1 .. Depth, NEW j \in 1 .. Depth, i # j
  PROVE  Slot(i) # Slot(j)
BY SlotValue, DepthAssumption DEF FifoInv, FifoTypeOK, Slots

LEMMA WritePointerIsNextSlot ==
  ASSUME FifoInv, count_r < Depth
  PROVE  /\ count_r + 1 \in 1 .. Depth
         /\ wptr_r = Slot(count_r + 1)
<1>1. count_r + 1 \in 1 .. Depth
  BY DepthAssumption DEF FifoInv, FifoTypeOK
<1>2. rptr_r + (count_r + 1) - 1 = rptr_r + count_r
  BY DepthAssumption DEF FifoInv, FifoTypeOK, Slots
<1> QED
  BY <1>1, <1>2 DEF FifoInv, PointersAgree, Slot

\* The held items form a sequence of count_r words.
LEMMA ContentsIsSeq ==
  ASSUME FifoInv
  PROVE  /\ Contents \in Seq(Data)
         /\ Len(Contents) = count_r
         /\ \A i \in 1 .. count_r : Contents[i] = mem_r[Slot(i)]
<1>1. count_r \in Nat /\ \A i \in 1 .. count_r : i \in 1 .. Depth
  BY DepthAssumption DEF FifoInv, FifoTypeOK
<1>2. \A i \in 1 .. count_r : mem_r[Slot(i)] \in Data
  BY <1>1, SlotValue DEF FifoInv, FifoTypeOK
<1> QED
  BY <1>1, <1>2 DEF Contents
\* When a sequence is another one with an item appended, or without its head.
LEMMA AppendIs ==
  ASSUME NEW s \in Seq(Data), NEW t \in Seq(Data), NEW d \in Data,
         Len(t) = Len(s) + 1,
         \A i \in 1 .. Len(t) : t[i] = IF i <= Len(s) THEN s[i] ELSE d
  PROVE  t = Append(s, d)
<1>1. /\ Append(s, d) \in Seq(Data)
      /\ Len(Append(s, d)) = Len(s) + 1
      /\ \A i \in 1 .. Len(s) + 1 : Append(s, d)[i] = IF i <= Len(s) THEN s[i] ELSE d
  OBVIOUS
<1> QED
  BY <1>1, SeqEqual

LEMMA TailIs ==
  ASSUME NEW s \in Seq(Data), NEW t \in Seq(Data), s # <<>>,
         Len(t) = Len(s) - 1,
         \A i \in 1 .. Len(t) : t[i] = s[i + 1]
  PROVE  t = Tail(s)
<1>1. /\ Tail(s) \in Seq(Data)
      /\ Len(Tail(s)) = Len(s) - 1
      /\ \A i \in 1 .. Len(s) - 1 : Tail(s)[i] = s[i + 1]
  BY HeadTailProperties
<1> QED
  BY <1>1, SeqEqual

\* What the held items become at a clock edge: the oldest leaves, the offered
\* one joins.
Remaining(y) == IF y /\ ~empty THEN Tail(Contents) ELSE Contents
AfterClock(v, d, y) ==
  IF v /\ ~full THEN Append(Remaining(y), d) ELSE Remaining(y)

LEMMA FifoClockContents ==
  ASSUME FifoInv, NEW v \in BOOLEAN, NEW y \in BOOLEAN, NEW d \in Data,
         FifoClock(v, d, y)
  PROVE  /\ Contents' = AfterClock(v, d, y)
         /\ Contents' \in Seq(Data)
         /\ Len(Contents') = count_r'
<1> DEFINE wr == v /\ ~full
           rd == y /\ ~empty
<1>1. /\ count_r \in 0 .. Depth
      /\ rptr_r \in Slots
      /\ wptr_r \in Slots
      /\ mem_r \in [Slots -> Data]
  BY DEF FifoInv, FifoTypeOK
<1>2. /\ Contents \in Seq(Data)
      /\ Len(Contents) = count_r
      /\ \A i \in 1 .. count_r : Contents[i] = mem_r[Slot(i)]
  BY ContentsIsSeq
<1>3. count_r' = count_r + (IF wr THEN 1 ELSE 0) - (IF rd THEN 1 ELSE 0)
  BY <1>1, DepthAssumption DEF FifoClock, Count
<1>4. Contents' = [i \in 1 .. count_r' |-> mem_r'[Slot(i)']]
  BY DEF Contents
<1>contents. /\ Contents' \in Seq(Data)
      /\ Len(Contents') = count_r'
      /\ \A i \in 1 .. count_r' : Contents'[i] = mem_r'[Slot(i)']
  <2>1. FifoInv'
    BY FifoClockInv
  <2>2. count_r' \in Nat /\ \A i \in 1 .. count_r' : mem_r'[Slot(i)'] \in Data
    <3> SUFFICES ASSUME NEW i \in 1 .. count_r'
                 PROVE  count_r' \in Nat /\ mem_r'[Slot(i)'] \in Data
      BY <2>1, DepthAssumption DEF FifoInv, FifoTypeOK
    <3>1. rptr_r' \in Slots /\ i - 1 \in 0 .. Depth /\ count_r' \in Nat
      BY <2>1, DepthAssumption DEF FifoInv, FifoTypeOK
    <3>2. Slot(i)' = Wrap(rptr_r' + (i - 1))
      BY <3>1, DepthAssumption DEF Slot, Slots
    <3>3. Slot(i)' \in Slots
      BY <3>1, <3>2, WrapSum
    <3> QED
      BY <2>1, <3>1, <3>3 DEF FifoInv, FifoTypeOK
  <2> QED
    BY <1>4, <2>2
<1>5. wr => /\ count_r < Depth
            /\ mem_r' = [mem_r EXCEPT ![Slot(count_r + 1)] = d]
  BY <1>1, WritePointerIsNextSlot, DepthAssumption DEF FifoClock, Write, full
<1>6. ~wr => mem_r' = mem_r
  BY DEF FifoClock, Write
<1>7. rd => count_r > 0
  BY <1>1, DepthAssumption DEF empty
<1>8. ~rd => \A i \in 1 .. Depth : Slot(i)' = Slot(i)
  BY DEF FifoClock, Read, Slot
<1>9. rd => \A i \in 1 .. Depth - 1 : Slot(i)' = Slot(i + 1)
  <2> SUFFICES ASSUME rd, NEW i \in 1 .. Depth - 1
               PROVE  Slot(i)' = Slot(i + 1)
    OBVIOUS
  <2>1. rptr_r' = IF rptr_r = Depth - 1 THEN 0 ELSE rptr_r + 1
    BY <1>1, NextPtrWraps DEF FifoClock, Read
  <2>2. rptr_r' \in Slots /\ i - 1 \in 0 .. Depth
    BY <1>1, <2>1, DepthAssumption DEF Slots
  <2>3. Slot(i)' = Wrap(rptr_r' + (i - 1))
    BY <2>2, DepthAssumption DEF Slot, Slots
  <2>4. i + 1 \in 1 .. Depth /\ (i + 1) - 1 = i
    BY DepthAssumption
  <2>5. Slot(i + 1) = IF rptr_r + i < Depth THEN rptr_r + i ELSE rptr_r + i - Depth
    BY <2>4, SlotValue
  <2>6. Wrap(rptr_r' + (i - 1)) = IF rptr_r' + (i - 1) < Depth
                 THEN rptr_r' + (i - 1) ELSE rptr_r' + (i - 1) - Depth
    BY <2>2, WrapSum
  <2> QED
    BY <1>1, <2>1, <2>3, <2>5, <2>6, DepthAssumption DEF Slots
<1>10. wr => \A i \in 1 .. count_r : mem_r'[Slot(i)] = mem_r[Slot(i)]
  <2> SUFFICES ASSUME wr, NEW i \in 1 .. count_r
               PROVE  mem_r'[Slot(i)] = mem_r[Slot(i)]
    OBVIOUS
  <2>1. i \in 1 .. Depth /\ count_r + 1 \in 1 .. Depth /\ i # count_r + 1
    BY <1>1, <1>5, DepthAssumption
  <2>2. Slot(i) # Slot(count_r + 1) /\ Slot(i) \in Slots
    BY <2>1, SlotInjective, SlotValue
  <2> QED
    BY <1>1, <1>5, <2>2
<1>11. wr => mem_r'[Slot(count_r + 1)] = d
  BY <1>1, <1>5, WritePointerIsNextSlot
<1> HIDE DEF wr, rd
<1> USE <1>1, <1>2 DEF AfterClock, Remaining
<1>12. CASE ~wr /\ ~rd
  <2>1. count_r' = count_r
    BY <1>3, <1>12
  <2>2. Contents' = Contents
    BY <1>4, <1>6, <1>8, <1>12, <2>1, DepthAssumption DEF Contents
  <2> QED
    BY <1>contents, <1>12, <2>2 DEF wr, rd
<1>13. CASE wr /\ ~rd
  <2>1. count_r' = count_r + 1 /\ count_r < Depth
    BY <1>3, <1>5, <1>13
  <2>2. \A i \in 1 .. count_r + 1 :
           mem_r'[Slot(i)'] = IF i <= count_r THEN Contents[i] ELSE d
    BY <1>8, <1>10, <1>11, <1>13, <2>1, DepthAssumption
  <2>3. Contents' = Append(Contents, d)
    <3>1. PICK s \in Seq(Data), t \in Seq(Data) : s = Contents /\ t = Contents'
      BY <1>contents
    <3>2. Len(s) = count_r /\ Len(t) = count_r + 1
      BY <1>contents, <2>1, <3>1
    <3>3. Len(t) = Len(s) + 1
      BY <2>1, <3>2
    <3>4. \A i \in 1 .. Len(t) : t[i] = IF i <= Len(s) THEN s[i] ELSE d
      BY <1>contents, <2>1, <2>2, <3>1, <3>2
    <3>5. t = Append(s, d)
      BY <3>3, <3>4, AppendIs
    <3> QED
      BY <3>1, <3>5
  <2> QED
    BY <1>contents, <1>13, <2>3 DEF wr, rd
<1>14. CASE ~wr /\ rd
  <2>1. count_r' = count_r - 1 /\ count_r > 0
    BY <1>3, <1>7, <1>14
  <2>2. \A i \in 1 .. count_r - 1 : mem_r'[Slot(i)'] = Contents[i + 1]
    BY <1>6, <1>9, <1>14, DepthAssumption
  <2>3. Contents' = Tail(Contents)
    <3>1. PICK s \in Seq(Data), t \in Seq(Data) : s = Contents /\ t = Contents'
      BY <1>contents
    <3>2. Len(s) = count_r /\ Len(t) = count_r - 1
      BY <1>contents, <2>1, <3>1
    <3>3. s # <<>> /\ Len(t) = Len(s) - 1
      BY <2>1, <3>1, <3>2
    <3>4. \A i \in 1 .. Len(t) : t[i] = s[i + 1]
      BY <1>contents, <2>1, <2>2, <3>1, <3>2
    <3>5. t = Tail(s)
      BY <3>3, <3>4, TailIs
    <3> QED
      BY <3>1, <3>5
  <2> QED
    BY <1>contents, <1>14, <2>3 DEF wr, rd
<1>15. CASE wr /\ rd
  <2>1. count_r' = count_r /\ count_r > 0 /\ count_r < Depth
    BY <1>3, <1>5, <1>7, <1>15
  <2>2. \A i \in 1 .. count_r :
           mem_r'[Slot(i)'] = IF i <= count_r - 1 THEN Contents[i + 1] ELSE d
    BY <1>9, <1>10, <1>11, <1>15, <2>1, DepthAssumption
  <2>3. /\ Tail(Contents) \in Seq(Data)
        /\ Len(Tail(Contents)) = count_r - 1
        /\ \A i \in 1 .. count_r - 1 : Tail(Contents)[i] = Contents[i + 1]
    BY <2>1, HeadTailProperties
  <2>4. Contents' = Append(Tail(Contents), d)
    <3>1. PICK s \in Seq(Data), t \in Seq(Data) : s = Tail(Contents) /\ t = Contents'
      BY <1>contents, <2>3
    <3>2. Len(s) = count_r - 1 /\ Len(t) = count_r
      BY <1>contents, <2>1, <2>3, <3>1
    <3>3. Len(t) = Len(s) + 1
      BY <2>1, <3>2
    <3>4. \A i \in 1 .. Len(t) : t[i] = IF i <= Len(s) THEN s[i] ELSE d
      BY <1>contents, <2>1, <2>2, <2>3, <3>1, <3>2
    <3>5. t = Append(s, d)
      BY <3>3, <3>4, AppendIs
    <3> QED
      BY <3>1, <3>5
  <2> QED
    BY <1>contents, <1>15, <2>4 DEF wr, rd
<1> QED
  BY <1>12, <1>13, <1>14, <1>15

\* A clock edge of the ring buffer is a step of the bounded queue.
LEMMA FifoClockRefines ==
  ASSUME FifoInv, NEW v \in BOOLEAN, NEW y \in BOOLEAN, NEW d \in Data,
         FifoClock(v, d, y)
  PROVE  [Queue!Next]_Contents
<1>1. /\ Len(Contents) = count_r /\ count_r \in 0 .. Depth
      /\ Contents \in Seq(Data)
  BY ContentsIsSeq DEF FifoInv, FifoTypeOK
<1>2. ~full => Queue!HasRoom
  BY <1>1, DepthAssumption DEF full, Queue!HasRoom
<1>3. ~empty => Queue!HasItem
  BY <1>1 DEF empty, Queue!HasItem
<1> QED
  BY <1>2, <1>3, FifoClockContents
     DEF AfterClock, Remaining, Queue!Next, Queue!Accept, Queue!Release,
         Queue!AcceptAndRelease

LEMMA FifoStepRefines == FifoInv /\ [FifoNext]_fifoVars => [Queue!Next]_Contents
<1> SUFFICES ASSUME FifoInv, [FifoNext]_fifoVars PROVE [Queue!Next]_Contents
  OBVIOUS
<1>1. ASSUME NEW v \in BOOLEAN, NEW y \in BOOLEAN, NEW d \in Data,
             FifoClock(v, d, y)
      PROVE  [Queue!Next]_Contents
  BY <1>1, FifoClockRefines
<1>2. CASE FifoReset
  BY <1>2 DEF FifoReset, Contents, Queue!Next, Queue!Clear
<1>3. CASE UNCHANGED fifoVars
  BY <1>3 DEF fifoVars, Contents, Slot
<1> QED
  BY <1>1, <1>2, <1>3 DEF FifoNext

(***************************************************************************)
(* For every depth, the circular buffer of simple_fifo.sv behaves as the   *)
(* bounded queue: what it accepted comes out once, in order, unchanged.    *)
(***************************************************************************)
THEOREM FifoImplementsQueue == FifoSpec => ImplementsQueue
<1>1. FifoInit => Queue!Init
  BY DEF FifoInit, Contents, Queue!Init
<1> QED
  BY <1>1, FifoInitInv, FifoNextInv, FifoStepRefines, PTL
     DEF FifoSpec, ImplementsQueue, Queue!Spec

-----------------------------------------------------------------------------

(***************************************************************************)
(* Arithmetic on the pc bus, in linear form.                               *)
(***************************************************************************)
LEMMA PlusLinear ==
  ASSUME NEW a \in Pcs, NEW b \in Pcs
  PROVE  /\ Plus(a, b) = IF a + b < PcCount THEN a + b ELSE a + b - PcCount
         /\ Plus(a, b) \in Pcs
BY PcAssumption DEF Plus, Pcs

LEMMA MinusLinear ==
  ASSUME NEW a \in Pcs, NEW b \in Pcs
  PROVE  /\ Minus(a, b) = IF a >= b THEN a - b ELSE a - b + PcCount
         /\ Minus(a, b) \in Pcs
BY PcAssumption DEF Minus, Pcs

LEMMA ZeroIsPc == 0 \in Pcs
BY PcAssumption DEF Pcs

\* A full packet, a short packet, an unreported commit and a reset.
LEMMA FullPacketMeets == ASSUME NEW p \in Pcs PROVE Minus(p, 0) = p
BY MinusLinear, ZeroIsPc, PcAssumption DEF Pcs

LEMMA ShortPacketKeepsSkew ==
  ASSUME NEW p \in Pcs, NEW last \in Pcs, NEW k \in Pcs
  PROVE  Plus(Minus(last, k), Minus(p, last)) = Minus(p, k)
<1>1. PICK x \in Pcs : x = Minus(last, k) /\ x = IF last >= k THEN last - k
                                                 ELSE last - k + PcCount
  BY MinusLinear
<1>2. PICK y \in Pcs : y = Minus(p, last) /\ y = IF p >= last THEN p - last
                                                 ELSE p - last + PcCount
  BY MinusLinear
<1>3. Plus(x, y) = IF x + y < PcCount THEN x + y ELSE x + y - PcCount
  BY PlusLinear
<1>4. Minus(p, k) = IF p >= k THEN p - k ELSE p - k + PcCount
  BY MinusLinear
<1>5. Plus(x, y) = Minus(p, k)
  BY <1>1, <1>2, <1>3, <1>4, PcAssumption DEF Pcs
<1> QED
  BY <1>1, <1>2, <1>5

LEMMA UnreportedAddsSkew ==
  ASSUME NEW p \in Pcs, NEW last \in Pcs, NEW k \in Pcs
  PROVE  Minus(p, Plus(k, Minus(p, last))) = Minus(last, k)
<1>1. PICK y \in Pcs : y = Minus(p, last) /\ y = IF p >= last THEN p - last
                                                 ELSE p - last + PcCount
  BY MinusLinear
<1>2. PICK z \in Pcs : z = Plus(k, y) /\ z = IF k + y < PcCount THEN k + y
                                             ELSE k + y - PcCount
  BY PlusLinear
<1>3. Minus(p, z) = IF p >= z THEN p - z ELSE p - z + PcCount
  BY MinusLinear
<1>4. Minus(last, k) = IF last >= k THEN last - k ELSE last - k + PcCount
  BY MinusLinear
<1> USE <1>1, <1>2, <1>3, <1>4, PcAssumption DEF Pcs
<1>5. Minus(p, z) = Minus(last, k)
  <2>1. CASE p >= last /\ k + y < PcCount
    <3>1. z = k + p - last
      BY <2>1
    <3> QED
      BY <3>1
  <2>2. CASE p >= last /\ ~(k + y < PcCount)
    <3>1. z = k + p - last - PcCount
      BY <2>2
    <3> QED
      BY <3>1
  <2>3. CASE ~(p >= last) /\ k + y < PcCount
    <3>1. z = k + p - last + PcCount
      BY <2>3
    <3> QED
      BY <3>1
  <2>4. CASE ~(p >= last) /\ ~(k + y < PcCount)
    <3>1. z = k + p - last
      BY <2>4
    <3> QED
      BY <3>1
  <2> QED
    BY <2>1, <2>2, <2>3, <2>4
<1> QED
  BY <1>1, <1>2, <1>5

LEMMA ResetSkew == ASSUME NEW p \in Pcs PROVE Minus(0, Minus(0, p)) = p
<1>1. PICK x \in Pcs : x = Minus(0, p) /\ x = IF 0 >= p THEN 0 - p
                                              ELSE 0 - p + PcCount
  BY MinusLinear, ZeroIsPc
<1>2. Minus(0, x) = IF 0 >= x THEN 0 - x ELSE 0 - x + PcCount
  BY MinusLinear, ZeroIsPc
<1>3. Minus(0, x) = p
  BY <1>1, <1>2, PcAssumption DEF Pcs
<1> QED
  BY <1>1, <1>3

-----------------------------------------------------------------------------
(***************************************************************************)
(* Chains of packets: reading the oldest and adding one at the end.        *)
(***************************************************************************)
LEMMA DecodeType ==
  ASSUME NEW pc \in Pcs, NEW pkt \in Packets
  PROVE  Decode(pc, pkt) \in Pcs
BY PlusLinear DEF Decode, Packets

LEMMA ReadChain ==
  ASSUME NEW pc \in Pcs, NEW pkts \in Seq(Packets), NEW os \in Seq(Origins),
         Len(pkts) = Len(os), os # <<>>, Chained(pc, pkts, os)
  PROVE  LET next == Decode(pc, pkts[1])
         IN  /\ next = Shown(Head(os))
             /\ Chained(next, Tail(pkts), Tail(os))
             /\ DecoderBefore(next, Tail(os), Len(Tail(os)) + 1)
                  = DecoderBefore(pc, os, Len(os) + 1)
<1> DEFINE next == Decode(pc, pkts[1])
<1>1. Len(os) \in Nat \ {0} /\ Head(os) = os[1] /\ pkts # <<>>
  OBVIOUS
<1>2. next = Shown(os[1])
  BY <1>1 DEF Chained, DecoderBefore
<1>3. /\ Len(Tail(os)) = Len(os) - 1
      /\ Len(Tail(pkts)) = Len(os) - 1
      /\ \A i \in 1 .. Len(os) - 1 : Tail(os)[i] = os[i + 1] /\ Tail(pkts)[i] = pkts[i + 1]
  BY <1>1, HeadTailProperties
<1> HIDE DEF next
<1>4. \A i \in 1 .. Len(os) : DecoderBefore(next, Tail(os), i) = DecoderBefore(pc, os, i + 1)
  <2> SUFFICES ASSUME NEW i \in 1 .. Len(os)
               PROVE  DecoderBefore(next, Tail(os), i) = DecoderBefore(pc, os, i + 1)
    OBVIOUS
  <2>1. CASE i = 1
    BY <1>1, <1>2, <2>1 DEF DecoderBefore
  <2>2. CASE i # 1
    <3>1. i - 1 \in 1 .. Len(os) - 1 /\ (i - 1) + 1 = i /\ (i + 1) - 1 = i
      BY <1>1, <2>2
    <3>2. Tail(os)[i - 1] = os[i]
      BY <1>3, <3>1
    <3> QED
      BY <1>1, <2>2, <3>1, <3>2 DEF DecoderBefore
  <2> QED
    BY <2>1, <2>2
<1>5. Chained(next, Tail(pkts), Tail(os))
  BY <1>1, <1>3, <1>4 DEF Chained
<1>6. DecoderBefore(next, Tail(os), Len(Tail(os)) + 1) = DecoderBefore(pc, os, Len(os) + 1)
  BY <1>1, <1>3, <1>4
<1> QED
  BY <1>1, <1>2, <1>5, <1>6 DEF next

LEMMA ExtendChain ==
  ASSUME NEW pc \in Pcs, NEW pkts \in Seq(Packets), NEW os \in Seq(Origins),
         NEW pkt \in Packets, NEW o \in Origins,
         Len(pkts) = Len(os), Chained(pc, pkts, os),
         Decode(DecoderBefore(pc, os, Len(os) + 1), pkt) = Shown(o)
  PROVE  /\ Chained(pc, Append(pkts, pkt), Append(os, o))
         /\ DecoderBefore(pc, Append(os, o), Len(Append(os, o)) + 1) = Shown(o)
<1>1. /\ Len(os) \in Nat
      /\ Len(Append(os, o)) = Len(os) + 1
      /\ Append(os, o)[Len(os) + 1] = o
      /\ Append(pkts, pkt)[Len(os) + 1] = pkt
      /\ \A i \in 1 .. Len(os) : Append(os, o)[i] = os[i] /\ Append(pkts, pkt)[i] = pkts[i]
  OBVIOUS
<1>2. \A i \in 1 .. Len(os) + 1 : DecoderBefore(pc, Append(os, o), i) = DecoderBefore(pc, os, i)
  <2> SUFFICES ASSUME NEW i \in 1 .. Len(os) + 1, i # 1
               PROVE  Append(os, o)[i - 1] = os[i - 1]
    BY DEF DecoderBefore
  <2>1. i - 1 \in 1 .. Len(os)
    BY <1>1
  <2> QED
    BY <1>1, <2>1
<1>3. Chained(pc, Append(pkts, pkt), Append(os, o))
  <2> SUFFICES ASSUME NEW i \in 1 .. Len(os) + 1
               PROVE  Decode(DecoderBefore(pc, os, i), Append(pkts, pkt)[i])
                        = Shown(Append(os, o)[i])
    BY <1>1, <1>2 DEF Chained
  <2>1. CASE i \in 1 .. Len(os)
    BY <1>1, <2>1 DEF Chained
  <2>2. CASE i = Len(os) + 1
    BY <1>1, <2>2
  <2> QED
    BY <1>1, <2>1, <2>2
<1>4. DecoderBefore(pc, Append(os, o), Len(Append(os, o)) + 1) = Shown(o)
  <2>1. (Len(os) + 1) + 1 # 1 /\ ((Len(os) + 1) + 1) - 1 = Len(os) + 1
    BY <1>1
  <2> QED
    BY <1>1, <2>1 DEF DecoderBefore
<1> QED
  BY <1>3, <1>4

-----------------------------------------------------------------------------
(***************************************************************************)
(* The inductive invariant: types, the FIFO's consistency, one origin per  *)
(* packet, and the chain.                                                  *)
(***************************************************************************)
Inv == TypeOK /\ PacketsQueued /\ PacketsChain /\ DecoderOffBySkew

LEMMA InitInv == Init => Inv
<1> SUFFICES ASSUME Init PROVE Inv
  OBVIOUS
<1>1. FifoInv
  BY FifoInitInv DEF Init
<1>2. count_r = 0 /\ origins = <<>> /\ Len(origins) = 0 /\ last_pc_r = 0 /\ skew = 0
        /\ current_pc = 0 /\ decoded = [pc |-> 0, skew |-> 0] /\ timer_r = 0
  BY DEF Init, FifoInit
<1>3. TypeOK
  BY <1>1, <1>2, ZeroIsPc, TimerAssumption DEF TypeOK, FifoInv, Origins
<1>4. PacketsQueued
  BY <1>1, <1>2 DEF PacketsQueued, FifoInv
<1>5. Minus(0, 0) = 0
  BY FullPacketMeets, ZeroIsPc
<1>6. PacketsChain
  BY <1>2, <1>5 DEF PacketsChain, Chained, DecoderBefore
<1>7. DecoderOffBySkew
  BY <1>2, <1>5 DEF DecoderOffBySkew
<1> QED
  BY <1>3, <1>4, <1>6, <1>7 DEF Inv

\* What the combinational logic offers to the FIFO is a packet.
LEMMA NextPacketType ==
  ASSUME TypeOK, NEW pc \in Pcs
  PROVE  next_packet(pc) \in Packets /\ delta(pc) \in Pcs
<1>1. delta(pc) \in Pcs
  BY MinusLinear DEF delta, TypeOK
<1> QED
  BY <1>1 DEF next_packet, Packets, TypeOK

\* The skew a commit leaves makes the decoder, run over the FIFO and the new
\* packet, meet the core again.
LEMMA SkewStep ==
  ASSUME TypeOK, NEW v \in BOOLEAN, NEW pc \in Pcs
  PROVE  LET k == SkewAfter(v, pc)
             last == IF v THEN pc ELSE last_pc_r
         IN  /\ k \in Pcs
             /\ Accepts(v, pc) =>
                  Decode(Minus(last_pc_r, skew), next_packet(pc)) = Minus(pc, k)
             /\ ~Accepts(v, pc) => Minus(last, k) = Minus(last_pc_r, skew)
<1>1. last_pc_r \in Pcs /\ skew \in Pcs /\ delta(pc) \in Pcs /\ 0 \in Pcs
  BY NextPacketType, ZeroIsPc DEF TypeOK
<1>2. CASE ~v
  BY <1>1, <1>2 DEF SkewAfter, Accepts, fifo_v_li
<1>3. CASE v /\ ~Accepts(v, pc)
  <2>1. SkewAfter(v, pc) = Plus(skew, delta(pc))
    BY <1>3 DEF SkewAfter
  <2>2. SkewAfter(v, pc) \in Pcs
    BY <1>1, <2>1, PlusLinear
  <2>3. Minus(pc, Plus(skew, Minus(pc, last_pc_r))) = Minus(last_pc_r, skew)
    BY <1>1, UnreportedAddsSkew
  <2> QED
    BY <1>3, <2>1, <2>2, <2>3 DEF delta
<1>4. CASE v /\ Accepts(v, pc) /\ is_compressed(pc)
  <2>1. SkewAfter(v, pc) = skew
    BY <1>4 DEF SkewAfter
  <2>2. Decode(Minus(last_pc_r, skew), next_packet(pc))
          = Plus(Minus(last_pc_r, skew), Minus(pc, last_pc_r))
    BY <1>4 DEF next_packet, Decode, delta
  <2>3. Plus(Minus(last_pc_r, skew), Minus(pc, last_pc_r)) = Minus(pc, skew)
    BY <1>1, ShortPacketKeepsSkew
  <2> QED
    BY <1>1, <1>4, <2>1, <2>2, <2>3
<1>5. CASE v /\ Accepts(v, pc) /\ ~is_compressed(pc)
  <2>1. SkewAfter(v, pc) = 0
    BY <1>5 DEF SkewAfter
  <2>2. Decode(Minus(last_pc_r, skew), next_packet(pc)) = pc
    BY <1>5 DEF next_packet, Decode
  <2>3. Minus(pc, 0) = pc
    BY FullPacketMeets
  <2> QED
    BY <1>1, <1>5, <2>1, <2>2, <2>3
<1> QED
  BY <1>2, <1>3, <1>4, <1>5
LEMMA ClockInv ==
  ASSUME Inv, NEW v \in BOOLEAN, NEW pc \in Pcs, NEW r \in BOOLEAN,
         Clock(v, pc, r)
  PROVE  Inv'
<1> DEFINE k == SkewAfter(v, pc)
           new == [pc |-> pc, skew |-> k]
           in == Accepts(v, pc)
           out == Emits(r)
           keptP == IF out THEN Tail(Contents) ELSE Contents
           keptO == IF out THEN Tail(origins) ELSE origins
<1>1. /\ TypeOK /\ FifoInv /\ Len(origins) = count_r
      /\ last_pc_r \in Pcs /\ current_pc \in Pcs /\ skew \in Pcs
      /\ origins \in Seq(Origins) /\ decoded \in Origins
      /\ timer_r \in 0 .. TimerMax
      /\ Data = Packets
  BY WidthAssumption DEF Inv, TypeOK, PacketsQueued, FifoInv
<1>2. /\ Contents \in Seq(Packets) /\ Len(Contents) = count_r
      /\ \A i \in 1 .. count_r : Contents[i] = mem_r[Slot(i)]
  BY <1>1, ContentsIsSeq
<1>3. next_packet(pc) \in Packets
  BY <1>1, NextPacketType
<1>4. k \in Pcs /\ new \in Origins
  BY <1>1, SkewStep DEF Origins
<1>5. FifoClock(fifo_v_li(v, pc), next_packet(pc), out)
  BY DEF Clock
<1>6. in \in BOOLEAN /\ out \in BOOLEAN /\ fifo_v_li(v, pc) \in BOOLEAN
  BY DEF Accepts, Emits, fifo_v_li, is_discontinuity, ready_o, v_o
<1>7. FifoInv'
  BY <1>1, <1>3, <1>5, <1>6, FifoClockInv
<1>8. /\ Contents' = IF in THEN Append(keptP, next_packet(pc)) ELSE keptP
      /\ Len(Contents') = count_r'
      /\ Contents' \in Seq(Packets)
  <2>1. /\ Contents' = AfterClock(fifo_v_li(v, pc), next_packet(pc), out)
        /\ Len(Contents') = count_r'
        /\ Contents' \in Seq(Packets)
    BY <1>1, <1>3, <1>5, <1>6, FifoClockContents
  <2>2. (out /\ ~empty <=> out) /\ (fifo_v_li(v, pc) /\ ~full <=> in)
    BY DEF Emits, v_o, Accepts, ready_o
  <2> QED
    BY <2>1, <2>2 DEF AfterClock, Remaining
<1>9. /\ origins' = IF in THEN Append(keptO, new) ELSE keptO
      /\ skew' = k
      /\ decoded' = IF out THEN Head(origins) ELSE decoded
      /\ last_pc_r' = IF v THEN pc ELSE last_pc_r
      /\ timer_r' \in 0 .. TimerMax
  BY <1>1, TimerAssumption DEF Clock, RecordHistory, Encode
<1>10. out => /\ origins # <<>> /\ Contents # <<>>
              /\ data_o = Contents[1]
              /\ current_pc' = Decode(current_pc, Contents[1])
  <2> SUFFICES ASSUME out
               PROVE  /\ origins # <<>> /\ Contents # <<>>
                      /\ data_o = Contents[1]
                      /\ current_pc' = Decode(current_pc, Contents[1])
    OBVIOUS
  <2>1. count_r # 0 /\ count_r \in 1 .. Depth
    BY <1>1, DepthAssumption DEF Emits, v_o, empty, FifoInv, FifoTypeOK
  <2>2. Slot(1) = rptr_r
    <3>1. 1 \in 1 .. Depth /\ rptr_r \in Slots
      BY <1>1, DepthAssumption DEF FifoInv, FifoTypeOK
    <3>2. Slot(1) = IF rptr_r + (1 - 1) < Depth
                    THEN rptr_r + (1 - 1) ELSE rptr_r + (1 - 1) - Depth
      BY <1>1, <3>1, SlotValue
    <3> QED
      BY <3>1, <3>2, DepthAssumption DEF Slots
  <2>3. data_o = Contents[1]
    BY <1>2, <2>1, <2>2 DEF data_o
  <2>4. current_pc' = Decode(current_pc, data_o)
    BY DEF Clock
  <2> QED
    BY <1>1, <1>2, <2>1, <2>3, <2>4
<1>11. ~out => current_pc' = current_pc
  BY DEF Clock
<1> HIDE DEF in, out
<1>12. /\ keptP \in Seq(Packets) /\ keptO \in Seq(Origins) /\ Len(keptP) = Len(keptO)
       /\ current_pc' \in Pcs /\ decoded' \in Origins
       /\ out => current_pc' = Shown(decoded')
       /\ Chained(current_pc', keptP, keptO)
       /\ DecoderBefore(current_pc', keptO, Len(keptO) + 1) = Minus(last_pc_r, skew)
  <2>1. /\ Chained(current_pc, Contents, origins)
        /\ DecoderBefore(current_pc, origins, Len(origins) + 1) = Minus(last_pc_r, skew)
    BY DEF Inv, PacketsChain
  <2>2. CASE out
    <3>1. Contents[1] \in Packets /\ current_pc' \in Pcs
      BY <1>1, <1>2, <1>10, <2>2, DecodeType
    <3>2. /\ current_pc' = Shown(Head(origins))
          /\ Chained(current_pc', Tail(Contents), Tail(origins))
          /\ DecoderBefore(current_pc', Tail(origins), Len(Tail(origins)) + 1)
               = DecoderBefore(current_pc, origins, Len(origins) + 1)
      BY <1>1, <1>2, <1>10, <2>1, <2>2, ReadChain
    <3>3. /\ Head(origins) \in Origins
          /\ Tail(origins) \in Seq(Origins) /\ Tail(Contents) \in Seq(Packets)
          /\ Len(Tail(origins)) = Len(Tail(Contents))
      BY <1>1, <1>2, <1>10, <2>2, HeadTailProperties
    <3> QED
      BY <1>9, <2>1, <2>2, <3>1, <3>2, <3>3
  <2>3. CASE ~out
    BY <1>1, <1>2, <1>9, <1>11, <2>1, <2>3
  <2> QED
    BY <2>2, <2>3
<1> HIDE DEF keptP, keptO
<1>13. /\ Len(origins') = Len(Contents') /\ origins' \in Seq(Origins)
       /\ Chained(current_pc', Contents', origins')
       /\ DecoderBefore(current_pc', origins', Len(origins') + 1)
            = Minus(last_pc_r', skew')
  <2>1. CASE in
    <3>1. Decode(Minus(last_pc_r, skew), next_packet(pc)) = Minus(pc, k) /\ v = TRUE
      BY <1>1, <2>1, SkewStep DEF in, Accepts, fifo_v_li
    <3>2. Shown(new) = Minus(pc, k)
      BY DEF Shown
    <3> HIDE DEF new, k
    <3>3. /\ Chained(current_pc', Append(keptP, next_packet(pc)), Append(keptO, new))
          /\ DecoderBefore(current_pc', Append(keptO, new), Len(Append(keptO, new)) + 1)
               = Shown(new)
      BY <1>3, <1>4, <1>12, <3>1, <3>2, ExtendChain
    <3>4. /\ Append(keptO, new) \in Seq(Origins)
          /\ Len(Append(keptO, new)) = Len(Append(keptP, next_packet(pc)))
      BY <1>3, <1>4, <1>12
    <3>5. last_pc_r' = pc
      BY <1>9, <3>1
    <3> QED
      BY <1>8, <1>9, <2>1, <3>2, <3>3, <3>4, <3>5
  <2>2. CASE ~in
    <3>1. Minus(last_pc_r', skew') = Minus(last_pc_r, skew)
      BY <1>1, <1>9, <2>2, SkewStep DEF in
    <3> QED
      BY <1>8, <1>9, <1>12, <2>2, <3>1
  <2> QED
    BY <2>1, <2>2
<1>14. TypeOK'
  BY <1>4, <1>7, <1>9, <1>12, <1>13, <1>1 DEF TypeOK, FifoInv
<1>15. PacketsQueued'
  BY <1>7, <1>8, <1>13 DEF PacketsQueued, FifoInv
<1>16. PacketsChain'
  BY <1>13 DEF PacketsChain
<1>17. DecoderOffBySkew'
  BY <1>9, <1>11, <1>12 DEF Inv, DecoderOffBySkew, Shown
<1> QED
  BY <1>14, <1>15, <1>16, <1>17 DEF Inv

LEMMA ResetInv == Inv /\ Reset => Inv'
<1> SUFFICES ASSUME Inv, Reset PROVE Inv'
  OBVIOUS
<1>1. FifoInv'
  BY FifoResetInv DEF Inv, TypeOK, PacketsQueued, FifoInv, Reset
<1>2. /\ count_r' = 0 /\ origins' = <<>> /\ Len(origins') = 0 /\ last_pc_r' = 0
      /\ timer_r' = 0 /\ skew' = Minus(0, current_pc)
      /\ current_pc' = current_pc /\ decoded' = decoded
  BY DEF Reset, FifoReset
<1>3. current_pc \in Pcs /\ decoded \in Origins
  BY DEF Inv, TypeOK
<1>4. skew' \in Pcs
  BY <1>2, <1>3, MinusLinear, ZeroIsPc
<1>5. TypeOK'
  BY <1>1, <1>2, <1>3, <1>4, ZeroIsPc, TimerAssumption DEF TypeOK, FifoInv
<1>6. Minus(0, skew') = current_pc
  BY <1>2, <1>3, ResetSkew
<1>7. PacketsQueued' /\ PacketsChain'
  BY <1>1, <1>2, <1>6 DEF PacketsQueued, FifoInv, PacketsChain, Chained, DecoderBefore
<1>8. DecoderOffBySkew'
  BY <1>2 DEF Inv, DecoderOffBySkew
<1> QED
  BY <1>5, <1>7, <1>8 DEF Inv

LEMMA NextInv == Inv /\ [Next]_vars => Inv'
<1> SUFFICES ASSUME Inv, [Next]_vars PROVE Inv'
  OBVIOUS
<1>1. ASSUME NEW v \in BOOLEAN, NEW pc \in Pcs, NEW r \in SinkReady, Clock(v, pc, r)
      PROVE  Inv'
  <2>1. r \in BOOLEAN
    BY DEF SinkReady
  <2> QED
    BY <1>1, <2>1, ClockInv
<1>2. CASE Reset
  BY <1>2, ResetInv
<1>3. CASE UNCHANGED vars
  BY <1>3 DEF vars, encoderVars, fifoVars, historyVars, Inv, TypeOK, FifoTypeOK,
     PacketsQueued, PointersAgree, PacketsChain, DecoderOffBySkew, Contents, Slot
<1> QED
  BY <1>1, <1>2, <1>3 DEF Next

(***************************************************************************)
(* For every bus width and FIFO depth, whatever the core commits and       *)
(* however the sink stalls, the decoder shows the pc of the commit it just *)
(* decoded less the deltas left unreported since the last full packet.     *)
(***************************************************************************)
THEOREM DecoderErrorIsSkew == Spec => [](TypeOK /\ DecoderOffBySkew)
<1> QED
  BY InitInv, NextInv, PTL DEF Spec, Inv

\* The registers of the encoder and of its FIFO keep to their widths: no delta
\* and no pointer of the FIFO leaves its range.
THEOREM EncoderTyped == Spec => []TypeOK
<1> QED
  BY InitInv, NextInv, PTL DEF Spec, Inv

\* The chain of packets in the FIFO leads the decoder to the core's last pc
\* less the skew, and the FIFO holds one packet per recorded origin.
THEOREM PacketsLeadToCore == Spec => [](PacketsQueued /\ PacketsChain)
<1> QED
  BY InitInv, NextInv, PTL DEF Spec, Inv
-----------------------------------------------------------------------------
(***************************************************************************)
(* With a sink that is always ready, as the testbench drives it, the FIFO  *)
(* never holds two packets: back-pressure is out of the testbench's reach. *)
(***************************************************************************)
THEOREM ReadySinkNeverBacksUp ==
  ASSUME SinkMayStall = FALSE
  PROVE  Spec => []NeverHoldsTwo
<1>1. Inv /\ NeverHoldsTwo /\ [Next]_vars => NeverHoldsTwo'
  <2> SUFFICES ASSUME Inv, NeverHoldsTwo, [Next]_vars PROVE NeverHoldsTwo'
    OBVIOUS
  <2>1. count_r \in 0 .. Depth
    BY DEF Inv, TypeOK, FifoTypeOK
  <2>2. ASSUME NEW v \in BOOLEAN, NEW pc \in Pcs, NEW r \in SinkReady, Clock(v, pc, r)
        PROVE  NeverHoldsTwo'
    <3>1. Emits(r) <=> ~empty
      BY DEF SinkReady, Emits, v_o
    <3>2. Count(fifo_v_li(v, pc), Emits(r))
      BY <2>2 DEF Clock, FifoClock
    <3> QED
      BY <2>1, <3>1, <3>2, DepthAssumption DEF Count, NeverHoldsTwo, empty
  <2>3. CASE Reset
    BY <2>3 DEF Reset, FifoReset, NeverHoldsTwo
  <2>4. CASE UNCHANGED vars
    BY <2>4 DEF vars, fifoVars, NeverHoldsTwo
  <2> QED
    BY <2>2, <2>3, <2>4 DEF Next
<1>2. Init => NeverHoldsTwo
  BY DEF Init, FifoInit, NeverHoldsTwo
<1> QED
  BY <1>1, <1>2, InitInv, NextInv, PTL DEF Spec
=============================================================================
