--------------------------- MODULE SchedulerProofs ---------------------------
(***************************************************************************)
(* What the operations of the scheduler do to the list of coroutines, for  *)
(* any kind of coroutine: one is changed, erased or added, the others stay *)
(* as they are and in their order.                                         *)
(***************************************************************************)
EXTENDS Scheduler, SequenceTheorems, TLAPS

\* ConcatProperties for a sequence that is known to be a concatenation.
LEMMA Joined ==
  ASSUME NEW T, NEW s \in Seq(T), NEW t \in Seq(T), NEW u, u = s \o t
  PROVE  /\ u \in Seq(T)
         /\ Len(u) = Len(s) + Len(t)
         /\ \A j \in 1 .. Len(s) + Len(t) :
              u[j] = IF j <= Len(s) THEN s[j] ELSE t[j - Len(s)]
<1>1. /\ s \o t \in Seq(T)
      /\ Len(s \o t) = Len(s) + Len(t)
      /\ \A j \in 1 .. Len(s) + Len(t) :
           (s \o t)[j] = IF j <= Len(s) THEN s[j] ELSE t[j - Len(s)]
  BY ConcatProperties, Zenon
<1> QED BY <1>1, Zenon

LEMMA RemoveAtProperties ==
  ASSUME NEW T, NEW s \in Seq(T), NEW i \in 1 .. Len(s)
  PROVE  /\ RemoveAt(s, i) \in Seq(T)
         /\ Len(RemoveAt(s, i)) = Len(s) - 1
         /\ \A j \in 1 .. Len(s) - 1 :
              RemoveAt(s, i)[j] = IF j < i THEN s[j] ELSE s[j + 1]
<1> DEFINE before == SubSeq(s, 1, i - 1)
           after == SubSeq(s, i + 1, Len(s))
<1>1. Len(s) \in Nat /\ \A j \in 1 .. Len(s) : s[j] \in T
  OBVIOUS
<1>2. /\ before \in Seq(T) /\ Len(before) = i - 1
      /\ \A j \in 1 .. i - 1 : before[j] = s[j]
  BY <1>1, SubSeqProperties
<1>3. /\ after \in Seq(T) /\ Len(after) = Len(s) - i
      /\ \A j \in 1 .. Len(s) - i : after[j] = s[i + j]
  <2>1. i + 1 \in Int /\ Len(s) \in Int /\ \A j \in i + 1 .. Len(s) : s[j] \in T
    BY <1>1
  <2>2. /\ after \in Seq(T)
        /\ Len(after) = IF i + 1 <= Len(s) THEN Len(s) - (i + 1) + 1 ELSE 0
        /\ \A j \in 1 .. Len(s) - (i + 1) + 1 : after[j] = s[i + 1 + j - 1]
    BY <2>1, SubSeqProperties
  <2>3. \A j \in 1 .. Len(s) - i : i + 1 + j - 1 = i + j
    BY <1>1
  <2> QED BY <1>1, <2>2, <2>3
<1>4. RemoveAt(s, i) = before \o after
  BY DEF RemoveAt
<1> HIDE DEF before, after
<1>5. /\ RemoveAt(s, i) \in Seq(T)
      /\ Len(RemoveAt(s, i)) = Len(before) + Len(after)
      /\ \A j \in 1 .. Len(before) + Len(after) :
           RemoveAt(s, i)[j] = IF j <= Len(before) THEN before[j]
                               ELSE after[j - Len(before)]
  <2>1. PICK b \in Seq(T), a \in Seq(T) : b = before /\ a = after
    BY <1>2, <1>3
  <2>2. RemoveAt(s, i) = b \o a
    BY <1>4, <2>1
  <2> QED BY <2>1, <2>2, Joined
<1>6. Len(before) + Len(after) = Len(s) - 1
  BY <1>1, <1>2, <1>3
<1>7. ASSUME NEW j \in 1 .. Len(s) - 1
      PROVE  RemoveAt(s, i)[j] = IF j < i THEN s[j] ELSE s[j + 1]
  <2>1. CASE j < i
    <3>1. j <= Len(before) /\ j \in 1 .. i - 1 /\ j \in 1 .. Len(before) + Len(after)
      BY <1>1, <1>2, <1>6, <2>1
    <3> QED BY <1>2, <1>5, <2>1, <3>1
  <2>2. CASE ~(j < i)
    <3>1. /\ ~(j <= Len(before)) /\ j - (i - 1) \in 1 .. Len(s) - i
          /\ i + (j - (i - 1)) = j + 1
          /\ j \in 1 .. Len(before) + Len(after)
      BY <1>1, <1>2, <1>6, <2>2
    <3> QED BY <1>2, <1>3, <1>5, <2>2, <3>1
  <2> QED BY <2>1, <2>2
<1> QED BY <1>5, <1>6, <1>7

\* A coroutine that runs on to another yield.
LEMMA RunOn ==
  ASSUME NEW T, co_list \in Seq(T), pos \in 1 .. Len(co_list), NEW u \in T,
         co_list' = [co_list EXCEPT ![pos] = u]
  PROVE  /\ co_list' \in Seq(T)
         /\ Len(co_list') = Len(co_list)
         /\ \A k \in 1 .. Len(co_list) :
              co_list'[k] = IF k = pos THEN u ELSE co_list[k]
BY ExceptSeq

\* A coroutine that ends: those after it move up.
LEMMA FinishProperties ==
  ASSUME NEW T, co_list \in Seq(T), pos \in 1 .. Len(co_list), Finish
  PROVE  /\ co_list' \in Seq(T)
         /\ Len(co_list') = Len(co_list) - 1
         /\ \A k \in 1 .. Len(co_list) - 1 :
              co_list'[k] = IF k < pos THEN co_list[k] ELSE co_list[k + 1]
         /\ pos' = pos
BY RemoveAtProperties DEF Finish

\* A coroutine that starts.
LEMMA SpawnProperties ==
  ASSUME NEW T, co_list \in Seq(T), NEW u \in T, Spawn(u)
  PROVE  /\ co_list' \in Seq(T)
         /\ Len(co_list') = Len(co_list) + 1
         /\ \A k \in 1 .. Len(co_list) : co_list'[k] = co_list[k]
         /\ co_list'[Len(co_list) + 1] = u
BY AppendProperties DEF Spawn
=============================================================================
