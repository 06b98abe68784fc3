---------------------------- MODULE BoundedQueue ----------------------------
(***************************************************************************)
(* What a hardware FIFO promises to its two sides: a queue of at most      *)
(* Capacity items that loses nothing it accepted, duplicates nothing and   *)
(* keeps the order.  One step is one clock edge: it may accept one item,   *)
(* release one item, or both.  An item is accepted only if the queue was   *)
(* not full BEFORE the edge, even when the same edge releases one, because *)
(* ready_o is computed from the registered count.                          *)
(***************************************************************************)
EXTENDS Naturals, Sequences

CONSTANTS
  Data,       \* the items a producer may offer
  Capacity    \* the number of items the queue can hold

VARIABLE queue    \* the items accepted and not yet released, oldest first

TypeOK == queue \in Seq(Data)

Bounded == Len(queue) <= Capacity

Init == queue = <<>>

HasRoom == Len(queue) < Capacity
HasItem == queue # <<>>

Accept(d) == HasRoom /\ queue' = Append(queue, d)

Release == HasItem /\ queue' = Tail(queue)

AcceptAndRelease(d) ==
  /\ HasRoom /\ HasItem
  /\ queue' = Append(Tail(queue), d)

Clear == queue' = <<>>

Next ==
  \/ \E d \in Data : Accept(d) \/ AcceptAndRelease(d)
  \/ Release
  \/ Clear

Spec == Init /\ [][Next]_queue
=============================================================================
