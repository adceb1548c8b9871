------------------------------ MODULE FifoQueue ------------------------------
(***************************************************************************)
(* What a shared-memory message queue of mq.c promises to the two          *)
(* processes that use it: whatever one side enqueues comes out on the      *)
(* other side whole, once, and in the same order.  A refused enqueue and a *)
(* dequeue from an empty queue leave no trace.                             *)
(***************************************************************************)
EXTENDS Sequences

CONSTANT Data      \* the message bodies that can be enqueued

VARIABLES
  queue,           \* bodies enqueued and not yet dequeued, oldest first
  delivered        \* every body dequeued so far

vars == <<queue, delivered>>

Init ==
  /\ queue = << >>
  /\ delivered = << >>

Enqueue(d) ==
  /\ queue' = Append(queue, d)
  /\ UNCHANGED delivered

Dequeue ==
  /\ queue # << >>
  /\ delivered' = Append(delivered, Head(queue))
  /\ queue' = Tail(queue)

Next == (\E d \in Data : Enqueue(d)) \/ Dequeue

Spec == Init /\ [][Next]_vars
=============================================================================
