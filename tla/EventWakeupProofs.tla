-------------------------- MODULE EventWakeupProofs --------------------------
(***************************************************************************)
(* Proofs about module EventWakeup for every capacity, batch size and set  *)
(* of maxevents values.                                                    *)
(***************************************************************************)
EXTENDS EventWakeup, TLAPS

\* A number below the batch whose successor is no multiple of it is not the
\* last one below it.
LEMMA BelowBatch ==
  ASSUME TypeOK, (passes + 1) % Batch # 0
  PROVE  passes + 1 < Batch
<1>1. CASE passes + 1 = Batch
  <2>1. Batch % Batch = 0
    BY CapAssumption
  <2> QED
    BY <1>1, <2>1
<1> QED
  BY <1>1, CapAssumption DEF TypeOK

\* A message handed to the caller below the limit stays below the limits of the
\* loop and of the caller's array.
LEMMA HandleTyped == ASSUME TypeOK, queue > 0, ~AtLimit, Handle PROVE TypeOK'
<1>1. passes + 1 < Batch /\ evnum < maxevents
  BY BelowBatch DEF AtLimit, TypeOK
<1> QED
  BY <1>1, CapAssumption DEF TypeOK, Handle, writer

\* Nothing is pending and nobody is asleep wrongly when the queues are created.
LEMMA InitIInv == Init => IInv
  BY CapAssumption DEF Init, IInv, TypeOK, SleepIsCovered, SelectIsCovered,
                       DequeueBelowLimit

\* Each step of the writer and of the reader preserves the covering of a sleep.
LEMMA NextIInv == IInv /\ [Next]_vars => IInv'
<1> SUFFICES ASSUME IInv, [Next]_vars PROVE IInv'
  OBVIOUS
<1> USE CapAssumption DEF IInv, DequeueBelowLimit, AtLimit
<1>1. CASE Publish
  BY <1>1 DEF Publish, TypeOK, SleepIsCovered, SelectIsCovered, reader
<1>2. CASE Signal
  <2>1. fifo' > 0
    BY <1>2 DEF Signal, TypeOK
  <2>2. TypeOK'
    BY <1>2 DEF Signal, TypeOK, reader
  <2> QED
    BY <1>2, <2>1, <2>2 DEF Signal, SleepIsCovered, SelectIsCovered, reader
<1>3. CASE \E m \in MaxEvents : Poll(m)
  <2>1. PICK m \in MaxEvents : Poll(m)
    BY <1>3
  <2> QED
    BY <2>1 DEF Poll, TypeOK, SleepIsCovered, SelectIsCovered, writer
<1>4. CASE Limit
  BY <1>4 DEF Limit, TypeOK, SleepIsCovered, SelectIsCovered, writer
<1>5. CASE Read
  <2>1. TypeOK'
    BY <1>5, HandleTyped DEF Read
  <2> QED
    BY <1>5, <2>1 DEF Read, Handle, SleepIsCovered, SelectIsCovered
<1>6. CASE ReadEmpty
  BY <1>6 DEF ReadEmpty, TypeOK, SleepIsCovered, SelectIsCovered, writer
<1>7. CASE SelectIdle
  BY <1>7 DEF SelectIdle, TypeOK, SleepIsCovered, SelectIsCovered, writer
<1>8. CASE Drain
  <2>1. fifo' \in 0..FifoCap
    BY <1>8 DEF Drain, TypeOK
  <2> QED
    BY <1>8, <2>1 DEF Drain, TypeOK, SleepIsCovered, SelectIsCovered, writer
<1>9. CASE Reread
  <2>1. TypeOK'
    BY <1>9, HandleTyped DEF Reread
  <2> QED
    BY <1>9, <2>1 DEF Reread, Handle, SleepIsCovered, SelectIsCovered
<1>10. CASE RereadEmpty
  BY <1>10 DEF RereadEmpty, TypeOK, SleepIsCovered, SelectIsCovered, writer
<1>11. CASE UNCHANGED vars
  BY <1>11 DEF vars, writer, reader, TypeOK, SleepIsCovered, SelectIsCovered
<1> QED
  BY <1>1, <1>2, <1>3, <1>4, <1>5, <1>6, <1>7, <1>8, <1>9, <1>10, <1>11
  DEF Next, Enqueue, Consume, PublishFull, PollTimeout

\* A reader of usnet_shmmq_dequeue that left its loop because the queue was
\* empty never sleeps on a message whose byte is neither in the fifo nor about
\* to be written, for every size of the ring, the fifo, the drain and the batch.
THEOREM NoLostWakeupAfterEmpty == Spec => []SleepIsCovered
<1>1. IInv => SleepIsCovered
  BY DEF IInv
<1> QED
  BY <1>1, InitIInv, NextIInv, PTL DEF Spec

\* The ring and the fifo stay within their capacity, a call of usnet_epoll_wait
\* reports no more events than its caller has room for, and neither loop makes
\* more passes than its limit, whatever the capacities, the batch and maxevents.
THEOREM WakeupTyped == Spec => []TypeOK
<1>1. IInv => TypeOK
  BY DEF IInv
<1> QED
  BY <1>1, InitIInv, NextIInv, PTL DEF Spec

=============================================================================
