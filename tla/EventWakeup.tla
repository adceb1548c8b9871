----------------------------- MODULE EventWakeup -----------------------------
(***************************************************************************)
(* How the reader of a shared-memory queue learns that there is a message. *)
(* The writer appends a message and then writes one byte to a fifo         *)
(* (usnet_shmmq_enqueue).  The reader sleeps in poll() on the fifo and,    *)
(* once it is readable, takes messages in a loop (usnet_epoll_wait in the  *)
(* application, usnet_tcpev_net in the net process) until the queue is     *)
(* empty or the loop reaches a limit.  usnet_shmmq_dequeue takes the bytes *)
(* out of the fifo only when it finds the queue empty.                     *)
(*                                                                         *)
(* The queue itself is module ShmMQ; here it is the number of messages in  *)
(* it, and a read or an append is one step.                                *)
(***************************************************************************)
EXTENDS Integers

CONSTANTS
  QueueCap,    \* messages the ring can hold; a full ring drops the message
  FifoCap,     \* bytes the fifo can hold; a full fifo drops the byte
  DrainMax,    \* buf_len of the read in usnet_shmmq_dequeue, 1024
  Batch,       \* the loop is left when its pass number is a multiple of it, 10000
  MaxEvents    \* the maxevents values a caller passes (a value the loop
               \* cannot reach stands for usnet_tcpev_net, which has none)

ASSUME CapAssumption ==
  /\ QueueCap \in Nat \ {0}
  /\ FifoCap \in Nat \ {0}
  /\ DrainMax \in Nat \ {0}
  /\ Batch \in Nat \ {0}
  /\ MaxEvents \subseteq Nat

VARIABLES
  queue,     \* messages in the ring
  fifo,      \* bytes in the fifo
  wpc,       \* writer: "idle", or "signal" between the append and the byte
  rpc,       \* reader: "poll", "loop", "select" or "reread"
  maxevents, \* reader: the argument of the current call
  passes,    \* reader: completed passes of its loop
  evnum,     \* reader: events reported by the current call
  exit       \* reader: why the last call ended, "empty" or "limit"

writer == <<wpc>>
reader == <<rpc, maxevents, passes, evnum, exit>>
vars == <<queue, fifo, writer, reader>>

Init ==
  /\ queue = 0
  /\ fifo = 0
  /\ wpc = "idle"
  /\ rpc = "poll" /\ maxevents = 0 /\ passes = 0 /\ evnum = 0
  /\ exit = "empty"

-----------------------------------------------------------------------------
(* The writer: usnet_shmmq_enqueue. *)

Publish ==
  /\ wpc = "idle"
  /\ queue < QueueCap
  /\ queue' = queue + 1
  /\ wpc' = "signal"
  /\ UNCHANGED <<fifo, reader>>

\* usnet_write_mq found no room: enqueue returns before the byte is written and
\* no caller looks at the result.
PublishFull ==
  /\ wpc = "idle"
  /\ queue = QueueCap
  /\ UNCHANGED vars

\* Mutant: the byte is written for some of the messages only (what
\* USE_ADAPTIVE_CONTROL would do).
SignalSometimes ==
  /\ wpc = "signal"
  /\ fifo' \in {fifo, fifo + 1} \cap 0..FifoCap
  /\ wpc' = "idle"
  /\ UNCHANGED <<queue, reader>>

\* The write is non-blocking: with the fifo full the byte is dropped.
Signal ==
  /\ wpc = "signal"
  /\ fifo' = IF fifo < FifoCap THEN fifo + 1 ELSE fifo
  /\ wpc' = "idle"
  /\ UNCHANGED <<queue, reader>>

-----------------------------------------------------------------------------
(* The reader: usnet_epoll_wait and usnet_tcpev_net, with the call of       *)
(* usnet_shmmq_dequeue they make in each pass.                              *)

Poll(m) ==
  /\ rpc = "poll"
  /\ fifo > 0
  /\ rpc' = "loop" /\ maxevents' = m /\ passes' = 0 /\ evnum' = 0
  /\ UNCHANGED <<queue, fifo, writer, exit>>

\* poll() times out: the call returns 0 and the caller makes the next one.
PollTimeout ==
  /\ rpc = "poll"
  /\ fifo = 0
  /\ UNCHANGED vars

\* Mutant: the limit is noticed one event late.
AtLimitLate == (passes + 1) % Batch = 0 \/ evnum > maxevents

\* The head of the loop, before it calls usnet_shmmq_dequeue: a message that
\* this call finds only at its second look at the queue is handled as well.
AtLimit == (passes + 1) % Batch = 0 \/ evnum >= maxevents

Limit ==
  /\ rpc = "loop"
  /\ AtLimit
  /\ rpc' = "poll" /\ exit' = "limit"
  /\ UNCHANGED <<queue, fifo, writer, maxevents, passes, evnum>>

\* The reader has a message.  A READ for a descriptor nobody watches, a TCPST
\* or an ERROR is consumed without being reported.
Handle ==
  /\ queue' = queue - 1
  /\ rpc' = "loop"
  /\ passes' = passes + 1
  /\ evnum' \in {evnum, evnum + 1}
  /\ UNCHANGED <<fifo, writer, maxevents, exit>>

Read ==
  /\ rpc = "loop"
  /\ ~AtLimit
  /\ queue > 0
  /\ Handle

ReadEmpty ==
  /\ rpc = "loop"
  /\ ~AtLimit
  /\ queue = 0
  /\ rpc' = "select"
  /\ UNCHANGED <<queue, fifo, writer, maxevents, passes, evnum, exit>>

\* select() reports no byte: dequeue returns with data_len still 0.
SelectIdle ==
  /\ rpc = "select"
  /\ fifo = 0
  /\ rpc' = "poll" /\ exit' = "empty"
  /\ UNCHANGED <<queue, fifo, writer, maxevents, passes, evnum>>

Drain ==
  /\ rpc = "select"
  /\ fifo > 0
  /\ fifo' = IF fifo > DrainMax THEN fifo - DrainMax ELSE 0
  /\ rpc' = "reread"
  /\ UNCHANGED <<queue, writer, maxevents, passes, evnum, exit>>

Reread ==
  /\ rpc = "reread"
  /\ queue > 0
  /\ Handle

\* Mutant: the bytes were taken, and the queue is not looked at again.
RereadSkipped ==
  /\ rpc = "reread"
  /\ rpc' = "poll" /\ exit' = "empty"
  /\ UNCHANGED <<queue, fifo, writer, maxevents, passes, evnum>>

RereadEmpty ==
  /\ rpc = "reread"
  /\ queue = 0
  /\ rpc' = "poll" /\ exit' = "empty"
  /\ UNCHANGED <<queue, fifo, writer, maxevents, passes, evnum>>

Enqueue == Publish \/ PublishFull \/ Signal

Consume ==
  \/ \E m \in MaxEvents : Poll(m)
  \/ PollTimeout \/ Limit
  \/ Read \/ ReadEmpty \/ SelectIdle \/ Drain \/ Reread \/ RereadEmpty

Next == Enqueue \/ Consume

\* Both processes keep running: the writer finishes an enqueue it began, the
\* reader keeps calling.  Nothing obliges the writer to enqueue.
Fairness == WF_vars(Signal) /\ WF_vars(Consume)

Spec == Init /\ [][Next]_vars /\ Fairness

-----------------------------------------------------------------------------
(* Properties. *)

\* The ring and the fifo stay within their capacity (a full one drops, in
\* usnet_shmmq_enqueue), a call of usnet_epoll_wait writes no more events than
\* the array of its caller has room for, also when the message is only found
\* after the fifo was emptied, and no call makes more passes than the limit.
TypeOK ==
  /\ queue \in 0..QueueCap
  /\ fifo \in 0..FifoCap
  /\ wpc \in {"idle", "signal"}
  /\ rpc \in {"poll", "loop", "select", "reread"}
  /\ maxevents \in Nat /\ passes \in 0..(Batch - 1)
  /\ evnum \in 0..maxevents /\ evnum <= passes
  /\ exit \in {"empty", "limit"}

\* A reader that went back to poll() because it found the queue empty sleeps
\* only while nothing is pending: a message that arrived in between has its
\* byte in the fifo or the writer is about to write it.  Taking the bytes out
\* before the second read of usnet_shmmq_dequeue is what makes this true.
SleepIsCovered ==
  (rpc = "poll" /\ exit = "empty" /\ queue > 0) => (fifo > 0 \/ wpc = "signal")

\* The strengthening that makes it inductive: between finding the queue empty
\* and looking at the fifo, only messages with a byte of their own arrive.
SelectIsCovered ==
  (rpc = "select" /\ queue > 0) => (fifo > 0 \/ wpc = "signal")

\* The limit was not reached when usnet_shmmq_dequeue was called, and is not
\* looked at again before the message of its second look is handled.
DequeueBelowLimit == rpc \in {"select", "reread"} => ~AtLimit

IInv == TypeOK /\ SleepIsCovered /\ SelectIsCovered /\ DequeueBelowLimit

\* So such a reader is woken for every message enqueued while it sleeps.
EmptySleeperWakes ==
  (rpc = "poll" /\ exit = "empty" /\ queue > 0) ~> (rpc # "poll")

\* What the fifo is for ("used for notification"; "if no data, wait on fifo"):
\* a reader never waits forever while the queue holds a message.
PendingIsNotified == (rpc = "poll" /\ queue > 0) ~> (rpc # "poll")
=============================================================================
