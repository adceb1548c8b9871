-------------------------- MODULE ConnectionProofs --------------------------
(***************************************************************************)
(* Proofs about Connection, for any number of peers, descriptors, blocks   *)
(* and waiting events.                                                     *)
(***************************************************************************)
EXTENDS Connection, SequenceTheorems, TLAPS

-----------------------------------------------------------------------------
(* The inductive invariant. *)

\* The id of a block is its own; a socket points to a block made before, or
\* to none.
Ids ==
  /\ nextId > 0
  /\ \A c \in Live : tcb[c].id > 0 /\ tcb[c].id < nextId
  /\ \A c, d \in Live : tcb[c].id = tcb[d].id => c = d
  /\ \A fd \in DOMAIN so : so[fd].tcb < nextId

\* A socket points to no block later than that of its four-tuple, and to a live
\* block only if it is of its four-tuple.
Pointers ==
  \A fd \in DOMAIN so, c \in Live :
    /\ so[fd].conn = c => so[fd].tcb <= tcb[c].id
    /\ so[fd].tcb = tcb[c].id => so[fd].conn = c

\* Up to bq_size sockets the backlog holds the descriptors in their order; from
\* then on every entry that bq_head can reach holds some descriptor.
Lined(b, s) ==
  /\ Len(s) <= BacklogSize => /\ b.head <= b.tail /\ b.tail = Len(s)
                              /\ \A i \in 0..(Len(s) - 1) : b.connq[i] = i + 1
  /\ Len(s) >= BacklogSize => \A i \in 0..(BacklogSize - 1) : b.connq[i] \in DOMAIN s

OnBacklog == Lined(backlog, so)

Connects == {i \in DOMAIN app2net : app2net[i].ev = "CONNECT"}

OnTheWay ==
  \A i \in Connects : /\ app2net[i].fd \in DOMAIN so
                      /\ so[app2net[i].fd].conn = app2net[i].conn

\* Below bq_size sockets a descriptor is accepted once: the socket of one that
\* was not accepted, or whose CONNECT is on its way, points to no block yet.
FirstRound ==
  Len(so) < BacklogSize =>
    /\ \A fd \in DOMAIN so : fd > backlog.head => so[fd].tcb = 0
    /\ \A i \in Connects : app2net[i].fd <= backlog.head /\ so[app2net[i].fd].tcb = 0
    /\ \A i, j \in Connects : app2net[i].fd = app2net[j].fd => i = j

WritesTyped == \A i \in DOMAIN app2net : app2net[i].ev = "WRITE" => app2net[i].fd \in Fds

\* The send buffer of a block belongs to it, and the socket of the descriptor
\* that the buffer stands under points to the block.
BufferBinding ==
  \A c \in Live : tcb[c].snd # NoFd =>
    /\ tcb[c].snd \in DOMAIN so /\ so[tcb[c].snd].tcb = tcb[c].id
    /\ sndbuf[tcb[c].snd] # NoBuf /\ sndbuf[tcb[c].snd].own = tcb[c].id

\* usnet_listen: its event is alone in the queue, nothing is before the answer,
\* and there are no connections before.
ListenEvent == [ev |-> "LISTEN", fd |-> ListenFd]

Startup ==
  /\ apc = "start" => ~listening /\ app2net = << >>
  /\ apc = "wait" /\ ~listening => app2net = << ListenEvent >>
  /\ apc = "wait" /\ listening => net2app # << >> /\ Head(net2app).ev = "LISTEN"
  /\ apc = "running" => listening
  /\ ~(apc = "wait" /\ ~listening) => \A i \in DOMAIN app2net : app2net[i].ev # "LISTEN"
  /\ ~listening => net2app = << >> /\ Live = {}
  /\ apc # "running" => so = << >>

IInv ==
  /\ TypeOK /\ Startup /\ Ids /\ Pointers /\ OnBacklog /\ OnTheWay /\ FirstRound
  /\ WritesTyped /\ BufferBinding
  /\ WriteReachesOwner /\ SocketBinding /\ ConnectIsPending /\ OpenIsWatched

\* An entry of the backlog is a socket of the peer.
Backlogged(c) == \E i \in backlog.head..(backlog.tail - 1) : so[backlog.connq[i]].conn = c

BacklogType ==
  [connq : [0..BacklogSize -> {0} \cup Fds], head : 0..(BacklogSize - 1), tail : 0..BacklogSize]

\* What usnet_accept finds at the head of the backlog.
LEMMA HeadListed ==
  ASSUME NEW b \in BacklogType, NEW s \in Seq(Socket), Lined(b, s), b.head # b.tail
  PROVE  b.connq[b.head] \in DOMAIN s
<1>1. /\ Len(s) \in Nat /\ DOMAIN s = 1..Len(s) /\ BacklogSize \in Nat
      /\ b.head \in 0..(BacklogSize - 1) /\ b.tail \in 0..BacklogSize
  BY BoundAssumption DEF BacklogType
<1>2. CASE Len(s) <= BacklogSize
  <2>1. b.head <= b.tail /\ b.tail = Len(s) /\ \A i \in 0..(Len(s) - 1) : b.connq[i] = i + 1
    BY <1>2 DEF Lined
  <2>2. b.head \in 0..(Len(s) - 1)
    BY <1>1, <2>1
  <2>3. b.connq[b.head] = b.head + 1
    BY <2>1, <2>2
  <2> QED
    BY <1>1, <2>2, <2>3
<1>3. CASE Len(s) >= BacklogSize
  BY <1>1, <1>3 DEF Lined
<1> QED
  BY <1>1, <1>2, <1>3

-----------------------------------------------------------------------------
(* Control blocks: one component is changed at a time. *)

Watched(t) ==
  /\ t.state = "SYN_RECEIVED" => ~t.tmo
  /\ t.state \in Synchronized => t.tmo

\* What no handler of a segment, a timer or a list changes in a block.
Same(t, u) ==
  /\ u \in TCB /\ u.id = t.id /\ u.fd = t.fd /\ u.sock = t.sock /\ u.snd = t.snd

\* Nor does one that only changes lists, timers and counters change these.
Alike(t, u) == Same(t, u) /\ u.state = t.state /\ u.tmo = t.tmo /\ u.rcv = t.rcv

LEMMA SetLists ==
  ASSUME NEW t \in TCB, NEW x \in BOOLEAN, NEW n \in Nat
  PROVE  /\ Alike(t, [t EXCEPT !.rto = x]) /\ Alike(t, [t EXCEPT !.ctl = x])
         /\ Alike(t, [t EXCEPT !.ack = x]) /\ Alike(t, [t EXCEPT !.send = x])
         /\ Alike(t, [t EXCEPT !.synack = x]) /\ Alike(t, [t EXCEPT !.nrtx = n])
         /\ Alike(t, t)
BY DEF Alike, Same, TCB

LEMMA AlikeTrans ==
  ASSUME NEW t, NEW u, NEW v, Alike(t, u), Alike(u, v)
  PROVE  Alike(t, v)
BY DEF Alike, Same

LEMMA AlikeWatched ==
  ASSUME NEW t, NEW u, Alike(t, u), Watched(t)
  PROVE  Same(t, u) /\ Watched(u) /\ u \in TCB
BY DEF Alike, Same, Watched

LEMMA SetState ==
  ASSUME NEW t \in TCB, NEW s \in {"SYN_RECEIVED", "CLOSED"} \cup Synchronized,
         NEW r \in CloseReason, NEW v \in {NoFd, ListenFd} \cup Fds, NEW x \in BOOLEAN
  PROVE  /\ Same(t, [t EXCEPT !.state = s]) /\ Same(t, [t EXCEPT !.reason = r])
         /\ Same(t, [t EXCEPT !.rcv = v]) /\ Same(t, [t EXCEPT !.tmo = x])
BY DEF Same, TCB

LEMMA SetBinding ==
  ASSUME NEW t \in TCB, NEW fd \in Fds, NEW x \in BOOLEAN
  PROVE  /\ [t EXCEPT !.sock = fd] \in TCB /\ [t EXCEPT !.fd = fd] \in TCB
         /\ [t EXCEPT !.snd = fd] \in TCB /\ [t EXCEPT !.ctl = x] \in TCB
BY DEF TCB

LEMMA SameTrans ==
  ASSUME NEW t, NEW u, NEW v, Same(t, u), Same(u, v)
  PROVE  Same(t, v)
BY DEF Same

LEMMA ControlAlike ==
  ASSUME NEW t \in TCB, NEW u \in Control(t)
  PROVE  Alike(t, u)
<1> DEFINE syn == t.state = "SYN_RECEIVED"
           x == t.rto \/ syn
           y == t.synack \/ syn
           t1 == [t EXCEPT !.ack = FALSE]
           t2 == [t1 EXCEPT !.ctl = FALSE]
           t3 == [t2 EXCEPT !.rto = x]
           t4 == [t3 EXCEPT !.synack = y]
           t5 == [t1 EXCEPT !.ctl = TRUE]
<1>1. u = t4 \/ u = t5
  BY DEF Control
<1>2. x \in BOOLEAN /\ y \in BOOLEAN
  BY DEF TCB
<1> HIDE DEF x, y
<1>3. 0 \in Nat
  OBVIOUS
<1>4. Alike(t, t1) /\ t1 \in TCB
  BY <1>3, SetLists DEF Alike, Same
<1> HIDE DEF t1
<1>5. Alike(t1, t2) /\ Alike(t1, t5) /\ t2 \in TCB
  BY <1>3, <1>4, SetLists, ZenonT(30) DEF Alike, Same
<1> HIDE DEF t2, t5
<1>6. Alike(t2, t3)
  BY <1>2, <1>3, <1>5, SetLists
<1>10. t3 \in TCB
  BY <1>6 DEF Alike, Same
<1> HIDE DEF t3
<1>7. Alike(t3, t4)
  BY <1>2, <1>3, <1>10, SetLists
<1> HIDE DEF t4
<1>8. Alike(t, t2) /\ Alike(t, t5)
  BY <1>4, <1>5, AlikeTrans
<1>9. Alike(t, t3)
  BY <1>6, <1>8, AlikeTrans
<1> QED
  BY <1>1, <1>7, <1>8, <1>9, AlikeTrans

LEMMA AddSendAlike ==
  ASSUME NEW t \in TCB
  PROVE  Alike(t, AddSend(t)) /\ AddSend(t).nrtx \in Nat
<1>1. 0 \in Nat
  OBVIOUS
<1>2. Alike(t, [t EXCEPT !.send = TRUE]) /\ Alike(t, t)
  BY <1>1, SetLists
<1>3. t.nrtx \in Nat /\ [t EXCEPT !.send = TRUE].nrtx \in Nat
  BY DEF TCB
<1> QED
  BY <1>2, <1>3 DEF AddSend

\* The block and the send buffer that a handler leaves, for block t.
Handled(t, r) ==
  /\ r = [t |-> r.t, b |-> r.b]
  /\ Same(t, r.t) /\ Watched(r.t)
  /\ t.snd # NoFd => r.b \in Buf /\ r.b.own = sndbuf[t.snd].own

LEMMA ResultHandled ==
  ASSUME NEW t \in TCB, NEW u, Same(t, u), Watched(u), t.snd # NoFd => sndbuf[t.snd] \in Buf
  PROVE  Handled(t, Result(u)) /\ Result(u).t = u
<1>1. Result(u) = [t |-> u, b |-> BufOf(u)]
  BY DEF Result
<1>2. t.snd # NoFd => BufOf(u) = sndbuf[t.snd]
  BY DEF BufOf, Same
<1> QED
  BY <1>1, <1>2 DEF Handled

\* Only the block changes, or only the buffer.
LEMMA HandledBlock ==
  ASSUME NEW t \in TCB, NEW r, Handled(t, r), NEW u, Same(r.t, u), Watched(u)
  PROVE  Handled(t, [r EXCEPT !.t = u]) /\ [r EXCEPT !.t = u].t = u
         /\ [r EXCEPT !.t = u].b = r.b
<1>1. Same(t, u)
  BY SameTrans DEF Handled
<1>2. [r EXCEPT !.t = u] = [t |-> u, b |-> r.b]
  BY DEF Handled
<1> QED
  BY <1>1, <1>2 DEF Handled

LEMMA HandledBoth ==
  ASSUME NEW t \in TCB, NEW r, Handled(t, r), NEW u, Same(r.t, u), Watched(u),
         NEW b, t.snd # NoFd => b \in Buf /\ b.own = r.b.own
  PROVE  Handled(t, [t |-> u, b |-> b])
<1>1. Same(t, u)
  BY SameTrans DEF Handled
<1> QED
  BY <1>1 DEF Handled

LEMMA SetBuf ==
  ASSUME NEW b \in Buf, NEW x \in BOOLEAN
  PROVE  /\ [b EXCEPT !.inflight = x] \in Buf /\ [b EXCEPT !.inflight = x].own = b.own
         /\ [b EXCEPT !.queued = FALSE, !.inflight = x] \in Buf
         /\ [b EXCEPT !.queued = FALSE, !.inflight = x].own = b.own
         /\ [b EXCEPT !.queued = TRUE] \in Buf /\ [b EXCEPT !.queued = TRUE].own = b.own
         /\ b.inflight \in BOOLEAN
<1>1. /\ [b EXCEPT !.inflight = x] \in Buf /\ [b EXCEPT !.inflight = x].own = b.own
      /\ [b EXCEPT !.queued = TRUE] \in Buf /\ [b EXCEPT !.queued = TRUE].own = b.own
      /\ b.inflight \in BOOLEAN
  BY DEF Buf
<1> DEFINE b1 == [b EXCEPT !.queued = FALSE]
<1>2. b1 \in Buf /\ b1.own = b.own
  BY DEF Buf
<1>3. [b EXCEPT !.queued = FALSE, !.inflight = x] = [b1 EXCEPT !.inflight = x]
  OBVIOUS
<1> HIDE DEF b1
<1>4. [b1 EXCEPT !.inflight = x] \in Buf /\ [b1 EXCEPT !.inflight = x].own = b1.own
  BY <1>2 DEF Buf
<1> QED
  BY <1>1, <1>2, <1>3, <1>4

\* usnet_process_ack leaves block and buffer to each other.
LEMMA AckHandled ==
  ASSUME NEW t \in TCB, NEW r, Handled(t, r), NEW s \in AckIfBuffer(r)
  PROVE  Handled(t, s) /\ s.t.tmo = r.t.tmo
<1> DEFINE q == r.t
<1>1. q \in TCB /\ Watched(q) /\ q.snd = t.snd /\ r = [t |-> q, b |-> r.b]
  BY DEF Handled, Same
<1>2. CASE s = r
  BY <1>2
<1>3. CASE r.t.snd # NoFd /\ s \in ProcessAck(r)
  <2>1. r.b \in Buf
    BY <1>1, <1>3 DEF Handled
  <2>2. CASE s = ThirdDuplicate(r)
    <3> DEFINE a == AddSend(q)
               n == IF a.nrtx < MaxRtx THEN a.nrtx + 1 ELSE a.nrtx
               u == [a EXCEPT !.nrtx = n]
    <3>1. s = [r EXCEPT !.t = u]
      BY <2>2 DEF ThirdDuplicate
    <3>2. Alike(q, a) /\ a \in TCB /\ a.nrtx \in Nat
      BY <1>1, AddSendAlike DEF Alike, Same
    <3> HIDE DEF a
    <3>3. n \in Nat
      BY <3>2
    <3> HIDE DEF n
    <3>4. Alike(a, u)
      BY <3>2, <3>3, SetLists
    <3> HIDE DEF u
    <3>5. Alike(q, u)
      BY <3>2, <3>4, AlikeTrans
    <3>6. Same(q, u) /\ Watched(u)
      BY <1>1, <3>5, AlikeWatched
    <3>7. Handled(t, s) /\ s.t = u
      BY <3>1, <3>6, HandledBlock
    <3> QED
      BY <3>5, <3>7 DEF Alike
  <2>3. CASE s \in NewlyAcked(r)
    <3>10. PICK left \in BOOLEAN, timed \in BOOLEAN : s = Acked(r, left, timed)
      BY <2>3 DEF NewlyAcked
    <3>1. s = [t |-> [q EXCEPT !.nrtx = 0, !.rto = left /\ timed],
               b |-> [r.b EXCEPT !.inflight = left]]
      BY <3>10 DEF Acked
    <3> DEFINE x == left /\ timed
               u1 == [q EXCEPT !.nrtx = 0]
               u == [u1 EXCEPT !.rto = x]
               b == [r.b EXCEPT !.inflight = left]
    <3>2. s = [t |-> u, b |-> b]
      BY <3>1
    <3>3. x \in BOOLEAN /\ 0 \in Nat
      OBVIOUS
    <3> HIDE DEF x
    <3>4. Alike(q, u1) /\ u1 \in TCB
      <4>1. Alike(q, u1)
        BY <1>1, <3>3, SetLists
      <4> QED
        BY <4>1 DEF Alike, Same
    <3> HIDE DEF u1
    <3>5. Alike(u1, u)
      BY <3>3, <3>4, SetLists
    <3> HIDE DEF u
    <3>6. Alike(q, u)
      BY <3>4, <3>5, AlikeTrans
    <3>7. Same(q, u) /\ Watched(u)
      BY <1>1, <3>6, AlikeWatched
    <3>8. b \in Buf /\ b.own = r.b.own
      BY <2>1, SetBuf
    <3> HIDE DEF b
    <3>9. Handled(t, s)
      BY <3>2, <3>7, <3>8, HandledBoth
    <3> QED
      BY <3>2, <3>6, <3>9 DEF Alike
  <2>4. CASE s = [r EXCEPT !.t.send = FALSE]
    <3> DEFINE u == [q EXCEPT !.send = FALSE]
    <3>1. s = [r EXCEPT !.t = u]
      BY <2>4
    <3>2. 0 \in Nat
      OBVIOUS
    <3>3. Alike(q, u)
      BY <1>1, <3>2, SetLists
    <3> HIDE DEF u
    <3>4. Same(q, u) /\ Watched(u)
      BY <1>1, <3>3, AlikeWatched
    <3>5. Handled(t, s) /\ s.t = u
      BY <3>1, <3>4, HandledBlock
    <3> QED
      BY <3>3, <3>5 DEF Alike
  <2> QED
    BY <1>2, <1>3, <2>2, <2>3, <2>4 DEF ProcessAck
<1> QED
  BY <1>2, <1>3 DEF AckIfBuffer

\* usnet_flush_tcp_sendbuf, to its end or not.
LEMMA FlushHandled ==
  ASSUME NEW t \in TCB, Watched(t), t.snd # NoFd => sndbuf[t.snd] \in Buf,
         NEW b, b = BufOf(t), NEW r \in Flushed(t, b) \cup FlushStopped(t, b)
  PROVE  Handled(t, r)
<1> DEFINE base == [t |-> t, b |-> b]
<1>1. t.rto \in BOOLEAN /\ t.ack \in BOOLEAN /\ 0 \in Nat
  BY DEF TCB
<1>2. Handled(t, base) /\ base.t = t /\ base.b = b
  <2>1. Alike(t, t)
    BY <1>1, SetLists
  <2> QED
    BY <2>1, ResultHandled DEF Result, Alike
<1> HIDE DEF base
<1>3. t.snd # NoFd => b \in Buf
  BY DEF BufOf
<1>4. ASSUME NEW u, Alike(t, u), NEW d, t.snd # NoFd => d \in Buf /\ d.own = b.own
      PROVE  Handled(t, [t |-> u, b |-> d])
  <2>1. Same(t, u) /\ Watched(u)
    BY <1>4, AlikeWatched
  <2>2. Same(base.t, u)
    BY <1>2, <2>1
  <2>3. t.snd # NoFd => d \in Buf /\ d.own = base.b.own
    BY <1>2, <1>4
  <2> QED
    BY <1>2, <2>1, <2>2, <2>3, HandledBoth
<1> DEFINE t1 == [t EXCEPT !.send = FALSE]
<1>5. Alike(t, t1)
  BY <1>1, SetLists
<1>6. t1 \in TCB
  BY <1>5 DEF Alike, Same
<1>7. ASSUME NEW x \in BOOLEAN PROVE Alike(t, [t1 EXCEPT !.rto = x])
  <2> HIDE DEF t1
  <2>1. Alike(t1, [t1 EXCEPT !.rto = x])
    BY <1>1, <1>6, SetLists
  <2> QED
    BY <1>5, <2>1, AlikeTrans
<1>8. ASSUME NEW x \in BOOLEAN, NEW a \in BOOLEAN
      PROVE  Alike(t, [t EXCEPT !.ack = a, !.rto = x])
  <2> DEFINE u1 == [t EXCEPT !.ack = a]
             u2 == [u1 EXCEPT !.rto = x]
  <2>1. Alike(t, u1)
    BY <1>1, SetLists
  <2>2. u1 \in TCB
    BY <2>1 DEF Alike, Same
  <2>5. [t EXCEPT !.ack = a, !.rto = x] = u2
    OBVIOUS
  <2> HIDE DEF u1
  <2>3. Alike(u1, u2)
    BY <1>1, <2>2, SetLists
  <2> HIDE DEF u2
  <2>4. Alike(t, u2)
    BY <2>1, <2>3, AlikeTrans
  <2> QED
    BY <2>4, <2>5
<1>9. CASE r = SentAll(t, b)
  <2> DEFINE d == [b EXCEPT !.queued = FALSE, !.inflight = TRUE]
             u == [t1 EXCEPT !.rto = TRUE]
  <2>1. r = [t |-> u, b |-> d]
    BY <1>9 DEF SentAll
  <2>2. t.snd # NoFd => d \in Buf /\ d.own = b.own
    BY <1>3, SetBuf
  <2>3. Alike(t, u)
    BY <1>7
  <2> HIDE DEF d, u
  <2> QED
    BY <1>4, <2>1, <2>2, <2>3
<1>10. ASSUME NEW some \in BOOLEAN, r = SentPart(t, b, some) PROVE Handled(t, r)
  <2> DEFINE y == b.inflight \/ some
             x == t.rto \/ some
             d == [b EXCEPT !.inflight = y]
             u == [t1 EXCEPT !.rto = x]
  <2>1. r = [t |-> u, b |-> d]
    BY <1>10 DEF SentPart
  <2>2. x \in BOOLEAN /\ y \in BOOLEAN
    OBVIOUS
  <2> HIDE DEF x, y
  <2>3. t.snd # NoFd => d \in Buf /\ d.own = b.own
    BY <1>3, <2>2, SetBuf
  <2>4. Alike(t, u)
    BY <1>7, <2>2
  <2> HIDE DEF d, u
  <2> QED
    BY <1>4, <2>1, <2>3, <2>4
<1>11. ASSUME NEW full \in BOOLEAN, NEW some \in BOOLEAN, r = Stopped(t, b, full, some)
       PROVE  Handled(t, r)
  <2> DEFINE y == b.inflight \/ some
             x == t.rto \/ some
             a == t.ack \/ full
             d == [b EXCEPT !.inflight = y]
             u == [t EXCEPT !.ack = a, !.rto = x]
  <2>1. r = [t |-> u, b |-> d]
    BY <1>11 DEF Stopped
  <2>2. x \in BOOLEAN /\ y \in BOOLEAN /\ a \in BOOLEAN
    OBVIOUS
  <2> HIDE DEF x, y, a
  <2>3. t.snd # NoFd => d \in Buf /\ d.own = b.own
    BY <1>3, <2>2, SetBuf
  <2>4. Alike(t, u)
    BY <1>8, <2>2
  <2> HIDE DEF d, u
  <2> QED
    BY <1>4, <2>1, <2>3, <2>4
<1>12. CASE r = [t |-> t1, b |-> b]
  <2> HIDE DEF t1
  <2> QED
    BY <1>3, <1>4, <1>5, <1>12
<1>13. CASE r \in Flushed(t, b)
  BY <1>9, <1>10, <1>12, <1>13 DEF Flushed
<1>14. CASE r \in FlushStopped(t, b)
  <2>1. PICK full \in BOOLEAN, some \in BOOLEAN : r = Stopped(t, b, full, some)
    BY <1>14 DEF FlushStopped
  <2> QED
    BY <1>11, <2>1
<1> QED
  BY <1>13, <1>14

\* usnet_handle_close_wait.
LEMMA CloseWaitHandled ==
  ASSUME NEW t \in TCB, NEW r, Handled(t, r), NEW s \in HandleCloseWait(r)
  PROVE  Handled(t, s)
<1>1. r.t \in TCB /\ Watched(r.t)
  BY DEF Handled, Same
<1>2. ASSUME NEW u \in Control(r.t), s = [r EXCEPT !.t = u] PROVE Handled(t, s)
  <2>1. Alike(r.t, u)
    BY <1>1, ControlAlike
  <2>2. Same(r.t, u) /\ Watched(u)
    BY <1>1, <2>1, AlikeWatched
  <2> QED
    BY <1>2, <2>2, HandledBlock
<1>3. CASE s \in AckIfBuffer(r)
  BY <1>3, AckHandled
<1> QED
  BY <1>2, <1>3 DEF HandleCloseWait

\* usnet_handle_established: payload, acknowledgement and FIN.
LEMMA EstablishedHandled ==
  ASSUME NEW t \in TCB, Watched(t), t.state = "ESTABLISHED",
         t.snd # NoFd => sndbuf[t.snd] \in Buf, NEW r \in HandleEstablished(t)
  PROVE  Handled(t, r)
<1> DEFINE advanced == AckIfBuffer(Result(Stored(t)))
           still == UNION {AckIfBuffer(Result(u)) : u \in NotAdvanced(t)}
<1>1. t.tmo = TRUE /\ t.fd \in {ListenFd} \cup Fds /\ t.rcv \in {NoFd, ListenFd} \cup Fds /\ 0 \in Nat
  BY DEF Watched, TCB, Synchronized
<1>2. Alike(t, t) /\ Alike(t, [t EXCEPT !.ack = TRUE])
  BY <1>1, SetLists
<1>3. Same(t, Stored(t)) /\ Watched(Stored(t)) /\ Stored(t).tmo = t.tmo
  <2> DEFINE t1 == [t EXCEPT !.ack = TRUE]
             v == IF t.rcv = NoFd THEN t.fd ELSE t.rcv
             t2 == [t1 EXCEPT !.rcv = v]
  <2>1. Stored(t) = t2
    BY DEF Stored
  <2>2. v \in {NoFd, ListenFd} \cup Fds
    BY <1>1
  <2>3. t1 \in TCB
    BY <1>2 DEF Alike, Same
  <2> HIDE DEF v, t1
  <2>4. [t1 EXCEPT !.rcv = v].state = t1.state /\ [t1 EXCEPT !.rcv = v].tmo = t1.tmo
    BY <2>3 DEF TCB
  <2>5. Same(t1, t2)
    BY <2>2, <2>3, SetState DEF CloseReason
  <2>6. Same(t, t1) /\ Watched(t1)
    BY <1>2, AlikeWatched DEF t1
  <2> QED
    <3>1. Same(t, t2)
      BY <2>5, <2>6, SameTrans
    <3>2. t2.state = t1.state /\ t2.tmo = t1.tmo /\ t1.tmo = t.tmo
      BY <1>2, <2>4 DEF Alike, t1
    <3> QED
      BY <2>1, <2>6, <3>1, <3>2 DEF Watched
<1>4. ASSUME NEW u \in NotAdvanced(t) PROVE Same(t, u) /\ Watched(u) /\ u.tmo = t.tmo
  <2>1. CASE u = t \/ u = [t EXCEPT !.ack = TRUE] \/ u = Stored(t)
    <3>1. Alike(t, u) => Same(t, u) /\ Watched(u) /\ u.tmo = t.tmo
      BY AlikeWatched DEF Alike
    <3> QED
      BY <1>2, <1>3, <2>1, <3>1
  <2>2. CASE u = [t EXCEPT !.ack = TRUE, !.state = "CLOSED", !.reason = "NO_MEM"]
    <3> DEFINE t1 == [t EXCEPT !.ack = TRUE]
               t2 == [t1 EXCEPT !.state = "CLOSED"]
               t3 == [t2 EXCEPT !.reason = "NO_MEM"]
    <3>1. u = t3
      BY <2>2
    <3>2. Same(t, t1) /\ t1 \in TCB
      BY <1>2 DEF Alike, Same
    <3> HIDE DEF t1
    <3>6. 0 \in Nat /\ NoFd \in {NoFd, ListenFd} \cup Fds /\ "NO_MEM" \in CloseReason
      BY DEF CloseReason
    <3>7. Same(t1, t2)
      BY <3>2, <3>6, SetState
    <3>3. t2 \in TCB /\ t2.state = "CLOSED" /\ t2.tmo = t1.tmo
      BY <3>2, <3>7 DEF Same, TCB
    <3> HIDE DEF t2
    <3>8. Same(t2, t3)
      BY <3>3, <3>6, SetState
    <3>4. t3.state = "CLOSED" /\ t3.tmo = t2.tmo
      BY <3>3 DEF TCB
    <3>5. Same(t, t3)
      BY <3>2, <3>7, <3>8, SameTrans
    <3>9. t1.tmo = t.tmo
      BY <1>2 DEF Alike, t1
    <3> QED
      BY <3>1, <3>3, <3>4, <3>5, <3>9 DEF Watched, Synchronized
  <2> QED
    BY <2>1, <2>2 DEF NotAdvanced
<1>5. ASSUME NEW u, Same(t, u), Watched(u), NEW s \in AckIfBuffer(Result(u))
      PROVE  Handled(t, s) /\ s.t.tmo = u.tmo
  <2>1. Handled(t, Result(u)) /\ Result(u).t = u
    BY <1>5, ResultHandled
  <2> QED
    BY <1>5, <2>1, AckHandled
<1>6. \A s \in advanced : Handled(t, s)
  BY <1>3, <1>5
<1>7. ASSUME NEW s \in still PROVE Handled(t, s) /\ s.t.tmo = TRUE
  <2>1. PICK u \in NotAdvanced(t) : s \in AckIfBuffer(Result(u))
    BY <1>7
  <2> QED
    BY <1>1, <1>4, <1>5, <2>1
<1> HIDE DEF advanced, still
<1>8. ASSUME NEW s, Handled(t, s) PROVE Handled(t, BadFin(s))
  <2> DEFINE u == [s.t EXCEPT !.ack = TRUE]
  <2>1. BadFin(s) = [s EXCEPT !.t = u]
    BY DEF BadFin
  <2>2. s.t \in TCB /\ Watched(s.t)
    BY <1>8 DEF Handled, Same
  <2>3. Alike(s.t, u)
    BY <1>1, <2>2, SetLists
  <2> HIDE DEF u
  <2>4. Same(s.t, u) /\ Watched(u)
    BY <2>2, <2>3, AlikeWatched
  <2> QED
    BY <1>8, <2>1, <2>4, HandledBlock
<1>9. ASSUME NEW s, Handled(t, s), s.t.tmo = TRUE, NEW f \in Fin(s) PROVE Handled(t, f)
  <2> DEFINE w == [s.t EXCEPT !.state = "CLOSE_WAIT"]
  <2>1. PICK u \in Control(w) : f = [s EXCEPT !.t = u]
    BY <1>9 DEF Fin
  <2>2. s.t \in TCB
    BY <1>9 DEF Handled, Same
  <2>3. Same(s.t, w)
    BY <2>2, SetState DEF Synchronized, CloseReason
  <2>4. w \in TCB /\ w.tmo = TRUE /\ w.state = "CLOSE_WAIT"
    BY <1>9, <2>2, <2>3 DEF TCB, Same
  <2>5. Watched(w)
    BY <2>4 DEF Watched
  <2> HIDE DEF w
  <2>6. Alike(w, u)
    BY <2>4, ControlAlike
  <2>7. Same(w, u) /\ Watched(u)
    BY <2>5, <2>6, AlikeWatched
  <2>8. Same(s.t, u)
    BY <2>3, <2>7, SameTrans
  <2> QED
    BY <1>9, <2>1, <2>7, <2>8, HandledBlock
<1>10. ASSUME NEW u \in Control(t), r = Result(u) PROVE Handled(t, r)
  <2>1. Same(t, u) /\ Watched(u)
    BY ControlAlike, AlikeWatched
  <2> QED
    BY <1>10, <2>1, ResultHandled
<1>11. \/ r \in {Result(u) : u \in Control(t)} \/ r \in advanced \/ r \in still
       \/ r \in {BadFin(s) : s \in advanced \cup still}
       \/ r \in UNION {Fin(s) : s \in still}
  BY DEF HandleEstablished, advanced, still
<1>12. CASE r \in UNION {Fin(s) : s \in still}
  <2>1. PICK s \in still : r \in Fin(s)
    BY <1>12
  <2> QED
    BY <1>7, <1>9, <2>1
<1>13. CASE r \in {BadFin(s) : s \in advanced \cup still}
  <2>1. PICK s \in advanced \cup still : r = BadFin(s)
    BY <1>13
  <2> QED
    BY <1>6, <1>7, <1>8, <2>1
<1> QED
  BY <1>6, <1>7, <1>10, <1>11, <1>12, <1>13

-----------------------------------------------------------------------------
(* Steps on the blocks. *)

\* The parts of the invariant about blocks, send buffers and sockets.
Blocks ==
  /\ Ids /\ Pointers /\ BufferBinding /\ WriteReachesOwner /\ SocketBinding
  /\ OpenIsWatched

Phases == {"poll", "rx", "rto", "conn", "control", "ack", "events", "data"}

LEMMA PhaseType == {"poll"} \cup DOMAIN NextPhase = Phases
BY DEF NextPhase, Phases

LEMMA PhaseTypePrimed == {"poll"} \cup DOMAIN NextPhase' = Phases
BY DEF NextPhase, Phases

\* What the blocks keep when none is made, bound or released.
Kept ==
  /\ tcb' \in [Conns -> TCB \cup {NoTcb}]
  /\ Live' = Live
  /\ \A d \in Live : Same(tcb[d], tcb'[d]) /\ Watched(tcb'[d])
  /\ sndbuf' \in [Fds -> Buf \cup {NoBuf}]
  /\ \A fd \in Fds : sndbuf'[fd] = NoBuf <=> sndbuf[fd] = NoBuf
  /\ \A fd \in Fds : sndbuf[fd] # NoBuf => sndbuf'[fd].own = sndbuf[fd].own

LEMMA KeepBlocks ==
  ASSUME TypeOK, Blocks, Kept, UNCHANGED <<nextId, so>>
  PROVE  Blocks'
<1>1. \A d \in Live : /\ tcb'[d].id = tcb[d].id /\ tcb'[d].fd = tcb[d].fd
                      /\ tcb'[d].sock = tcb[d].sock /\ tcb'[d].snd = tcb[d].snd
  BY DEF Kept, Same
<1>2. Live' = Live
  BY DEF Kept
<1>3. Ids' /\ Pointers'
  BY <1>1, <1>2 DEF Blocks, Ids, Pointers
<1>4. SocketBinding'
  BY <1>1, <1>2 DEF Blocks, SocketBinding
<1>5. OpenIsWatched'
  BY <1>2 DEF Kept, Watched, OpenIsWatched
<1>6. BufferBinding'
  <2>1. \A d \in Live : tcb[d].snd \in {NoFd} \cup Fds
    BY DEF TypeOK, Live, TCB
  <2> QED
    BY <1>1, <1>2, <2>1 DEF Blocks, BufferBinding, Kept
<1>7. WriteReachesOwner'
  BY <1>1, <1>2 DEF Blocks, WriteReachesOwner, Kept
<1> QED
  BY <1>3, <1>4, <1>5, <1>6, <1>7 DEF Blocks

\* A so_tcb is set only to the live block of the socket's four-tuple.
SocketsKept ==
  /\ so' \in Seq(Socket) /\ Len(so') = Len(so)
  /\ \A g \in DOMAIN so : so'[g].conn = so[g].conn
  /\ \A g \in DOMAIN so : \/ so'[g].tcb = so[g].tcb
                          \/ so[g].conn \in Live /\ so'[g].tcb = tcb[so[g].conn].id

\* A socket that points to a live block goes on doing so.
LEMMA PointersKept ==
  ASSUME TypeOK, Blocks, SocketsKept, NEW g \in DOMAIN so
  PROVE  /\ so'[g].tcb < nextId /\ so'[g].conn = so[g].conn
         /\ \A d \in Live : /\ so[g].tcb = tcb[d].id => so'[g].tcb = so[g].tcb
                            /\ so[g].conn = d => so'[g].tcb <= tcb[d].id
                            /\ so'[g].tcb = tcb[d].id => so[g].conn = d
<1>1. so'[g].conn = so[g].conn
  BY DEF SocketsKept
<1>2. /\ \A d \in Live : tcb[d].id \in Nat /\ tcb[d].id < nextId
      /\ \A d, e \in Live : tcb[d].id = tcb[e].id => d = e
      /\ so[g].tcb < nextId
  BY DEF Blocks, Ids, TypeOK, Live, TCB
<1>3. \A d \in Live : /\ so[g].conn = d => so[g].tcb <= tcb[d].id
                      /\ so[g].tcb = tcb[d].id => so[g].conn = d
  BY DEF Blocks, Pointers
<1>4. CASE so'[g].tcb = so[g].tcb
  BY <1>1, <1>2, <1>3, <1>4
<1>5. CASE so[g].conn \in Live /\ so'[g].tcb = tcb[so[g].conn].id
  BY <1>1, <1>2, <1>3, <1>5
<1> QED
  BY <1>4, <1>5 DEF SocketsKept

\* A block is released, its send buffer with it.
LEMMA DropBlocks ==
  ASSUME TypeOK, Blocks, NEW c \in Live, tcb' = [tcb EXCEPT ![c] = NoTcb],
         sndbuf' = IF tcb[c].snd = NoFd THEN sndbuf
                   ELSE [sndbuf EXCEPT ![tcb[c].snd] = NoBuf],
         nextId' = nextId, SocketsKept
  PROVE  /\ Blocks' /\ Live' = Live \ {c}
         /\ tcb' \in [Conns -> TCB \cup {NoTcb}] /\ sndbuf' \in [Fds -> Buf \cup {NoBuf}]
         /\ \A d \in Live' : tcb'[d] = tcb[d]
<1>1. Live' = Live \ {c} /\ c \in Conns
  BY DEF Live, TypeOK
<1>2. tcb' \in [Conns -> TCB \cup {NoTcb}]
  BY <1>1 DEF TypeOK
<1>3. sndbuf' \in [Fds -> Buf \cup {NoBuf}]
  BY DEF TypeOK
<1>4. \A d \in Live' : tcb'[d] = tcb[d]
  BY <1>1 DEF TypeOK, Live
<1>5. \A d \in Live : tcb[d].snd \in {NoFd} \cup Fds
  BY DEF TypeOK, Live, TCB
<1>9. DOMAIN so' = DOMAIN so /\ DOMAIN so = 1..Len(so)
  BY DEF SocketsKept, TypeOK
<1>10. \A d \in Live : tcb[d].id > 0 /\ tcb[d].id \in Nat /\ tcb[d].sock \in {NoFd} \cup Fds
  BY DEF Blocks, Ids, Live, TypeOK, TCB
<1>6. Ids' /\ SocketBinding' /\ OpenIsWatched'
  <2>3. \A g \in DOMAIN so' : so'[g].tcb < nextId
    BY <1>9, PointersKept
  <2>1. Ids' /\ OpenIsWatched'
    BY <1>1, <1>4, <2>3 DEF Blocks, Ids, OpenIsWatched
  <2>2. SocketBinding'
    <3> SUFFICES ASSUME NEW d \in Live', tcb'[d].sock # NoFd
                 PROVE  /\ tcb'[d].fd = tcb'[d].sock /\ tcb'[d].sock <= Len(so')
                        /\ so'[tcb'[d].sock].conn = d /\ so'[tcb'[d].sock].tcb = tcb'[d].id
      BY DEF SocketBinding
    <3>1. tcb'[d] = tcb[d] /\ d \in Live
      BY <1>1, <1>4
    <3>2. /\ tcb[d].fd = tcb[d].sock /\ tcb[d].sock <= Len(so)
          /\ so[tcb[d].sock].conn = d /\ so[tcb[d].sock].tcb = tcb[d].id
      BY <3>1 DEF Blocks, SocketBinding
    <3>3. tcb[d].sock \in DOMAIN so
      BY <1>9, <1>10, <3>1, <3>2 DEF Fds, TypeOK
    <3>4. so'[tcb[d].sock].conn = d /\ so'[tcb[d].sock].tcb = tcb[d].id
      BY <3>1, <3>2, <3>3, PointersKept
    <3> QED
      BY <3>1, <3>2, <3>4 DEF SocketsKept
  <2> QED
    BY <2>1, <2>2
<1>11. Pointers'
  <2> SUFFICES ASSUME NEW g \in DOMAIN so', NEW d \in Live'
               PROVE  /\ so'[g].conn = d => so'[g].tcb <= tcb'[d].id
                      /\ so'[g].tcb = tcb'[d].id => so'[g].conn = d
    BY DEF Pointers
  <2>1. g \in DOMAIN so /\ d \in Live /\ tcb'[d] = tcb[d]
    BY <1>1, <1>4, <1>9
  <2>2. /\ so'[g].conn = so[g].conn /\ (so[g].conn = d => so'[g].tcb <= tcb[d].id)
        /\ so'[g].tcb = tcb[d].id => so[g].conn = d
    BY <2>1, PointersKept
  <2> QED
    BY <2>1, <2>2
<1>7. BufferBinding'
  <2> SUFFICES ASSUME NEW d \in Live', tcb'[d].snd # NoFd
               PROVE  /\ tcb'[d].snd \in DOMAIN so' /\ so'[tcb'[d].snd].tcb = tcb'[d].id
                      /\ sndbuf'[tcb'[d].snd] # NoBuf /\ sndbuf'[tcb'[d].snd].own = tcb'[d].id
    BY DEF BufferBinding
  <2>1. tcb'[d] = tcb[d] /\ d \in Live /\ d # c /\ tcb[d].id # tcb[c].id
    BY <1>1, <1>4 DEF Blocks, Ids
  <2>2. /\ tcb[d].snd \in DOMAIN so /\ so[tcb[d].snd].tcb = tcb[d].id
        /\ sndbuf[tcb[d].snd] # NoBuf /\ sndbuf[tcb[d].snd].own = tcb[d].id
    BY <2>1 DEF Blocks, BufferBinding
  <2>3. tcb[c].snd # NoFd => so[tcb[c].snd].tcb = tcb[c].id
    BY DEF Blocks, BufferBinding
  <2>4. tcb[c].snd # tcb[d].snd
    BY <2>1, <2>2, <2>3
  <2>5. sndbuf'[tcb[d].snd] = sndbuf[tcb[d].snd]
    BY <1>5, <2>1, <2>4 DEF TypeOK
  <2>6. so'[tcb[d].snd].tcb = tcb[d].id
    BY <2>1, <2>2, PointersKept
  <2> QED
    BY <1>9, <2>1, <2>2, <2>5, <2>6
<1>8. WriteReachesOwner'
  <2> SUFFICES ASSUME NEW fd \in Fds, sndbuf'[fd] # NoBuf
               PROVE  /\ fd <= Len(so') /\ so'[fd].tcb = sndbuf'[fd].own
                      /\ \E d \in Live' : tcb'[d].id = sndbuf'[fd].own /\ tcb'[d].snd = fd
    BY DEF WriteReachesOwner
  <2>1. sndbuf'[fd] = sndbuf[fd] /\ sndbuf[fd] # NoBuf /\ tcb[c].snd # fd
    BY <1>5 DEF TypeOK, NoFd, Fds
  <2>2. PICK d \in Live : tcb[d].id = sndbuf[fd].own /\ tcb[d].snd = fd
    BY <2>1 DEF Blocks, WriteReachesOwner
  <2>3. d \in Live' /\ tcb'[d] = tcb[d]
    BY <1>1, <1>4, <2>1, <2>2
  <2>4. fd <= Len(so) /\ so[fd].tcb = sndbuf[fd].own
    BY <2>1 DEF Blocks, WriteReachesOwner
  <2>5. fd \in DOMAIN so
    BY <1>9, <2>4 DEF Fds, TypeOK
  <2>6. so'[fd].tcb = so[fd].tcb
    BY <2>2, <2>4, <2>5, PointersKept
  <2> QED
    BY <2>1, <2>2, <2>3, <2>4, <2>6 DEF SocketsKept
<1> QED
  BY <1>1, <1>2, <1>3, <1>4, <1>6, <1>7, <1>8, <1>11 DEF Blocks

\* A step of the net process on its blocks: the queues, the sockets and the
\* application are left alone.
LEMMA QuietStep ==
  ASSUME IInv, Blocks', tcb' \in [Conns -> TCB \cup {NoTcb}],
         sndbuf' \in [Fds -> Buf \cup {NoBuf}], rtoCnt' \in Int,
         phase' \in Phases, wake' \in {"none", "frames", "events"},
         Live' \subseteq Live, \A d \in Live' : tcb'[d].sock = tcb[d].sock,
         UNCHANGED <<listening, nextId, queues, so, app>>
  PROVE  IInv'
<1> USE DEF queues, app
<1>1. TypeOK'
  BY PhaseTypePrimed DEF IInv, TypeOK
<1>2. OnBacklog' /\ OnTheWay' /\ FirstRound' /\ WritesTyped'
  BY DEF IInv, OnBacklog, OnTheWay, FirstRound, Connects, WritesTyped
<1>3. Startup'
  BY DEF IInv, Startup
<1>4. ConnectIsPending'
  BY DEF IInv, ConnectIsPending
<1> QED
  BY <1>1, <1>2, <1>3, <1>4 DEF IInv, Blocks

\* A block is changed by a handler, with its send buffer or without it.
LEMMA BlockStep ==
  ASSUME IInv, NEW c \in Live, NEW u, Same(tcb[c], u), Watched(u),
         tcb' = [tcb EXCEPT ![c] = u], NEW b,
         sndbuf' = IF tcb[c].snd = NoFd THEN sndbuf
                   ELSE [sndbuf EXCEPT ![tcb[c].snd] = b],
         tcb[c].snd # NoFd => b \in Buf /\ b.own = sndbuf[tcb[c].snd].own,
         rtoCnt' \in Int, phase' \in Phases, wake' \in {"none", "frames", "events"},
         UNCHANGED <<listening, nextId, queues, so, app>>
  PROVE  IInv'
<1>1. c \in Conns /\ tcb[c] \in TCB /\ u \in TCB /\ tcb \in [Conns -> TCB \cup {NoTcb}]
  BY DEF IInv, TypeOK, Live, Same
<1>2. tcb' \in [Conns -> TCB \cup {NoTcb}] /\ u # NoTcb
  BY <1>1, NullAssumption
<1>3. Live' = Live
  BY <1>1, <1>2 DEF Live
<1>4. ASSUME NEW d \in Live PROVE Same(tcb[d], tcb'[d]) /\ Watched(tcb'[d])
  <2>1. CASE d = c
    BY <1>1, <2>1
  <2>2. CASE d # c
    <3>1. tcb'[d] = tcb[d] /\ tcb[d] \in TCB
      BY <1>1, <2>2 DEF Live
    <3>2. Watched(tcb[d])
      BY DEF IInv, OpenIsWatched, Watched
    <3> QED
      BY <3>1, <3>2 DEF Same
  <2> QED
    BY <2>1, <2>2
<1>5. sndbuf \in [Fds -> Buf \cup {NoBuf}] /\ tcb[c].snd \in {NoFd} \cup Fds
  BY <1>1 DEF IInv, TypeOK, TCB
<1>6. sndbuf' \in [Fds -> Buf \cup {NoBuf}]
  BY <1>5
<1>7. tcb[c].snd # NoFd => sndbuf[tcb[c].snd] # NoBuf
  BY DEF IInv, BufferBinding
<1>8. ASSUME NEW fd \in Fds
      PROVE  /\ sndbuf'[fd] = NoBuf <=> sndbuf[fd] = NoBuf
             /\ sndbuf[fd] # NoBuf => sndbuf'[fd].own = sndbuf[fd].own
  BY <1>5, <1>7, NullAssumption
<1>9. Kept
  BY <1>2, <1>3, <1>4, <1>6, <1>8 DEF Kept
<1>10. Blocks'
  BY <1>9, KeepBlocks DEF IInv, Blocks
<1>11. \A d \in Live' : tcb'[d].sock = tcb[d].sock
  BY <1>3, <1>4 DEF Same
<1> QED
  BY <1>2, <1>3, <1>6, <1>10, <1>11, QuietStep

\* The same for the result of a handler, and for a block alone.
LEMMA ApplyStep ==
  ASSUME IInv, NEW c \in Live, NEW r, Handled(tcb[c], r), Apply(c, r),
         phase' \in Phases, wake' \in {"none", "frames", "events"},
         UNCHANGED <<listening, nextId, queues, so, app>>
  PROVE  IInv'
<1>1. Same(tcb[c], r.t) /\ Watched(r.t) /\ r.t.snd = tcb[c].snd
  BY DEF Handled, Same
<1>2. tcb[c].snd # NoFd => r.b \in Buf /\ r.b.own = sndbuf[tcb[c].snd].own
  BY DEF Handled
<1>3. rtoCnt' \in Int
  <2>1. rtoCnt \in Int /\ Armed(r.t) \in Int /\ Armed(tcb[c]) \in Int
    BY DEF Armed, IInv, TypeOK
  <2> QED
    BY <2>1 DEF Apply, Update
<1>4. tcb' = [tcb EXCEPT ![c] = r.t]
  BY DEF Apply, Update
<1>5. sndbuf' = IF tcb[c].snd = NoFd THEN sndbuf ELSE [sndbuf EXCEPT ![tcb[c].snd] = r.b]
  BY <1>1 DEF Apply
<1> QED
  BY <1>1, <1>2, <1>3, <1>4, <1>5, BlockStep

LEMMA UpdateStep ==
  ASSUME IInv, NEW c \in Live, NEW u, Same(tcb[c], u), Watched(u), Update(c, u),
         phase' \in Phases, wake' \in {"none", "frames", "events"},
         UNCHANGED <<listening, nextId, queues, so, app, sndbuf>>
  PROVE  IInv'
<1> DEFINE b == sndbuf[tcb[c].snd]
<1>1. tcb[c] \in TCB /\ sndbuf \in [Fds -> Buf \cup {NoBuf}]
  BY DEF IInv, TypeOK, Live
<1>2. tcb[c].snd \in {NoFd} \cup Fds
  BY <1>1 DEF TCB
<1>3. tcb[c].snd # NoFd => b \in Buf /\ b.own = sndbuf[tcb[c].snd].own
  BY <1>1, <1>2 DEF IInv, BufferBinding
<1>4. sndbuf' = IF tcb[c].snd = NoFd THEN sndbuf ELSE [sndbuf EXCEPT ![tcb[c].snd] = b]
  BY <1>1, <1>2
<1>5. rtoCnt' \in Int
  <2>1. rtoCnt \in Int /\ Armed(u) \in Int /\ Armed(tcb[c]) \in Int
    BY DEF Armed, IInv, TypeOK
  <2> QED
    BY <2>1 DEF Update
<1>6. tcb' = [tcb EXCEPT ![c] = u]
  BY DEF Update
<1> HIDE DEF b
<1> QED
  BY <1>3, <1>4, <1>5, <1>6, BlockStep

\* usnet_release_tcb.
LEMMA ReleaseStep ==
  ASSUME IInv, NEW c \in Live, tcb' = [tcb EXCEPT ![c] = NoTcb],
         sndbuf' = IF tcb[c].snd = NoFd THEN sndbuf
                   ELSE [sndbuf EXCEPT ![tcb[c].snd] = NoBuf],
         rtoCnt' \in Int, phase' \in Phases, wake' \in {"none", "frames", "events"},
         UNCHANGED <<listening, nextId, queues, so, app>>
  PROVE  IInv'
<1>1. /\ Blocks' /\ Live' = Live \ {c}
      /\ tcb' \in [Conns -> TCB \cup {NoTcb}] /\ sndbuf' \in [Fds -> Buf \cup {NoBuf}]
      /\ \A d \in Live' : tcb'[d] = tcb[d]
  <2>1. SocketsKept
    BY DEF SocketsKept, IInv, TypeOK
  <2> QED
    BY <2>1, DropBlocks DEF IInv, Blocks
<1> QED
  BY <1>1, QuietStep

LEMMA ReleaseAlone ==
  ASSUME IInv, NEW c \in Live, Release(c), phase' \in Phases,
         wake' \in {"none", "frames", "events"},
         UNCHANGED <<listening, nextId, queues, so, app>>
  PROVE  IInv'
<1>1. rtoCnt' \in Int
  <2>1. rtoCnt \in Int /\ Armed(NoTcb) \in Int /\ Armed(tcb[c]) \in Int
    BY DEF Armed, IInv, TypeOK
  <2> QED
    BY <2>1 DEF Release, Update
<1> QED
  BY <1>1, ReleaseStep DEF Release, Update

-----------------------------------------------------------------------------
(* Segments, timers and lists. *)

LEMMA LiveBlock ==
  ASSUME IInv, NEW c \in Live
  PROVE  /\ c \in Conns /\ tcb[c] \in TCB /\ Watched(tcb[c])
         /\ tcb[c].snd # NoFd => sndbuf[tcb[c].snd] \in Buf
         /\ phase \in Phases /\ wake \in {"none", "frames", "events"}
<1>1. c \in Conns /\ tcb[c] \in TCB /\ sndbuf \in [Fds -> Buf \cup {NoBuf}]
  BY DEF IInv, TypeOK, Live
<1>2. Watched(tcb[c])
  BY DEF IInv, OpenIsWatched, Watched
<1>3. tcb[c].snd \in {NoFd} \cup Fds
  BY <1>1 DEF TCB
<1>4. phase \in Phases /\ wake \in {"none", "frames", "events"}
  BY PhaseType DEF IInv, TypeOK
<1> QED
  BY <1>1, <1>2, <1>3, <1>4 DEF IInv, BufferBinding

\* The result of a block that is only put on or taken off lists.
LEMMA AlikeStep ==
  ASSUME IInv, NEW c \in Live, NEW u, Alike(tcb[c], u), Apply(c, Result(u)),
         UNCHANGED <<phase, wake, listening, nextId, queues, so, app>>
  PROVE  IInv'
<1>1. Same(tcb[c], u) /\ Watched(u)
  BY LiveBlock, AlikeWatched
<1>2. Handled(tcb[c], Result(u))
  BY <1>1, LiveBlock, ResultHandled
<1> QED
  BY <1>2, LiveBlock, ApplyStep

LEMMA SegmentStep ==
  ASSUME IInv, NEW c \in Conns, Segment(c)
  PROVE  IInv'
<1> DEFINE t == tcb[c]
<1>1. c \in Live /\ t \in TCB /\ Watched(t) /\ (t.snd # NoFd => sndbuf[t.snd] \in Buf)
  <2>1. c \in Live
    BY DEF Segment, SegmentRefused, SegmentSynReceived, ResetSynReceived,
           SegmentEstablished, SegmentCloseWait, ResetSynchronized
  <2> QED
    BY <2>1, LiveBlock
<1>2. UNCHANGED <<phase, wake, listening, nextId, queues, so, app>>
  BY DEF Segment, SegmentRefused, SegmentSynReceived, ResetSynReceived,
         SegmentEstablished, SegmentCloseWait, ResetSynchronized, InPhase
<1>3. phase' \in Phases /\ wake' \in {"none", "frames", "events"}
  BY <1>1, <1>2, LiveBlock
<1>4. Alike(t, t) /\ Alike(t, [t EXCEPT !.ack = TRUE])
  <2>1. 0 \in Nat
    OBVIOUS
  <2> QED
    BY <1>1, <2>1, SetLists
<1>5. Same(t, t)
  BY <1>4 DEF Alike
<1>6. Handled(t, Result(t))
  BY <1>1, <1>5, ResultHandled
<1>7. CASE SegmentRefused(c)
  <2>1. PICK u \in {[t EXCEPT !.ack = TRUE]} \cup Control(t) : Apply(c, Result(u))
    BY <1>7 DEF SegmentRefused
  <2>2. Alike(t, u)
    BY <1>1, <1>4, ControlAlike
  <2> QED
    BY <1>1, <1>2, <2>1, <2>2, AlikeStep
<1>8. CASE SegmentSynReceived(c)
  <2>1. PICK u \in {Establish(t)} \cup Control(t) : Apply(c, Result(u))
    BY <1>8 DEF SegmentSynReceived, HandleSynReceived
  <2>2. CASE u \in Control(t)
    BY <1>1, <1>2, <2>1, <2>2, ControlAlike, AlikeStep
  <2>3. CASE u = Establish(t)
    <3> DEFINE t1 == [t EXCEPT !.state = "ESTABLISHED"]
               t2 == [t1 EXCEPT !.tmo = TRUE]
               t3 == [t2 EXCEPT !.nrtx = 0]
               t4 == [t3 EXCEPT !.rto = FALSE]
    <3>0. /\ 0 \in Nat /\ NoFd \in {NoFd, ListenFd} \cup Fds /\ "RESET" \in CloseReason
          /\ "ESTABLISHED" \in {"SYN_RECEIVED", "CLOSED"} \cup Synchronized
      BY DEF CloseReason, Synchronized
    <3>1. u = t4
      BY <1>1, <2>3 DEF Establish, TCB
    <3> HIDE DEF t
    <3>2. Same(t, t1)
      BY <1>1, <3>0, SetState
    <3>3. t1 \in TCB /\ t1.state = "ESTABLISHED"
      BY <1>1, <3>2 DEF Same, TCB
    <3> HIDE DEF t1
    <3>4. Same(t1, t2)
      BY <3>0, <3>3, SetState
    <3>5. t2 \in TCB /\ t2.state = "ESTABLISHED" /\ t2.tmo = TRUE
      BY <3>3, <3>4 DEF Same, TCB
    <3>6. Watched(t2)
      BY <3>5 DEF Watched
    <3> HIDE DEF t2
    <3>7. Alike(t2, t3)
      BY <3>0, <3>5, SetLists
    <3>8. t3 \in TCB
      BY <3>7 DEF Alike, Same
    <3> HIDE DEF t3
    <3>9. Alike(t3, t4)
      BY <3>0, <3>8, SetLists
    <3> HIDE DEF t4
    <3>10. Alike(t2, t4)
      BY <3>7, <3>9, AlikeTrans
    <3>11. Same(t2, t4) /\ Watched(t4)
      BY <3>6, <3>10, AlikeWatched
    <3>12. Same(t, u) /\ Watched(u)
      BY <3>1, <3>2, <3>4, <3>11, SameTrans
    <3>13. Handled(t, Result(u))
      BY <1>1, <3>12, ResultHandled
    <3> QED
      BY <1>1, <1>2, <1>3, <2>1, <3>13, ApplyStep DEF t
  <2> QED
    BY <2>1, <2>2, <2>3
<1>9. CASE ResetSynReceived(c)
  BY <1>1, <1>2, <1>3, <1>9, ReleaseAlone DEF ResetSynReceived
<1>10. CASE SegmentEstablished(c)
  <2>1. PICK r \in HandleEstablished(t) : Apply(c, r)
    BY <1>10 DEF SegmentEstablished
  <2>2. Handled(t, r)
    BY <1>1, <1>10, EstablishedHandled DEF SegmentEstablished
  <2> QED
    BY <1>1, <1>2, <1>3, <2>1, <2>2, ApplyStep
<1>11. CASE SegmentCloseWait(c)
  <2>1. PICK r \in HandleCloseWait(Result(t)) : Apply(c, r)
    BY <1>11 DEF SegmentCloseWait
  <2>2. Handled(t, r)
    BY <1>1, <1>6, CloseWaitHandled
  <2> QED
    BY <1>1, <1>2, <1>3, <2>1, <2>2, ApplyStep
<1>12. CASE ResetSynchronized(c)
  <2> DEFINE t1 == [t EXCEPT !.state = "CLOSE_WAIT"]
             t2 == [t1 EXCEPT !.reason = "RESET"]
  <2>1. PICK r \in HandleCloseWait(Result(t2)) : Apply(c, r)
    BY <1>12 DEF ResetSynchronized
  <2>2. t.tmo = TRUE
    BY <1>1, <1>12 DEF ResetSynchronized, Watched, TCB
  <2>3. /\ NoFd \in {NoFd, ListenFd} \cup Fds /\ "RESET" \in CloseReason
        /\ "CLOSE_WAIT" \in {"SYN_RECEIVED", "CLOSED"} \cup Synchronized
    BY DEF CloseReason, Synchronized
  <2>4. Same(t, t1)
    BY <1>1, <2>3, SetState
  <2> HIDE DEF t
  <2>5. t1 \in TCB /\ t1.state = "CLOSE_WAIT" /\ t1.tmo = TRUE
    BY <1>1, <2>2, <2>4 DEF Same, TCB
  <2> HIDE DEF t1
  <2>6. Same(t1, t2)
    BY <2>3, <2>5, SetState
  <2>7. t2.state = "CLOSE_WAIT" /\ t2.tmo = TRUE
    BY <2>5 DEF TCB
  <2> HIDE DEF t2
  <2>8. Same(t, t2) /\ Watched(t2)
    BY <2>4, <2>6, <2>7, SameTrans DEF Watched
  <2>9. Handled(t, Result(t2))
    BY <1>1, <2>8, ResultHandled
  <2>10. Handled(t, r)
    BY <1>1, <2>9, CloseWaitHandled
  <2> QED
    BY <1>1, <1>2, <1>3, <2>1, <2>10, ApplyStep DEF t
<1> QED
  BY <1>7, <1>8, <1>9, <1>10, <1>11, <1>12 DEF Segment

\* A block is CLOSED, for whatever reason.
Closed(t, r) == [[t EXCEPT !.state = "CLOSED"] EXCEPT !.reason = r]

LEMMA CloseBlock ==
  ASSUME NEW t \in TCB, NEW r \in CloseReason, NEW u, Same(Closed(t, r), u),
         u.state = "CLOSED"
  PROVE  Same(t, u) /\ Watched(u)
<1> DEFINE t1 == [t EXCEPT !.state = "CLOSED"]
           t2 == [t1 EXCEPT !.reason = r]
<1>1. /\ NoFd \in {NoFd, ListenFd} \cup Fds
      /\ "CLOSED" \in {"SYN_RECEIVED", "CLOSED"} \cup Synchronized
  OBVIOUS
<1>2. Same(t, t1)
  BY <1>1, SetState
<1>3. t1 \in TCB
  BY <1>2 DEF Same
<1>4. Same(t2, u)
  BY DEF Closed
<1> HIDE DEF t1
<1>5. Same(t1, t2)
  BY <1>1, <1>3, SetState
<1> HIDE DEF t2
<1> QED
  BY <1>2, <1>4, <1>5, SameTrans DEF Watched, Synchronized

LEMMA TimerStep ==
  ASSUME IInv, NEW c \in Conns,
         RtoResend(c) \/ RtoGiveUp(c) \/ RtoRelease(c) \/ ConnTimeout(c)
  PROVE  IInv'
<1> DEFINE t == tcb[c]
<1>1. c \in Live /\ t \in TCB /\ Watched(t)
  <2>1. c \in Live
    BY DEF RtoResend, RtoGiveUp, RtoRelease, ConnTimeout
  <2> QED
    BY <2>1, LiveBlock
<1>2. UNCHANGED <<phase, wake, listening, nextId, queues, so, app>>
  BY DEF RtoResend, RtoGiveUp, RtoRelease, ConnTimeout, InPhase
<1>3. phase' \in Phases /\ wake' \in {"none", "frames", "events"}
  BY <1>1, <1>2, LiveBlock
<1>4. 0 \in Nat
  OBVIOUS
<1>5. CASE RtoResend(c)
  <2> DEFINE n == t.nrtx + 1
             t1 == [t EXCEPT !.nrtx = n]
  <2>1. PICK u \in Control(t1) \cup {AddSend(t1)} : Update(c, [u EXCEPT !.rto = FALSE])
    BY <1>5 DEF RtoResend
  <2>2. n \in Nat
    BY <1>1 DEF TCB
  <2> HIDE DEF n
  <2>3. Alike(t, t1)
    BY <1>1, <2>2, SetLists
  <2> HIDE DEF t1
  <2>4. t1 \in TCB
    BY <2>3 DEF Alike, Same
  <2>5. Alike(t1, u)
    BY <2>4, ControlAlike, AddSendAlike
  <2>6. u \in TCB
    BY <2>5 DEF Alike, Same
  <2> DEFINE v == [u EXCEPT !.rto = FALSE]
  <2>7. Alike(u, v)
    BY <1>4, <2>6, SetLists
  <2> HIDE DEF v
  <2>8. Alike(t, v)
    BY <2>3, <2>5, <2>7, AlikeTrans
  <2>9. Same(t, v) /\ Watched(v)
    BY <1>1, <2>8, AlikeWatched
  <2> QED
    BY <1>1, <1>2, <1>3, <1>5, <2>1, <2>9, UpdateStep DEF RtoResend, v
<1>6. CASE RtoGiveUp(c)
  <2> DEFINE t1 == Closed(t, "CONN_LOST")
             u == [t1 EXCEPT !.rto = FALSE]
  <2>1. Update(c, u) /\ UNCHANGED sndbuf
    BY <1>6 DEF RtoGiveUp, Closed
  <2>2. t1 \in TCB /\ t1.state = "CLOSED" /\ "CONN_LOST" \in CloseReason
    <3>1. [t EXCEPT !.state = "CLOSED"] \in TCB /\ [t EXCEPT !.state = "CLOSED"].state = "CLOSED"
      BY <1>1 DEF TCB
    <3> QED
      BY <3>1 DEF TCB, CloseReason, Closed
  <2>3. Alike(t1, u)
    <3> HIDE DEF t1
    <3> QED
      BY <1>4, <2>2, SetLists
  <2>4. Same(t1, u) /\ u.state = "CLOSED"
    BY <2>2, <2>3 DEF Alike
  <2> HIDE DEF u
  <2>5. Same(t, u) /\ Watched(u)
    BY <1>1, <2>2, <2>4, CloseBlock
  <2> QED
    BY <1>1, <1>2, <1>3, <2>1, <2>5, UpdateStep
<1>7. CASE RtoRelease(c)
  <2>1. rtoCnt' \in Int
    BY <1>7 DEF RtoRelease, IInv, TypeOK
  <2> QED
    BY <1>1, <1>2, <1>3, <1>7, <2>1, ReleaseStep DEF RtoRelease
<1>8. CASE ConnTimeout(c) /\ tcb[c].sock # NoFd
  <2> DEFINE t1 == Closed(t, "TIMEDOUT")
             u == [t1 EXCEPT !.tmo = FALSE]
  <2>1. Update(c, u) /\ UNCHANGED sndbuf
    BY <1>8 DEF ConnTimeout, Closed
  <2>2. t1 \in TCB /\ t1.state = "CLOSED" /\ "TIMEDOUT" \in CloseReason
    <3>1. [t EXCEPT !.state = "CLOSED"] \in TCB /\ [t EXCEPT !.state = "CLOSED"].state = "CLOSED"
      BY <1>1 DEF TCB
    <3> QED
      BY <3>1 DEF TCB, CloseReason, Closed
  <2>3. Same(t1, u) /\ u.state = "CLOSED"
    <3> HIDE DEF t1
    <3>1. NoFd \in {NoFd, ListenFd} \cup Fds /\ "CLOSED" \in {"SYN_RECEIVED", "CLOSED"} \cup Synchronized
      OBVIOUS
    <3>2. Same(t1, u)
      BY <2>2, <3>1, SetState
    <3> QED
      BY <2>2, <3>2 DEF TCB
  <2> HIDE DEF u
  <2>5. Same(t, u) /\ Watched(u)
    BY <1>1, <2>2, <2>3, CloseBlock
  <2> QED
    BY <1>1, <1>2, <1>3, <2>1, <2>5, UpdateStep
<1>9. CASE ConnTimeout(c) /\ tcb[c].sock = NoFd
  BY <1>1, <1>2, <1>3, <1>9, ReleaseAlone DEF ConnTimeout
<1> QED
  BY <1>5, <1>6, <1>7, <1>8, <1>9

LEMMA IdleStep ==
  ASSUME IInv, UNCHANGED <<tcb, rtoCnt, sndbuf, listening, nextId, queues, so, app>>,
         phase' \in Phases, wake' \in {"none", "frames", "events"}
  PROVE  IInv'
<1>1. TypeOK /\ Blocks /\ \A d \in Live : Same(tcb[d], tcb[d]) /\ Watched(tcb[d])
  BY LiveBlock DEF IInv, Blocks, Same
<1>2. Kept
  BY <1>1 DEF Kept, TypeOK, Live
<1>3. Blocks'
  BY <1>1, <1>2, KeepBlocks
<1>4. rtoCnt' \in Int
  BY <1>1 DEF TypeOK
<1> QED
  BY <1>2, <1>3, <1>4, QuietStep DEF Kept

LEMMA ListStep ==
  ASSUME IInv, NEW c \in Conns,
         ControlSend(c) \/ ControlReset(c) \/ ControlBlocked(c) \/ AckList(c) \/ DataList(c)
  PROVE  IInv'
<1> DEFINE t == tcb[c]
<1>1. c \in Live /\ t \in TCB /\ Watched(t) /\ (t.snd # NoFd => sndbuf[t.snd] \in Buf)
  <2>1. c \in Live
    BY DEF ControlSend, ControlReset, ControlBlocked, InControlList, AckList, DataList
  <2> QED
    BY <2>1, LiveBlock
<1>2. UNCHANGED <<listening, nextId, queues, so, app>>
  BY DEF ControlSend, ControlReset, ControlBlocked, InControlList, AckList, DataList, shared
<1>3. phase \in Phases /\ wake \in {"none", "frames", "events"}
  BY <1>1, LiveBlock
<1>4. 0 \in Nat /\ "ack" \in Phases /\ "poll" \in Phases
  BY DEF Phases
<1>5. CASE ControlSend(c)
  <2>1. PICK u \in Control(t) : Update(c, u) /\ phase' = IF u.ctl THEN "ack" ELSE phase
    BY <1>5 DEF ControlSend
  <2>2. UNCHANGED <<wake, sndbuf>>
    BY <1>5 DEF ControlSend, InControlList
  <2>3. Alike(t, u)
    BY <1>1, ControlAlike
  <2>4. Same(t, u) /\ Watched(u)
    BY <1>1, <2>3, AlikeWatched
  <2>5. phase' \in Phases /\ wake' \in {"none", "frames", "events"}
    BY <1>3, <1>4, <2>1, <2>2
  <2> QED
    BY <1>1, <1>2, <2>1, <2>2, <2>4, <2>5, UpdateStep
<1>6. CASE ControlReset(c)
  <2>1. UNCHANGED <<phase, wake>> /\ Release(c)
    BY <1>6 DEF ControlReset, InControlList
  <2> QED
    BY <1>1, <1>2, <1>3, <2>1, ReleaseAlone
<1>8. CASE ControlBlocked(c)
  BY <1>2, <1>3, <1>4, <1>8, IdleStep DEF ControlBlocked, InControlList
<1>9. CASE AckList(c)
  <2> DEFINE u == [t EXCEPT !.ack = FALSE]
  <2>1. Update(c, u) /\ UNCHANGED <<phase, wake, sndbuf>>
    BY <1>9 DEF AckList, shared
  <2>2. Alike(t, u)
    BY <1>1, <1>4, SetLists
  <2> HIDE DEF u
  <2>3. Same(t, u) /\ Watched(u)
    BY <1>1, <2>2, AlikeWatched
  <2> QED
    BY <1>1, <1>2, <1>3, <2>1, <2>3, UpdateStep
<1>10. CASE DataList(c)
  <2> DEFINE b == BufOf(t)
  <2>1. ASSUME NEW r \in Flushed(t, b) \cup FlushStopped(t, b), Apply(c, r),
               phase' \in Phases, wake' \in {"none", "frames", "events"}
        PROVE  IInv'
    <3>1. Handled(t, r)
      BY <1>1, FlushHandled
    <3> QED
      BY <1>1, <1>2, <2>1, <3>1, ApplyStep
  <2>2. CASE \E r \in Flushed(t, b) : Apply(c, r) /\ UNCHANGED <<phase, wake>>
    BY <1>3, <2>1, <2>2
  <2>3. CASE \E r \in FlushStopped(t, b) : Apply(c, r) /\ phase' = "poll" /\ wake' = "none"
    BY <1>4, <2>1, <2>3
  <2>4. CASE UNCHANGED <<tcb, rtoCnt, sndbuf>> /\ phase' = "poll" /\ wake' = "none"
    BY <1>2, <1>4, <2>4, IdleStep
  <2> DEFINE u == [t EXCEPT !.send = FALSE]
  <2>5. CASE Update(c, u) /\ UNCHANGED <<phase, wake, sndbuf>>
    <3>1. Alike(t, u)
      BY <1>1, <1>4, SetLists
    <3> HIDE DEF u
    <3>2. Same(t, u) /\ Watched(u)
      BY <1>1, <3>1, AlikeWatched
    <3> QED
      BY <1>1, <1>2, <1>3, <2>5, <3>2, UpdateStep
  <2> QED
    BY <1>10, <2>2, <2>3, <2>4, <2>5 DEF DataList
<1> QED
  BY <1>5, <1>6, <1>8, <1>9, <1>10

-----------------------------------------------------------------------------
(* Queues. *)

LEMMA TailFacts ==
  ASSUME NEW S, NEW s \in Seq(S), s # << >>
  PROVE  /\ Tail(s) \in Seq(S) /\ Head(s) = s[1] /\ Head(s) \in S /\ 1 \in DOMAIN s
         /\ \A i \in DOMAIN Tail(s) : i + 1 \in DOMAIN s /\ i + 1 # 1 /\ Tail(s)[i] = s[i + 1]
         /\ \A i \in DOMAIN s : i # 1 => i - 1 \in DOMAIN Tail(s) /\ Tail(s)[i - 1] = s[i]
<1>1. Len(s) \in Nat \ {0} /\ DOMAIN s = 1..Len(s)
  OBVIOUS
<1>2. Tail(s) \in Seq(S) /\ Len(Tail(s)) = Len(s) - 1 /\ DOMAIN Tail(s) = 1..Len(Tail(s))
  OBVIOUS
<1>3. \A i \in 1..(Len(s) - 1) : Tail(s)[i] = s[i + 1]
  OBVIOUS
<1> QED
  BY <1>1, <1>2, <1>3

LEMMA AppendFacts ==
  ASSUME NEW S, NEW s \in Seq(S), NEW e \in S
  PROVE  /\ Append(s, e) \in Seq(S) /\ Append(s, e) # s /\ Append(s, e) # << >>
         /\ Len(s) + 1 \in DOMAIN Append(s, e) /\ Append(s, e)[Len(s) + 1] = e
         /\ \A i \in DOMAIN s : i \in DOMAIN Append(s, e) /\ Append(s, e)[i] = s[i]
         /\ \A i \in DOMAIN Append(s, e) : i \in DOMAIN s \/ i = Len(s) + 1
         /\ Len(s) + 1 \notin DOMAIN s
         /\ s # << >> => Head(Append(s, e)) = Head(s)
<1>1. Len(s) \in Nat /\ DOMAIN s = 1..Len(s)
  OBVIOUS
<1>2. /\ Append(s, e) \in Seq(S) /\ Len(Append(s, e)) = Len(s) + 1
      /\ DOMAIN Append(s, e) = 1..(Len(s) + 1)
  OBVIOUS
<1>3. \A i \in 1..Len(s) : Append(s, e)[i] = s[i]
  OBVIOUS
<1>4. Append(s, e)[Len(s) + 1] = e
  OBVIOUS
<1>5. Append(s, e) # s /\ Append(s, e) # << >>
  <2>3. \A n \in Nat : n + 1 # n /\ n + 1 # 0
    OBVIOUS
  <2>1. Len(Append(s, e)) # Len(s) /\ Len(Append(s, e)) # 0
    BY <1>1, <1>2, <2>3, Zenon
  <2>2. Len(<< >>) = 0
    OBVIOUS
  <2> QED
    BY <2>1, <2>2, Zenon
<1>6. s # << >> => Head(Append(s, e)) = Head(s)
  <2>1. s # << >> => 1 \in 1..Len(s) /\ Head(s) = s[1]
    BY <1>1
  <2>2. Head(Append(s, e)) = Append(s, e)[1]
    BY <1>2, <1>5
  <2> QED
    BY <1>3, <2>1, <2>2
<1>7. \A i \in DOMAIN s : i \in DOMAIN Append(s, e) /\ Append(s, e)[i] = s[i]
  BY <1>1, <1>2, <1>3
<1>8. \A i \in DOMAIN Append(s, e) : i \in DOMAIN s \/ i = Len(s) + 1
  BY <1>1, <1>2
<1>9. Len(s) + 1 \in DOMAIN Append(s, e) /\ Len(s) + 1 \notin DOMAIN s
  BY <1>1, <1>2
<1> QED
  BY <1>2, <1>4, <1>5, <1>6, <1>7, <1>8, <1>9

\* A CONNECT event names a four-tuple, a WRITE a descriptor.
LEMMA EventType ==
  ASSUME NEW e \in Event
  PROVE  /\ e.fd \in {ListenFd} \cup Fds
         /\ e.ev = "CONNECT" => e.conn \in Conns
         /\ e.ev \in {"WRITE", "LISTEN", "CONNECT"}
BY DEF Event

LEMMA NewEvent ==
  /\ \A c \in Conns, fd \in {ListenFd} \cup Fds : [ev |-> "CONNECT", fd |-> fd, conn |-> c] \in Event
  /\ \A fd \in Fds : [ev |-> "WRITE", fd |-> fd] \in Event
  /\ ListenEvent \in Event
BY DEF Event, ListenEvent

\* A SYN for the listening socket.
LEMMA SynStep ==
  ASSUME IInv, NEW c \in Conns, SynArrives(c)
  PROVE  IInv'
<1> DEFINE e == [ev |-> "CONNECT", fd |-> ListenFd, conn |-> c]
           u == NewTcb(c)
<1>1. /\ tcb' = [tcb EXCEPT ![c] = u] /\ nextId' = nextId + 1 /\ tcb[c] = NoTcb
      /\ UNCHANGED <<phase, wake, listening, app2net, sndbuf, so, apc, backlog>>
      /\ listening
  BY DEF SynArrives, Update, shared, app
<1>2. nextId \in Nat /\ nextId > 0 /\ tcb \in [Conns -> TCB \cup {NoTcb}] /\ net2app \in Seq(Event)
  BY DEF IInv, TypeOK, Ids
<1>3. u \in TCB
  BY <1>2 DEF NewTcb, TCB, CloseReason
<1>4. /\ u.id = nextId /\ u.state = "SYN_RECEIVED" /\ u.sock = NoFd /\ u.snd = NoFd
      /\ u.tmo = FALSE
  BY DEF NewTcb
<1> HIDE DEF u
<1>5. /\ Live' = Live \cup {c} /\ c \notin Live
      /\ tcb'[c] = u /\ \A d \in Live : d # c /\ tcb'[d] = tcb[d]
  BY <1>1, <1>2, <1>3, NullAssumption DEF Live
<1>6. e \in Event
  BY NewEvent
<1>7. net2app' = net2app \/ net2app' = Append(net2app, e)
  BY DEF SynArrives, Enqueue
<1>8. /\ net2app' \in Seq(Event)
      /\ \A i \in DOMAIN net2app : i \in DOMAIN net2app' /\ net2app'[i] = net2app[i]
      /\ net2app # << >> => net2app' # << >> /\ Head(net2app') = Head(net2app)
  BY <1>2, <1>6, <1>7, AppendFacts
<1>9. lost' = IF net2app' = net2app THEN lost \cup {c} ELSE lost \ {c}
  BY DEF SynArrives
<1>10. TypeOK'
  <2>1. tcb' \in [Conns -> TCB \cup {NoTcb}] /\ nextId' \in Nat
    BY <1>1, <1>2, <1>3
  <2>2. rtoCnt' \in Int
    <3>1. rtoCnt \in Int /\ Armed(u) \in Int /\ Armed(tcb[c]) \in Int
      BY DEF Armed, IInv, TypeOK
    <3> QED
      BY <3>1 DEF SynArrives, Update, u
  <2>3. lost' \subseteq Conns
    BY <1>9 DEF IInv, TypeOK
  <2>4. phase' \in {"poll"} \cup DOMAIN NextPhase'
    BY <1>1, PhaseType, PhaseTypePrimed DEF IInv, TypeOK
  <2> QED
    BY <1>1, <1>8, <2>1, <2>2, <2>3, <2>4 DEF IInv, TypeOK
<1>11. Startup'
  BY <1>1, <1>8 DEF IInv, Startup
<1>12. Ids'
  <2>1. \A d \in Live : tcb[d].id \in Nat
    BY DEF IInv, TypeOK, Live, TCB
  <2>2. \A fd \in DOMAIN so : so[fd].tcb \in Nat
    <3>1. so \in Seq(Socket)
      BY DEF IInv, TypeOK
    <3>2. \A fd \in DOMAIN so : so[fd] \in Socket
      BY <3>1
    <3> QED
      BY <3>2 DEF Socket
  <2> QED
    BY <1>1, <1>2, <1>4, <1>5, <2>1, <2>2 DEF IInv, Ids
<1>18. Pointers'
  <2> SUFFICES ASSUME NEW fd \in DOMAIN so, NEW d \in Live'
               PROVE  /\ so[fd].conn = d => so[fd].tcb <= tcb'[d].id
                      /\ so[fd].tcb = tcb'[d].id => so[fd].conn = d
    BY <1>1 DEF Pointers
  <2>1. so[fd].tcb \in Nat /\ so[fd].tcb < nextId
    <3>1. so \in Seq(Socket)
      BY DEF IInv, TypeOK
    <3>2. so[fd] \in Socket
      BY <3>1
    <3> QED
      BY <3>2 DEF Socket, IInv, Ids
  <2>2. CASE d = c
    BY <1>2, <1>4, <1>5, <2>1, <2>2
  <2>3. CASE d # c
    BY <1>5, <2>3 DEF IInv, Pointers
  <2> QED
    BY <2>2, <2>3
<1>13. OnBacklog' /\ OnTheWay' /\ FirstRound' /\ WritesTyped'
  BY <1>1 DEF IInv, OnBacklog, OnTheWay, FirstRound, Connects, WritesTyped
<1>14. BufferBinding' /\ SocketBinding'
  BY <1>1, <1>4, <1>5 DEF IInv, BufferBinding, SocketBinding
<1>15. WriteReachesOwner'
  BY <1>1, <1>5 DEF IInv, WriteReachesOwner
<1>16. OpenIsWatched'
  BY <1>1, <1>4, <1>5 DEF IInv, OpenIsWatched, Synchronized
<1>17. ConnectIsPending'
  <2> SUFFICES ASSUME Len(so) <= BacklogSize, NEW d \in Live' \ lost', tcb'[d].sock = NoFd
               PROVE  \/ \E i \in DOMAIN net2app' : net2app'[i].ev = "CONNECT" /\ net2app'[i].conn = d
                      \/ Backlogged(d)
                      \/ \E i \in DOMAIN app2net : app2net[i].ev = "CONNECT" /\ app2net[i].conn = d
    BY <1>1 DEF ConnectIsPending, Backlogged
  <2>1. CASE d = c
    <3>1. net2app' = Append(net2app, e)
      BY <1>7, <1>9, <2>1
    <3>2. Len(net2app) + 1 \in DOMAIN net2app' /\ net2app'[Len(net2app) + 1] = e
      BY <1>2, <1>6, <3>1, AppendFacts
    <3> QED
      BY <2>1, <3>2
  <2>2. CASE d # c
    <3>1. d \in Live \ lost /\ tcb[d].sock = NoFd
      BY <1>5, <1>9, <2>2
    <3> QED
      BY <1>8, <3>1 DEF IInv, ConnectIsPending, Backlogged
  <2> QED
    BY <2>1, <2>2
<1> QED
  BY <1>10, <1>11, <1>12, <1>13, <1>14, <1>15, <1>16, <1>17, <1>18 DEF IInv

\* An event of the application is taken; only a CONNECT sets a so_tcb, that of
\* its descriptor.
LEMMA TakeEvent ==
  ASSUME IInv, app2net # << >>, app2net' = Tail(app2net), Head(app2net).ev # "LISTEN",
         UNCHANGED <<backlog, apc, listening, net2app>>, SocketsKept, Live' \subseteq Live,
         \A g \in DOMAIN so : \/ so'[g].tcb = so[g].tcb
                              \/ Head(app2net).ev = "CONNECT" /\ g = Head(app2net).fd
  PROVE  /\ OnBacklog' /\ OnTheWay' /\ FirstRound' /\ WritesTyped' /\ Startup'
         /\ app2net' \in Seq(Event)
<1>1. app2net \in Seq(Event) /\ so \in Seq(Socket)
  BY DEF IInv, TypeOK
<1>2. /\ app2net' \in Seq(Event) /\ Head(app2net) = app2net[1] /\ 1 \in DOMAIN app2net
      /\ \A i \in DOMAIN app2net' : /\ i + 1 \in DOMAIN app2net /\ i + 1 # 1
                                    /\ app2net'[i] = app2net[i + 1]
  BY <1>1, TailFacts
<1>3. DOMAIN so' = DOMAIN so /\ Len(so') = Len(so)
  BY <1>1 DEF SocketsKept
<1>4. \A i \in DOMAIN app2net' : i \in Nat
  <2>1. DOMAIN app2net' = 1..Len(app2net')
    BY <1>2
  <2> QED
    BY <2>1
<1>5. \A i \in Connects' : i + 1 \in Connects /\ i + 1 # 1 /\ app2net'[i] = app2net[i + 1] /\ i \in Nat
  BY <1>2, <1>4 DEF Connects
<1>6. OnBacklog'
  BY <1>3 DEF IInv, OnBacklog, Lined
<1>7. OnTheWay'
  <2> SUFFICES ASSUME NEW i \in Connects'
               PROVE  app2net'[i].fd \in DOMAIN so' /\ so'[app2net'[i].fd].conn = app2net'[i].conn
    BY DEF OnTheWay
  <2>1. i + 1 \in Connects /\ app2net'[i] = app2net[i + 1]
    BY <1>5
  <2>2. app2net[i + 1].fd \in DOMAIN so /\ so[app2net[i + 1].fd].conn = app2net[i + 1].conn
    BY <2>1 DEF IInv, OnTheWay
  <2> QED
    BY <1>3, <2>1, <2>2 DEF SocketsKept
<1>8. FirstRound'
  <2> SUFFICES ASSUME Len(so) < BacklogSize
               PROVE  /\ \A g \in DOMAIN so : g > backlog.head => so'[g].tcb = 0
                      /\ \A i \in Connects' : /\ app2net'[i].fd <= backlog.head
                                              /\ so'[app2net'[i].fd].tcb = 0
                      /\ \A i, j \in Connects' : app2net'[i].fd = app2net'[j].fd => i = j
    BY <1>3 DEF FirstRound
  <2>1. /\ \A g \in DOMAIN so : g > backlog.head => so[g].tcb = 0
        /\ \A i \in Connects : app2net[i].fd <= backlog.head /\ so[app2net[i].fd].tcb = 0
        /\ \A i, j \in Connects : app2net[i].fd = app2net[j].fd => i = j
    BY DEF IInv, FirstRound
  <2>2. Head(app2net).ev = "CONNECT" => 1 \in Connects
    BY <1>2 DEF Connects
  <2>3. \A i \in Connects : app2net[i].fd \in DOMAIN so
    BY DEF IInv, OnTheWay
  <2>4. ASSUME NEW g \in DOMAIN so, g > backlog.head PROVE so'[g].tcb = 0
    <3>1. backlog.head \in Nat /\ g \in Nat
      BY <1>1, BoundAssumption DEF IInv, TypeOK
    <3>2. ~(Head(app2net).ev = "CONNECT" /\ g = Head(app2net).fd)
      BY <1>2, <2>1, <2>2, <2>4, <3>1
    <3> QED
      BY <2>1, <2>4, <3>2
  <2>5. ASSUME NEW i \in Connects'
        PROVE  app2net'[i].fd <= backlog.head /\ so'[app2net'[i].fd].tcb = 0
    <3>1. i + 1 \in Connects /\ i + 1 # 1 /\ app2net'[i] = app2net[i + 1]
      BY <1>5
    <3>2. ~(Head(app2net).ev = "CONNECT" /\ app2net[i + 1].fd = Head(app2net).fd)
      BY <1>2, <2>1, <2>2, <3>1
    <3> QED
      BY <2>1, <2>3, <3>1, <3>2
  <2>6. ASSUME NEW i \in Connects', NEW j \in Connects', app2net'[i].fd = app2net'[j].fd
        PROVE  i = j
    <3>1. i + 1 \in Connects /\ app2net'[i] = app2net[i + 1] /\ i \in Nat
      BY <1>5
    <3>2. j + 1 \in Connects /\ app2net'[j] = app2net[j + 1] /\ j \in Nat
      BY <1>5
    <3>3. i + 1 = j + 1
      BY <2>1, <2>6, <3>1, <3>2
    <3> QED
      BY <3>1, <3>2, <3>3
  <2> QED
    BY <2>4, <2>5, <2>6
<1>9. WritesTyped'
  BY <1>2 DEF IInv, WritesTyped
<1>10. apc # "start" /\ ~(apc = "wait" /\ ~listening)
  <2>1. app2net # << ListenEvent >>
    BY DEF ListenEvent
  <2> QED
    BY <2>1 DEF IInv, Startup
<1>11. so = << >> => so' = << >>
  BY <1>1 DEF SocketsKept
<1>12. Startup'
  <2>1. \A i \in DOMAIN app2net' : app2net'[i].ev # "LISTEN"
    BY <1>2, <1>10 DEF IInv, Startup
  <2> QED
    BY <1>10, <1>11, <2>1 DEF IInv, Startup
<1> QED
  BY <1>2, <1>6, <1>7, <1>8, <1>9, <1>12

LEMMA EntriesListed ==
  ASSUME IInv, Len(so) <= BacklogSize
  PROVE  /\ \A i \in backlog.head..(backlog.tail - 1) : backlog.connq[i] \in DOMAIN so
         /\ \A i \in 0..(backlog.tail - 1) : backlog.connq[i] = i + 1
         /\ backlog.tail = Len(so) /\ backlog.head <= backlog.tail
<1>1. /\ backlog.head \in Nat /\ Len(so) \in Nat /\ DOMAIN so = 1..Len(so)
  BY BoundAssumption DEF IInv, TypeOK
<1>2. /\ backlog.head <= backlog.tail /\ backlog.tail = Len(so)
      /\ \A i \in 0..(Len(so) - 1) : backlog.connq[i] = i + 1
  BY DEF IInv, OnBacklog, Lined
<1>3. ASSUME NEW i \in backlog.head..(backlog.tail - 1) PROVE backlog.connq[i] \in DOMAIN so
  <2>1. i \in 0..(Len(so) - 1) /\ i + 1 \in 1..Len(so)
    BY <1>1, <1>2
  <2> QED
    BY <1>1, <1>2, <2>1
<1> QED
  BY <1>2, <1>3

LEMMA PendingKept ==
  ASSUME IInv, app2net # << >>, app2net' = Tail(app2net), SocketsKept,
         UNCHANGED <<net2app, backlog, lost>>,
         \A d \in Live' : tcb'[d].sock = NoFd =>
           /\ d \in Live /\ tcb[d].sock = NoFd
           /\ Head(app2net).ev = "CONNECT" => d # Head(app2net).conn
  PROVE  ConnectIsPending'
<1>1. app2net \in Seq(Event)
  BY DEF IInv, TypeOK
<1>2. /\ Head(app2net) = app2net[1]
      /\ \A i \in DOMAIN app2net : i # 1 => /\ i - 1 \in DOMAIN app2net'
                                            /\ app2net'[i - 1] = app2net[i]
  BY <1>1, TailFacts
<1> SUFFICES ASSUME Len(so) <= BacklogSize, NEW d \in Live' \ lost, tcb'[d].sock = NoFd
             PROVE  \/ \E i \in DOMAIN net2app : net2app[i].ev = "CONNECT" /\ net2app[i].conn = d
                    \/ Backlogged(d)'
                    \/ \E i \in DOMAIN app2net' : app2net'[i].ev = "CONNECT" /\ app2net'[i].conn = d
  BY DEF ConnectIsPending, SocketsKept, Backlogged
<1>3. /\ d \in Live \ lost /\ tcb[d].sock = NoFd
      /\ Head(app2net).ev = "CONNECT" => d # Head(app2net).conn
  OBVIOUS
<1>4. \/ \E i \in DOMAIN net2app : net2app[i].ev = "CONNECT" /\ net2app[i].conn = d
      \/ Backlogged(d)
      \/ \E i \in DOMAIN app2net : app2net[i].ev = "CONNECT" /\ app2net[i].conn = d
  BY <1>3 DEF IInv, ConnectIsPending, Backlogged
<1>5. Backlogged(d) => Backlogged(d)'
  <2>1. \A i \in backlog.head..(backlog.tail - 1) : backlog.connq[i] \in DOMAIN so
    BY EntriesListed
  <2> QED
    BY <2>1 DEF Backlogged, SocketsKept
<1>6. ASSUME NEW i \in DOMAIN app2net, app2net[i].ev = "CONNECT", app2net[i].conn = d
      PROVE  \E j \in DOMAIN app2net' : app2net'[j].ev = "CONNECT" /\ app2net'[j].conn = d
  <2>1. i # 1
    BY <1>2, <1>3, <1>6
  <2>2. i - 1 \in DOMAIN app2net' /\ app2net'[i - 1] = app2net[i]
    BY <1>2, <2>1
  <2> QED
    BY <1>6, <2>2
<1> QED
  BY <1>4, <1>5, <1>6

\* What the head of the queue means when it is a CONNECT: only the block of its
\* four-tuple can be bound to its descriptor.
LEMMA Free ==
  ASSUME IInv, app2net # << >>, Head(app2net).ev = "CONNECT"
  PROVE  /\ Head(app2net).fd \in Fds \cap DOMAIN so /\ Head(app2net).conn \in Conns
         /\ so[Head(app2net).fd].conn = Head(app2net).conn
         /\ \A d \in Live : d # Head(app2net).conn =>
              tcb[d].sock # Head(app2net).fd /\ tcb[d].snd # Head(app2net).fd
         /\ \/ sndbuf[Head(app2net).fd] = NoBuf
            \/ Head(app2net).conn \in Live /\ tcb[Head(app2net).conn].snd = Head(app2net).fd
         /\ \A d \in Live : tcb[d].id \in Nat \ {0}
         /\ Len(so) < BacklogSize => so[Head(app2net).fd].tcb = 0
<1>1. app2net \in Seq(Event) /\ so \in Seq(Socket) /\ Len(so) <= MaxFds
  BY DEF IInv, TypeOK
<1>2. Head(app2net) = app2net[1] /\ Head(app2net) \in Event /\ 1 \in DOMAIN app2net
  BY <1>1, TailFacts
<1> DEFINE fd == Head(app2net).fd
           c == Head(app2net).conn
<1>3. /\ fd \in DOMAIN so /\ so[fd].conn = c
      /\ Len(so) < BacklogSize => so[fd].tcb = 0
  BY <1>2 DEF IInv, OnTheWay, FirstRound, Connects
<1>4. fd \in Fds
  BY <1>1, <1>3, BoundAssumption DEF Fds
<1>5. \A d \in Live : tcb[d].id \in Nat \ {0}
  BY DEF IInv, Ids, Live, TypeOK, TCB
<1>6. c \in Conns
  BY <1>2, EventType
<1> HIDE DEF fd, c
<1>7. \A d \in Live : d # c => tcb[d].sock # fd
  <2> SUFFICES ASSUME NEW d \in Live, tcb[d].sock = fd PROVE d = c
    OBVIOUS
  <2>1. tcb[d].sock # NoFd
    BY <1>4 DEF Fds, NoFd
  <2> QED
    BY <1>3, <2>1 DEF IInv, SocketBinding
<1>8. \A d \in Live : d # c => tcb[d].snd # fd
  <2> SUFFICES ASSUME NEW d \in Live, tcb[d].snd = fd PROVE d = c
    OBVIOUS
  <2>1. tcb[d].snd # NoFd
    BY <1>4 DEF Fds, NoFd
  <2>2. so[fd].tcb = tcb[d].id
    BY <2>1 DEF IInv, BufferBinding
  <2> QED
    BY <1>3, <2>2 DEF IInv, Pointers
<1>9. sndbuf[fd] = NoBuf \/ (c \in Live /\ tcb[c].snd = fd)
  <2> SUFFICES ASSUME sndbuf[fd] # NoBuf PROVE c \in Live /\ tcb[c].snd = fd
    OBVIOUS
  <2>1. PICK d \in Live : tcb[d].snd = fd
    BY <1>4 DEF IInv, WriteReachesOwner
  <2> QED
    BY <1>8, <2>1
<1> QED
  BY <1>3, <1>4, <1>5, <1>6, <1>7, <1>8, <1>9 DEF fd, c

PointTo(fd, id) == so' = [so EXCEPT ![fd].tcb = id]

\* The socket of the descriptor is the four-tuple's, and no other block's.
Unused(c, fd) ==
  /\ fd \in Fds \cap DOMAIN so /\ so[fd].conn = c
  /\ sndbuf[fd] = NoBuf \/ tcb[c].snd = fd
  /\ \A d \in Live : /\ tcb[d].id \in Nat \ {0}
                     /\ d # c => tcb[d].sock # fd /\ tcb[d].snd # fd

\* The block of the four-tuple, now u, and the descriptor name each other; the
\* block keeps its send buffer or gets b.
Bound(c, fd, u, b) ==
  /\ u \in TCB /\ Watched(u) /\ u.id = tcb[c].id /\ u.sock = fd /\ u.fd = fd
  /\ tcb' = [tcb EXCEPT ![c] = u] /\ PointTo(fd, tcb[c].id)
  /\ b \in Buf /\ b.own = tcb[c].id
  /\ \/ u.snd = tcb[c].snd /\ sndbuf' = sndbuf
     \/ tcb[c].snd = NoFd /\ u.snd = fd /\ sndbuf' = [sndbuf EXCEPT ![fd] = b]

LEMMA BindBlocks ==
  ASSUME TypeOK, Blocks, nextId' = nextId, NEW c \in Live, NEW fd, NEW u, NEW b,
         Unused(c, fd), Bound(c, fd, u, b)
  PROVE  /\ Blocks' /\ Live' = Live /\ SocketsKept
         /\ tcb' \in [Conns -> TCB \cup {NoTcb}] /\ sndbuf' \in [Fds -> Buf \cup {NoBuf}]
         /\ \A d \in Live : d # c => tcb'[d] = tcb[d]
<1> USE DEF Unused, Bound
<1>1. /\ c \in Conns /\ tcb \in [Conns -> TCB \cup {NoTcb}] /\ so \in Seq(Socket)
      /\ sndbuf \in [Fds -> Buf \cup {NoBuf}]
  BY DEF TypeOK, Live
<1>2. tcb' \in [Conns -> TCB \cup {NoTcb}] /\ u # NoTcb /\ tcb'[c] = u
  BY <1>1, NullAssumption
<1>3. Live' = Live /\ \A d \in Live : d # c => tcb'[d] = tcb[d]
  BY <1>1, <1>2 DEF Live
<1>4. sndbuf' \in [Fds -> Buf \cup {NoBuf}]
  BY <1>1
<1>10. DOMAIN so = 1..Len(so) /\ Len(so) \in Nat
  BY <1>1
<1> DEFINE x == [so[fd] EXCEPT !.tcb = tcb[c].id]
<1>14. so[fd] \in Socket /\ tcb[c].id \in Nat
  BY <1>1
<1>15. x \in Socket /\ x.tcb = tcb[c].id /\ x.conn = so[fd].conn
  BY <1>14 DEF Socket
<1>16. so' = [so EXCEPT ![fd] = x]
  BY DEF PointTo
<1> HIDE DEF x
<1>6. so' \in Seq(Socket) /\ Len(so') = Len(so)
  BY <1>1, <1>10, <1>15, <1>16, ExceptSeq
<1>5. /\ so'[fd].tcb = tcb[c].id /\ so'[fd].conn = c
      /\ \A g \in DOMAIN so : g # fd => so'[g] = so[g]
      /\ DOMAIN so' = DOMAIN so /\ Len(so') = Len(so)
  BY <1>6, <1>15, <1>16
<1>7. SocketsKept
  BY <1>5, <1>6 DEF SocketsKept
<1>17. \A d \in Live : tcb'[d].id = tcb[d].id
  BY <1>2, <1>3
<1>8. Ids'
  BY <1>3, <1>5, <1>17 DEF Blocks, Ids
<1>18. Pointers'
  BY <1>3, <1>5, <1>7, <1>17, PointersKept DEF Pointers
<1>9. OpenIsWatched'
  BY <1>2, <1>3 DEF Blocks, OpenIsWatched, Watched
<1>11. SocketBinding'
  <2> SUFFICES ASSUME NEW d \in Live, tcb'[d].sock # NoFd
               PROVE  /\ tcb'[d].fd = tcb'[d].sock /\ tcb'[d].sock <= Len(so')
                      /\ so'[tcb'[d].sock].conn = d /\ so'[tcb'[d].sock].tcb = tcb'[d].id
    BY <1>3 DEF SocketBinding
  <2>1. CASE d = c
    BY <1>2, <1>5, <1>10, <2>1
  <2>2. CASE d # c
    <3>1. tcb'[d] = tcb[d]
      BY <1>3, <2>2
    <3>2. /\ tcb[d].fd = tcb[d].sock /\ tcb[d].sock <= Len(so)
          /\ so[tcb[d].sock].conn = d /\ so[tcb[d].sock].tcb = tcb[d].id
      BY <3>1 DEF Blocks, SocketBinding
    <3>3. tcb[d] \in TCB
      BY <1>1 DEF Live
    <3>4. tcb[d].sock \in Fds
      BY <3>1, <3>3 DEF TCB
    <3>5. tcb[d].sock \in DOMAIN so
      BY <1>10, <3>2, <3>4, BoundAssumption DEF Fds
    <3> QED
      BY <1>5, <3>1, <3>2, <3>5
  <2> QED
    BY <2>1, <2>2
<1>12. BufferBinding'
  <2> SUFFICES ASSUME NEW d \in Live, tcb'[d].snd # NoFd
               PROVE  /\ tcb'[d].snd \in DOMAIN so' /\ so'[tcb'[d].snd].tcb = tcb'[d].id
                      /\ sndbuf'[tcb'[d].snd] # NoBuf /\ sndbuf'[tcb'[d].snd].own = tcb'[d].id
    BY <1>3 DEF BufferBinding
  <2>1. \A e \in Live : tcb[e].snd # NoFd =>
          /\ tcb[e].snd \in DOMAIN so /\ so[tcb[e].snd].tcb = tcb[e].id
          /\ sndbuf[tcb[e].snd] # NoBuf /\ sndbuf[tcb[e].snd].own = tcb[e].id
    BY DEF Blocks, BufferBinding
  <2>2. \A g \in DOMAIN sndbuf : g # fd => sndbuf'[g] = sndbuf[g]
    BY <1>1
  <2>3. \A e \in Live : tcb[e].snd # NoFd => tcb[e].snd \in DOMAIN sndbuf
    <3>1. \A e \in Live : tcb[e] \in TCB
      BY <1>1 DEF Live
    <3> QED
      BY <1>1, <3>1 DEF TCB
  <2>4. CASE tcb'[d].snd = tcb[d].snd
    <3>1. tcb'[d].id = tcb[d].id
      BY <1>17
    <3>2. CASE tcb[d].snd # fd
      BY <1>5, <2>1, <2>2, <2>3, <2>4, <3>1, <3>2
    <3>3. CASE tcb[d].snd = fd
      <4>1. d = c /\ tcb[c].snd # NoFd
        BY <2>4, <3>3
      <4>2. sndbuf' = sndbuf
        BY <4>1
      <4> QED
        BY <1>5, <2>1, <2>4, <3>1, <3>3, <4>1, <4>2
    <3> QED
      BY <3>2, <3>3
  <2>5. CASE d = c /\ u.snd = fd /\ sndbuf' = [sndbuf EXCEPT ![fd] = b]
    <3>1. sndbuf'[fd] = b
      BY <1>1, <2>5
    <3> QED
      BY <1>2, <1>5, <2>5, <3>1, NullAssumption
  <2> QED
    BY <1>2, <1>3, <2>4, <2>5
<1>13. WriteReachesOwner'
  <2> SUFFICES ASSUME NEW g \in Fds, sndbuf'[g] # NoBuf
               PROVE  /\ g <= Len(so') /\ so'[g].tcb = sndbuf'[g].own
                      /\ \E d \in Live : tcb'[d].id = sndbuf'[g].own /\ tcb'[d].snd = g
    BY <1>3 DEF WriteReachesOwner
  <2>1. CASE g = fd
    <3>1. CASE u.snd = fd /\ sndbuf'[fd] = b
      BY <1>2, <1>5, <1>10, <2>1, <3>1
    <3>2. CASE u.snd = tcb[c].snd /\ sndbuf' = sndbuf
      <4>1. tcb[c].snd = fd /\ fd # NoFd
        BY <2>1, <3>2 DEF Fds, NoFd
      <4>2. sndbuf[fd].own = tcb[c].id
        BY <4>1 DEF Blocks, BufferBinding
      <4> QED
        BY <1>2, <1>5, <1>10, <2>1, <3>2, <4>1, <4>2
    <3> QED
      BY <1>1, <3>1, <3>2
  <2>2. CASE g # fd
    <3>1. sndbuf'[g] = sndbuf[g]
      BY <1>1, <2>2
    <3>2. g <= Len(so) /\ so[g].tcb = sndbuf[g].own
      BY <3>1 DEF Blocks, WriteReachesOwner
    <3>3. PICK d \in Live : tcb[d].id = sndbuf[g].own /\ tcb[d].snd = g
      BY <3>1 DEF Blocks, WriteReachesOwner
    <3>4. tcb'[d].id = tcb[d].id /\ tcb'[d].snd = g
      <4>1. g # NoFd
        BY DEF Fds, NoFd
      <4> QED
        BY <1>2, <1>3, <3>3, <4>1
    <3>5. g \in DOMAIN so
      BY <1>10, <3>2, BoundAssumption DEF Fds
    <3> QED
      BY <1>5, <2>2, <3>1, <3>2, <3>3, <3>4, <3>5
  <2> QED
    BY <2>1, <2>2
<1> QED
  BY <1>2, <1>3, <1>4, <1>7, <1>8, <1>9, <1>11, <1>12, <1>13, <1>18 DEF Blocks

\* The invariant after an event of the application was handled.
LEMMA EventStep ==
  ASSUME IInv, app2net # << >>, app2net' = Tail(app2net), Head(app2net).ev # "LISTEN",
         UNCHANGED <<phase, wake, nextId, lost, apc, backlog, listening, net2app>>,
         Blocks', SocketsKept, rtoCnt' \in Int,
         tcb' \in [Conns -> TCB \cup {NoTcb}], sndbuf' \in [Fds -> Buf \cup {NoBuf}],
         Live' \subseteq Live,
         \A g \in DOMAIN so : \/ so'[g].tcb = so[g].tcb
                              \/ Head(app2net).ev = "CONNECT" /\ g = Head(app2net).fd,
         \A d \in Live' : tcb'[d].sock = NoFd =>
           /\ d \in Live /\ tcb[d].sock = NoFd
           /\ Head(app2net).ev = "CONNECT" => d # Head(app2net).conn
  PROVE  IInv'
<1>1. /\ OnBacklog' /\ OnTheWay' /\ FirstRound' /\ WritesTyped' /\ Startup'
      /\ app2net' \in Seq(Event)
  BY TakeEvent
<1>2. ConnectIsPending'
  BY PendingKept
<1>3. phase' \in {"poll"} \cup DOMAIN NextPhase'
  BY PhaseType, PhaseTypePrimed DEF IInv, TypeOK
<1>4. so' \in Seq(Socket) /\ Len(so') <= MaxFds /\ DOMAIN so' = DOMAIN so
  BY DEF SocketsKept, IInv, TypeOK
<1>5. TypeOK'
  BY <1>1, <1>3, <1>4 DEF IInv, TypeOK
<1> QED
  BY <1>1, <1>2, <1>5 DEF IInv, Blocks

\* The block is bound, with a send buffer or without one.
BindOnly(t, fd) == [t EXCEPT !.sock = fd, !.fd = fd]

LEMMA BindFacts ==
  ASSUME NEW t \in TCB, NEW fd \in Fds, Watched(t)
  PROVE  /\ BindOnly(t, fd) \in TCB /\ BindOnly(t, fd).id = t.id
         /\ BindOnly(t, fd).sock = fd /\ BindOnly(t, fd).fd = fd
         /\ BindOnly(t, fd).snd = t.snd /\ Watched(BindOnly(t, fd))
         /\ Bind(t, fd) \in TCB /\ Bind(t, fd).id = t.id
         /\ Bind(t, fd).sock = fd /\ Bind(t, fd).fd = fd
         /\ Bind(t, fd).snd = (IF t.snd = NoFd THEN fd ELSE t.snd) /\ Watched(Bind(t, fd))
<1> DEFINE n == IF t.snd = NoFd THEN fd ELSE t.snd
           t1 == [t EXCEPT !.sock = fd]
           t2 == [t1 EXCEPT !.fd = fd]
           t3 == [t2 EXCEPT !.snd = n]
<1>1. BindOnly(t, fd) = t2
  BY DEF BindOnly
<1>2. Bind(t, fd) = t3
  BY DEF Bind
<1>3. n \in {NoFd} \cup Fds
  BY DEF TCB
<1> HIDE DEF n
<1>4. /\ t1 \in TCB /\ t1.id = t.id /\ t1.sock = fd /\ t1.snd = t.snd
      /\ t1.state = t.state
  BY DEF TCB
<1>5. t1.tmo = t.tmo
  BY DEF TCB
<1> HIDE DEF t1
<1>6. /\ t2 \in TCB /\ t2.id = t.id /\ t2.sock = fd /\ t2.fd = fd /\ t2.snd = t.snd
      /\ t2.state = t.state
  BY <1>4 DEF TCB
<1>7. t2.tmo = t.tmo
  BY <1>4, <1>5 DEF TCB
<1> HIDE DEF t2
<1>8. /\ t3 \in TCB /\ t3.id = t.id /\ t3.sock = fd /\ t3.fd = fd /\ t3.snd = n
      /\ t3.state = t.state
  BY <1>3, <1>6 DEF TCB
<1>9. t3.tmo = t.tmo
  BY <1>6, <1>7 DEF TCB
<1> HIDE DEF t3
<1>10. Watched(t2) /\ Watched(t3)
  BY <1>6, <1>7, <1>8, <1>9 DEF Watched
<1>11. BindOnly(t, fd).snd = t.snd
  BY <1>1, <1>6
<1> QED
  BY <1>1, <1>2, <1>6, <1>8, <1>10 DEF n

\* usnet_connect_net_handler.
LEMMA ConnectStep ==
  ASSUME IInv, NetConnect
  PROVE  IInv'
<1> DEFINE fd == Head(app2net).fd
           c == Head(app2net).conn
           t == tcb[c]
           b == [own |-> t.id, queued |-> FALSE, inflight |-> FALSE]
<1>1. /\ app2net # << >> /\ app2net' = Tail(app2net) /\ Head(app2net).ev = "CONNECT"
      /\ UNCHANGED <<phase, wake, nextId, lost, apc, backlog, listening, net2app>>
  BY DEF NetConnect, Handling, app
<1>2. /\ fd \in Fds \cap DOMAIN so /\ c \in Conns /\ so[fd].conn = c
      /\ sndbuf[fd] = NoBuf \/ (c \in Live /\ tcb[c].snd = fd)
      /\ \A d \in Live : /\ tcb[d].id \in Nat \ {0}
                         /\ d # c => tcb[d].sock # fd /\ tcb[d].snd # fd
  BY <1>1, Free
<1>3. TypeOK /\ Blocks
  BY DEF IInv, Blocks
<1>4. ASSUME NEW u, Update(c, u) PROVE rtoCnt' \in Int /\ tcb' = [tcb EXCEPT ![c] = u]
  <2>1. rtoCnt \in Int /\ Armed(u) \in Int /\ Armed(tcb[c]) \in Int
    BY <1>3 DEF Armed, TypeOK
  <2> QED
    BY <1>4, <2>1 DEF Update
<1>5. CASE t = NoTcb /\ UNCHANGED <<tcb, rtoCnt, sndbuf, so>>
  <2>1. \A d \in Live : Same(tcb[d], tcb[d]) /\ Watched(tcb[d])
    BY LiveBlock DEF Same
  <2>2. Kept
    BY <1>3, <1>5, <2>1 DEF Kept, TypeOK, Live
  <2>3. Blocks'
    BY <1>1, <1>3, <1>5, <2>2, KeepBlocks
  <2>4. SocketsKept
    BY <1>3, <1>5 DEF SocketsKept, TypeOK
  <2>5. rtoCnt' \in Int /\ c \notin Live'
    BY <1>3, <1>5 DEF TypeOK, Live
  <2>6. \A d \in Live' : tcb'[d].sock = NoFd =>
           d \in Live /\ tcb[d].sock = NoFd /\ d # c
    BY <1>5, <2>2, <2>5 DEF Kept
  <2> HIDE DEF fd, c, t
  <2> QED
    BY <1>1, <1>5, <2>2, <2>3, <2>4, <2>5, <2>6, EventStep DEF Kept, c
<1>6. ASSUME t # NoTcb, PointTo(fd, t.id), NEW u \in TCB, Watched(u),
             u.id = t.id, u.sock = fd, u.fd = fd, Update(c, u),
             \/ u.snd = t.snd /\ sndbuf' = sndbuf
             \/ t.snd = NoFd /\ u.snd = fd /\ sndbuf' = [sndbuf EXCEPT ![fd] = b]
      PROVE  IInv'
  <2>1. c \in Live
    BY <1>2, <1>6 DEF Live
  <2>2. b \in Buf /\ b.own = t.id
    BY <1>2, <2>1 DEF Buf
  <2>3. rtoCnt' \in Int /\ tcb' = [tcb EXCEPT ![c] = u]
    BY <1>4, <1>6
  <2> HIDE DEF fd, c, b
  <2>4. /\ Blocks' /\ Live' = Live /\ SocketsKept
        /\ tcb' \in [Conns -> TCB \cup {NoTcb}] /\ sndbuf' \in [Fds -> Buf \cup {NoBuf}]
        /\ \A d \in Live : d # c => tcb'[d] = tcb[d]
    <3>1. Unused(c, fd)
      BY <1>2 DEF Unused
    <3>2. Bound(c, fd, u, b)
      BY <1>6, <2>2, <2>3 DEF Bound
    <3> QED
      BY <1>1, <1>3, <2>1, <3>1, <3>2, BindBlocks
  <2>5. \A g \in DOMAIN so : so'[g].tcb = so[g].tcb \/ g = fd
    BY <1>2, <1>3, <1>6 DEF TypeOK, PointTo
  <2>6. tcb'[c].sock # NoFd
    <3>1. tcb'[c] = u
      BY <1>2, <1>3, <2>3 DEF TypeOK
    <3> QED
      BY <1>2, <1>6, <3>1 DEF Fds, NoFd
  <2>7. \A d \in Live' : tcb'[d].sock = NoFd => d \in Live /\ tcb[d].sock = NoFd /\ d # c
    BY <2>4, <2>6
  <2> QED
    BY <1>1, <2>3, <2>4, <2>5, <2>7, EventStep DEF fd, c
<1>7. CASE /\ t # NoTcb /\ PointTo(fd, t.id) /\ t.snd = NoFd
           /\ Update(c, BindOnly(t, fd)) /\ UNCHANGED sndbuf
  <2> DEFINE u == BindOnly(t, fd)
  <2>1. t \in TCB /\ Watched(t) /\ fd \in Fds
    BY <1>2, <1>7, LiveBlock DEF Live
  <2> HIDE DEF fd, c, t, b
  <2>2. /\ u \in TCB /\ u.id = t.id /\ u.sock = fd /\ u.fd = fd /\ Watched(u)
        /\ u.snd = t.snd
    BY <2>1, BindFacts
  <2> HIDE DEF u
  <2> QED
    BY <1>6, <1>7, <2>2 DEF u
<1>8. ASSUME t # NoTcb, PointTo(fd, t.id), NEW v, Alike(Bind(t, fd), v),
             Update(c, v),
             sndbuf' = IF t.snd # NoFd THEN sndbuf ELSE [sndbuf EXCEPT ![fd] = b]
      PROVE  IInv'
  <2> DEFINE u == Bind(t, fd)
  <2>1. t \in TCB /\ Watched(t)
    BY <1>2, <1>8, LiveBlock DEF Live
  <2> HIDE DEF fd, c, t
  <2>5. fd \in Fds
    BY <1>2
  <2>2. /\ u \in TCB /\ u.id = t.id /\ u.sock = fd /\ u.fd = fd /\ Watched(u)
        /\ u.snd = IF t.snd = NoFd THEN fd ELSE t.snd
    BY <2>1, <2>5, BindFacts
  <2>3. Same(u, v) /\ Watched(v)
    BY <1>8, <2>2, AlikeWatched
  <2> HIDE DEF u, b
  <2>4. /\ v \in TCB /\ v.id = t.id /\ v.sock = fd /\ v.fd = fd
        /\ v.snd = IF t.snd = NoFd THEN fd ELSE t.snd
    BY <2>2, <2>3 DEF Same
  <2> QED
    BY <1>6, <1>8, <2>3, <2>4
<1>9. ASSUME t # NoTcb PROVE Bind(t, fd) \in TCB
  <2>1. t \in TCB /\ Watched(t)
    BY <1>2, <1>9, LiveBlock DEF Live
  <2> HIDE DEF fd, c, t
  <2>2. fd \in Fds
    BY <1>2
  <2> QED
    BY <2>1, <2>2, BindFacts
<1>10. CASE /\ t # NoTcb /\ PointTo(fd, t.id)
            /\ \E v \in Control(Bind(t, fd)) : Update(c, v)
            /\ sndbuf' = IF t.snd # NoFd THEN sndbuf ELSE [sndbuf EXCEPT ![fd] = b]
  <2>1. PICK v \in Control(Bind(t, fd)) : Update(c, v)
    BY <1>10
  <2>2. Alike(Bind(t, fd), v)
    BY <1>9, <1>10, ControlAlike
  <2> QED
    BY <1>8, <1>10, <2>1, <2>2
<1>11. CASE /\ t # NoTcb /\ PointTo(fd, t.id)
            /\ Update(c, [Bind(t, fd) EXCEPT !.ctl = TRUE])
            /\ sndbuf' = IF t.snd # NoFd THEN sndbuf ELSE [sndbuf EXCEPT ![fd] = b]
  <2>1. 0 \in Nat
    OBVIOUS
  <2>2. Alike(Bind(t, fd), [Bind(t, fd) EXCEPT !.ctl = TRUE])
    BY <1>9, <1>11, <2>1, SetLists
  <2> QED
    BY <1>8, <1>11, <2>2
<1>12. CASE /\ t # NoTcb /\ PointTo(fd, t.id) /\ Update(c, NoTcb)
            /\ sndbuf' = IF t.snd = NoFd THEN sndbuf ELSE [sndbuf EXCEPT ![t.snd] = NoBuf]
  <2>1. c \in Live /\ rtoCnt' \in Int /\ tcb' = [tcb EXCEPT ![c] = NoTcb]
    BY <1>2, <1>4, <1>12 DEF Live
  <2>2. so \in Seq(Socket) /\ DOMAIN so = 1..Len(so) /\ so[fd] \in Socket /\ t.id \in Nat
    BY <1>2, <1>3, <2>1 DEF TypeOK
  <2> DEFINE x == [so[fd] EXCEPT !.tcb = t.id]
  <2>3. x \in Socket /\ x.tcb = t.id /\ x.conn = so[fd].conn
    BY <2>2 DEF Socket
  <2>4. so' = [so EXCEPT ![fd] = x]
    BY <1>12 DEF PointTo
  <2> HIDE DEF x, fd, c, b
  <2>5. so' \in Seq(Socket) /\ Len(so') = Len(so)
    BY <1>2, <2>2, <2>3, <2>4, ExceptSeq
  <2>6. SocketsKept
    <3>1. /\ so'[fd] = x /\ \A g \in DOMAIN so : g # fd => so'[g] = so[g]
      BY <1>2, <2>2, <2>4
    <3> QED
      BY <1>2, <2>1, <2>3, <2>5, <3>1 DEF SocketsKept
  <2>7. /\ Blocks' /\ Live' = Live \ {c}
        /\ tcb' \in [Conns -> TCB \cup {NoTcb}] /\ sndbuf' \in [Fds -> Buf \cup {NoBuf}]
        /\ \A d \in Live' : tcb'[d] = tcb[d]
    BY <1>1, <1>3, <1>12, <2>1, <2>6, DropBlocks
  <2>8. \A g \in DOMAIN so : so'[g].tcb = so[g].tcb \/ g = fd
    BY <2>2, <2>4
  <2>9. \A d \in Live' : tcb'[d].sock = NoFd => d \in Live /\ tcb[d].sock = NoFd /\ d # c
    BY <2>7
  <2> QED
    BY <1>1, <2>1, <2>6, <2>7, <2>8, <2>9, EventStep DEF fd, c
<1> QED
  BY <1>5, <1>7, <1>10, <1>11, <1>12, Zenon DEF NetConnect, shared, PointTo, BindOnly

\* usnet_write_net_handler.
LEMMA NetWriteStep ==
  ASSUME IInv, NetWrite
  PROVE  IInv'
<1>1. /\ app2net # << >> /\ app2net' = Tail(app2net) /\ Head(app2net).ev = "WRITE"
      /\ UNCHANGED <<phase, wake, nextId, lost, apc, backlog, listening, net2app, rtoCnt,
                     sndbuf, so>>
  BY DEF NetWrite, Handling, app, shared
<1>2. TypeOK /\ Blocks /\ tcb \in [Conns -> TCB \cup {NoTcb}] /\ rtoCnt \in Int
  BY DEF IInv, Blocks, TypeOK
<1> DEFINE P(c) == tcb[c].id = so[Head(app2net).fd].tcb
           added == [c \in Conns |-> IF tcb[c] # NoTcb /\ P(c) THEN AddSend(tcb[c]) ELSE tcb[c]]
<1>13. tcb' = tcb \/ tcb' = added
  BY Zenon DEF NetWrite
<1> HIDE DEF P
<1>14. tcb' = [c \in Conns |-> tcb'[c]]
  <2>1. tcb = [c \in Conns |-> tcb[c]]
    BY <1>2
  <2>2. added = [c \in Conns |-> added[c]]
    BY Zenon
  <2> HIDE DEF added
  <2> QED
    BY <1>13, <2>1, <2>2, Zenon
<1>3. \A c \in Conns : tcb'[c] = tcb[c] \/ (tcb[c] # NoTcb /\ tcb'[c] = AddSend(tcb[c]))
  <2>1. \A c \in Conns : added[c] = tcb[c] \/ (tcb[c] # NoTcb /\ added[c] = AddSend(tcb[c]))
    OBVIOUS
  <2> HIDE DEF added
  <2> QED
    BY <1>13, <2>1, Zenon
<1>4. ASSUME NEW c \in Live PROVE Same(tcb[c], tcb'[c]) /\ Watched(tcb'[c])
  <2>1. tcb[c] \in TCB /\ Watched(tcb[c]) /\ c \in Conns
    BY LiveBlock
  <2>2. Same(tcb[c], tcb[c])
    BY <2>1 DEF Same
  <2>3. Same(tcb[c], AddSend(tcb[c])) /\ Watched(AddSend(tcb[c]))
    BY <2>1, AddSendAlike, AlikeWatched
  <2> QED
    BY <1>3, <2>1, <2>2, <2>3
<1>5. \A c \in Live : tcb'[c] \in TCB /\ tcb'[c] # NoTcb
  BY <1>4, NullAssumption DEF Same
<1>6. \A c \in Conns \ Live : tcb'[c] = NoTcb
  BY <1>3 DEF Live
<1>7. tcb' \in [Conns -> TCB \cup {NoTcb}]
  <2>1. \A c \in Conns : tcb'[c] \in TCB \cup {NoTcb}
    BY <1>5, <1>6
  <2> QED
    BY <1>14, <2>1
<1>8. Live' = Live
  BY <1>5, <1>6 DEF Live
<1>9. Kept
  BY <1>1, <1>2, <1>4, <1>7, <1>8 DEF Kept, TypeOK
<1>10. Blocks'
  BY <1>1, <1>2, <1>9, KeepBlocks
<1>11. SocketsKept
  BY <1>1, <1>2 DEF SocketsKept, TypeOK
<1>12. \A d \in Live' : tcb'[d].sock = NoFd => d \in Live /\ tcb[d].sock = NoFd
  BY <1>4, <1>8 DEF Same
<1> QED
  BY <1>1, <1>2, <1>7, <1>8, <1>9, <1>10, <1>11, <1>12, EventStep DEF Kept

\* The invariant when only events, sockets and the backlog change: the blocks
\* are left alone.
LEMMA QueueStep ==
  ASSUME IInv, UNCHANGED <<phase, wake, tcb, nextId, rtoCnt>>, Kept, SocketsKept,
         net2app' \in Seq(Event), app2net' \in Seq(Event), lost' \subseteq Conns,
         listening' \in BOOLEAN, apc' \in {"start", "wait", "running"}, backlog' \in BacklogType,
         Startup', OnBacklog', OnTheWay', FirstRound', WritesTyped', ConnectIsPending', so' = so
  PROVE  IInv'
<1>1. Blocks'
  BY KeepBlocks DEF IInv, Blocks
<1>2. phase' \in {"poll"} \cup DOMAIN NextPhase'
  BY PhaseType, PhaseTypePrimed DEF IInv, TypeOK
<1>4. so' \in Seq(Socket) /\ Len(so') <= MaxFds
  BY DEF IInv, TypeOK
<1>5. backlog'.head # backlog'.tail => backlog'.connq[backlog'.head] \in DOMAIN so'
  BY <1>4, HeadListed DEF OnBacklog
<1>3. TypeOK'
  BY <1>2, <1>4, <1>5 DEF IInv, TypeOK, Kept, BacklogType
<1> QED
  BY <1>1, <1>3 DEF IInv, Blocks

LEMMA BlocksAlone ==
  ASSUME IInv, UNCHANGED <<tcb, sndbuf, so>>
  PROVE  Kept /\ SocketsKept
<1>1. \A d \in Live : Same(tcb[d], tcb[d]) /\ Watched(tcb[d])
  BY LiveBlock DEF Same
<1>2. Kept
  BY <1>1 DEF Kept, IInv, TypeOK, Live
<1>3. SocketsKept
  BY DEF SocketsKept, IInv, TypeOK
<1> QED
  BY <1>2, <1>3

\* usnet_listen_net_handler.
LEMMA NetListenStep ==
  ASSUME IInv, NetListen
  PROVE  IInv'
<1>1. /\ app2net # << >> /\ app2net' = Tail(app2net) /\ Head(app2net).ev = "LISTEN"
      /\ listening' = TRUE /\ net2app' = Append(net2app, ListenEvent)
      /\ UNCHANGED <<phase, wake, nextId, lost, apc, backlog, tcb, rtoCnt, sndbuf, so>>
  BY DEF NetListen, Handling, app, shared, ListenEvent
<1>2. app2net \in Seq(Event) /\ Head(app2net) = app2net[1] /\ 1 \in DOMAIN app2net
  <2>1. app2net \in Seq(Event)
    BY DEF IInv, TypeOK
  <2> QED
    BY <1>1, <2>1, TailFacts
<1>3. apc = "wait" /\ ~listening
  BY <1>1, <1>2 DEF IInv, Startup
<1>4. app2net' = << >> /\ net2app = << >> /\ so = << >> /\ Live = {}
  <2>1. app2net = << ListenEvent >> /\ net2app = << >> /\ so = << >> /\ Live = {}
    BY <1>3 DEF IInv, Startup
  <2>2. Tail(<< ListenEvent >>) = << >>
    OBVIOUS
  <2> QED
    BY <1>1, <2>1, <2>2
<1>5. net2app' = << ListenEvent >> /\ ListenEvent \in Event
  BY <1>1, <1>4, NewEvent
<1>6. Kept /\ SocketsKept
  BY <1>1, BlocksAlone
<1>7. Live' = {}
  BY <1>1, <1>4 DEF Live
<1>8. Startup'
  BY <1>1, <1>3, <1>4, <1>5 DEF Startup, ListenEvent
<1>9. OnBacklog' /\ OnTheWay' /\ FirstRound' /\ WritesTyped'
  <2>1. OnBacklog'
    BY <1>1 DEF IInv, OnBacklog
  <2> QED
    BY <1>1, <1>4, <2>1 DEF OnTheWay, FirstRound, Connects, WritesTyped
<1>10. ConnectIsPending'
  BY <1>7 DEF ConnectIsPending
<1>11. net2app' \in Seq(Event) /\ app2net' \in Seq(Event)
  BY <1>4, <1>5
<1>12. lost' \subseteq Conns /\ backlog' \in BacklogType /\ apc' \in {"start", "wait", "running"}
  BY <1>1 DEF IInv, TypeOK, BacklogType
<1> QED
  BY <1>1, <1>6, <1>8, <1>9, <1>10, <1>11, <1>12, QueueStep

LEMMA LoopStep ==
  ASSUME IInv, Loop
  PROVE  IInv'
<1>1. UNCHANGED <<tcb, rtoCnt, sndbuf, listening, nextId, queues, so, app>>
  BY DEF Loop, PhaseDone, Poll, shared
<1>2. phase \in Phases /\ wake \in {"none", "frames", "events"}
  BY PhaseType DEF IInv, TypeOK
<1>3. CASE PhaseDone
  <2>1. phase' \in Phases
    <3>1. phase # "poll" /\ phase' = NextPhase[phase]
      BY <1>3 DEF PhaseDone
    <3> QED
      BY <1>2, <3>1 DEF NextPhase, Phases
  <2>2. wake' \in {"none", "frames", "events"}
    BY <1>2, <1>3 DEF PhaseDone
  <2> QED
    BY <1>1, <2>1, <2>2, IdleStep
<1>4. ASSUME NEW w \in {"none", "frames", "events"}, Poll(w) PROVE IInv'
  <2>1. phase' \in Phases /\ wake' \in {"none", "frames", "events"}
    BY <1>4 DEF Poll, Phases
  <2> QED
    BY <1>1, <2>1, IdleStep
<1> QED
  BY <1>3, <1>4 DEF Loop

\* usnet_listen, and the answer to it.
LEMMA ListenStep ==
  ASSUME IInv, Listen \/ ListenReply
  PROVE  IInv'
<1>1. UNCHANGED <<phase, wake, listening, tcb, nextId, rtoCnt, lost, sndbuf, so, backlog>>
  BY DEF Listen, ListenReply, net, shared
<1>2. Kept /\ SocketsKept
  BY <1>1, BlocksAlone
<1>3. /\ net2app \in Seq(Event) /\ app2net \in Seq(Event) /\ lost' \subseteq Conns
      /\ listening' \in BOOLEAN /\ backlog' \in BacklogType
  BY <1>1 DEF IInv, TypeOK, BacklogType
<1>6. OnBacklog'
  BY <1>1 DEF IInv, OnBacklog
<1>4. CASE Listen
  <2>1. /\ apc = "start" /\ apc' = "wait" /\ ~listening /\ app2net = << >>
        /\ app2net' = Append(app2net, ListenEvent) /\ net2app' = net2app
    BY <1>4 DEF Listen, ListenEvent, IInv, Startup
  <2>2. app2net' = << ListenEvent >> /\ ListenEvent \in Event
    BY <2>1, NewEvent
  <2>3. net2app = << >> /\ so = << >> /\ Live = {}
    BY <2>1 DEF IInv, Startup
  <2>4. Live' = {}
    BY <1>1, <2>3 DEF Live
  <2>5. Startup'
    BY <1>1, <2>1, <2>2, <2>3, <2>4 DEF Startup
  <2>6. ConnectIsPending'
    BY <2>4 DEF ConnectIsPending
  <2>7. \A i \in DOMAIN app2net' : app2net'[i] = ListenEvent
    BY <2>2
  <2>8. OnTheWay' /\ FirstRound' /\ WritesTyped'
    BY <1>1, <2>3, <2>7 DEF OnTheWay, FirstRound, Connects, WritesTyped, ListenEvent
  <2>9. app2net' \in Seq(Event)
    BY <2>2
  <2> QED
    BY <1>1, <1>2, <1>3, <1>6, <2>1, <2>5, <2>6, <2>8, <2>9, QueueStep
<1>5. CASE ListenReply
  <2>1. /\ apc = "wait" /\ apc' = "running" /\ net2app # << >> /\ net2app' = Tail(net2app)
        /\ app2net' = app2net
    BY <1>5 DEF ListenReply
  <2>2. listening /\ Head(net2app).ev = "LISTEN"
    BY <2>1 DEF IInv, Startup
  <2>3. /\ net2app' \in Seq(Event) /\ Head(net2app) = net2app[1]
        /\ \A i \in DOMAIN net2app : i # 1 => /\ i - 1 \in DOMAIN net2app'
                                              /\ net2app'[i - 1] = net2app[i]
    BY <1>3, <2>1, TailFacts
  <2>4. Startup'
    BY <1>1, <2>1, <2>2 DEF IInv, Startup
  <2>5. OnTheWay' /\ FirstRound' /\ WritesTyped'
    BY <1>1, <2>1 DEF IInv, OnTheWay, FirstRound, Connects, WritesTyped
  <2>6. ConnectIsPending'
    <3>1. Live' = Live
      BY <1>1 DEF Live
    <3>2. ASSUME NEW i \in DOMAIN net2app, net2app[i].ev = "CONNECT"
          PROVE  i - 1 \in DOMAIN net2app' /\ net2app'[i - 1] = net2app[i]
      BY <2>2, <2>3, <3>2
    <3> QED
      BY <1>1, <2>1, <3>1, <3>2 DEF IInv, ConnectIsPending
  <2> QED
    BY <1>1, <1>2, <1>3, <1>6, <2>1, <2>3, <2>4, <2>5, <2>6, QueueStep
<1> QED
  BY <1>4, <1>5

\* A descriptor is put on the backlog: below bq_size sockets behind the others.
LEMMA EnlistFacts ==
  ASSUME IInv, NEW n \in Fds, Enlist(n, WrapTail(backlog.tail + 1))
  PROVE  /\ backlog' \in BacklogType /\ backlog'.head = backlog.head
         /\ backlog'.connq[backlog.tail] = n
         /\ \A i \in 0..BacklogSize : i # backlog.tail => backlog'.connq[i] = backlog.connq[i]
         /\ backlog.tail < BacklogSize => backlog'.tail = backlog.tail + 1
<1> DEFINE q == [backlog.connq EXCEPT ![backlog.tail] = n]
           t == WrapTail(backlog.tail + 1)
<1>1. /\ backlog.connq \in [0..BacklogSize -> {0} \cup Fds] /\ BacklogSize \in Nat \ {0}
      /\ backlog.head \in 0..(BacklogSize - 1) /\ backlog.tail \in 0..BacklogSize
  BY BoundAssumption DEF IInv, TypeOK
<1>2. /\ q \in [0..BacklogSize -> {0} \cup Fds] /\ q[backlog.tail] = n
      /\ \A i \in 0..BacklogSize : i # backlog.tail => q[i] = backlog.connq[i]
  BY <1>1
<1>3. t \in 0..BacklogSize /\ (backlog.tail < BacklogSize => t = backlog.tail + 1)
  BY <1>1 DEF WrapTail
<1>4. backlog' = [connq |-> q, head |-> backlog.head, tail |-> t]
  BY DEF Enlist
<1> HIDE DEF q, t
<1>5. backlog'.connq = q /\ backlog'.head = backlog.head /\ backlog'.tail = t
  BY <1>4
<1>6. backlog' \in BacklogType
  BY <1>1, <1>2, <1>3, <1>4 DEF BacklogType
<1> QED
  BY <1>2, <1>3, <1>5, <1>6

\* usnet_accept_newconn: a socket is added.
LEMMA SocketStep ==
  ASSUME IInv, apc = "running", NEW c \in Conns, net2app # << >>, net2app' = Tail(net2app),
         Head(net2app).ev = "CONNECT" => Head(net2app).conn = c,
         Len(so) < MaxFds, NewSocket(c), UNCHANGED <<net, app2net, sndbuf, apc>>
  PROVE  IInv'
<1> DEFINE n == Len(so) + 1
           x == [conn |-> c, tcb |-> 0]
<1>1. /\ so' = Append(so, x) /\ Enlist(n, WrapTail(backlog.tail + 1))
      /\ UNCHANGED <<phase, wake, listening, tcb, nextId, rtoCnt, app2net, sndbuf, apc, lost>>
  BY DEF NewSocket, net
<1>2. /\ so \in Seq(Socket) /\ net2app \in Seq(Event)
      /\ Len(so) \in Nat /\ DOMAIN so = 1..Len(so)
      /\ backlog.head \in 0..(BacklogSize - 1) /\ backlog.tail \in 0..BacklogSize
      /\ BacklogSize \in Nat \ {0}
  BY BoundAssumption DEF IInv, TypeOK
<1>3. x \in Socket /\ n \in Fds /\ x.conn = c /\ x.tcb = 0
  BY <1>2, BoundAssumption DEF Socket, Fds
<1> HIDE DEF x
<1>4. /\ so' \in Seq(Socket) /\ n \in DOMAIN so' /\ so'[n] = x /\ n \notin DOMAIN so
      /\ \A i \in DOMAIN so : i \in DOMAIN so' /\ so'[i] = so[i]
      /\ \A i \in DOMAIN so' : i \in DOMAIN so \/ i = n
  BY <1>1, <1>2, <1>3, AppendFacts
<1>5. Len(so') = Len(so) + 1 /\ DOMAIN so' = 1..(Len(so) + 1) /\ n = Len(so) + 1
  BY <1>1, <1>2
<1> HIDE DEF n
<1>6. /\ backlog' \in BacklogType /\ backlog'.head = backlog.head
      /\ backlog'.connq[backlog.tail] = n
      /\ \A i \in 0..BacklogSize : i # backlog.tail => backlog'.connq[i] = backlog.connq[i]
      /\ backlog.tail < BacklogSize => backlog'.tail = backlog.tail + 1
  BY <1>1, <1>3, EnlistFacts
<1>19. Len(so) <= BacklogSize =>
         /\ backlog.head <= backlog.tail /\ backlog.tail = Len(so)
         /\ \A i \in 0..(Len(so) - 1) : backlog.connq[i] = i + 1
  BY DEF IInv, OnBacklog, Lined
<1>7. /\ net2app' \in Seq(Event) /\ Head(net2app) = net2app[1]
      /\ \A i \in DOMAIN net2app : i # 1 => /\ i - 1 \in DOMAIN net2app'
                                            /\ net2app'[i - 1] = net2app[i]
  BY <1>2, TailFacts
<1>8. Live' = Live
  BY <1>1 DEF Live
<1>9. Ids'
  BY <1>1, <1>3, <1>4, <1>8 DEF IInv, Ids
<1>20. Pointers'
  <2>1. \A d \in Live : tcb[d].id > 0 /\ tcb[d].id \in Nat
    BY DEF IInv, Ids, TypeOK, Live, TCB
  <2> QED
    BY <1>1, <1>3, <1>4, <1>8, <2>1 DEF IInv, Pointers
<1>10. BufferBinding' /\ OpenIsWatched'
  BY <1>1, <1>4, <1>8 DEF IInv, BufferBinding, OpenIsWatched
<1>11. ASSUME NEW fd \in Fds, fd <= Len(so) PROVE fd <= Len(so') /\ so'[fd] = so[fd]
  <2>1. fd \in DOMAIN so
    BY <1>2, <1>11, BoundAssumption DEF Fds
  <2>2. so'[fd] = so[fd] /\ Len(so') = Len(so) + 1
    BY <1>4, <1>5, <2>1
  <2> QED
    BY <1>2, <1>11, <2>2, BoundAssumption DEF Fds
<1>12. WriteReachesOwner'
  BY <1>1, <1>8, <1>11 DEF IInv, WriteReachesOwner
<1>13. SocketBinding'
  <2>1. \A d \in Live : tcb[d].sock # NoFd => tcb[d].sock \in Fds
    <3>1. \A d \in Live : tcb[d] \in TCB
      BY LiveBlock
    <3> QED
      BY <3>1 DEF TCB
  <2> QED
    BY <1>1, <1>8, <1>11, <2>1, ZenonT(30) DEF IInv, SocketBinding
<1>14. OnBacklog'
  <2>1. ASSUME Len(so') <= BacklogSize
        PROVE  /\ backlog'.head <= backlog'.tail /\ backlog'.tail = Len(so')
               /\ \A i \in 0..(Len(so') - 1) : backlog'.connq[i] = i + 1
    <3>1. Len(so) < BacklogSize /\ backlog.tail = Len(so) /\ backlog.head <= backlog.tail
      BY <1>2, <1>5, <1>19, <2>1
    <3>4. backlog'.tail = backlog.tail + 1
      BY <1>6, <3>1
    <3>5. backlog'.tail = Len(so') /\ backlog'.tail = Len(so) + 1
      BY <1>5, <3>1, <3>4
    <3>6. backlog'.head = backlog.head /\ backlog.head <= Len(so)
      BY <1>6, <3>1
    <3>2. backlog'.tail = Len(so') /\ backlog'.head <= backlog'.tail
      BY <1>2, <3>5, <3>6
    <3>3. ASSUME NEW i \in 0..(Len(so') - 1) PROVE backlog'.connq[i] = i + 1
      <4>1. CASE i = Len(so)
        BY <1>5, <1>6, <3>1, <4>1
      <4>2. CASE i # Len(so)
        <5>3. i \in 0..Len(so)
          <6>1. Len(so') - 1 = Len(so)
            BY <1>2, <1>5
          <6> QED
            BY <6>1
        <5>1. i \in 0..(Len(so) - 1) /\ i \in 0..BacklogSize
          <6>1. Len(so) \in Nat /\ BacklogSize \in Nat /\ Len(so) < BacklogSize /\ i # Len(so)
            BY <1>2, <3>1, <4>2, Zenon
          <6> QED
            BY <5>3, <6>1
        <5>2. backlog'.connq[i] = backlog.connq[i]
          BY <1>6, <3>1, <4>2, <5>1
        <5>4. backlog.connq[i] = i + 1
          BY <1>2, <1>19, <3>1, <5>1
        <5> QED
          BY <5>2, <5>4
      <4> QED
        BY <4>1, <4>2
    <3> QED
      BY <3>2, <3>3
  <2>2. ASSUME Len(so') >= BacklogSize, NEW i \in 0..(BacklogSize - 1)
        PROVE  backlog'.connq[i] \in DOMAIN so'
    <3>1. CASE Len(so') <= BacklogSize
      <4>1. i \in 0..(Len(so') - 1)
        BY <1>2, <1>5, <2>2, <3>1
      <4>2. backlog'.connq[i] = i + 1
        BY <2>1, <3>1, <4>1
      <4> QED
        BY <1>2, <1>5, <4>1, <4>2
    <3>2. CASE Len(so) >= BacklogSize
      <4>1. backlog.connq[i] \in DOMAIN so
        BY <3>2 DEF IInv, OnBacklog, Lined
      <4>2. i \in 0..BacklogSize
        BY <1>2
      <4> QED
        BY <1>4, <1>6, <4>1, <4>2
    <3> QED
      BY <1>2, <1>5, <3>1, <3>2
  <2> QED
    BY <2>1, <2>2 DEF OnBacklog, Lined
<1>15. OnTheWay' /\ WritesTyped' /\ FirstRound'
  <2>1. Connects' = Connects
    BY <1>1 DEF Connects
  <2>2. \A i \in Connects : /\ app2net[i].fd \in DOMAIN so
                            /\ so[app2net[i].fd].conn = app2net[i].conn
    BY DEF IInv, OnTheWay
  <2>3. OnTheWay' /\ WritesTyped'
    BY <1>1, <1>4, <2>1, <2>2 DEF IInv, OnTheWay, WritesTyped
  <2>4. ASSUME Len(so') < BacklogSize
        PROVE  /\ \A fd \in DOMAIN so' : fd > backlog'.head => so'[fd].tcb = 0
               /\ \A i \in Connects : app2net[i].fd <= backlog'.head /\ so'[app2net[i].fd].tcb = 0
               /\ \A i, j \in Connects : app2net[i].fd = app2net[j].fd => i = j
    <3>1. Len(so) < BacklogSize
      BY <1>2, <1>5, <2>4
    <3>2. /\ \A fd \in DOMAIN so : fd > backlog.head => so[fd].tcb = 0
          /\ \A i \in Connects : app2net[i].fd <= backlog.head /\ so[app2net[i].fd].tcb = 0
          /\ \A i, j \in Connects : app2net[i].fd = app2net[j].fd => i = j
      BY <3>1 DEF IInv, FirstRound
    <3>3. backlog'.head = backlog.head
      BY <1>6
    <3>4. \A fd \in DOMAIN so' : fd > backlog.head => so'[fd].tcb = 0
      BY <1>3, <1>4, <3>2
    <3>5. \A i \in Connects : so'[app2net[i].fd].tcb = 0
      BY <1>4, <2>2, <3>2
    <3> QED
      BY <3>2, <3>3, <3>4, <3>5
  <2>5. app2net' = app2net
    BY <1>1
  <2>6. FirstRound'
    <3> SUFFICES ASSUME Len(so') < BacklogSize
                 PROVE  /\ \A fd \in DOMAIN so' : fd > backlog'.head => so'[fd].tcb = 0
                        /\ \A i \in Connects' : /\ app2net'[i].fd <= backlog'.head
                                                /\ so'[app2net'[i].fd].tcb = 0
                        /\ \A i, j \in Connects' : app2net'[i].fd = app2net'[j].fd => i = j
      BY DEF FirstRound
    <3> QED
      BY <2>1, <2>4, <2>5
  <2> QED
    BY <2>3, <2>6
<1>16. Startup'
  BY <1>1, <1>8 DEF IInv, Startup
<1>17. ConnectIsPending'
  <2> SUFFICES ASSUME Len(so') <= BacklogSize, NEW d \in Live' \ lost', tcb'[d].sock = NoFd
               PROVE  \/ \E i \in DOMAIN net2app' : net2app'[i].ev = "CONNECT" /\ net2app'[i].conn = d
                      \/ Backlogged(d)'
                      \/ \E i \in DOMAIN app2net' : app2net'[i].ev = "CONNECT" /\ app2net'[i].conn = d
    BY DEF ConnectIsPending, Backlogged
  <2>6. /\ Len(so) <= BacklogSize /\ backlog.tail < BacklogSize
        /\ backlog.head <= backlog.tail /\ backlog'.tail = backlog.tail + 1
    BY <1>2, <1>5, <1>6, <1>19
  <2>5. d \in Live \ lost /\ tcb[d].sock = NoFd /\ app2net' = app2net
    BY <1>1, <1>8
  <2>1. ASSUME NEW i \in DOMAIN net2app, net2app[i].ev = "CONNECT", net2app[i].conn = d, i # 1
        PROVE  i - 1 \in DOMAIN net2app' /\ net2app'[i - 1] = net2app[i]
    BY <1>7, <2>1
  <2>2. ASSUME NEW i \in DOMAIN net2app, net2app[i].ev = "CONNECT", net2app[i].conn = d, i = 1
        PROVE  Backlogged(d)'
    <3>1. so'[backlog'.connq[backlog.tail]].conn = d
      BY <1>3, <1>4, <1>6, <1>7, <2>2
    <3>2. backlog.tail \in backlog'.head..(backlog'.tail - 1)
      BY <1>2, <1>6, <2>6
    <3> QED
      BY <3>1, <3>2 DEF Backlogged
  <2>3. ASSUME Backlogged(d) PROVE Backlogged(d)'
    <3>1. PICK i \in backlog.head..(backlog.tail - 1) : so[backlog.connq[i]].conn = d
      BY <2>3 DEF Backlogged
    <3>2. /\ i \in backlog'.head..(backlog'.tail - 1) /\ i # backlog.tail
          /\ i \in 0..BacklogSize
      BY <1>2, <1>6, <2>6
    <3>3. backlog.connq[i] \in DOMAIN so
      BY <2>6, EntriesListed
    <3>4. so'[backlog'.connq[i]].conn = d
      BY <1>4, <1>6, <3>1, <3>2, <3>3
    <3> QED
      BY <3>2, <3>4 DEF Backlogged
  <2>4. \/ \E i \in DOMAIN net2app : net2app[i].ev = "CONNECT" /\ net2app[i].conn = d
        \/ Backlogged(d)
        \/ \E i \in DOMAIN app2net : app2net[i].ev = "CONNECT" /\ app2net[i].conn = d
    BY <2>5, <2>6 DEF IInv, ConnectIsPending, Backlogged
  <2> QED
    BY <2>1, <2>2, <2>3, <2>4, <2>5
<1>18. TypeOK'
  <2>1. phase' \in {"poll"} \cup DOMAIN NextPhase'
    BY <1>1, PhaseType, PhaseTypePrimed DEF IInv, TypeOK
  <2>2. Len(so') <= MaxFds
    BY <1>2, <1>5, BoundAssumption
  <2>3. backlog'.head # backlog'.tail => backlog'.connq[backlog'.head] \in DOMAIN so'
    BY <1>4, <1>6, <1>14, HeadListed DEF OnBacklog
  <2> QED
    BY <1>1, <1>4, <1>6, <1>7, <2>1, <2>2, <2>3 DEF IInv, TypeOK, BacklogType
<1> QED
  BY <1>9, <1>10, <1>12, <1>13, <1>14, <1>15, <1>16, <1>17, <1>18, <1>20 DEF IInv

\* One message taken by usnet_epoll_wait.
LEMMA EpollStep ==
  ASSUME IInv, EpollEvent
  PROVE  IInv'
<1>1. /\ apc = "running" /\ net2app # << >> /\ net2app' = Tail(net2app)
      /\ UNCHANGED <<net, app2net, sndbuf, apc>>
  BY DEF EpollEvent
<1>2. net2app \in Seq(Event)
  BY DEF IInv, TypeOK
<1>3. /\ net2app' \in Seq(Event) /\ Head(net2app) = net2app[1] /\ Head(net2app) \in Event
      /\ \A i \in DOMAIN net2app : i # 1 => /\ i - 1 \in DOMAIN net2app'
                                            /\ net2app'[i - 1] = net2app[i]
  BY <1>1, <1>2, TailFacts
<1>4. Head(net2app).ev = "CONNECT" => Head(net2app).conn \in Conns
  BY <1>3, EventType
<1>5. CASE /\ Head(net2app).ev = "CONNECT" /\ Len(so) < MaxFds
           /\ NewSocket(Head(net2app).conn)
  BY <1>1, <1>4, <1>5, SocketStep
<1>6. CASE /\ UNCHANGED <<so, backlog>>
           /\ \/ Head(net2app).ev = "CONNECT" /\ lost' = lost \cup {Head(net2app).conn}
              \/ Head(net2app).ev # "CONNECT" /\ lost' = lost
  <2>1. UNCHANGED <<phase, wake, listening, tcb, nextId, rtoCnt>>
    BY <1>1 DEF net
  <2>2. Kept /\ SocketsKept
    BY <1>1, <1>6, <2>1, BlocksAlone
  <2>3. /\ lost' \subseteq Conns /\ app2net' \in Seq(Event) /\ listening' \in BOOLEAN
        /\ apc' \in {"start", "wait", "running"} /\ backlog' \in BacklogType
    BY <1>1, <1>4, <1>6, <2>1 DEF IInv, TypeOK, BacklogType
  <2>4. Live' = Live
    BY <2>1 DEF Live
  <2>5. Startup'
    BY <1>1, <1>6, <2>1, <2>4 DEF IInv, Startup
  <2>6. OnBacklog' /\ OnTheWay' /\ FirstRound' /\ WritesTyped'
    BY <1>1, <1>6 DEF IInv, OnBacklog, OnTheWay, FirstRound, Connects, WritesTyped
  <2>7. ConnectIsPending'
    <3> SUFFICES ASSUME Len(so) <= BacklogSize, NEW d \in Live \ lost', tcb[d].sock = NoFd
                 PROVE  \/ \E i \in DOMAIN net2app' : net2app'[i].ev = "CONNECT" /\ net2app'[i].conn = d
                        \/ Backlogged(d)
                        \/ \E i \in DOMAIN app2net : app2net[i].ev = "CONNECT" /\ app2net[i].conn = d
      BY <1>1, <1>6, <2>1, <2>4 DEF ConnectIsPending, Backlogged
    <3>1. d \in Live \ lost /\ (Head(net2app).ev = "CONNECT" => Head(net2app).conn # d)
      BY <1>6
    <3>2. ASSUME NEW i \in DOMAIN net2app, net2app[i].ev = "CONNECT", net2app[i].conn = d
          PROVE  i - 1 \in DOMAIN net2app' /\ net2app'[i - 1] = net2app[i]
      BY <1>3, <3>1, <3>2
    <3>3. \/ \E i \in DOMAIN net2app : net2app[i].ev = "CONNECT" /\ net2app[i].conn = d
          \/ Backlogged(d)
          \/ \E i \in DOMAIN app2net : app2net[i].ev = "CONNECT" /\ app2net[i].conn = d
      BY <3>1 DEF IInv, ConnectIsPending, Backlogged
    <3> QED
      BY <3>2, <3>3
  <2> QED
    BY <1>3, <1>6, <2>1, <2>2, <2>3, <2>5, <2>6, <2>7, QueueStep
<1> QED
  BY <1>5, <1>6 DEF EpollEvent, AcceptNewconn, NoSocket

\* Where bq_head goes.
NextHead(h) == IF h + 1 >= BacklogSize THEN h + 1 - BacklogSize ELSE h + 1

LEMMA NextHeadFacts ==
  ASSUME IInv, backlog.head # backlog.tail
  PROVE  /\ NextHead(backlog.head) \in 0..(BacklogSize - 1)
         /\ Len(so) <= BacklogSize =>
              /\ NextHead(backlog.head) <= backlog.tail
              /\ \A i \in backlog.head..(backlog.tail - 1) :
                   i # backlog.head => i \in NextHead(backlog.head)..(backlog.tail - 1)
         /\ Len(so) < BacklogSize => NextHead(backlog.head) = backlog.head + 1
<1>1. /\ backlog.head \in 0..(BacklogSize - 1) /\ backlog.tail \in 0..BacklogSize
      /\ BacklogSize \in Nat \ {0} /\ Len(so) \in Nat
  BY BoundAssumption DEF IInv, TypeOK
<1>2. Len(so) <= BacklogSize => backlog.head <= backlog.tail /\ backlog.tail = Len(so)
  BY DEF IInv, OnBacklog, Lined
<1>3. CASE backlog.head + 1 >= BacklogSize
  <2>1. NextHead(backlog.head) = 0 /\ backlog.head = BacklogSize - 1
    BY <1>1, <1>3 DEF NextHead
  <2> QED
    BY <1>1, <1>2, <2>1
<1>4. CASE backlog.head + 1 < BacklogSize
  <2>1. NextHead(backlog.head) = backlog.head + 1
    BY <1>1, <1>4 DEF NextHead
  <2> QED
    BY <1>1, <1>2, <1>4, <2>1
<1> QED
  BY <1>1, <1>3, <1>4

\* usnet_accept: the head of the backlog is sent in a CONNECT event.
LEMMA AcceptStep ==
  ASSUME IInv, Accept
  PROVE  IInv'
<1> DEFINE fd == backlog.connq[backlog.head]
           c == so[fd].conn
           e == [ev |-> "CONNECT", fd |-> fd, conn |-> c]
           h == NextHead(backlog.head)
<1>1. /\ backlog.head # backlog.tail
      /\ backlog' = [connq |-> backlog.connq, head |-> h, tail |-> backlog.tail]
      /\ app2net' = app2net \/ app2net' = Append(app2net, e)
      /\ lost' = IF app2net' = app2net THEN lost \cup {c} ELSE lost
      /\ UNCHANGED <<phase, wake, listening, tcb, nextId, rtoCnt, net2app, sndbuf, so, apc>>
  BY DEF Accept, AcceptWith, Enqueue, net, shared, NextHead
<1>2. /\ app2net \in Seq(Event) /\ so \in Seq(Socket) /\ lost \subseteq Conns
      /\ backlog.connq \in [0..BacklogSize -> {0} \cup Fds] /\ Len(so) <= MaxFds
      /\ backlog.head \in 0..(BacklogSize - 1) /\ backlog.tail \in 0..BacklogSize
      /\ Len(so) \in Nat /\ DOMAIN so = 1..Len(so)
  BY DEF IInv, TypeOK
<1>3. /\ h \in 0..(BacklogSize - 1)
      /\ Len(so) <= BacklogSize =>
           /\ h <= backlog.tail
           /\ \A i \in backlog.head..(backlog.tail - 1) :
                i # backlog.head => i \in h..(backlog.tail - 1)
      /\ Len(so) < BacklogSize => h = backlog.head + 1
  BY <1>1, NextHeadFacts
<1> HIDE DEF h
<1>4. backlog'.connq = backlog.connq /\ backlog'.head = h /\ backlog'.tail = backlog.tail
  BY <1>1
<1>5. fd \in DOMAIN so /\ fd \in Fds /\ c \in Conns
  <2>1. fd \in DOMAIN so
    BY <1>1 DEF IInv, TypeOK
  <2>2. so[fd] \in Socket
    BY <1>2, <2>1
  <2> QED
    BY <1>2, <2>1, <2>2, BoundAssumption DEF Socket, Fds
<1>6. e \in Event /\ e.ev = "CONNECT" /\ e.fd = fd /\ e.conn = c
  BY <1>5, NewEvent
<1>8. backlog' \in BacklogType
  BY <1>1, <1>2, <1>3 DEF BacklogType
<1>9. OnBacklog'
  BY <1>1, <1>3, <1>4 DEF IInv, OnBacklog, Lined
<1>21. Len(so) < BacklogSize => fd = backlog.head + 1
  <2>1. ASSUME Len(so) < BacklogSize
        PROVE  backlog.head \in 0..(Len(so) - 1) /\ \A i \in 0..(Len(so) - 1) : backlog.connq[i] = i + 1
    BY <1>1, <1>2, <2>1, BoundAssumption DEF IInv, OnBacklog, Lined
  <2> QED
    BY <2>1
<1> HIDE DEF e, c, fd
<1> DEFINE n == Len(app2net) + 1
<1>7. /\ app2net' \in Seq(Event)
      /\ \A i \in DOMAIN app2net : i \in DOMAIN app2net' /\ app2net'[i] = app2net[i]
      /\ \A i \in DOMAIN app2net' : i \in DOMAIN app2net \/ (i = n /\ app2net'[i] = e)
      /\ app2net' # app2net => n \in DOMAIN app2net' /\ app2net'[n] = e
  <2>1. CASE app2net' = app2net
    BY <1>2, <2>1
  <2>2. CASE app2net' = Append(app2net, e)
    <3> DEFINE a == Append(app2net, e)
    <3>1. /\ a \in Seq(Event) /\ n \in DOMAIN a /\ a[n] = e
          /\ \A i \in DOMAIN app2net : i \in DOMAIN a /\ a[i] = app2net[i]
          /\ \A i \in DOMAIN a : i \in DOMAIN app2net \/ i = n
      BY <1>2, <1>6, AppendFacts
    <3> HIDE DEF a, n
    <3> QED
      BY <2>2, <3>1 DEF a
  <2> QED
    BY <1>1, <2>1, <2>2
<1> HIDE DEF n
<1>11. \A i \in Connects' : (i \in Connects /\ app2net'[i] = app2net[i]) \/ (i = n /\ app2net'[i] = e)
  BY <1>7 DEF Connects
<1>12. \A i \in Connects : /\ app2net[i].fd \in DOMAIN so
                           /\ so[app2net[i].fd].conn = app2net[i].conn
  BY DEF IInv, OnTheWay
<1>14. OnTheWay'
  <2>1. so[fd].conn = c
    BY DEF c
  <2> QED
    BY <1>1, <1>5, <1>6, <1>11, <1>12, <2>1 DEF OnTheWay
<1>13. FirstRound'
  <2> SUFFICES ASSUME Len(so) < BacklogSize
               PROVE  /\ \A g \in DOMAIN so : g > h => so[g].tcb = 0
                      /\ \A i \in Connects' : app2net'[i].fd <= h /\ so[app2net'[i].fd].tcb = 0
                      /\ \A i, j \in Connects' : app2net'[i].fd = app2net'[j].fd => i = j
    BY <1>1, <1>4 DEF FirstRound
  <2>1. /\ \A g \in DOMAIN so : g > backlog.head => so[g].tcb = 0
        /\ \A i \in Connects : app2net[i].fd <= backlog.head /\ so[app2net[i].fd].tcb = 0
        /\ \A i, j \in Connects : app2net[i].fd = app2net[j].fd => i = j
    BY DEF IInv, FirstRound
  <2>2. h = backlog.head + 1 /\ fd = h /\ backlog.head \in Nat
    BY <1>2, <1>3, <1>21, BoundAssumption
  <2>3. so[fd].tcb = 0
    BY <1>5, <2>1, <2>2
  <2>4. \A i \in Connects : app2net[i].fd # fd /\ app2net[i].fd <= h
    <3>1. \A i \in Connects : app2net[i].fd \in Nat
      BY <1>2, <1>12
    <3> QED
      BY <2>1, <2>2, <3>1
  <2>5. \A g \in DOMAIN so : g > h => so[g].tcb = 0
    BY <1>2, <2>1, <2>2
  <2>6. \A i \in Connects' : app2net'[i].fd <= h /\ so[app2net'[i].fd].tcb = 0
    BY <1>6, <1>11, <2>1, <2>2, <2>3, <2>4
  <2>7. \A i, j \in Connects' : app2net'[i].fd = app2net'[j].fd => i = j
    BY <1>6, <1>11, <2>1, <2>4
  <2> QED
    BY <2>5, <2>6, <2>7
<1>15. WritesTyped'
  BY <1>6, <1>7 DEF IInv, WritesTyped
<1>16. Live' = Live
  BY <1>1 DEF Live
<1>17. Startup'
  <2>1. apc = "running"
    BY <1>2, <1>5 DEF IInv, Startup, TypeOK
  <2>2. \A i \in DOMAIN app2net' : app2net'[i].ev # "LISTEN"
    BY <1>6, <1>7, <2>1 DEF IInv, Startup
  <2>3. listening
    BY <2>1 DEF IInv, Startup
  <2> QED
    BY <1>1, <2>1, <2>2, <2>3 DEF Startup
<1>18. ConnectIsPending'
  <2> SUFFICES ASSUME Len(so) <= BacklogSize, NEW d \in Live' \ lost', tcb'[d].sock = NoFd
               PROVE  \/ \E i \in DOMAIN net2app' : net2app'[i].ev = "CONNECT" /\ net2app'[i].conn = d
                      \/ Backlogged(d)'
                      \/ \E i \in DOMAIN app2net' : app2net'[i].ev = "CONNECT" /\ app2net'[i].conn = d
    BY <1>1 DEF ConnectIsPending, Backlogged
  <2>1. d \in Live \ lost /\ tcb[d].sock = NoFd /\ (d = c => app2net' # app2net)
    BY <1>1, <1>16
  <2>2. \/ \E i \in DOMAIN net2app : net2app[i].ev = "CONNECT" /\ net2app[i].conn = d
        \/ Backlogged(d)
        \/ \E i \in DOMAIN app2net : app2net[i].ev = "CONNECT" /\ app2net[i].conn = d
    BY <2>1 DEF IInv, ConnectIsPending, Backlogged
  <2>3. ASSUME NEW i \in backlog.head..(backlog.tail - 1), so[backlog.connq[i]].conn = d, i # backlog.head
        PROVE  Backlogged(d)'
    BY <1>1, <1>3, <1>4, <2>3 DEF Backlogged
  <2>4. ASSUME so[backlog.connq[backlog.head]].conn = d
        PROVE  n \in DOMAIN app2net' /\ app2net'[n].ev = "CONNECT" /\ app2net'[n].conn = d
    <3>1. d = c
      BY <2>4 DEF c, fd
    <3> QED
      BY <1>6, <1>7, <2>1, <3>1
  <2>5. Backlogged(d) => \/ Backlogged(d)'
                         \/ \E i \in DOMAIN app2net' : app2net'[i].ev = "CONNECT" /\ app2net'[i].conn = d
    BY <2>3, <2>4 DEF Backlogged
  <2> QED
    BY <1>1, <1>7, <2>2, <2>5
<1>19. Kept /\ SocketsKept
  BY <1>1, BlocksAlone
<1>20. /\ lost' \subseteq Conns /\ net2app' \in Seq(Event) /\ listening' \in BOOLEAN
       /\ apc' \in {"start", "wait", "running"}
  <2>1. lost' \subseteq Conns
    BY <1>1, <1>2, <1>5
  <2> QED
    BY <1>1, <2>1 DEF IInv, TypeOK
<1> QED
  BY <1>1, <1>7, <1>8, <1>9, <1>13, <1>14, <1>15, <1>17, <1>18, <1>19, <1>20, QueueStep

\* usnet_write: the bytes are in the buffer, the event in the queue or dropped.
LEMMA WriteStep ==
  ASSUME IInv, NEW fd \in WriteFds, Write(fd)
  PROVE  IInv'
<1> DEFINE e == [ev |-> "WRITE", fd |-> fd]
           b == [sndbuf[fd] EXCEPT !.queued = TRUE]
<1>1. /\ app2net' = app2net \/ app2net' = Append(app2net, e)
      /\ UNCHANGED <<phase, wake, listening, tcb, nextId, rtoCnt, net2app, lost, so, apc, backlog>>
  BY DEF Write, Enqueue, net, app
<1>2. sndbuf' = [sndbuf EXCEPT ![fd] = b] /\ sndbuf[fd] # NoBuf
  BY DEF Write
<1>3. sndbuf \in [Fds -> Buf \cup {NoBuf}] /\ app2net \in Seq(Event) /\ so \in Seq(Socket)
  BY DEF IInv, TypeOK
<1>4. fd \in Fds
  BY BoundAssumption DEF Fds
<1>5. b \in Buf /\ b.own = sndbuf[fd].own
  <2>1. sndbuf[fd] \in Buf
    BY <1>2, <1>3, <1>4
  <2> QED
    BY <2>1 DEF Buf
<1> HIDE DEF b
<1>6. Kept
  <2>1. \A d \in Live : Same(tcb[d], tcb[d]) /\ Watched(tcb[d])
    BY LiveBlock DEF Same
  <2>2. sndbuf' \in [Fds -> Buf \cup {NoBuf}]
    BY <1>2, <1>3, <1>4, <1>5
  <2>3. \A g \in Fds : sndbuf'[g] = IF g = fd THEN b ELSE sndbuf[g]
    BY <1>2, <1>3
  <2>4. tcb' \in [Conns -> TCB \cup {NoTcb}] /\ Live' = Live
    BY <1>1 DEF IInv, TypeOK, Live
  <2> QED
    BY <1>1, <1>2, <1>5, <2>1, <2>2, <2>3, <2>4, NullAssumption DEF Kept
<1>7. SocketsKept
  BY <1>1 DEF SocketsKept, IInv, TypeOK
<1>8. e \in Event /\ e.ev = "WRITE" /\ e.fd = fd
  BY <1>4, NewEvent
<1> HIDE DEF e
<1>9. /\ app2net' \in Seq(Event)
      /\ \A i \in DOMAIN app2net : i \in DOMAIN app2net' /\ app2net'[i] = app2net[i]
      /\ \A i \in DOMAIN app2net' : i \in DOMAIN app2net \/ app2net'[i] = e
  <2>1. CASE app2net' = app2net
    BY <1>3, <2>1
  <2>2. CASE app2net' = Append(app2net, e)
    <3> DEFINE a == Append(app2net, e)
               n == Len(app2net) + 1
    <3>1. /\ a \in Seq(Event) /\ n \in DOMAIN a /\ a[n] = e
          /\ \A i \in DOMAIN app2net : i \in DOMAIN a /\ a[i] = app2net[i]
          /\ \A i \in DOMAIN a : i \in DOMAIN app2net \/ i = n
      BY <1>3, <1>8, AppendFacts
    <3> HIDE DEF a, n
    <3> QED
      BY <2>2, <3>1 DEF a
  <2> QED
    BY <1>1, <2>1, <2>2
<1>10. so # << >>
  <2>1. fd <= Len(so)
    BY <1>2, <1>4 DEF IInv, WriteReachesOwner
  <2> QED
    BY <1>4, <2>1 DEF Fds
<1>11. apc = "running" /\ listening
  BY <1>10 DEF IInv, Startup, TypeOK
<1>12. Startup'
  BY <1>1, <1>8, <1>9, <1>11 DEF IInv, Startup
<1>13. \A i \in Connects' : i \in Connects /\ app2net'[i] = app2net[i]
  BY <1>8, <1>9 DEF Connects
<1>14. OnBacklog' /\ OnTheWay' /\ FirstRound'
  BY <1>1, <1>13 DEF IInv, OnBacklog, OnTheWay, FirstRound
<1>15. WritesTyped'
  BY <1>4, <1>8, <1>9 DEF IInv, WritesTyped
<1>16. ConnectIsPending'
  BY <1>1, <1>6, <1>9 DEF IInv, ConnectIsPending, Kept
<1>17. /\ lost' \subseteq Conns /\ net2app' \in Seq(Event) /\ listening' \in BOOLEAN
       /\ apc' \in {"start", "wait", "running"} /\ backlog' \in BacklogType
  BY <1>1 DEF IInv, TypeOK, BacklogType
<1> QED
  BY <1>1, <1>6, <1>7, <1>9, <1>12, <1>14, <1>15, <1>16, <1>17, QueueStep

-----------------------------------------------------------------------------
(* The theorems. *)

LEMMA Initially ==
  ASSUME Init
  PROVE  IInv
<1>1. Live = {}
  BY DEF Init, Live
<1>2. TypeOK
  <2>1. phase \in {"poll"} \cup DOMAIN NextPhase
    BY DEF Init
  <2>2. Len(so) <= MaxFds
    BY BoundAssumption DEF Init
  <2>3. tcb \in [Conns -> TCB \cup {NoTcb}] /\ sndbuf \in [Fds -> Buf \cup {NoBuf}]
    BY DEF Init
  <2>4. net2app \in Seq(Event) /\ app2net \in Seq(Event) /\ so \in Seq(Socket)
    BY DEF Init
  <2>8. /\ backlog \in [connq : [0..BacklogSize -> {0} \cup Fds],
                        head : 0..(BacklogSize - 1), tail : 0..BacklogSize]
        /\ backlog.head = backlog.tail
    BY BoundAssumption DEF Init
  <2>5. wake \in {"none", "frames", "events"} /\ apc \in {"start", "wait", "running"}
    BY DEF Init
  <2>6. listening \in BOOLEAN /\ lost \subseteq Conns
    BY Zenon DEF Init
  <2>7. nextId \in Nat /\ rtoCnt \in Int
    BY DEF Init
  <2> QED
    BY <2>1, <2>2, <2>3, <2>4, <2>5, <2>6, <2>7, <2>8 DEF TypeOK
<1>3. Startup /\ OnTheWay /\ FirstRound /\ WritesTyped /\ Pointers
  BY <1>1 DEF Init, Startup, OnTheWay, FirstRound, Connects, WritesTyped, Pointers
<1>6. OnBacklog
  BY BoundAssumption DEF Init, OnBacklog, Lined
<1>4. Ids /\ BufferBinding /\ SocketBinding /\ ConnectIsPending /\ OpenIsWatched
  BY <1>1 DEF Init, Ids, BufferBinding, SocketBinding, ConnectIsPending, OpenIsWatched
<1>5. WriteReachesOwner
  BY DEF Init, WriteReachesOwner
<1> QED
  BY <1>2, <1>3, <1>4, <1>5, <1>6 DEF IInv

LEMMA Inductive ==
  ASSUME IInv, [Next]_vars
  PROVE  IInv'
<1>1. ASSUME NEW c \in Conns, SynArrives(c) \/ Segment(c) PROVE IInv'
  BY <1>1, SynStep, SegmentStep
<1>2. CASE Timers
  BY <1>2, TimerStep DEF Timers
<1>3. CASE Lists
  BY <1>3, ListStep DEF Lists
<1>4. CASE Events
  BY <1>4, NetListenStep, ConnectStep, NetWriteStep DEF Events
<1>5. CASE Loop
  BY <1>5, LoopStep
<1>6. CASE Application
  BY <1>6, ListenStep, EpollStep, AcceptStep, WriteStep DEF Application
<1>7. CASE UNCHANGED vars
  <2>1. UNCHANGED <<phase, wake, tcb, rtoCnt, sndbuf, listening, nextId, queues, so, app>>
    BY <1>7 DEF vars, net, shared
  <2>2. phase' \in Phases /\ wake' \in {"none", "frames", "events"}
    BY <2>1, PhaseType DEF IInv, TypeOK
  <2> QED
    BY <2>1, <2>2, IdleStep
<1> QED
  BY <1>1, <1>2, <1>3, <1>4, <1>5, <1>6, <1>7 DEF Next, Frames

(* Whatever the application, the net process and the peer do, and in which
   order, IInv holds: every step of usnet_tcp_input, usnet_accept,
   usnet_connect, usnet_write_sock, the timers and the events keeps it. *)
THEOREM Invariance == Spec => []IInv
<1>1. Init => IInv
  BY Initially
<1>2. IInv /\ [Next]_vars => IInv'
  BY Inductive
<1> QED
  BY <1>1, <1>2, PTL DEF Spec

\* Blocks, sockets, send buffers and events keep the fields of their C
\* structures, whatever arrives and whoever runs.
THEOREM ConnectionTyped == Spec => []TypeOK
<1>1. IInv => TypeOK
  BY DEF IInv
<1> QED
  BY <1>1, Invariance, PTL

\* usnet_write_net_handler never follows a so_tcb to a released block, nor to
\* another connection's.
THEOREM WritesReachOwner == Spec => []WriteReachesOwner
<1>1. IInv => WriteReachesOwner
  BY DEF IInv
<1> QED
  BY <1>1, Invariance, PTL

\* A block and the socket it is bound to by usnet_connect_net_handler name each
\* other as long as the block lives.
THEOREM SocketsBound == Spec => []SocketBinding
<1>1. IInv => SocketBinding
  BY DEF IInv
<1> QED
  BY <1>1, Invariance, PTL

\* Between usnet_handle_passive_open and usnet_connect_net_handler a connection
\* is always in a queue or on the backlog, unless its event was dropped, as long
\* as usnet_accept_newconn has made no more than bq_size sockets.
THEOREM ConnectsPending == Spec => []ConnectIsPending
<1>1. IInv => ConnectIsPending
  BY DEF IInv
<1> QED
  BY <1>1, Invariance, PTL

\* usnet_add_timeout_list is never called for a block that is on the list, and
\* no open connection is off it.
THEOREM OpenWatched == Spec => []OpenIsWatched
<1>1. IInv => OpenIsWatched
  BY DEF IInv
<1> QED
  BY <1>1, Invariance, PTL

LEMMA BindingStep ==
  ASSUME IInv, [Next]_vars, NEW fd \in DOMAIN so, so[fd].tcb # 0, so'[fd].tcb # so[fd].tcb
  PROVE  /\ Len(so) >= BacklogSize /\ so'[fd].tcb > so[fd].tcb
         /\ \A c \in Live : tcb[c].id # so[fd].tcb
<1>1. so \in Seq(Socket)
  BY DEF IInv, TypeOK
<1>2. CASE so' = so
  BY <1>2
<1>3. CASE NetConnect /\ so' # so
  <2> DEFINE g == Head(app2net).fd
             c == Head(app2net).conn
  <2>1. app2net # << >> /\ Head(app2net).ev = "CONNECT"
    BY <1>3 DEF NetConnect, Handling
  <2>2. /\ g \in DOMAIN so /\ so[g].conn = c /\ c \in Conns
        /\ Len(so) < BacklogSize => so[g].tcb = 0
    BY <2>1, Free
  <2>3. PointTo(g, tcb[c].id) /\ tcb[c] # NoTcb
    BY <1>3, Zenon DEF NetConnect, PointTo, shared
  <2> HIDE DEF g, c
  <2>4. fd = g
    BY <1>1, <2>2, <2>3 DEF PointTo
  <2>5. so'[fd].tcb = tcb[c].id /\ c \in Live
    <3>1. so[g] \in Socket
      BY <1>1, <2>2
    <3>2. so' = [so EXCEPT ![g] = [so[g] EXCEPT !.tcb = tcb[c].id]]
      BY <2>3 DEF PointTo
    <3>3. so'[g] = [so[g] EXCEPT !.tcb = tcb[c].id]
      BY <1>1, <2>2, <3>2
    <3>4. so'[g].tcb = tcb[c].id
      BY <3>1, <3>3 DEF Socket
    <3> QED
      BY <2>2, <2>3, <2>4, <3>4 DEF Live
  <2>6. /\ so[fd].tcb <= tcb[c].id
        /\ \A d \in Live : so[fd].tcb = tcb[d].id => d = c
    BY <2>2, <2>4, <2>5 DEF IInv, Pointers
  <2>7. Len(so) \in Nat /\ BacklogSize \in Nat /\ so[fd].tcb \in Nat /\ tcb[c].id \in Nat
    <3>1. so[fd] \in Socket /\ Len(so) \in Nat
      BY <1>1
    <3>2. tcb[c] \in TCB
      BY <2>5, LiveBlock
    <3> QED
      BY <3>1, <3>2, BoundAssumption DEF Socket, TCB
  <2>8. so'[fd].tcb > so[fd].tcb
    BY <2>5, <2>6, <2>7
  <2>9. \A d \in Live : tcb[d].id # so[fd].tcb
    BY <2>5, <2>6
  <2>10. Len(so) >= BacklogSize
    BY <2>2, <2>4, <2>7
  <2> QED
    BY <2>8, <2>9, <2>10
<1>4. CASE EpollEvent /\ so' # so
  <2>1. PICK x : so' = Append(so, x)
    BY <1>4 DEF EpollEvent, AcceptNewconn, NewSocket, NoSocket
  <2>2. Append(so, x)[fd] = so[fd]
    BY <1>1
  <2> QED
    BY <2>1, <2>2
<1>5. \/ so' = so \/ NetConnect \/ EpollEvent
  <2> USE DEF vars, shared, net, app, InPhase, queues
  <2>1. CASE Frames
    BY <2>1 DEF Frames, SynArrives, Segment, SegmentRefused, SegmentSynReceived,
           ResetSynReceived, SegmentEstablished, SegmentCloseWait, ResetSynchronized
  <2>2. CASE Timers
    BY <2>2 DEF Timers, RtoResend, RtoGiveUp, RtoRelease, ConnTimeout
  <2>3. CASE Lists
    BY <2>3 DEF Lists, ControlSend, ControlReset, ControlBlocked, InControlList, AckList, DataList
  <2>4. CASE Events
    BY <2>4 DEF Events, NetListen, NetWrite
  <2>5. CASE Loop
    BY <2>5 DEF Loop, PhaseDone, Poll
  <2>6. CASE Application
    BY <2>6 DEF Application, Listen, ListenReply, Accept, AcceptWith, Write
  <2>7. CASE UNCHANGED vars
    BY <2>7
  <2> QED
    BY <2>1, <2>2, <2>3, <2>4, <2>5, <2>6, <2>7 DEF Next
<1> QED
  BY <1>2, <1>3, <1>4, <1>5

\* usnet_connect_net_handler moves the so_tcb of a descriptor only once bq_size
\* sockets were made, and only from a released block to a later one.
THEOREM RebindsAfterWrap == Spec => RebindAfterWrap
<1>1. IInv /\ [Next]_vars =>
        [\A fd \in DOMAIN so : so[fd].tcb # 0 /\ so'[fd].tcb # so[fd].tcb =>
           /\ Len(so) >= BacklogSize
           /\ so'[fd].tcb > so[fd].tcb
           /\ \A c \in Live : tcb[c].id # so[fd].tcb]_vars
  BY BindingStep
<1> QED
  BY <1>1, Invariance, PTL DEF Spec, RebindAfterWrap

=============================================================================
