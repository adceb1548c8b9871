----------------------------- MODULE Connection -----------------------------
(***************************************************************************)
(* The life of the passive connections of one listening socket, from the   *)
(* SYN to the release of the control block, across the two processes:      *)
(*                                                                         *)
(*  - the net process runs usnet_dispatch_net: frames, timers, the control *)
(*    and ack lists, the events of the application, the send list;         *)
(*  - the application listens, takes events in usnet_epoll_wait, accepts   *)
(*    and writes.                                                          *)
(*                                                                         *)
(* They share the socket table and the send buffers and exchange events    *)
(* over two queues (module ShmMQ, here sequences).  Of the events for the  *)
(* application only CONNECT and LISTEN are kept: it answers READ, WRITE,   *)
(* ERROR and TCPST by reading and writing when it likes, which it may do   *)
(* anyway.  A connection is named by its four-tuple; every control block   *)
(* created for it gets a fresh id, so that a pointer kept too long shows.  *)
(*                                                                         *)
(* Sequence numbers are abstracted to what the handlers tell apart: a      *)
(* segment is inside or outside the receive window, its payload advances   *)
(* rcv_nxt or not, its acknowledgement covers all, part or nothing of what *)
(* is in flight.  The peer may send any segment at any time (loss, delay,  *)
(* duplication and reordering included), but can acknowledge a SYN/ACK     *)
(* only after one was sent.  Time is abstracted: a timer that is armed may *)
(* expire at each pass of the loop.  A transmission fails when no buffer   *)
(* or no hardware address is available, an event is dropped when its queue *)
(* is full (also of events this module leaves out), a socket when the hash *)
(* slots of its descriptor are taken.                                      *)
(***************************************************************************)
EXTENDS Integers, Sequences, FiniteSets

CONSTANTS
  Conns,       \* four-tuples of remote peers
  NoTcb,       \* the tcb cache has no entry for the four-tuple
  NoBuf,       \* the send buffer cache has no entry for the descriptor
  BacklogSize, \* SO_DEFAULT_BACKLOG
  MaxFds,      \* bound: sockets accepted in one behaviour
  MaxRtx,      \* TCP_MAX_RTX
  WriteFds,    \* bound: descriptors the application writes to
  MaxIds,      \* bound: control blocks created in one behaviour
  QueueBound   \* bound: events waiting in one queue

ASSUME BoundAssumption ==
  /\ BacklogSize \in Nat \ {0}
  /\ WriteFds \subseteq 1..MaxFds
  /\ MaxFds \in Nat /\ MaxRtx \in Nat /\ MaxIds \in Nat /\ QueueBound \in Nat

VARIABLES
  phase,      \* net: where in the loop of usnet_dispatch_net
  wake,       \* net: what poll() reported: "none", "frames" or "events"
  listening,  \* net: ctx->listen_tcb is set
  tcb,        \* net: the control block of each four-tuple
  nextId,     \* net: the id of the next control block
  rtoCnt,     \* net: ctx->rto_list_cnt
  net2app,    \* ev_net2app_mq
  app2net,    \* ev_app2net_mq
  lost,       \* history: peers whose CONNECT was dropped on its way
  sndbuf,     \* shared: the send buffer of each descriptor
  so,         \* shared: the accepted sockets; the descriptor is the index
  apc,        \* app: "start", "wait" (in usnet_listen) or "running"
  backlog     \* app: bq_connq, bq_head and bq_tail of the listening socket

net == <<phase, wake, listening, tcb, nextId, rtoCnt>>
shared == <<sndbuf, so>>
app == <<apc, backlog>>
queues == <<net2app, app2net, lost>>
vars == <<net, queues, shared, app>>

ListenFd == 0
NoFd == -1
Fds == 1..MaxFds
Synchronized == {"ESTABLISHED", "CLOSE_WAIT"}

CloseReason == {"NOT_CLOSED", "RESET", "NO_MEM", "CONN_LOST", "TIMEDOUT"}

TCB == [id : Nat, state : {"SYN_RECEIVED", "CLOSED"} \cup Synchronized,
        reason : CloseReason,         \* close_reason
        fd : {ListenFd} \cup Fds,     \* fd, the listening socket's until bound
        sock : {NoFd} \cup Fds,       \* socket
        snd : {NoFd} \cup Fds,        \* sndvar->sndbuf, by its descriptor
        rcv : {NoFd, ListenFd} \cup Fds,  \* rcvvar->rcvbuf, likewise
        synack : BOOLEAN,             \* history: a SYN/ACK has been sent
        nrtx : Nat,                   \* sndvar->nrtx
        rto : BOOLEAN,                \* on_rto_idx >= 0
        tmo : BOOLEAN,                \* on_timeout_list
        ctl : BOOLEAN,                \* on_control_list
        ack : BOOLEAN,                \* on_ack_list
        send : BOOLEAN]               \* on_send_list

\* A send buffer holds bytes not sent yet, bytes in flight, both or none.
Buf == [own : Nat, queued : BOOLEAN, inflight : BOOLEAN]

ASSUME NullAssumption == NoTcb \notin TCB /\ NoBuf \notin Buf

Socket == [conn : Conns, tcb : Nat]   \* four-tuple; so_tcb, 0 when null

Event == [ev : {"WRITE", "LISTEN"}, fd : {ListenFd} \cup Fds]
         \cup [ev : {"CONNECT"}, fd : {ListenFd} \cup Fds, conn : Conns]

Live == {c \in Conns : tcb[c] # NoTcb}

Init ==
  /\ phase = "poll" /\ wake = "none"
  /\ listening = FALSE
  /\ tcb = [c \in Conns |-> NoTcb]
  /\ nextId = 1 /\ rtoCnt = 0
  /\ net2app = << >> /\ app2net = << >> /\ lost = {}
  /\ sndbuf = [fd \in Fds |-> NoBuf]
  /\ so = << >>
  /\ apc = "start"
  /\ backlog = [connq |-> [i \in 0..BacklogSize |-> 0], head |-> 0, tail |-> 0]

-----------------------------------------------------------------------------
(* Changing a control block. *)

Armed(t) == IF t = NoTcb THEN 0 ELSE IF t.rto THEN 1 ELSE 0

Update(c, t) ==
  /\ tcb' = [tcb EXCEPT ![c] = t]
  /\ rtoCnt' = rtoCnt + Armed(t) - Armed(tcb[c])

\* Mutant: the send buffer stays in the cache.
ReleaseKeepsBuffer(c) == Update(c, NoTcb) /\ UNCHANGED sndbuf

\* usnet_release_tcb: off every list, buffers and block out of their caches.
\* The socket keeps its so_tcb.
Release(c) ==
  /\ Update(c, NoTcb)
  /\ sndbuf' = IF tcb[c].snd = NoFd THEN sndbuf
               ELSE [sndbuf EXCEPT ![tcb[c].snd] = NoBuf]

\* The result of a handler: the block and its send buffer.
Apply(c, r) ==
  /\ Update(c, r.t)
  /\ sndbuf' = IF r.t.snd = NoFd THEN sndbuf ELSE [sndbuf EXCEPT ![r.t.snd] = r.b]

BufOf(t) == IF t.snd = NoFd THEN NoBuf ELSE sndbuf[t.snd]

\* usnet_add_control_list for a block that is not CLOSED: the packet of the
\* state (SYN/ACK or ACK) is sent at once, or the block waits on the control
\* list.  Either way its pending acks are dropped; a SYN/ACK arms the timer.
Control(t) ==
  {[t EXCEPT !.ack = FALSE, !.ctl = FALSE,
             !.rto = @ \/ t.state = "SYN_RECEIVED",
             !.synack = @ \/ t.state = "SYN_RECEIVED"],
   [t EXCEPT !.ack = FALSE, !.ctl = TRUE]}

\* usnet_add_send_list.
AddSend(t) == IF t.snd = NoFd THEN t ELSE [t EXCEPT !.send = TRUE]

-----------------------------------------------------------------------------
(* Segments: usnet_tcp_input and the handler of each state. *)

NewTcb(c) ==
  [id |-> nextId, state |-> "SYN_RECEIVED", reason |-> "NOT_CLOSED",
   fd |-> ListenFd, sock |-> NoFd, snd |-> NoFd, rcv |-> NoFd, synack |-> FALSE,
   nrtx |-> 0, rto |-> FALSE, tmo |-> FALSE, ctl |-> FALSE, ack |-> FALSE,
   send |-> FALSE]

Result(t) == [t |-> t, b |-> BufOf(t)]

\* What a step on one block leaves alone.
InPhase(p) ==
  /\ phase = p
  /\ UNCHANGED <<phase, wake, listening, nextId, queues, so, app>>

\* usnet_shmmq_enqueue: the event is appended, or dropped when the queue is
\* full; no caller looks at the result.
Enqueue(q, e) == {q} \cup (IF Len(q) < QueueBound THEN {Append(q, e)} ELSE {})

\* A SYN for the listening socket: usnet_handle_passive_open creates the block
\* (LISTEN) and usnet_handle_listen takes it to SYN_RECEIVED in the same call.
\* A SYN nobody listens for, one that finds no room in the caches and any other
\* segment without a block are answered with RST or dropped and change nothing.
SynArrives(c) ==
  /\ phase = "rx"
  /\ listening
  /\ tcb[c] = NoTcb
  /\ nextId <= MaxIds
  /\ Update(c, NewTcb(c))
  /\ nextId' = nextId + 1
  /\ net2app' \in Enqueue(net2app, [ev |-> "CONNECT", fd |-> ListenFd, conn |-> c])
  /\ lost' = IF net2app' = net2app THEN lost \cup {c} ELSE lost \ {c}
  /\ UNCHANGED <<phase, wake, listening, app2net, shared, app>>

\* usnet_validate_seq refuses the segment: an old timestamp is answered with an
\* ack; outside the window an ESTABLISHED connection acks, any other state sends
\* its control packet (a repeated SYN gets a SYN/ACK).  A segment without a
\* timestamp and a RST outside the window are dropped.
SegmentRefused(c) ==
  /\ c \in Live
  /\ tcb[c].state # "CLOSED"
  /\ \E t \in {[tcb[c] EXCEPT !.ack = TRUE]} \cup
              (IF tcb[c].state = "ESTABLISHED" THEN {} ELSE Control(tcb[c])) :
       Apply(c, Result(t))
  /\ InPhase("rx")

\* Mutant: the connection is not put on the timeout list.
EstablishUnwatched(t) ==
  [t EXCEPT !.state = "ESTABLISHED", !.nrtx = 0, !.rto = FALSE]

\* usnet_handle_syn_received: an ACK of the SYN establishes the connection, an
\* ACK of anything else is ignored, a segment without ACK repeats the SYN/ACK.
Establish(t) ==
  [t EXCEPT !.state = "ESTABLISHED", !.nrtx = 0, !.rto = FALSE, !.tmo = TRUE]

HandleSynReceived(t) ==
  (IF t.synack THEN {Establish(t)} ELSE {}) \cup Control(t)

SegmentSynReceived(c) ==
  /\ c \in Live
  /\ tcb[c].state = "SYN_RECEIVED"
  /\ \E t \in HandleSynReceived(tcb[c]) : Apply(c, Result(t))
  /\ InPhase("rx")

\* usnet_handle_rst in SYN_RECEIVED, its ack_seq being rcv_nxt: the block is
\* released.  With another ack_seq the RST goes on to usnet_handle_syn_received
\* and acts like the segment without the flag.
ResetSynReceived(c) ==
  /\ c \in Live
  /\ tcb[c].state = "SYN_RECEIVED"
  /\ Release(c)
  /\ InPhase("rx")

\* usnet_process_ack: nothing new; the third duplicate of an acknowledgement,
\* possibly of one below snd_una, which puts the block on the send list; part or
\* all of what is in flight is acknowledged.  What is left in flight is timed
\* again, unless a timeout had set snd_nxt back.  With the buffer empty, an
\* acknowledgement above a snd_nxt set back takes the block off the send list.
ThirdDuplicate(r) ==
  LET t == AddSend(r.t)
      n == IF t.nrtx < MaxRtx THEN t.nrtx + 1 ELSE t.nrtx
  IN  [r EXCEPT !.t = [t EXCEPT !.nrtx = n]]

Acked(r, left, timed) ==
  [t |-> [r.t EXCEPT !.nrtx = 0, !.rto = left /\ timed],
   b |-> [r.b EXCEPT !.inflight = left]]

NewlyAcked(r) == {Acked(r, left, timed) : left \in BOOLEAN, timed \in BOOLEAN}

ProcessAck(r) ==
  {r, ThirdDuplicate(r)} \cup
  (IF r.b.inflight THEN NewlyAcked(r) ELSE {}) \cup
  (IF r.b.inflight \/ r.b.queued THEN {} ELSE {[r EXCEPT !.t.send = FALSE]})

AckIfBuffer(r) == IF r.t.snd = NoFd THEN {r} ELSE {r} \cup ProcessAck(r)

\* usnet_process_tcp_payload and the ack that follows it: no payload; the
\* payload advances rcv_nxt; it is stored or dropped without advancing it; or
\* there is no memory for the receive buffer and the connection is CLOSED.
Stored(t) == [t EXCEPT !.ack = TRUE, !.rcv = IF @ = NoFd THEN t.fd ELSE @]

NotAdvanced(t) ==
  {t, [t EXCEPT !.ack = TRUE], Stored(t)} \cup
  (IF t.rcv = NoFd THEN {[t EXCEPT !.ack = TRUE, !.state = "CLOSED", !.reason = "NO_MEM"]} ELSE {})

\* The FIN of a segment counts only when seq = rcv_nxt after the payload.
Fin(r) == {[r EXCEPT !.t = t] : t \in Control([r.t EXCEPT !.state = "CLOSE_WAIT"])}

BadFin(r) == [r EXCEPT !.t.ack = TRUE]

\* usnet_handle_established: a SYN inside the window repeats the ack; otherwise
\* payload, acknowledgement and FIN are processed in this order.
HandleEstablished(t) ==
  {Result(u) : u \in Control(t)} \cup
  LET advanced == AckIfBuffer(Result(Stored(t)))
      still == UNION {AckIfBuffer(Result(u)) : u \in NotAdvanced(t)}
  IN  advanced \cup still \cup
      {BadFin(r) : r \in advanced \cup still} \cup
      UNION {Fin(r) : r \in still}

SegmentEstablished(c) ==
  /\ c \in Live
  /\ tcb[c].state = "ESTABLISHED"
  /\ \E r \in HandleEstablished(tcb[c]) : Apply(c, r)
  /\ InPhase("rx")

\* usnet_handle_close_wait: a segment below rcv_nxt is answered, any other is
\* taken as an acknowledgement.
HandleCloseWait(r) ==
  {[r EXCEPT !.t = u] : u \in Control(r.t)} \cup AckIfBuffer(r)

SegmentCloseWait(c) ==
  /\ c \in Live
  /\ tcb[c].state = "CLOSE_WAIT"
  /\ \E r \in HandleCloseWait(Result(tcb[c])) : Apply(c, r)
  /\ InPhase("rx")

\* usnet_handle_rst after the handshake: CLOSE_WAIT, and on to its handler.
ResetSynchronized(c) ==
  /\ c \in Live
  /\ tcb[c].state \in Synchronized
  /\ LET t == [tcb[c] EXCEPT !.state = "CLOSE_WAIT", !.reason = "RESET"]
     IN  \E r \in HandleCloseWait(Result(t)) : Apply(c, r)
  /\ InPhase("rx")

Segment(c) ==
  \/ SegmentRefused(c) \/ SegmentSynReceived(c) \/ ResetSynReceived(c)
  \/ SegmentEstablished(c) \/ SegmentCloseWait(c) \/ ResetSynchronized(c)

-----------------------------------------------------------------------------
(* Timers: usnet_check_rtm_timeout and usnet_check_connection_timeout. *)

\* usnet_handle_rto below the threshold: SYN/ACK again, or the unacknowledged
\* data back on the send list.  The caller then takes the block off the rto
\* list, also when the SYN/ACK just sent wanted it there.
RtoResend(c) ==
  /\ c \in Live
  /\ tcb[c].rto /\ rtoCnt # 0
  /\ tcb[c].nrtx < MaxRtx
  /\ tcb[c].state # "CLOSED"
  /\ LET t == [tcb[c] EXCEPT !.nrtx = @ + 1]
     IN  \E u \in (IF t.state = "SYN_RECEIVED" THEN Control(t) ELSE {AddSend(t)}) :
           Update(c, [u EXCEPT !.rto = FALSE])
  /\ UNCHANGED sndbuf
  /\ InPhase("rto")

\* The threshold is reached in a connection that has a socket: CLOSED.
RtoGiveUp(c) ==
  /\ c \in Live
  /\ tcb[c].rto /\ rtoCnt # 0
  /\ tcb[c].nrtx >= MaxRtx
  /\ tcb[c].state \in Synchronized
  /\ tcb[c].sock # NoFd
  /\ Update(c, [tcb[c] EXCEPT !.state = "CLOSED", !.reason = "CONN_LOST",
                              !.rto = FALSE])
  /\ UNCHANGED sndbuf
  /\ InPhase("rto")

\* The block is released: the threshold is reached and there is no socket or
\* the handshake is not over; or the timer of a CLOSED block expires.
\* usnet_release_tcb takes it off the rto list and the caller does so again: the
\* count drops by two.
RtoRelease(c) ==
  /\ c \in Live
  /\ tcb[c].rto /\ rtoCnt # 0
  /\ \/ tcb[c].nrtx >= MaxRtx /\ (tcb[c].state \notin Synchronized \/ tcb[c].sock = NoFd)
     \/ tcb[c].nrtx < MaxRtx /\ tcb[c].state = "CLOSED"
  /\ tcb' = [tcb EXCEPT ![c] = NoTcb]
  /\ rtoCnt' = rtoCnt - 2
  /\ sndbuf' = IF tcb[c].snd = NoFd THEN sndbuf
               ELSE [sndbuf EXCEPT ![tcb[c].snd] = NoBuf]
  /\ InPhase("rto")

\* No traffic for tcp_timeout: CLOSED or, without a socket, released.
ConnTimeout(c) ==
  /\ c \in Live
  /\ tcb[c].tmo
  /\ IF tcb[c].sock # NoFd
     THEN /\ Update(c, [tcb[c] EXCEPT !.state = "CLOSED", !.reason = "TIMEDOUT",
                                   !.tmo = FALSE])
          /\ UNCHANGED sndbuf
     ELSE Release(c)
  /\ InPhase("conn")

-----------------------------------------------------------------------------
(* The lists: usnet_send_tcp_control_list, usnet_send_tcp_ack_list and     *)
(* usnet_send_tcp_data_list.  Their order is left open.                    *)

InControlList(c) ==
  /\ phase = "control"
  /\ c \in Live
  /\ tcb[c].ctl
  /\ UNCHANGED <<wake, listening, nextId, queues, so, app>>

\* A packet that cannot be sent ends the pass over the control list.
ControlSend(c) ==
  /\ InControlList(c)
  /\ tcb[c].state # "CLOSED"
  /\ \E t \in Control(tcb[c]) :
       /\ Update(c, t)
       /\ phase' = IF t.ctl THEN "ack" ELSE phase
  /\ UNCHANGED sndbuf

\* usnet_send_control_packet for a CLOSED block: a RST and the release, once it
\* is on neither of the other lists and the RST could be sent.
ControlReset(c) ==
  /\ InControlList(c)
  /\ tcb[c].state = "CLOSED"
  /\ ~(tcb[c].send \/ tcb[c].ack)
  /\ Release(c)
  /\ UNCHANGED phase

ControlBlocked(c) ==
  /\ InControlList(c)
  /\ tcb[c].state = "CLOSED"
  /\ phase' = "ack"
  /\ UNCHANGED <<tcb, rtoCnt, sndbuf>>

\* Acks are sent for a synchronized connection that has received data; the
\* others leave the list unsent.
ToAck(t) == t.state \in Synchronized /\ t.rcv # NoFd

AckList(c) ==
  /\ phase = "ack"
  /\ c \in Live
  /\ tcb[c].ack
  /\ Update(c, [tcb[c] EXCEPT !.ack = FALSE])
  /\ UNCHANGED <<phase, wake, listening, nextId, queues, shared, app>>

\* usnet_flush_tcp_sendbuf sends what was not sent before, all of it unless tail
\* has reached the end of the buffer: then the loop ends and the block leaves the
\* send list with bytes unsent.  It stops early when the window is full (asking
\* for an advertisement) or a packet cannot be sent; that ends the pass over the
\* send list.
SentAll(t, b) ==
  [t |-> [t EXCEPT !.send = FALSE, !.rto = TRUE],
   b |-> [b EXCEPT !.queued = FALSE, !.inflight = TRUE]]

SentPart(t, b, some) ==
  [t |-> [t EXCEPT !.send = FALSE, !.rto = @ \/ some],
   b |-> [b EXCEPT !.inflight = @ \/ some]]

Flushed(t, b) ==
  IF b.queued
  THEN {SentAll(t, b)} \cup {SentPart(t, b, some) : some \in BOOLEAN}
  ELSE {[t |-> [t EXCEPT !.send = FALSE], b |-> b]}

Stopped(t, b, full, some) ==
  [t |-> [t EXCEPT !.ack = @ \/ full, !.rto = @ \/ some],
   b |-> [b EXCEPT !.inflight = @ \/ some]]

FlushStopped(t, b) == {Stopped(t, b, full, some) : full \in BOOLEAN, some \in BOOLEAN}

DataList(c) ==
  /\ phase = "data"
  /\ c \in Live
  /\ tcb[c].send
  /\ LET t == tcb[c]
         b == BufOf(t)
     IN  \/ /\ t.state \in Synchronized
            /\ t.state = "ESTABLISHED" => ~t.ctl
            /\ \/ /\ \E r \in Flushed(t, b) : Apply(c, r)
                  /\ UNCHANGED <<phase, wake>>
               \/ /\ b.queued
                  /\ \E r \in FlushStopped(t, b) : Apply(c, r)
                  /\ phase' = "poll" /\ wake' = "none"
         \/ /\ t.state = "ESTABLISHED" /\ t.ctl
            /\ phase' = "poll" /\ wake' = "none"
            /\ UNCHANGED <<tcb, rtoCnt, sndbuf>>
         \/ /\ t.state \notin Synchronized
            /\ Update(c, [t EXCEPT !.send = FALSE])
            /\ UNCHANGED <<phase, wake, sndbuf>>
  /\ UNCHANGED <<listening, nextId, queues, so, app>>

-----------------------------------------------------------------------------
(* Events from the application: usnet_tcpev_net, which may stop before the  *)
(* queue is empty (at its 10000th turn), and usnet_tcpev_net_handler.       *)

Handling(e) ==
  /\ phase = "events"
  /\ wake = "events"
  /\ app2net # << >>
  /\ Head(app2net).ev = e
  /\ app2net' = Tail(app2net)
  /\ UNCHANGED <<phase, wake, nextId, lost, app>>

\* usnet_listen_net_handler.  The tcb cache is empty when it runs.
NetListen ==
  /\ Handling("LISTEN")
  /\ listening' = TRUE
  /\ net2app' = Append(net2app, [ev |-> "LISTEN", fd |-> ListenFd])
  /\ UNCHANGED <<tcb, rtoCnt, shared>>

\* Mutant: the block keeps the descriptor of the listening socket.
BindKeepsFd(t, fd) == [t EXCEPT !.sock = fd, !.snd = IF @ = NoFd THEN fd ELSE @]

\* usnet_connect_net_handler: the block of the four-tuple is bound to the
\* accepted socket, gets a send buffer unless it has one, and sends its control
\* packet.  Without a block, or without room for the buffer, nothing is sent.
Bind(t, fd) == [t EXCEPT !.sock = fd, !.fd = fd, !.snd = IF @ = NoFd THEN fd ELSE @]

NetConnect ==
  /\ Handling("CONNECT")
  /\ LET fd == Head(app2net).fd
         c == Head(app2net).conn
         t == tcb[c]
         u == Bind(t, fd)
         bufs == IF t.snd # NoFd THEN sndbuf
                 ELSE [sndbuf EXCEPT ![fd] =
                         [own |-> t.id, queued |-> FALSE, inflight |-> FALSE]]
     IN  \/ t = NoTcb /\ UNCHANGED <<tcb, rtoCnt, shared>>
         \/ /\ t # NoTcb
            /\ so' = [so EXCEPT ![fd].tcb = t.id]
            /\ \/ \* no room for the send buffer
                  /\ t.snd = NoFd
                  /\ Update(c, [t EXCEPT !.sock = fd, !.fd = fd])
                  /\ UNCHANGED sndbuf
               \/ /\ t.state # "CLOSED"
                  /\ \E v \in Control(u) : Update(c, v)
                  /\ sndbuf' = bufs
               \/ /\ t.state = "CLOSED"
                  /\ Update(c, [u EXCEPT !.ctl = TRUE])
                  /\ sndbuf' = bufs
               \/ \* the RST is sent and the block released
                  /\ t.state = "CLOSED"
                  /\ ~(t.send \/ t.ack)
                  /\ Update(c, NoTcb)
                  /\ sndbuf' = IF t.snd = NoFd THEN sndbuf
                               ELSE [sndbuf EXCEPT ![t.snd] = NoBuf]
  /\ UNCHANGED <<listening, net2app>>

\* usnet_write_net_handler: the block is reached through the socket's so_tcb,
\* and only while the descriptor has a send buffer with something in it.
NetWrite ==
  /\ Handling("WRITE")
  /\ LET fd == Head(app2net).fd
         b == sndbuf[fd]
     IN  tcb' = IF b # NoBuf /\ (b.queued \/ b.inflight)
                THEN [c \in Conns |->
                        IF tcb[c] # NoTcb /\ tcb[c].id = so[fd].tcb
                        THEN AddSend(tcb[c]) ELSE tcb[c]]
                ELSE tcb
  /\ UNCHANGED <<listening, rtoCnt, net2app, shared>>

-----------------------------------------------------------------------------
(* The loop of usnet_dispatch_net: when poll() reports nothing only the    *)
(* timers are looked at.                                                   *)

Poll(w) ==
  /\ phase = "poll"
  /\ w = "events" => app2net # << >>
  /\ wake' = w
  /\ phase' = IF w = "none" THEN "rto" ELSE "rx"
  /\ UNCHANGED <<listening, tcb, nextId, rtoCnt, queues, shared, app>>

NextPhase ==
  [rx |-> "rto", rto |-> "conn", conn |-> IF wake = "none" THEN "poll" ELSE "control",
   control |-> "ack", ack |-> "events", events |-> "data", data |-> "poll"]

PhaseDone ==
  /\ phase # "poll"
  /\ phase = "control" => \A c \in Live : ~tcb[c].ctl
  /\ phase = "ack" => \A c \in Live : tcb[c].ack => ToAck(tcb[c])
  /\ phase = "data" => \A c \in Live : ~tcb[c].send
  /\ phase' = NextPhase[phase]
  /\ wake' = IF phase' = "poll" THEN "none" ELSE wake
  /\ UNCHANGED <<listening, tcb, nextId, rtoCnt, queues, shared, app>>

-----------------------------------------------------------------------------
(* The application. *)

\* usnet_listen sends the event and waits for the first message of the queue.
Listen ==
  /\ apc = "start"
  /\ apc' = "wait"
  /\ app2net' = Append(app2net, [ev |-> "LISTEN", fd |-> ListenFd])
  /\ UNCHANGED <<net, net2app, lost, shared, backlog>>

ListenReply ==
  /\ apc = "wait"
  /\ net2app # << >>
  /\ net2app' = Tail(net2app)
  /\ apc' = "running"
  /\ UNCHANGED <<net, app2net, lost, shared, backlog>>

\* The descriptor goes into bq_connq at bq_tail, which is set back only beyond
\* bq_size (the last entry lies behind the array) and never meets bq_head.
WrapTail(t) == IF t > BacklogSize THEN t - BacklogSize ELSE t

Enlist(fd, t) ==
  backlog' = [connq |-> [backlog.connq EXCEPT ![backlog.tail] = fd],
              head |-> backlog.head, tail |-> t]

\* Mutant: the backlog gets the descriptor given out before.
NewSocketOldFd(c) ==
  /\ so' = Append(so, [conn |-> c, tcb |-> 0])
  /\ Enlist(Len(so), WrapTail(backlog.tail + 1))
  /\ UNCHANGED lost

\* Mutant: the descriptor replaces the one at the head of the backlog.
NewSocketAtHead(c) ==
  /\ so' = Append(so, [conn |-> c, tcb |-> 0])
  /\ backlog' = [connq |-> [backlog.connq EXCEPT ![backlog.head] = Len(so) + 1],
                 head |-> backlog.head, tail |-> WrapTail(backlog.head + 1)]
  /\ UNCHANGED lost

NewSocket(c) ==
  /\ so' = Append(so, [conn |-> c, tcb |-> 0])
  /\ Enlist(Len(so) + 1, WrapTail(backlog.tail + 1))
  /\ UNCHANGED lost

NoSocket(c) == lost' = lost \cup {c} /\ UNCHANGED <<so, backlog>>

\* usnet_accept_newconn: a socket for the new connection and its descriptor on
\* the backlog; nothing when the socket cache has no room for it.
AcceptNewconn(c) == (Len(so) < MaxFds /\ NewSocket(c)) \/ NoSocket(c)

\* One message taken by usnet_epoll_wait.
EpollEvent ==
  /\ apc = "running"
  /\ net2app # << >>
  /\ net2app' = Tail(net2app)
  /\ IF Head(net2app).ev = "CONNECT"
     THEN AcceptNewconn(Head(net2app).conn)
     ELSE UNCHANGED <<so, backlog, lost>>
  /\ UNCHANGED <<net, app2net, sndbuf, apc>>

\* The head of the backlog is sent to the net process.  bq_head is set back as
\* soon as it reaches bq_size, one step before bq_tail would be, so that with
\* every entry taken the array looks full again and old descriptors come back.
\* Sockets are never removed: the search for the descriptor finds its socket.
AcceptWith(h) ==
  LET fd == backlog.connq[backlog.head]
      c == so[fd].conn
  IN  /\ backlog.head # backlog.tail
      /\ backlog' = [connq |-> backlog.connq, head |-> h, tail |-> backlog.tail]
      /\ app2net' \in Enqueue(app2net, [ev |-> "CONNECT", fd |-> fd, conn |-> c])
      /\ lost' = IF app2net' = app2net THEN lost \cup {c} ELSE lost
      /\ UNCHANGED <<net, net2app, shared, apc>>

\* Mutant: bq_head is not advanced.
AcceptAgain == AcceptWith(backlog.head)

\* usnet_accept.
Accept ==
  AcceptWith(IF backlog.head + 1 >= BacklogSize THEN backlog.head + 1 - BacklogSize
             ELSE backlog.head + 1)

\* usnet_write on an accepted descriptor that has a send buffer, and
\* usnet_write_notify.
Write(fd) ==
  /\ sndbuf[fd] # NoBuf
  /\ sndbuf' = [sndbuf EXCEPT ![fd].queued = TRUE]
  /\ app2net' \in Enqueue(app2net, [ev |-> "WRITE", fd |-> fd])
  /\ UNCHANGED <<net, net2app, lost, so, app>>

-----------------------------------------------------------------------------
Frames == \E c \in Conns : SynArrives(c) \/ Segment(c)

Timers == \E c \in Conns : RtoResend(c) \/ RtoGiveUp(c) \/ RtoRelease(c) \/ ConnTimeout(c)

Lists ==
  \E c \in Conns : ControlSend(c) \/ ControlReset(c) \/ ControlBlocked(c)
                    \/ AckList(c) \/ DataList(c)

Events == NetListen \/ NetConnect \/ NetWrite

Loop == PhaseDone \/ \E w \in {"none", "frames", "events"} : Poll(w)

Application ==
  Listen \/ ListenReply \/ EpollEvent \/ Accept \/ \E fd \in WriteFds : Write(fd)

Next == Frames \/ Timers \/ Lists \/ Events \/ Loop \/ Application

Spec == Init /\ [][Next]_vars

\* The net process keeps running its loop, a timer that stays armed expires, and
\* a RST that is tried again and again is sent in the end.  Nothing is assumed of
\* the peers or of the application.
Fairness ==
  /\ WF_vars(Loop) /\ WF_vars(Lists) /\ WF_vars(Events)
  /\ \A c \in Conns : SF_vars(RtoResend(c) \/ RtoGiveUp(c) \/ RtoRelease(c))
  /\ \A c \in Conns : SF_vars(ConnTimeout(c)) /\ SF_vars(ControlReset(c))

FairSpec == Spec /\ Fairness

-----------------------------------------------------------------------------
(* Properties. *)

\* Every control block, socket, send buffer and event has the fields of its C
\* structure, and what usnet_accept takes from the backlog is the descriptor of a
\* socket, also after bq_head and bq_tail have wrapped at their different ends.
TypeOK ==
  /\ phase \in {"poll"} \cup DOMAIN NextPhase
  /\ wake \in {"none", "frames", "events"}
  /\ listening \in BOOLEAN
  /\ tcb \in [Conns -> TCB \cup {NoTcb}]
  /\ nextId \in Nat /\ rtoCnt \in Int
  /\ net2app \in Seq(Event) /\ app2net \in Seq(Event)
  /\ lost \subseteq Conns
  /\ sndbuf \in [Fds -> Buf \cup {NoBuf}]
  /\ so \in Seq(Socket) /\ Len(so) <= MaxFds
  /\ apc \in {"start", "wait", "running"}
  /\ backlog \in [connq : [0..BacklogSize -> {0} \cup Fds],
                 head : 0..(BacklogSize - 1), tail : 0..BacklogSize]
  /\ backlog.head # backlog.tail => backlog.connq[backlog.head] \in DOMAIN so

\* Whenever usnet_write_net_handler can find a send buffer for a descriptor, the
\* so_tcb it follows from the socket of that descriptor points to a live block,
\* and to the one that owns the buffer.  so_tcb itself is never cleared: only
\* the removal of the send buffer keeps the handler off a released block.
WriteReachesOwner ==
  \A fd \in Fds : sndbuf[fd] # NoBuf =>
    /\ fd <= Len(so)
    /\ so[fd].tcb = sndbuf[fd].own
    /\ \E c \in Live : tcb[c].id = sndbuf[fd].own /\ tcb[c].snd = fd

\* A block bound to a socket and that socket name each other, agree on the
\* four-tuple, and the events of the block carry the socket's descriptor.
SocketBinding ==
  \A c \in Live : tcb[c].sock # NoFd =>
    /\ tcb[c].fd = tcb[c].sock
    /\ tcb[c].sock <= Len(so)
    /\ so[tcb[c].sock].conn = c
    /\ so[tcb[c].sock].tcb = tcb[c].id

\* A peer whose SYN was taken is never forgotten between the processes: until
\* its block is bound to a socket, also when a repeated SYN was answered and the
\* handshake ended before the accept, a CONNECT for its four-tuple is on the way
\* to the application, on the backlog or on the way back, unless one was dropped
\* at a full queue or a full socket cache.  It is so until usnet_accept_newconn
\* has made more than bq_size sockets: from then on an entry may be passed over.
ConnectIsPending ==
  Len(so) <= BacklogSize => \A c \in Live \ lost :
    tcb[c].sock = NoFd =>
      \/ \E i \in DOMAIN net2app : net2app[i].ev = "CONNECT" /\ net2app[i].conn = c
      \/ \E i \in backlog.head..(backlog.tail - 1) : so[backlog.connq[i]].conn = c
      \/ \E i \in DOMAIN app2net : app2net[i].ev = "CONNECT" /\ app2net[i].conn = c

\* assert(0) in usnet_add_timeout_list cannot fail, and an open connection stays
\* on the timeout list until the timeout closes it.
OpenIsWatched ==
  \A c \in Live :
    /\ tcb[c].state = "SYN_RECEIVED" => ~tcb[c].tmo
    /\ tcb[c].state \in Synchronized => tcb[c].tmo

\* A descriptor the application holds stays bound to its block.  It moves only
\* once bq_size sockets were made and usnet_accept returns old descriptors, and
\* then only from a released block to a later one of the same peer.
RebindAfterWrap ==
  [][\A fd \in DOMAIN so : so[fd].tcb # 0 /\ so'[fd].tcb # so[fd].tcb =>
       /\ Len(so) >= BacklogSize
       /\ so'[fd].tcb > so[fd].tcb
       /\ \A c \in Live : tcb[c].id # so[fd].tcb]_vars

GivenUp(c) == c \in Live /\ tcb[c].state = "CLOSED" /\ tcb[c].reason = "CONN_LOST"

\* What usnet_handle_rto says it does once the retransmissions exceed the
\* threshold: the connection is destroyed.  In the code only a connection
\* without a socket is; the block of any other stays CLOSED in the tcb cache.
GivenUpIsDestroyed == \A c \in Conns : GivenUp(c) ~> tcb[c] = NoTcb
=============================================================================
