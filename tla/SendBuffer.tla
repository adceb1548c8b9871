----------------------------- MODULE SendBuffer -----------------------------
(***************************************************************************)
(* The send path of one open connection, with its data: the application    *)
(* writes into the shared ring buffer (usnet_write), the net process sends *)
(* from it (usnet_flush_tcp_sendbuf), frees what the peer acknowledges     *)
(* (usnet_process_ack) and times the rest (usnet_handle_rto).              *)
(*                                                                         *)
(* The k-th byte written is the number k, and a sequence number is the     *)
(* offset from iss + 1, so byte k belongs at sequence number k.  Windows   *)
(* stay far below 2^31, where the comparisons of tcp.h are those of the    *)
(* integers.  The peer acknowledges only what was sent to it; its          *)
(* acknowledgements may be lost, delayed, duplicated and reordered.  The   *)
(* congestion and peer windows may be anything up to Window.               *)
(***************************************************************************)
EXTENDS Integers, Sequences

CONSTANTS
  Size,       \* buf->size
  MaxLen,     \* mss less the options: the payload of one segment
  Window,     \* bound: the largest window
  MaxRtx,     \* TCP_MAX_RTX
  MaxWritten  \* bound: bytes written in one behaviour

ASSUME SizeAssumption == Size \in Nat /\ Size > 1
ASSUME LenAssumption == MaxLen \in Nat \ {0}
ASSUME BoundAssumption == Window \in Nat /\ MaxRtx \in Nat /\ MaxWritten \in Nat

VARIABLES
  ring,          \* shared: the data area
  head, sent_head, tail, len, head_seq,  \* shared: fields of usn_sendbuf_t
  snd_una, snd_nxt,                      \* net: of the control block
  last_ack_seq, dup_acks,                \* net: of rcvvar
  nrtx, on_send_list, on_rto_list,       \* net: of sndvar; on_rto_idx >= 0
  closed,        \* net: the retransmissions were given up
  flush,         \* net: inside usnet_flush_tcp_sendbuf, its head and tail
  wpc, wlen,     \* app: where in usnet_write, and its len
  events,        \* WRITE events on their way to the net process
  written,       \* history: bytes written
  sent_max,      \* history: the highest snd_nxt
  astray,        \* history: a flush took more bytes than were written
  owed           \* history: a timeout found data unacknowledged since

area == <<ring, head, sent_head, tail, len, head_seq>>
block == <<snd_una, snd_nxt, last_ack_seq, dup_acks, nrtx, on_send_list,
           on_rto_list, closed>>
app == <<wpc, wlen, events, written>>
history == <<sent_max, astray, owed>>
vars == <<area, block, flush, app, history>>

Junk == -1                       \* what the data area holds before any write
NoAck == -1                      \* last_ack_seq before the first acknowledgement
NoFlush == [on |-> FALSE, head |-> 0, tail |-> 0]
Index == 0..(Size - 1)

\* usnet_get_sendbuf, and the block at the end of the handshake.
Init ==
  /\ ring = [i \in Index |-> Junk]
  /\ head = 0 /\ sent_head = 0 /\ tail = 0 /\ len = 0 /\ head_seq = 0
  /\ snd_una = 0 /\ snd_nxt = 0 /\ last_ack_seq = NoAck /\ dup_acks = 0
  /\ nrtx = 0 /\ on_send_list = FALSE /\ on_rto_list = FALSE /\ closed = FALSE
  /\ flush = NoFlush
  /\ wpc = "idle" /\ wlen = 0 /\ events = 0 /\ written = 0
  /\ sent_max = 0 /\ astray = FALSE /\ owed = FALSE

\* usnet_get_sendbuf_len: the bytes from h up to t, around the ring.
Distance(h, t) == IF t >= h THEN t - h ELSE Size + t - h

Wrap(i) == IF i >= Size THEN i - Size ELSE i

Smaller(a, b) == IF a <= b THEN a ELSE b

-----------------------------------------------------------------------------
(* The application: usnet_write. *)

\* Mutant: the buffer may be filled to its last byte.
HasSpaceForAll(n) ==
  (IF head > tail THEN head - tail ELSE Size + head - tail) >= n

HasSpace(n) ==
  (IF head > tail THEN head - tail ELSE Size + head - tail) > n

\* The test reads head, which the net process moves; without room usnet_write
\* returns -1 and nothing changes.
WriteCheck(n) ==
  /\ wpc = "idle"
  /\ written + n <= MaxWritten
  /\ HasSpace(n)
  /\ wpc' = "copy" /\ wlen' = n
  /\ UNCHANGED <<area, block, flush, events, written, history>>

\* The bytes go from tail to the end of the ring and on from its start.
CopyOffset(i) == IF i >= tail THEN i - tail ELSE i + (Size - tail)

WriteCopy ==
  /\ wpc = "copy"
  /\ ring' = [i \in Index |->
                IF CopyOffset(i) < wlen THEN written + CopyOffset(i) ELSE ring[i]]
  /\ tail' = IF Size - tail >= wlen THEN tail + wlen ELSE wlen - (Size - tail)
  /\ written' = written + wlen
  /\ wpc' = "len"
  /\ UNCHANGED <<head, sent_head, len, head_seq, block, flush, wlen, events, history>>

\* buf->len is set after the tail; then the event, dropped when its queue is full.
WriteLen ==
  /\ wpc = "len"
  /\ len' = Distance(head, tail)
  /\ events' \in {events, events + 1}
  /\ wpc' = "idle" /\ wlen' = 0
  /\ UNCHANGED <<ring, head, sent_head, tail, head_seq, block, flush, written, history>>

-----------------------------------------------------------------------------
(* The net process: usnet_write_net_handler and usnet_send_tcp_data_list. *)

NetWrite ==
  /\ ~flush.on
  /\ events > 0
  /\ events' = events - 1
  /\ on_send_list' = (on_send_list \/ head # tail)
  /\ UNCHANGED <<area, snd_una, snd_nxt, last_ack_seq, dup_acks, nrtx,
                 on_rto_list, closed, flush, wpc, wlen, written, history>>

\* The block leaves the send list, or stays on it when a packet was refused.
FlushEnd(stays) ==
  /\ flush' = NoFlush
  /\ on_send_list' = stays
  /\ UNCHANGED <<area, snd_una, snd_nxt, last_ack_seq, dup_acks, nrtx,
                 on_rto_list, closed, app, history>>

\* Nothing to send, or the connection is not open any more.
FlushNothing ==
  /\ ~flush.on
  /\ on_send_list
  /\ head = tail \/ closed
  /\ FlushEnd(FALSE)

FlushBegin ==
  /\ ~flush.on
  /\ on_send_list /\ ~closed
  /\ head # tail
  /\ flush' = [on |-> TRUE, head |-> sent_head, tail |-> tail]
  /\ UNCHANGED <<area, block, app, history>>

Buffered == Distance(flush.head, flush.tail)

\* The length of the next segment: no more than is buffered, than a segment
\* takes, and than there is room behind the tail, which is read again each time.
SegLen == Smaller(Smaller(Buffered, MaxLen), Size - tail)

\* assert(0) stands where snd_nxt is below head_seq.
FlushDone ==
  /\ flush.on
  /\ snd_nxt >= head_seq
  /\ SegLen = 0
  /\ FlushEnd(FALSE)

FlushRefused ==
  /\ flush.on
  /\ snd_nxt >= head_seq
  /\ SegLen > 0
  /\ FlushEnd(TRUE)

\* The payload is read from sent_head on, past the end of the data area if it
\* goes that far.
Payload == [i \in 1..SegLen |-> IF flush.head + i - 1 < Size
                                THEN ring[flush.head + i - 1] ELSE Junk]

\* In unsigned arithmetic a negative sum is outside every window.
WindowOpen == snd_nxt - snd_una + SegLen \in 0..Window

\* Mutants: sent_head is not moved; it is not wrapped.
SentHeadKept == sent_head

SentHeadNoWrap == flush.head + SegLen

NextSentHead == Wrap(flush.head + SegLen)

FlushSegment ==
  /\ flush.on
  /\ snd_nxt >= head_seq
  /\ SegLen > 0
  /\ WindowOpen
  /\ owed' = (owed /\ ~(snd_nxt = snd_una /\ Payload[1] = snd_una))
  /\ snd_nxt' = snd_nxt + SegLen
  /\ sent_max' = IF snd_nxt + SegLen > sent_max THEN snd_nxt + SegLen ELSE sent_max
  /\ astray' = (astray \/ SegLen > Distance(sent_head, tail))
  /\ on_rto_list' = TRUE
  /\ sent_head' = NextSentHead
  /\ flush' = [flush EXCEPT !.head = sent_head']
  /\ UNCHANGED <<ring, head, tail, len, head_seq, snd_una, last_ack_seq, dup_acks,
                 nrtx, on_send_list, closed, app>>

-----------------------------------------------------------------------------
(* Acknowledgements and the retransmission timer. *)

\* usnet_remove_data; it leaves len and sent_head alone.
RemoveData(n) ==
  LET data_len == Distance(head, tail)
  IN  IF n > data_len
      THEN head' = 0 /\ tail' = 0 /\ head_seq' = head_seq + data_len
      ELSE head' = Wrap(head + n) /\ head_seq' = head_seq + n /\ UNCHANGED tail

\* An acknowledgement counts as a duplicate when it repeats the last one, brings
\* no payload and leaves the window as it was (plain).
Duplicate(a, plain) == a < snd_nxt /\ a = last_ack_seq /\ plain

\* snd_nxt after the ack: set back by the third duplicate, moved up by an
\* acknowledgement beyond it.
NxtAfter(a, third) == IF third \/ a > snd_nxt THEN a ELSE snd_nxt

\* Mutant: the timer is stopped by every acknowledgement of new data.
NeverTimedAgain(nxt, a) == FALSE

\* usnet_update_retransmission_timer: whether the timer is armed again.
TimedAgain(nxt, a) == nxt > a

\* usnet_process_ack for an acknowledgement that the buffer can cover.  The
\* count of duplicates saturates at 4: above 3 it only widens the window.
Ack(a, plain) ==
  /\ ~flush.on /\ ~closed
  /\ a <= sent_max
  /\ a <= head_seq + len
  /\ LET dup == Duplicate(a, plain)
         count == IF dup THEN Smaller(dup_acks + 1, 4) ELSE 0
         third == dup /\ count = 3
         nxt == NxtAfter(a, third)
     IN  /\ dup_acks' = count
         /\ last_ack_seq' = a
         /\ snd_nxt' = nxt
         /\ on_send_list' = IF third THEN TRUE
                            ELSE on_send_list /\ ~(a > snd_nxt /\ len = 0)
         /\ IF a <= head_seq
            THEN /\ nrtx' = IF third THEN Smaller(nrtx + 1, MaxRtx) ELSE nrtx
                 /\ UNCHANGED <<head, tail, head_seq, snd_una, on_rto_list, owed>>
            ELSE /\ RemoveData(a - head_seq)
                 /\ snd_una' = a
                 /\ nrtx' = 0
                 /\ on_rto_list' = TimedAgain(nxt, a)
                 /\ owed' = FALSE
  /\ UNCHANGED <<ring, sent_head, len, closed, flush, app, sent_max, astray>>

RtoResend ==
  /\ ~flush.on
  /\ on_rto_list /\ ~closed
  /\ nrtx < MaxRtx
  /\ nrtx' = nrtx + 1
  /\ snd_nxt' = snd_una
  /\ on_send_list' = TRUE
  /\ on_rto_list' = FALSE
  /\ owed' = (owed \/ snd_una < sent_max)
  /\ UNCHANGED <<area, snd_una, last_ack_seq, dup_acks, closed, flush, app,
                 sent_max, astray>>

RtoGiveUp ==
  /\ ~flush.on
  /\ on_rto_list /\ ~closed
  /\ nrtx = MaxRtx
  /\ closed' = TRUE
  /\ on_rto_list' = FALSE
  /\ owed' = FALSE
  /\ UNCHANGED <<area, snd_una, snd_nxt, last_ack_seq, dup_acks, nrtx,
                 on_send_list, flush, app, sent_max, astray>>

-----------------------------------------------------------------------------
Application == (\E n \in 1..(Size - 1) : WriteCheck(n)) \/ WriteCopy \/ WriteLen

Flush == FlushNothing \/ FlushBegin \/ FlushDone \/ FlushRefused \/ FlushSegment

Acks == \E a \in 0..sent_max, plain \in BOOLEAN : Ack(a, plain)

Next == Application \/ NetWrite \/ Flush \/ Acks \/ RtoResend \/ RtoGiveUp

Spec == Init /\ [][Next]_vars

\* The net process keeps running its loop, a timer that stays armed expires and
\* a window that is asked again and again opens.  Nothing is assumed of the
\* acknowledgements or of further writes.
Fairness ==
  /\ WF_vars(NetWrite) /\ WF_vars(Flush) /\ SF_vars(FlushSegment)
  /\ WF_vars(RtoResend \/ RtoGiveUp)
  /\ WF_vars(WriteCopy \/ WriteLen)

FairSpec == Spec /\ Fairness

-----------------------------------------------------------------------------
(* Properties. *)

\* The indices of usn_sendbuf_t stay within the ring; only the tail may stand at
\* its very end, where usnet_write_data leaves it and the next write wraps.
TypeOK ==
  /\ ring \in [Index -> Int]
  /\ head \in Index /\ sent_head \in Index /\ tail \in 0..Size
  /\ len \in 0..Size
  /\ {head_seq, snd_una, snd_nxt, sent_max, written} \subseteq Nat
  /\ last_ack_seq \in Nat \cup {NoAck}
  /\ dup_acks \in 0..4 /\ nrtx \in 0..MaxRtx
  /\ {on_send_list, on_rto_list, closed, astray, owed} \subseteq BOOLEAN
  /\ flush \in [on : BOOLEAN, head : Index, tail : 0..Size]
  /\ wpc \in {"idle", "copy", "len"} /\ wlen \in 0..(Size - 1) /\ events \in Nat

\* The bytes the buffer holds are exactly the written ones that were not
\* acknowledged, in order, and the byte at head is the one head_seq names: the
\* application never overwrites a byte the peer may still need, although it
\* tests a head that the net process moves meanwhile.  (Once a flush went
\* past what was written, the acknowledgements of what it sent mean nothing.)
UnackedIsKept ==
  ~astray =>
    /\ head_seq + Distance(head, tail) = written
    /\ \A k \in head_seq..(written - 1) : ring[Wrap(head + (k - head_seq))] = k

\* As long as no flush has gone beyond what was written (~astray), what the net
\* process has taken for sending lies between the two ends of the buffer, and
\* no sequence number stands for a byte not taken yet: no acknowledgement frees
\* a byte that was never sent.
SentBetween ==
  ~astray =>
    /\ Distance(head, sent_head) <= Distance(head, tail)
    /\ sent_max <= head_seq + Distance(head, sent_head)

\* Data in flight is timed: whatever the order of timeouts, duplicates and
\* acknowledgements, snd_nxt is above snd_una only with the timer armed.
InFlightIsTimed == (snd_una < snd_nxt /\ ~closed) => on_rto_list

\* assert(0) in usnet_flush_tcp_sendbuf: a flush never finds snd_nxt below the
\* first byte of the buffer.
SeqInBuffer == flush.on => snd_nxt >= head_seq

\* usnet_handle_rto says it retransmits the data: a timeout leads to the
\* retransmission of the oldest unacknowledged byte, unless it is acknowledged
\* after all or the connection is given up.
LostIsResent == owed ~> ~owed

\* A segment about to be sent carries the bytes its sequence numbers stand for.
SegmentIsStream ==
  (flush.on /\ snd_nxt >= head_seq /\ WindowOpen) =>
    \A i \in DOMAIN Payload : Payload[i] = snd_nxt + i - 1
=============================================================================
