-------------------------- MODULE SendBufferProofs --------------------------
(***************************************************************************)
(* Proofs about the send path for every ring size, segment size, window    *)
(* and threshold of retransmissions: the indices stay in the ring, and     *)
(* data in flight is timed.                                                *)
(***************************************************************************)
EXTENDS SendBuffer, TLAPS

\* The buffer never starts above the oldest unacknowledged byte; an old
\* acknowledgement that moves snd_nxt up thus cannot move it above snd_una.
HeadBelowUna == head_seq <= snd_una

\* The inductive invariant.
IInv == TypeOK /\ HeadBelowUna /\ InFlightIsTimed

-----------------------------------------------------------------------------
(* The ring. *)

\* The length usnet_get_sendbuf_len computes is at most the size of the ring.
LEMMA DistanceInRing ==
  ASSUME NEW h \in Index, NEW t \in 0..Size
  PROVE  Distance(h, t) \in 0..Size
  BY SizeAssumption DEF Distance, Index

\* An index moved on by at most the size of the ring wraps into it.
LEMMA WrapInRing ==
  ASSUME NEW h \in Index, NEW n \in 0..Size
  PROVE  Wrap(h + n) \in Index
  BY SizeAssumption DEF Wrap, Index

\* The next segment is no longer than the ring.
LEMMA SegLenInRing ==
  ASSUME TypeOK
  PROVE  SegLen \in 0..Size /\ Buffered \in 0..Size
<1>1. Buffered \in 0..Size
  BY DistanceInRing DEF TypeOK, Buffered
<1>2. Size - tail \in 0..Size
  BY SizeAssumption DEF TypeOK
<1> QED BY <1>1, <1>2, SizeAssumption, LenAssumption DEF SegLen, Smaller

\* The initial state, as usnet_get_sendbuf leaves it.
LEMMA InitIInv == Init => IInv
<1> SUFFICES ASSUME Init PROVE IInv
  OBVIOUS
<1>1. ring \in [Index -> Int]
  BY DEF Init, Junk
<1>2. flush \in [on : BOOLEAN, head : Index, tail : 0..Size]
  BY SizeAssumption DEF Init, NoFlush, Index
<1>3. /\ head \in Index /\ sent_head \in Index /\ tail \in 0..Size
      /\ len \in 0..Size /\ wlen \in 0..(Size - 1)
      /\ nrtx \in 0..MaxRtx /\ dup_acks \in 0..4
  BY SizeAssumption, BoundAssumption DEF Init, Index
<1>4. {on_send_list, on_rto_list, closed, astray, owed} \subseteq BOOLEAN
  BY DEF Init
<1>5. TypeOK
  BY <1>1, <1>2, <1>3, <1>4 DEF Init, TypeOK
<1> QED BY <1>5 DEF Init, IInv, HeadBelowUna, InFlightIsTimed

-----------------------------------------------------------------------------
(* Type correctness, one lemma per group of steps. *)

\* usnet_write keeps the tail in the ring and touches only the data area.
LEMMA ApplicationTypes ==
  ASSUME TypeOK, Application
  PROVE  TypeOK'
<1>1. CASE \E n \in 1..(Size - 1) : WriteCheck(n)
  BY <1>1, SizeAssumption DEF TypeOK, WriteCheck, area, block, history
<1>2. CASE WriteCopy
  <2>1. /\ wlen \in 0..(Size - 1) /\ tail \in 0..Size /\ written \in Nat
        /\ ring \in [Index -> Int]
    BY DEF TypeOK
  <2>2. \A i \in Index : CopyOffset(i) \in Int
    BY <2>1, SizeAssumption DEF CopyOffset, Index
  <2>3. ring' \in [Index -> Int]
    BY <1>2, <2>1, <2>2 DEF WriteCopy
  <2>4. tail' \in 0..Size /\ written' \in Nat
    BY <1>2, <2>1, SizeAssumption DEF WriteCopy
  <2> QED BY <1>2, <2>3, <2>4 DEF TypeOK, WriteCopy, block, history
<1>3. CASE WriteLen
  <2>1. len' \in 0..Size
    BY <1>3, DistanceInRing DEF TypeOK, WriteLen
  <2>2. events' \in Nat /\ wlen' \in 0..(Size - 1)
    BY <1>3, SizeAssumption DEF TypeOK, WriteLen
  <2> QED BY <1>3, <2>1, <2>2 DEF TypeOK, WriteLen, block, history
<1> QED BY <1>1, <1>2, <1>3 DEF Application

\* Ending a flush, by whatever way, changes a flag and the loop's own state.
LEMMA FlushEndTypes ==
  ASSUME TypeOK, NEW stays \in BOOLEAN, FlushEnd(stays)
  PROVE  TypeOK'
<1>1. flush' \in [on : BOOLEAN, head : Index, tail : 0..Size]
  BY SizeAssumption DEF FlushEnd, NoFlush, Index
<1> QED BY <1>1 DEF TypeOK, FlushEnd, area, app, history

\* usnet_flush_tcp_sendbuf keeps sent_head in the ring.
LEMMA FlushTypes ==
  ASSUME TypeOK, Flush
  PROVE  TypeOK'
<1>1. CASE FlushNothing \/ FlushDone \/ FlushRefused
  BY <1>1, FlushEndTypes DEF FlushNothing, FlushDone, FlushRefused
<1>2. CASE FlushBegin
  <2>1. flush' \in [on : BOOLEAN, head : Index, tail : 0..Size]
    BY <1>2 DEF FlushBegin, TypeOK
  <2> QED BY <1>2, <2>1 DEF TypeOK, FlushBegin, area, block, app, history
<1>3. CASE FlushSegment
  <2>1. SegLen \in 0..Size /\ flush.head \in Index /\ snd_nxt \in Nat /\ sent_max \in Nat
    BY SegLenInRing DEF TypeOK
  <2>2. sent_head' \in Index
    BY <1>3, <2>1, WrapInRing DEF FlushSegment, NextSentHead
  <2>3. flush' \in [on : BOOLEAN, head : Index, tail : 0..Size]
    BY <1>3, <2>2 DEF FlushSegment, TypeOK
  <2>4. snd_nxt' \in Nat /\ sent_max' \in Nat
    BY <1>3, <2>1, SizeAssumption DEF FlushSegment
  <2>5. owed' \in BOOLEAN /\ astray' \in BOOLEAN
    BY <1>3, Zenon DEF FlushSegment
  <2> QED BY <1>3, <2>2, <2>3, <2>4, <2>5 DEF TypeOK, FlushSegment, app
<1> QED BY <1>1, <1>2, <1>3 DEF Flush

\* usnet_remove_data keeps both ends of the buffer in the ring, and head_seq
\* never passes the acknowledgement.
LEMMA RemoveDataTypes ==
  ASSUME TypeOK, NEW a \in Nat, a > head_seq, RemoveData(a - head_seq)
  PROVE  head' \in Index /\ tail' \in 0..Size /\ head_seq' \in Nat /\ head_seq' <= a
<1>1. head_seq \in Nat /\ head \in Index /\ tail \in 0..Size
  BY DEF TypeOK
<1>2. Distance(head, tail) \in 0..Size
  BY <1>1, DistanceInRing
<1>3. CASE a - head_seq > Distance(head, tail)
  BY <1>1, <1>2, <1>3, SizeAssumption DEF RemoveData, Index
<1>4. CASE ~(a - head_seq > Distance(head, tail))
  <2>1. a - head_seq \in 0..Size
    BY <1>1, <1>2, <1>4, SizeAssumption
  <2>2. Wrap(head + (a - head_seq)) \in Index
    BY <1>1, <2>1, WrapInRing
  <2> QED BY <1>1, <1>4, <2>2 DEF RemoveData
<1> QED BY <1>3, <1>4

\* usnet_process_ack.
LEMMA AckTypes ==
  ASSUME TypeOK, NEW a \in 0..sent_max, NEW plain \in BOOLEAN, Ack(a, plain)
  PROVE  TypeOK'
<1> DEFINE dup == Duplicate(a, plain)
           count == IF dup THEN Smaller(dup_acks + 1, 4) ELSE 0
           third == dup /\ count = 3
<1>1. a \in Nat /\ snd_nxt \in Nat /\ dup_acks \in 0..4 /\ nrtx \in 0..MaxRtx
  BY DEF TypeOK
<1>2. count \in 0..4 /\ NxtAfter(a, third) \in Nat
  BY <1>1 DEF Smaller, NxtAfter
<1>3. Smaller(nrtx + 1, MaxRtx) \in 0..MaxRtx /\ 0 \in 0..MaxRtx
  BY <1>1, BoundAssumption DEF Smaller
<1>4. dup_acks' \in 0..4 /\ last_ack_seq' \in Nat /\ snd_nxt' \in Nat
  BY <1>1, <1>2 DEF Ack
<1>5. on_send_list' \in BOOLEAN
  BY DEF Ack, TypeOK
<1>6. CASE a <= head_seq
  BY <1>3, <1>4, <1>5, <1>6 DEF Ack, TypeOK, app
<1>7. CASE ~(a <= head_seq)
  <2>1. a > head_seq /\ RemoveData(a - head_seq)
    BY <1>1, <1>7 DEF Ack, TypeOK
  <2>2. head' \in Index /\ tail' \in 0..Size /\ head_seq' \in Nat
    BY <1>1, <2>1, RemoveDataTypes
  <2>3. /\ snd_una' = a /\ nrtx' = 0 /\ on_rto_list' \in BOOLEAN /\ owed' = FALSE
    BY <1>7 DEF Ack, TimedAgain
  <2> QED BY <1>1, <1>3, <1>4, <1>5, <2>2, <2>3 DEF Ack, TypeOK, app
<1> QED BY <1>6, <1>7

\* The event of the application and the timer.
LEMMA NetTypes ==
  ASSUME TypeOK, NetWrite \/ RtoResend \/ RtoGiveUp
  PROVE  TypeOK'
<1>1. CASE NetWrite
  <2>1. events' \in Nat /\ on_send_list' \in BOOLEAN
    BY <1>1 DEF NetWrite, TypeOK
  <2> QED BY <1>1, <2>1 DEF TypeOK, NetWrite, area, history
<1>2. CASE RtoResend
  <2>1. nrtx' \in 0..MaxRtx /\ owed' \in BOOLEAN
    BY <1>2, BoundAssumption DEF RtoResend, TypeOK
  <2> QED BY <1>2, <2>1 DEF TypeOK, RtoResend, area, app
<1>3. CASE RtoGiveUp
  BY <1>3 DEF TypeOK, RtoGiveUp, area, app
<1> QED BY <1>1, <1>2, <1>3

\* Every step keeps the types.
LEMMA NextTypes ==
  ASSUME TypeOK, [Next]_vars
  PROVE  TypeOK'
<1>1. CASE UNCHANGED vars
  BY <1>1 DEF TypeOK, vars, area, block, app, history
<1>2. CASE Acks
  BY <1>2, AckTypes DEF Acks
<1> QED BY <1>1, <1>2, ApplicationTypes, FlushTypes, NetTypes DEF Next

-----------------------------------------------------------------------------
(* The timer. *)

\* What neither acknowledges nor sends nor sets snd_nxt back leaves the timer
\* and the sequence variables alone.
LEMMA TimerFrame ==
  ASSUME IInv,
         \/ Application \/ NetWrite \/ FlushNothing \/ FlushBegin \/ FlushDone
         \/ FlushRefused \/ UNCHANGED vars
  PROVE  HeadBelowUna' /\ InFlightIsTimed'
<1>1. UNCHANGED <<head_seq, snd_una, snd_nxt, on_rto_list, closed>>
  BY DEF Application, WriteCheck, WriteCopy, WriteLen, NetWrite, FlushNothing,
         FlushBegin, FlushDone, FlushRefused, FlushEnd, area, block, app, vars
<1> QED BY <1>1 DEF IInv, HeadBelowUna, InFlightIsTimed

\* An acknowledgement of new data arms the timer again as long as something is
\* in flight; an old one, even if it moves snd_nxt, puts nothing in flight.
LEMMA AckTimed ==
  ASSUME IInv, NEW a \in 0..sent_max, NEW plain \in BOOLEAN, Ack(a, plain)
  PROVE  HeadBelowUna' /\ InFlightIsTimed'
<1> DEFINE dup == Duplicate(a, plain)
           count == IF dup THEN Smaller(dup_acks + 1, 4) ELSE 0
           third == dup /\ count = 3
           nxt == NxtAfter(a, third)
<1>1. /\ TypeOK /\ a \in Nat /\ snd_nxt \in Nat /\ snd_una \in Nat
      /\ head_seq \in Nat /\ head_seq <= snd_una
  BY DEF IInv, TypeOK, HeadBelowUna
<1>2. snd_nxt' = nxt /\ closed' = closed
  BY DEF Ack
<1>3. nxt = a \/ nxt = snd_nxt
  BY DEF NxtAfter
<1>4. CASE a <= head_seq
  <2>1. UNCHANGED <<head_seq, snd_una, on_rto_list>>
    BY <1>4 DEF Ack
  <2> HIDE DEF nxt
  <2> QED BY <1>1, <1>2, <1>3, <1>4, <2>1 DEF IInv, HeadBelowUna, InFlightIsTimed
<1>5. CASE ~(a <= head_seq)
  <2>1. a > head_seq /\ RemoveData(a - head_seq)
    BY <1>1, <1>5 DEF Ack
  <2>2. snd_una' = a /\ on_rto_list' = (nxt > a)
    BY <1>5 DEF Ack, TimedAgain
  <2>3. head_seq' <= a
    BY <1>1, <2>1, RemoveDataTypes
  <2> HIDE DEF nxt
  <2> QED BY <1>1, <1>2, <1>3, <2>2, <2>3 DEF HeadBelowUna, InFlightIsTimed
<1> QED BY <1>4, <1>5

\* Every step keeps the inductive invariant.
LEMMA NextIInv == IInv /\ [Next]_vars => IInv'
<1> SUFFICES ASSUME IInv, [Next]_vars PROVE IInv'
  OBVIOUS
<1>1. TypeOK'
  BY NextTypes DEF IInv
<1>2. HeadBelowUna' /\ InFlightIsTimed'
  <2>1. CASE Acks
    BY <2>1, AckTimed DEF Acks
  <2>2. CASE FlushSegment
    BY <2>2 DEF FlushSegment, IInv, HeadBelowUna, InFlightIsTimed
  <2>3. CASE RtoResend
    <3>1. snd_una \in Nat
      BY DEF IInv, TypeOK
    <3> QED BY <2>3, <3>1 DEF RtoResend, area, IInv, HeadBelowUna, InFlightIsTimed
  <2>4. CASE RtoGiveUp
    BY <2>4 DEF RtoGiveUp, area, IInv, HeadBelowUna, InFlightIsTimed
  <2> QED BY <2>1, <2>2, <2>3, <2>4, TimerFrame DEF Next, Flush
<1> QED BY <1>1, <1>2 DEF IInv

-----------------------------------------------------------------------------
(* The bytes in the ring.  Used and Sent count them from head. *)

Used == Distance(head, tail)
Sent == Distance(head, sent_head)

\* One byte of the ring stays free, the ring holds what was written and is not
\* acknowledged, and sent_head lies between the ends.  With the tail at the very
\* end of the ring something is left to send: otherwise head could catch up with
\* the tail at index 0 and the ring would look full.
Bounds ==
  ~astray =>
    /\ Used < Size
    /\ head_seq + Used = written
    /\ Sent <= Used
    /\ tail = Size => Sent < Used

\* No sequence number goes beyond what was taken for sending.
Seqs ==
  /\ snd_nxt <= sent_max /\ snd_una <= sent_max
  /\ ~astray => sent_max <= head_seq + Sent

\* Every byte the ring holds is in its place.
Content == ~astray => \A d \in 0..(Used - 1) : ring[Wrap(head + d)] = head_seq + d

\* A write that found room still has it, since head only moves forward.
Writing == wpc = "copy" => wlen > 0 /\ (~astray => Used + wlen < Size)

\* The flush's own head is sent_head.
Flushing == flush.on => flush.head = sent_head

\* The inductive invariant for the bytes.
RingInv == TypeOK /\ Bounds /\ Seqs /\ Content /\ Writing /\ Flushing

\* The tail usnet_write_data computes.
TailAfter(t, n) == IF Size - t >= n THEN t + n ELSE n - (Size - t)

\* Appending n bytes for which there is room makes the buffer n longer.
LEMMA TailMoves ==
  ASSUME NEW h \in Index, NEW t \in 0..Size, NEW n \in 1..(Size - 1),
         Distance(h, t) + n < Size
  PROVE  Distance(h, TailAfter(t, n)) = Distance(h, t) + n
  BY SizeAssumption DEF Distance, Index, TailAfter

\* Moving the lower end up by n shortens a distance by n.
LEMMA HeadMoves ==
  ASSUME NEW h \in Index, NEW t \in 0..Size, NEW n \in Nat,
         n <= Distance(h, t), Distance(h, t) < Size,
         t = Size => n < Distance(h, t)
  PROVE  Distance(Wrap(h + n), t) = Distance(h, t) - n
  BY SizeAssumption DEF Distance, Index, Wrap

\* Moving sent_head up by n lengthens its distance by n.
LEMMA SentMoves ==
  ASSUME NEW h \in Index, NEW s \in Index, NEW n \in Nat, Distance(h, s) + n < Size
  PROVE  Distance(h, Wrap(s + n)) = Distance(h, s) + n
  BY SizeAssumption DEF Distance, Index, Wrap

\* Distances from head add up across sent_head.
LEMMA DistanceSplits ==
  ASSUME NEW h \in Index, NEW s \in Index, NEW t \in 0..Size,
         Distance(h, s) <= Distance(h, t), Distance(h, t) < Size,
         t = Size => Distance(h, s) < Distance(h, t)
  PROVE  Distance(s, t) = Distance(h, t) - Distance(h, s)
  BY SizeAssumption DEF Distance, Index

\* Counting on from a wrapped index is counting on from the index itself.
LEMMA WrapAgain ==
  ASSUME NEW h \in Index, NEW n \in Nat, NEW d \in Nat, n + d < Size
  PROVE  Wrap(Wrap(h + n) + d) = Wrap(h + (n + d))
  BY SizeAssumption DEF Index, Wrap

\* A write of n bytes leaves the bytes already there alone.
LEMMA CopyKeeps ==
  ASSUME TypeOK, NEW n \in Nat, Used + n < Size, NEW d \in 0..(Used - 1)
  PROVE  /\ Wrap(head + d) \in Index
         /\ CopyOffset(Wrap(head + d)) \in Nat /\ CopyOffset(Wrap(head + d)) >= n
  BY SizeAssumption DEF TypeOK, Used, Distance, Index, Wrap, CopyOffset

\* And puts byte j in its place behind them.
LEMMA CopyPlaces ==
  ASSUME TypeOK, NEW n \in Nat, Used + n < Size, NEW j \in 0..(n - 1)
  PROVE  Wrap(head + (Used + j)) \in Index /\ CopyOffset(Wrap(head + (Used + j))) = j
  BY SizeAssumption DEF TypeOK, Used, Distance, Index, Wrap, CopyOffset

\* The lengths are numbers.
LEMMA RingTypes ==
  ASSUME TypeOK
  PROVE  /\ Used \in 0..Size /\ Sent \in 0..Size
         /\ head \in Index /\ sent_head \in Index /\ tail \in 0..Size
         /\ {head_seq, snd_una, snd_nxt, sent_max, written} \subseteq Nat
         /\ wlen \in 0..(Size - 1)
<1>1. head \in Index /\ sent_head \in Index /\ tail \in 0..Size
  BY DEF TypeOK
<1>2. sent_head \in 0..Size
  BY <1>1, SizeAssumption DEF Index
<1> QED BY <1>1, <1>2, DistanceInRing DEF TypeOK, Used, Sent

\* Steps that leave the ring, the sequence numbers and the writer alone.
LEMMA RingFrame ==
  ASSUME RingInv, TypeOK',
         UNCHANGED <<ring, head, sent_head, tail, head_seq, sent_max, astray, written,
                     wpc, wlen>>,
         snd_nxt' <= sent_max \/ snd_nxt' = snd_nxt, snd_una' = snd_una, Flushing'
  PROVE  RingInv'
<1>1. Used' = Used /\ Sent' = Sent
  BY DEF Used, Sent, Distance
<1>2. Bounds' /\ Writing'
  BY <1>1 DEF RingInv, Bounds, Writing
<1>3. Seqs'
  BY <1>1 DEF RingInv, Seqs
<1>4. Content'
  BY <1>1 DEF RingInv, Content, Wrap
<1> QED BY <1>2, <1>3, <1>4 DEF RingInv

\* usnet_write.
LEMMA ApplicationRing ==
  ASSUME RingInv, Application
  PROVE  RingInv'
<1>0. TypeOK /\ TypeOK'
  BY ApplicationTypes DEF RingInv
<1>1. CASE \E n \in 1..(Size - 1) : WriteCheck(n)
  <2>1. PICK n \in 1..(Size - 1) : WriteCheck(n)
    BY <1>1
  <2>2. /\ UNCHANGED <<ring, head, sent_head, tail, head_seq, sent_max, snd_nxt, snd_una, astray,
                       written, flush>>
        /\ wlen' = n /\ HasSpace(n)
    BY <2>1 DEF WriteCheck, area, block, history
  <2>3. Used' = Used /\ Sent' = Sent
    BY <2>2 DEF Used, Sent, Distance
  <2>4. Used + n < Size \/ Used = Size
    BY <1>0, <2>2, SizeAssumption DEF HasSpace, Used, Distance, TypeOK, Index
  <2>5. Writing'
    <3>1. Used \in 0..Size /\ n > 0
      BY <1>0, RingTypes
    <3>2. ~astray => Used < Size
      BY DEF RingInv, Bounds
    <3>3. ~astray => Used + n < Size
      BY <2>4, <3>1, <3>2, SizeAssumption
    <3> QED BY <2>2, <2>3, <3>1, <3>3 DEF Writing
  <2>6. Bounds' /\ Seqs' /\ Flushing'
    BY <2>2, <2>3 DEF RingInv, Bounds, Seqs, Flushing
  <2>7. Content'
    BY <2>2, <2>3 DEF RingInv, Content, Wrap
  <2> QED BY <1>0, <2>5, <2>6, <2>7 DEF RingInv
<1>2. CASE WriteCopy
  <2>1. /\ wpc = "copy" /\ wpc' = "len"
        /\ UNCHANGED <<head, sent_head, head_seq, sent_max, snd_nxt, snd_una, astray, flush, wlen>>
        /\ tail' = TailAfter(tail, wlen) /\ written' = written + wlen
        /\ ring' = [i \in Index |->
                      IF CopyOffset(i) < wlen THEN written + CopyOffset(i) ELSE ring[i]]
    BY <1>2 DEF WriteCopy, block, history, TailAfter
  <2>2. Writing' /\ Flushing'
    BY <2>1 DEF RingInv, Writing, Flushing
  <2>3. Sent' = Sent
    BY <2>1 DEF Sent, Distance
  <2>4. /\ Used \in 0..Size /\ Sent \in 0..Size /\ wlen \in 1..(Size - 1)
        /\ head_seq \in Nat /\ written \in Nat
    BY <1>0, <2>1, RingTypes, SizeAssumption DEF RingInv, Writing
  <2>5. ASSUME ~astray
        PROVE  Used + wlen < Size /\ Used' = Used + wlen /\ head_seq + Used = written
    <3>1. Used + wlen < Size /\ head_seq + Used = written
      BY <2>1, <2>5 DEF RingInv, Writing, Bounds
    <3>2. Distance(head, TailAfter(tail, wlen)) = Distance(head, tail) + wlen
      BY <1>0, <2>4, <3>1, RingTypes, TailMoves DEF Used
    <3>3. Used' = Distance(head, TailAfter(tail, wlen))
      BY <2>1 DEF Used, Distance
    <3> QED BY <3>1, <3>2, <3>3 DEF Used
  <2>6. Bounds'
    BY <2>1, <2>3, <2>4, <2>5 DEF RingInv, Bounds
  <2>7. Seqs'
    BY <2>1, <2>3 DEF RingInv, Seqs
  <2>8. Content'
    <3> SUFFICES ASSUME ~astray
                 PROVE  \A d \in 0..(Used' - 1) : ring'[Wrap(head + d)] = head_seq + d
      BY <2>1 DEF Content, Wrap
    <3>0. Used' = Used + wlen
      BY <2>5
    <3> SUFFICES \A d \in 0..(Used + wlen - 1) : ring'[Wrap(head + d)] = head_seq + d
      BY <2>4, <3>0
    <3> TAKE d \in 0..(Used + wlen - 1)
    <3>1. CASE d < Used
      <4>1. d \in 0..(Used - 1)
        BY <2>4, <3>1
      <4>2. ring[Wrap(head + d)] = head_seq + d
        BY <4>1 DEF RingInv, Content
      <4>3. /\ Wrap(head + d) \in Index
            /\ CopyOffset(Wrap(head + d)) \in Nat /\ CopyOffset(Wrap(head + d)) >= wlen
        BY <1>0, <2>4, <2>5, <4>1, CopyKeeps
      <4> QED BY <2>1, <2>4, <4>2, <4>3
    <3>2. CASE ~(d < Used)
      <4>1. PICK j \in 0..(wlen - 1) : d = Used + j
        <5>1. d - Used \in 0..(wlen - 1) /\ d = Used + (d - Used)
          BY <2>4, <3>2
        <5> QED BY <5>1
      <4>2. /\ Wrap(head + d) \in Index /\ CopyOffset(Wrap(head + d)) = j
        BY <1>0, <2>4, <2>5, <4>1, CopyPlaces
      <4>3. ring'[Wrap(head + d)] = written + j
        BY <2>1, <2>4, <4>1, <4>2
      <4> QED BY <2>4, <2>5, <4>1, <4>3
    <3> QED BY <3>1, <3>2
  <2> QED BY <1>0, <2>2, <2>6, <2>7, <2>8 DEF RingInv
<1>3. CASE WriteLen
  <2>1. /\ UNCHANGED <<ring, head, sent_head, tail, head_seq, sent_max, snd_nxt, snd_una, astray,
                       written, flush>>
        /\ wpc' = "idle"
    BY <1>3 DEF WriteLen, block, history
  <2>2. Used' = Used /\ Sent' = Sent
    BY <2>1 DEF Used, Sent, Distance
  <2>3. Bounds' /\ Seqs' /\ Flushing' /\ Writing'
    BY <2>1, <2>2 DEF RingInv, Bounds, Seqs, Flushing, Writing
  <2>4. Content'
    BY <2>1, <2>2 DEF RingInv, Content, Wrap
  <2> QED BY <1>0, <2>3, <2>4 DEF RingInv
<1> QED BY <1>1, <1>2, <1>3 DEF Application

\* Sending a segment moves sent_head and snd_nxt together, and no further than
\* the tail unless the flush goes astray.
LEMMA FlushSegmentRing ==
  ASSUME RingInv, FlushSegment
  PROVE  RingInv'
<1>0. TypeOK /\ TypeOK'
  BY FlushTypes DEF RingInv, Flush
<1>1. /\ UNCHANGED <<ring, head, tail, head_seq, snd_una, wpc, wlen, written>>
      /\ sent_head' = Wrap(sent_head + SegLen) /\ snd_nxt' = snd_nxt + SegLen
      /\ sent_max' = IF snd_nxt + SegLen > sent_max THEN snd_nxt + SegLen ELSE sent_max
      /\ SegLen > 0
      /\ flush' = [flush EXCEPT !.head = sent_head']
  BY DEF FlushSegment, NextSentHead, RingInv, Flushing, app
<1>2. ~astray' => ~astray /\ SegLen <= Distance(sent_head, tail)
  <2>1. SegLen \in Int /\ Distance(sent_head, tail) \in Int
    BY <1>0, SegLenInRing, RingTypes, DistanceInRing
  <2>2. astray' = (astray \/ SegLen > Distance(sent_head, tail))
    BY Zenon DEF FlushSegment
  <2>3. ~(SegLen > Distance(sent_head, tail)) => SegLen <= Distance(sent_head, tail)
    BY <2>1
  <2> QED BY <2>2, <2>3, Zenon
<1>3. Used' = Used
  BY <1>1 DEF Used, Distance
<1>4. Flushing'
  BY <1>0, <1>1 DEF Flushing, TypeOK
<1>5. Writing'
  BY <1>1, <1>2, <1>3 DEF RingInv, Writing
<1>6. Content'
  BY <1>1, <1>2, <1>3 DEF RingInv, Content, Wrap
<1>7. ASSUME ~astray'
      PROVE  Sent' = Sent + SegLen /\ Sent + SegLen <= Used /\ tail # Size
  <2>1. /\ Sent <= Used /\ Used < Size /\ (tail = Size => Sent < Used)
    BY <1>2, <1>7 DEF RingInv, Bounds
  <2>2. /\ SegLen \in Nat /\ head \in Index /\ sent_head \in Index /\ tail \in 0..Size
        /\ Used \in Nat /\ Sent \in Nat
    BY <1>0, SegLenInRing, RingTypes
  <2>3. Distance(sent_head, tail) = Used - Sent
    BY <2>1, <2>2, DistanceSplits DEF Used, Sent
  <2>4. Sent + SegLen <= Used
    BY <1>2, <1>7, <2>2, <2>3
  <2>5. Sent + SegLen < Size
    BY <2>1, <2>2, <2>4, SizeAssumption
  <2>6. Distance(head, Wrap(sent_head + SegLen)) = Sent + SegLen
    BY <2>2, <2>5, SentMoves DEF Sent
  <2>7. Sent' = Distance(head, Wrap(sent_head + SegLen))
    BY <1>1 DEF Sent, Distance
  <2>8. SegLen <= Size - tail
    BY <1>0, SegLenInRing, <2>2, SizeAssumption, LenAssumption DEF SegLen, Smaller
  <2> QED BY <1>1, <2>2, <2>4, <2>6, <2>7, <2>8, SizeAssumption
<1>8. Bounds'
  BY <1>1, <1>2, <1>3, <1>7 DEF RingInv, Bounds
<1>9. Seqs'
  <2>1. /\ SegLen \in Nat /\ Sent \in Nat
        /\ snd_nxt \in Nat /\ sent_max \in Nat /\ head_seq \in Nat /\ snd_una \in Nat
    BY <1>0, SegLenInRing, RingTypes
  <2> QED BY <1>1, <1>2, <1>7, <2>1 DEF RingInv, Seqs
<1> QED BY <1>0, <1>4, <1>5, <1>6, <1>8, <1>9 DEF RingInv

\* An acknowledgement of new data frees bytes that were sent, so the buffer is
\* never emptied beyond them and the others stay in their places.
LEMMA AckRing ==
  ASSUME RingInv, NEW a \in 0..sent_max, NEW plain \in BOOLEAN, Ack(a, plain)
  PROVE  RingInv'
<1>0. TypeOK /\ TypeOK'
  BY AckTypes DEF RingInv
<1>1. /\ UNCHANGED <<ring, sent_head, sent_max, astray, written, wpc, wlen, flush>>
      /\ snd_nxt' = a \/ snd_nxt' = snd_nxt
  BY DEF Ack, NxtAfter, app
<1>2. Flushing'
  BY <1>1 DEF RingInv, Flushing
<1>3. a \in Nat /\ a <= sent_max /\ head_seq \in Nat
  BY <1>0 DEF TypeOK
<1>4. CASE a <= head_seq
  <2>1. UNCHANGED <<head, tail, head_seq, snd_una>>
    BY <1>4 DEF Ack
  <2>2. snd_nxt' <= sent_max \/ snd_nxt' = snd_nxt
    BY <1>1, <1>3
  <2> QED BY <1>0, <1>1, <1>2, <2>1, <2>2, RingFrame
<1>5. CASE ~(a <= head_seq)
  <2> DEFINE n == a - head_seq
  <2>1. n \in Nat /\ n > 0 /\ RemoveData(n)
    BY <1>3, <1>5 DEF Ack
  <2>2. /\ head \in Index /\ sent_head \in Index /\ tail \in 0..Size
        /\ Used \in Nat /\ Sent \in Nat /\ sent_max \in Nat /\ snd_nxt \in Nat
        /\ wlen \in Nat
    BY <1>0, RingTypes
  <2>3. ASSUME ~astray
        PROVE  /\ head' = Wrap(head + n) /\ head_seq' = head_seq + n /\ tail' = tail
               /\ Used' = Used - n /\ Sent' = Sent - n /\ n <= Sent
               /\ Sent <= Used /\ Used < Size
    <3>1. /\ sent_max <= head_seq + Sent /\ Sent <= Used /\ Used < Size
          /\ tail = Size => Sent < Used
      BY <2>3 DEF RingInv, Bounds, Seqs
    <3>2. n <= Sent /\ n <= Used /\ (tail = Size => n < Used)
      BY <1>3, <2>2, <3>1
    <3>3. head' = Wrap(head + n) /\ head_seq' = head_seq + n /\ tail' = tail
      <4>1. ~(n > Distance(head, tail))
        BY <2>1, <2>2, <3>2 DEF Used
      <4> HIDE DEF n
      <4> QED BY <2>1, <4>1 DEF RemoveData
    <3>4. Distance(Wrap(head + n), tail) = Distance(head, tail) - n
      BY <2>1, <2>2, <3>1, <3>2, HeadMoves DEF Used
    <3>5. sent_head \in 0..Size /\ sent_head # Size /\ Distance(head, sent_head) < Size
      BY <2>2, <3>1, SizeAssumption DEF Index, Sent
    <3>6. Distance(Wrap(head + n), sent_head) = Distance(head, sent_head) - n
      BY <2>1, <2>2, <3>2, <3>5, HeadMoves DEF Sent
    <3>7. /\ Used' = Distance(Wrap(head + n), tail)
          /\ Sent' = Distance(Wrap(head + n), sent_head)
      BY <1>1, <3>3 DEF Used, Sent, Distance
    <3> QED BY <3>1, <3>2, <3>3, <3>4, <3>6, <3>7 DEF Used, Sent
  <2>4. Bounds'
    <3> SUFFICES ASSUME ~astray
                 PROVE  /\ Used' < Size /\ head_seq' + Used' = written'
                        /\ Sent' <= Used' /\ (tail' = Size => Sent' < Used')
      BY <1>1 DEF Bounds
    <3>1. head_seq + Used = written /\ (tail = Size => Sent < Used)
      BY DEF RingInv, Bounds
    <3> QED BY <1>1, <1>3, <2>1, <2>2, <2>3, <3>1, SizeAssumption
  <2>5. Seqs'
    <3>1. snd_una' = a
      BY <1>5 DEF Ack
    <3>2. snd_nxt' <= sent_max' /\ snd_una' <= sent_max'
      BY <1>1, <1>3, <3>1 DEF RingInv, Seqs
    <3>3. ASSUME ~astray PROVE sent_max' <= head_seq' + Sent'
      <4>1. sent_max <= head_seq + Sent
        BY <3>3 DEF RingInv, Seqs
      <4> QED BY <1>1, <1>3, <2>1, <2>2, <2>3, <3>3, <4>1
    <3> QED BY <1>1, <3>2, <3>3 DEF Seqs
  <2>6. Content'
    <3> SUFFICES ASSUME ~astray, NEW d \in 0..(Used - n - 1)
                 PROVE  ring[Wrap(Wrap(head + n) + d)] = (head_seq + n) + d
      BY <1>1, <2>3 DEF Content, Wrap
    <3>1. n + d \in 0..(Used - 1) /\ n + d < Size /\ d \in Nat
      BY <2>1, <2>2, <2>3, SizeAssumption
    <3>2. ring[Wrap(head + (n + d))] = head_seq + (n + d)
      BY <3>1 DEF RingInv, Content
    <3>3. Wrap(Wrap(head + n) + d) = Wrap(head + (n + d))
      BY <2>1, <2>2, <3>1, WrapAgain
    <3> QED BY <1>3, <2>1, <3>1, <3>2, <3>3
  <2>7. Writing'
    BY <1>1, <2>1, <2>2, <2>3, SizeAssumption DEF RingInv, Writing
  <2> QED BY <1>0, <1>2, <2>4, <2>5, <2>6, <2>7 DEF RingInv
<1> QED BY <1>4, <1>5

\* The initial ring is empty.
LEMMA InitRing == Init => RingInv
<1> SUFFICES ASSUME Init PROVE RingInv
  OBVIOUS
<1>1. TypeOK
  BY InitIInv DEF IInv
<1>2. Used = 0 /\ Sent = 0
  BY DEF Init, Used, Sent, Distance
<1> QED BY <1>1, <1>2, SizeAssumption
    DEF Init, RingInv, Bounds, Seqs, Content, Writing, Flushing, NoFlush

\* Every step keeps the bytes in their places.
LEMMA NextRing == RingInv /\ [Next]_vars => RingInv'
<1> SUFFICES ASSUME RingInv, [Next]_vars PROVE RingInv'
  OBVIOUS
<1>1. TypeOK /\ TypeOK'
  BY NextTypes DEF RingInv
<1>2. CASE Acks
  BY <1>2, AckRing DEF Acks
<1>3. CASE NetWrite \/ RtoGiveUp \/ UNCHANGED vars
  <2>1. UNCHANGED <<ring, head, sent_head, tail, head_seq, sent_max, astray, written,
                    wpc, wlen, snd_nxt, snd_una, flush>>
    BY <1>3 DEF NetWrite, RtoGiveUp, vars, area, block, app, history
  <2>2. Flushing'
    BY <2>1 DEF RingInv, Flushing
  <2> QED BY <1>1, <2>1, <2>2, RingFrame
<1>4. CASE FlushNothing \/ FlushBegin \/ FlushDone \/ FlushRefused
  <2>1. UNCHANGED <<ring, head, sent_head, tail, head_seq, sent_max, astray, written,
                    wpc, wlen, snd_nxt, snd_una>>
    BY <1>4 DEF FlushNothing, FlushBegin, FlushDone, FlushRefused, FlushEnd, area, block,
                app, history
  <2>2. Flushing'
    BY <1>4, <2>1 DEF FlushNothing, FlushBegin, FlushDone, FlushRefused, FlushEnd,
                      Flushing, NoFlush
  <2> QED BY <1>1, <2>1, <2>2, RingFrame
<1>5. CASE RtoResend
  <2>1. UNCHANGED <<ring, head, sent_head, tail, head_seq, sent_max, astray, written,
                    wpc, wlen, flush, snd_una>> /\ snd_nxt' = snd_una
    BY <1>5 DEF RtoResend, area, app
  <2>2. Flushing'
    BY <2>1 DEF RingInv, Flushing
  <2>3. snd_nxt' <= sent_max
    BY <2>1 DEF RingInv, Seqs
  <2> QED BY <1>1, <2>1, <2>2, <2>3, RingFrame
<1> QED BY <1>2, <1>3, <1>4, <1>5, ApplicationRing, FlushSegmentRing DEF Next, Flush

-----------------------------------------------------------------------------
(* The theorems. *)

\* The indices of the send buffer stay in the ring and the block keeps its
\* types, whatever the interleaving of usnet_write with the net process.
THEOREM TypeCorrect == Spec => []TypeOK
<1>1. IInv => TypeOK
  BY DEF IInv
<1> QED BY <1>1, InitIInv, NextIInv, PTL DEF Spec

\* With the connection open, data is in flight only with the retransmission
\* timer armed, for acknowledgements, duplicates and timeouts in every order.
THEOREM DataInFlightIsTimed == Spec => []InFlightIsTimed
<1>1. IInv => InFlightIsTimed
  BY DEF IInv
<1> QED BY <1>1, InitIInv, NextIInv, PTL DEF Spec

\* The buffer holds exactly the written bytes that are not acknowledged, each in
\* its place: usnet_write never overwrites a byte the net process may still have
\* to send, although the head it tested moves meanwhile.  This holds as long as
\* no flush has gone beyond what was written (~astray).
THEOREM UnackedBytesAreKept == Spec => []UnackedIsKept
<1>1. RingInv => UnackedIsKept
  <2> SUFFICES ASSUME RingInv, ~astray
               PROVE  /\ head_seq + Used = written
                      /\ \A k \in head_seq..(written - 1) :
                           ring[Wrap(head + (k - head_seq))] = k
    BY DEF UnackedIsKept, Used
  <2>1. head_seq + Used = written
    BY DEF RingInv, Bounds
  <2>2. head_seq \in Nat /\ Used \in Nat
    BY RingTypes DEF RingInv
  <2>3. ASSUME NEW k \in head_seq..(written - 1)
        PROVE  ring[Wrap(head + (k - head_seq))] = k
    <3>1. k - head_seq \in 0..(Used - 1) /\ head_seq + (k - head_seq) = k
      BY <2>1, <2>2
    <3> QED BY <3>1 DEF RingInv, Content
  <2> QED BY <2>1, <2>3
<1> QED BY <1>1, InitRing, NextRing, PTL DEF Spec

\* As long as no flush has gone beyond what was written (~astray), what the
\* flush has taken lies in the buffer, and no acknowledgement of the peer can
\* free a byte that was not sent.
THEOREM SentLiesBetween == Spec => []SentBetween
<1>1. RingInv => SentBetween
  BY DEF RingInv, Bounds, Seqs, SentBetween, Used, Sent
<1> QED BY <1>1, InitRing, NextRing, PTL DEF Spec
=============================================================================
