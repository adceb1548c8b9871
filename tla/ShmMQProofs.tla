----------------------------- MODULE ShmMQProofs -----------------------------
(***************************************************************************)
(* Proofs about the byte ring of mq.c for every block size, header size    *)
(* and set of message lengths: it never overruns, its assertion never      *)
(* fails, and it is a FIFO queue of whole messages.                        *)
(***************************************************************************)
EXTENDS ShmMQ, TLAPS

\* The ring seen as a line: the byte d places after position h, and the number
\* of places from h to t.
At(h, d) == IF h + d < BlockSize THEN h + d ELSE h + d - BlockSize
Dist(h, t) == IF t >= h THEN t - h ELSE t + BlockSize - h

Total(m) == HeadSize + sent[m].len

\* The two positions bracket exactly the published bytes that are unread.
\* Position 0 is only ever the initial one: later wraps give 1..BlockSize.
Geometry ==
  /\ Pending = Dist(head, tail)
  /\ Pending < BlockSize
  /\ tail = 0 => head = 0

\* The published messages lie one after the other in the stream of bytes.
Stream ==
  /\ nread <= Len(sent)
  /\ \A m \in 1..Len(sent) :
       /\ sent[m].len \in Lens
       /\ Start(m + 1) = sent[m].start + Total(m)
       /\ sent[m].start + Total(m) <= nbytes
  /\ \A m, n \in 1..Len(sent) : m < n => sent[m].start + Total(m) <= sent[n].start

\* Every byte of every unread message is in its place.
Content ==
  \A m \in (nread + 1)..Len(sent) : \A i \in 0..(Total(m) - 1) :
    block[At(head, sent[m].start - Start(nread + 1) + i)] = ByteOf(m, i, Total(m))

\* The writer inside usnet_write_mq: there is room for the whole message in
\* front of the reader, and the bytes copied so far are in place.
Writing ==
  wpc = "copy" =>
    /\ wlen \in Lens
    /\ Len(sent) < MaxMsgs
    /\ wpos <= HeadSize + wlen
    /\ Pending + HeadSize + wlen < BlockSize
    /\ \A i \in 0..(wpos - 1) :
         block[At(tail, i)] = ByteOf(Len(sent) + 1, i, HeadSize + wlen)

\* The reader inside usnet_read_mq: the _tail it loaded lies beyond the message.
Reading ==
  rpc # "idle" =>
    /\ nread < Len(sent)
    /\ rtail # head
    /\ Dist(head, rtail) >= Total(nread + 1)
    /\ Len(rbuf) <= Total(nread + 1)
    /\ rpc = "header" => Len(rbuf) <= HeadSize
    /\ rpc = "body" => Len(rbuf) >= HeadSize
    /\ \A j \in 1..Len(rbuf) :
         rbuf[j] = ByteOf(nread + 1, j - 1, Total(nread + 1))

\* The inductive invariant.
IInv == TypeOK /\ Geometry /\ Stream /\ Content /\ Writing /\ Reading

-----------------------------------------------------------------------------
(* Ring arithmetic: the branches of the code compute the line view. *)

\* The three copy cases of usnet_write_mq store byte i exactly i places after
\* _tail, inside the block.
LEMMA WriteIndexIsAt ==
  ASSUME NEW t \in 0..BlockSize, NEW total \in Nat, HeadSize < total,
         total < BlockSize, NEW i \in 0..(total - 1)
  PROVE  /\ WriteIndex(t, i, total) = At(t, i)
         /\ At(t, i) \in 0..(BlockSize - 1)
  BY SizeAssumption DEF WriteIndex, At

\* The three stores of _tail advance it by the length of the message.
LEMMA NextTailAdvances ==
  ASSUME NEW h \in 0..BlockSize, NEW t \in 0..BlockSize, t = 0 => h = 0,
         NEW total \in Nat, HeadSize < total, Dist(h, t) + total < BlockSize
  PROVE  /\ NextTail(t, total) \in 1..BlockSize
         /\ Dist(h, NextTail(t, total)) = Dist(h, t) + total
  BY SizeAssumption DEF NextTail, Dist

\* Counting from _tail or from _head reaches the same byte.
LEMMA AtShift ==
  ASSUME NEW h \in 0..BlockSize, NEW t \in 0..BlockSize, NEW d \in Nat,
         Dist(h, t) + d < BlockSize
  PROVE  At(t, d) = At(h, Dist(h, t) + d)
  BY SizeAssumption DEF At, Dist

\* Different distances below BlockSize are different bytes of the block.
LEMMA AtInjective ==
  ASSUME NEW h \in 0..BlockSize, NEW d \in 0..(BlockSize - 1),
         NEW e \in 0..(BlockSize - 1), d # e
  PROVE  At(h, d) # At(h, e)
  BY SizeAssumption DEF At

\* The header loads of usnet_read_mq.
LEMMA HeaderIndexIsAt ==
  ASSUME NEW h \in 0..BlockSize, NEW i \in 0..(HeadSize - 1)
  PROVE  HeaderIndex(h, i) = At(h, i)
  BY SizeAssumption DEF HeaderIndex, At

\* The data loads of usnet_read_mq.
LEMMA DataIndexIsAt ==
  ASSUME NEW h \in 0..BlockSize, NEW len \in Nat, HeadSize + len < BlockSize,
         NEW i \in 0..(len - 1)
  PROVE  DataIndex(h, i, len) = At(h, HeadSize + i)
  BY SizeAssumption DEF DataIndex, AfterHeader, At

\* The two stores of _head advance it by the length of the message.
LEMMA NextHeadAdvances ==
  ASSUME NEW h \in 0..BlockSize, NEW t \in 1..BlockSize, NEW len \in Nat \ {0},
         Dist(h, t) < BlockSize, HeadSize + len <= Dist(h, t)
  PROVE  /\ NextHead(h, len) \in 1..BlockSize
         /\ Dist(NextHead(h, len), t) = Dist(h, t) - (HeadSize + len)
         /\ \A d \in Nat : HeadSize + len + d < BlockSize =>
              At(NextHead(h, len), d) = At(h, HeadSize + len + d)
  BY SizeAssumption DEF NextHead, AfterHeader, Dist, At

-----------------------------------------------------------------------------
(* The inductive invariant. *)

\* The empty ring satisfies the invariant.
LEMMA InitIInv == Init => IInv
<1> SUFFICES ASSUME Init PROVE IInv
  OBVIOUS
<1> USE SizeAssumption DEF Init
<1>1. TypeOK
  <2>1. block \in [0..(BlockSize - 1) -> Byte]
    BY DEF Byte
  <2> QED BY <2>1 DEF TypeOK
<1>2. Pending = 0 /\ nread = 0 /\ Len(sent) = 0
  BY DEF Pending, nread, Start
<1>3. Geometry
  BY <1>2 DEF Geometry, Dist
<1>4. Stream /\ Content /\ Writing /\ Reading
  BY <1>2 DEF Stream, Content, Writing, Reading
<1> QED BY <1>1, <1>3, <1>4 DEF IInv

\* Facts about the oldest unread message used by the reader's steps.
LEMMA OldestUnread ==
  ASSUME IInv, nread < Len(sent)
  PROVE  /\ sent[nread + 1].len \in Nat \ {0}
         /\ Total(nread + 1) \in Nat
         /\ Total(nread + 1) <= Pending
         /\ Start(nread + 1) = sent[nread + 1].start
         /\ Pending \in Nat
         /\ nread \in Nat
         /\ tail # 0
         /\ \A i \in 0..(Total(nread + 1) - 1) :
              block[At(head, i)] = ByteOf(nread + 1, i, Total(nread + 1))
<1> USE DEF IInv
<1>1. nread \in Nat /\ nread + 1 \in 1..Len(sent) /\ Len(sent) \in Nat
  BY DEF nread, TypeOK
<1>2. sent[nread + 1] \in Msg
  BY <1>1 DEF TypeOK
<1>3. /\ sent[nread + 1].len \in Nat \ {0}
      /\ sent[nread + 1].start \in Nat
  BY <1>1, <1>2, SizeAssumption DEF Stream, Msg
<1>4. Start(nread + 1) = sent[nread + 1].start
  BY <1>1 DEF Start
<1>5. Total(nread + 1) \in Nat /\ Total(nread + 1) <= Pending /\ Pending \in Nat
  <2>1. sent[nread + 1].start + Total(nread + 1) <= nbytes
    BY <1>1 DEF Stream
  <2>2. nbytes \in Nat
    BY DEF TypeOK
  <2>3. Total(nread + 1) = HeadSize + sent[nread + 1].len
    BY DEF Total
  <2>4. Pending = nbytes - sent[nread + 1].start
    BY <1>4 DEF Pending
  <2>5. HeadSize \in Nat
    BY SizeAssumption
  <2> HIDE DEF IInv
  <2> QED BY <1>3, <2>1, <2>2, <2>3, <2>4, <2>5, SMTT(30)
<1>6. tail # 0
  BY <1>3, <1>5, SizeAssumption DEF Geometry, Dist, TypeOK, Total
<1>7. ASSUME NEW i \in 0..(Total(nread + 1) - 1)
      PROVE  block[At(head, i)] = ByteOf(nread + 1, i, Total(nread + 1))
  <2>1. sent[nread + 1].start - Start(nread + 1) + i = i
    BY <1>3, <1>4, <1>5
  <2>2. nread + 1 \in (nread + 1)..Len(sent)
    BY <1>1
  <2> QED BY <2>1, <2>2 DEF Content
<1> QED BY <1>1, <1>3, <1>4, <1>5, <1>6, <1>7

\* Steps that touch neither the ring nor the history keep what they say.
LEMMA RingFrame ==
  ASSUME IInv, UNCHANGED <<shared, history>>
  PROVE  /\ Geometry' /\ Stream' /\ Content'
         /\ Pending' = Pending /\ nread' = nread
         /\ \A m : Total(m)' = Total(m)
<1> USE DEF shared, history
<1>1. nread' = nread /\ Pending' = Pending /\ (\A m : Start(m)' = Start(m))
  BY DEF nread, Pending, Start
<1>2. \A m : Total(m)' = Total(m)
  BY DEF Total
<1>3. Geometry'
  BY <1>1 DEF IInv, Geometry, Dist
<1>4. Stream'
  BY <1>1, <1>2 DEF IInv, Stream
<1>5. Content'
  BY <1>1, <1>2 DEF IInv, Content, At, ByteOf
<1> QED BY <1>1, <1>2, <1>3, <1>4, <1>5

\* Where nothing is unread, _head = _tail.
LEMMA PendingBasics ==
  ASSUME IInv
  PROVE  /\ nread \in Nat /\ Len(sent) \in Nat /\ nread <= Len(sent)
         /\ Pending \in Nat
         /\ (head = tail) <=> (Pending = 0)
         /\ (nread = Len(sent)) <=> (Pending = 0)
<1>1. nread \in Nat /\ Len(sent) \in Nat /\ nread <= Len(sent)
  BY DEF IInv, TypeOK, Stream, nread
<1>2. CASE nread = Len(sent)
  <2>1. Pending = 0
    BY <1>1, <1>2 DEF IInv, TypeOK, Pending, Start
  <2>2. head = tail
    BY <2>1, SizeAssumption DEF IInv, TypeOK, Geometry, Dist
  <2> QED BY <1>1, <1>2, <2>1, <2>2
<1>3. CASE nread < Len(sent)
  <2>1. Pending \in Nat /\ Pending > 0
    BY <1>1, <1>3, OldestUnread, SizeAssumption DEF Total
  <2>2. head # tail
    BY <2>1, SizeAssumption DEF IInv, TypeOK, Geometry, Dist
  <2> QED BY <1>1, <1>3, <2>1, <2>2
<1> QED BY <1>1, <1>2, <1>3

LEMMA WriteBeginIInv ==
  ASSUME IInv, NEW len \in Lens, WriteBegin(len)
  PROVE  IInv'
<1> USE SizeAssumption
<1>1. UNCHANGED <<shared, history, rpc, rtail, rbuf>>
  BY DEF WriteBegin, reader
<1>2. TypeOK'
  BY DEF IInv, TypeOK, WriteBegin, shared, reader, history
<1>3. /\ Geometry' /\ Stream' /\ Content' /\ nread' = nread
      /\ Pending' = Pending /\ \A m : Total(m)' = Total(m)
  BY <1>1, RingFrame
<1>4. Writing'
  <2>1. Pending + HeadSize + len < BlockSize
    BY DEF IInv, TypeOK, Geometry, Dist, WriteBegin, HasRoom, FreeLen
  <2> QED BY <1>3, <2>1 DEF Writing, WriteBegin, history
<1>5. Reading'
  BY <1>1, <1>3 DEF IInv, Reading, Dist, ByteOf, shared, history
<1> QED BY <1>2, <1>3, <1>4, <1>5 DEF IInv

\* The writer's locals while it copies.
LEMMA WritingBasics ==
  ASSUME IInv, wpc = "copy"
  PROVE  /\ wlen \in Nat \ {0} /\ wpos \in Nat /\ wpos <= HeadSize + wlen
         /\ HeadSize + wlen \in Nat /\ HeadSize < HeadSize + wlen
         /\ Pending \in Nat /\ Pending = Dist(head, tail)
         /\ Pending + (HeadSize + wlen) < BlockSize
         /\ head \in 0..BlockSize /\ tail \in 0..BlockSize
<1>1. Pending \in Nat /\ Pending = Dist(head, tail)
  BY PendingBasics DEF IInv, Geometry
<1>2. /\ wlen \in Lens /\ wpos <= HeadSize + wlen
      /\ Pending + HeadSize + wlen < BlockSize
  BY DEF IInv, Writing
<1>3. wpos \in Nat /\ head \in 0..BlockSize /\ tail \in 0..BlockSize
  BY DEF IInv, TypeOK
<1> QED BY <1>1, <1>2, <1>3, SizeAssumption

\* A byte of an unread message lies less than Pending places after _head.
LEMMA UnreadOffset ==
  ASSUME IInv, NEW m \in (nread + 1)..Len(sent), NEW i \in 0..(Total(m) - 1)
  PROVE  /\ sent[m].start - Start(nread + 1) + i \in 0..(Pending - 1)
         /\ m \in 1..Len(sent)
         /\ sent[m].start \in Nat /\ Total(m) \in Nat /\ Start(nread + 1) \in Nat
         /\ nread + 1 < m =>
              sent[m].start >= Start(nread + 1) + Total(nread + 1)
<1>1. /\ nread \in Nat /\ Len(sent) \in Nat /\ m \in 1..Len(sent)
      /\ nread < Len(sent) /\ nread + 1 \in 1..Len(sent)
  BY PendingBasics
<1>2. sent[m] \in Msg /\ sent[nread + 1] \in Msg /\ nbytes \in Nat
  BY <1>1 DEF IInv, TypeOK
<1>3. /\ sent[m].start \in Nat /\ sent[m].len \in Nat
      /\ sent[nread + 1].start \in Nat /\ sent[nread + 1].len \in Nat
  BY <1>2 DEF Msg
<1>4. Start(nread + 1) = sent[nread + 1].start
  BY <1>1, OldestUnread
<1>5. /\ sent[m].start + Total(m) <= nbytes
      /\ nread + 1 < m => sent[nread + 1].start + Total(nread + 1) <= sent[m].start
  BY <1>1 DEF IInv, Stream
<1>6. /\ Total(m) = HeadSize + sent[m].len /\ Total(m) \in Nat
      /\ Total(nread + 1) \in Nat
  <2>1. /\ Total(m) = HeadSize + sent[m].len
        /\ Total(nread + 1) = HeadSize + sent[nread + 1].len
    BY Zenon DEF Total
  <2>2. HeadSize \in Nat
    BY SizeAssumption
  <2> QED BY <1>3, <2>1, <2>2, SMTT(30)
<1>7. sent[m].start >= Start(nread + 1)
  <2>1. CASE m = nread + 1
    BY <1>3, <1>4, <2>1
  <2>2. CASE m > nread + 1
    BY <1>1, <1>3, <1>4, <1>5, <1>6, <2>2
  <2> QED BY <1>1, <2>1, <2>2
<1>8. Pending = nbytes - Start(nread + 1)
  BY DEF Pending
<1>9. sent[m].start - Start(nread + 1) + i \in 0..(Pending - 1)
  <2>1. /\ sent[m].start \in Nat /\ Start(nread + 1) \in Nat /\ Total(m) \in Nat
        /\ sent[m].start + Total(m) <= nbytes /\ nbytes \in Nat
    BY <1>2, <1>3, <1>4, <1>5, <1>6
  <2>2. i \in Nat /\ i < Total(m)
    BY <2>1
  <2> QED BY <1>7, <1>8, <2>1, <2>2, SMTT(30)
<1> QED BY <1>1, <1>3, <1>4, <1>5, <1>6, <1>9

\* The byte stored lies beyond every unread byte and beyond the bytes already
\* copied, so neither is disturbed.
LEMMA CopyByteIInv ==
  ASSUME IInv, CopyByte
  PROVE  IInv'
<1> USE SizeAssumption
<1> DEFINE total == HeadSize + wlen
           p == At(tail, wpos)
<1>1. /\ wpc = "copy" /\ wpos < total /\ wpos \in Nat /\ total \in Nat
      /\ HeadSize < total /\ Pending + total < BlockSize
      /\ head \in 0..BlockSize /\ tail \in 0..BlockSize
  BY WritingBasics DEF CopyByte
<1>2. Pending \in Nat /\ Pending = Dist(head, tail) /\ wlen \in Lens
  BY <1>1, WritingBasics DEF IInv, Writing
<1>3. /\ WriteIndex(tail, wpos, total) = p
      /\ p \in 0..(BlockSize - 1)
  BY <1>1, <1>2, WriteIndexIsAt
<1>4. /\ block' = [block EXCEPT ![p] = ByteOf(Len(sent) + 1, wpos, total)]
      /\ UNCHANGED <<head, tail, wpc, wlen, rpc, rtail, rbuf, sent, nbytes, got>>
      /\ wpos' = wpos + 1
  BY <1>3 DEF CopyByte, reader, history
<1>5. ByteOf(Len(sent) + 1, wpos, total) \in Byte /\ Len(sent) \in Nat
  <2>1. Len(sent) \in Nat
    BY DEF IInv, TypeOK
  <2> QED BY <1>1, <2>1 DEF ByteOf, Byte
<1>6. TypeOK'
  <2>1. block' \in [0..(BlockSize - 1) -> Byte]
    BY <1>3, <1>4, <1>5 DEF IInv, TypeOK
  <2> QED BY <1>1, <1>4, <2>1 DEF IInv, TypeOK
<1>7. /\ nread' = nread /\ Pending' = Pending
      /\ (\A m : Start(m)' = Start(m)) /\ (\A m : Total(m)' = Total(m))
  BY <1>4 DEF nread, Pending, Start, Total
<1>8. Geometry' /\ Stream'
  BY <1>4, <1>7 DEF IInv, Geometry, Stream, Dist
<1>9. p = At(head, Pending + wpos)
  BY <1>1, <1>2, AtShift
<1>10. block \in [0..(BlockSize - 1) -> Byte]
  BY DEF IInv, TypeOK
<1>11. Content'
  <2> SUFFICES ASSUME NEW m \in (nread + 1)..Len(sent), NEW i \in 0..(Total(m) - 1)
               PROVE  block'[At(head, sent[m].start - Start(nread + 1) + i)]
                        = ByteOf(m, i, Total(m))
    BY <1>4, <1>7 DEF Content, At, ByteOf
  <2> DEFINE d == sent[m].start - Start(nread + 1) + i
  <2>1. block[At(head, d)] = ByteOf(m, i, Total(m))
    BY DEF IInv, Content
  <2>8. d \in 0..(Pending - 1)
    BY UnreadOffset
  <2>9. At(head, d) # p
    <3> HIDE DEF d, p
    <3>1. /\ d \in 0..(BlockSize - 1) /\ Pending + wpos \in 0..(BlockSize - 1)
          /\ d # Pending + wpos
      BY <1>1, <1>2, <2>8, SMTT(30)
    <3> QED BY <1>1, <1>9, <3>1, AtInjective
  <2> QED BY <1>3, <1>4, <1>10, <2>1, <2>9
<1>12. Writing'
  <2>1. ASSUME NEW i \in 0..wpos
        PROVE  block'[At(tail, i)] = ByteOf(Len(sent) + 1, i, total)
    <3>1. CASE i = wpos
      BY <1>3, <1>4, <1>10, <3>1
    <3>2. CASE i # wpos
      <4>1. At(tail, i) # p
        BY <1>1, <1>2, <3>2, AtInjective
      <4>2. block[At(tail, i)] = ByteOf(Len(sent) + 1, i, total)
        BY <1>1, <3>2 DEF IInv, Writing
      <4> QED BY <1>3, <1>4, <1>10, <4>1, <4>2
    <3> QED BY <3>1, <3>2
  <2>2. wpos' - 1 = wpos /\ wpos' <= total
    BY <1>1, <1>4
  <2>3. Pending + HeadSize + wlen < BlockSize /\ Len(sent) < MaxMsgs
    BY <1>1 DEF IInv, Writing
  <2> QED BY <1>2, <1>4, <1>7, <2>1, <2>2, <2>3 DEF Writing, At, ByteOf
<1>13. Reading'
  BY <1>4, <1>7 DEF IInv, Reading, Dist, ByteOf
<1> QED BY <1>6, <1>8, <1>11, <1>12, <1>13 DEF IInv

\* Publishing turns the copied bytes into the newest unread message; the
\* oldest unread byte does not move.
LEMMA PublishTailIInv ==
  ASSUME IInv, PublishTail
  PROVE  IInv'
<1> USE SizeAssumption
<1> DEFINE total == HeadSize + wlen
<1>0. PICK n : n = Len(sent) + 1
  OBVIOUS
<1>1. /\ wpc = "copy" /\ wpos = total /\ total \in Nat /\ wlen \in Nat
      /\ HeadSize < total /\ Pending + total < BlockSize
      /\ Pending \in Nat /\ Pending = Dist(head, tail)
      /\ head \in 0..BlockSize /\ tail \in 0..BlockSize
  BY WritingBasics DEF PublishTail
<1>2. /\ tail' = NextTail(tail, total) /\ wpc' = "idle"
      /\ sent' = Append(sent, [len |-> wlen, start |-> nbytes])
      /\ nbytes' = nbytes + total
      /\ UNCHANGED <<block, head, wlen, wpos, rpc, rtail, rbuf, got>>
  <2>1. nbytes \in Nat
    BY DEF IInv, TypeOK
  <2> QED BY <1>1, <2>1 DEF PublishTail, reader
<1>3. sent \in Seq(Msg) /\ nbytes \in Nat /\ Len(sent) \in Nat
      /\ n \in Nat /\ n = Len(sent) + 1
  BY <1>0 DEF IInv, TypeOK
<1>4. /\ sent' \in Seq(Msg) /\ Len(sent') = n
      /\ \A m \in 1..Len(sent) : sent'[m] = sent[m]
      /\ sent'[n] = [len |-> wlen, start |-> nbytes]
  <2>1. [len |-> wlen, start |-> nbytes] \in Msg
    BY <1>1, <1>3 DEF Msg
  <2> QED BY <1>2, <1>3, <2>1
<1>5. tail' \in 1..BlockSize /\ Dist(head, tail') = Pending + total
  BY <1>1, <1>2, NextTailAdvances DEF IInv, Geometry
<1>6. TypeOK'
  <2>1. tail' \in 0..BlockSize /\ nbytes' \in Nat
    BY <1>1, <1>2, <1>3, <1>5
  <2> QED BY <1>2, <1>4, <2>1 DEF IInv, TypeOK
<1>7. /\ nread' = nread /\ nread \in Nat /\ nread <= Len(sent)
      /\ \A m \in 1..Len(sent) : Total(m)' = Total(m)
      /\ Total(n)' = total
  <2>1. nread' = nread /\ nread \in Nat /\ nread <= Len(sent)
    BY <1>2, PendingBasics DEF nread
  <2>2. \A m \in 1..Len(sent) : Total(m)' = Total(m)
    BY <1>4 DEF Total
  <2>3. Total(n)' = total
    BY <1>2, <1>4 DEF Total
  <2> QED BY <2>1, <2>2, <2>3
<1>8. \A m \in 1..n : Start(m)' = Start(m)
  <2> SUFFICES ASSUME NEW m \in 1..n PROVE Start(m)' = Start(m)
    OBVIOUS
  <2>1. CASE m = n
    BY <1>3, <1>4, <2>1 DEF Start
  <2>2. CASE m # n
    BY <1>3, <1>4, <2>2 DEF Start
  <2> QED BY <2>1, <2>2
<1>9. Start(n + 1)' = nbytes + total
  BY <1>2, <1>3, <1>4 DEF Start
<1>10. Start(nread + 1)' = Start(nread + 1) /\ Start(nread + 1) \in Int
  <2>1. nread + 1 \in 1..n
    BY <1>3, <1>7
  <2>2. Start(nread + 1)' = Start(nread + 1)
    BY <1>7, <1>8, <2>1 DEF Start
  <2>3. CASE nread < Len(sent)
    <3>1. sent[nread + 1] \in Msg /\ nread + 1 <= Len(sent)
      BY <1>3, <1>7, <2>3
    <3> QED BY <2>2, <3>1 DEF Start, Msg
  <2>4. CASE nread = Len(sent)
    BY <1>3, <2>2, <2>4 DEF Start
  <2> QED BY <1>3, <1>7, <2>3, <2>4
<1>11. Pending' = Pending + total
  BY <1>1, <1>2, <1>3, <1>7, <1>10 DEF Pending
<1>12. Geometry'
  BY <1>1, <1>2, <1>5, <1>11 DEF Geometry, Dist
<1>13. Stream'
  <2>1. nread' <= Len(sent)'
    BY <1>3, <1>4, <1>7
  <2>2. ASSUME NEW m \in 1..Len(sent')
        PROVE  /\ sent'[m].len \in Lens
               /\ Start(m + 1)' = sent'[m].start + Total(m)'
               /\ sent'[m].start + Total(m)' <= nbytes'
    <3>1. CASE m = n
      <4>1. wlen \in Lens
        BY <1>1 DEF IInv, Writing
      <4>2. /\ sent'[m].len = wlen /\ sent'[m].start = nbytes
            /\ Total(m)' = total /\ Start(m + 1)' = nbytes + total
        BY <1>4, <1>7, <1>9, <3>1
      <4> QED BY <1>1, <1>2, <1>3, <4>1, <4>2
    <3>2. CASE m # n
      <4>1. m \in 1..Len(sent) /\ m + 1 \in 1..n
        BY <1>3, <1>4, <3>2
      <4>2. /\ sent[m].len \in Lens /\ Start(m + 1) = sent[m].start + Total(m)
            /\ sent[m].start + Total(m) <= nbytes
        BY <4>1 DEF IInv, Stream
      <4>3. sent[m].start + Total(m) \in Nat
        <5>1. sent[m] \in Msg
          BY <1>3, <4>1
        <5> QED BY <5>1 DEF Msg, Total
      <4>4. Start(m + 1)' = Start(m + 1)
        BY <1>8, <4>1
      <4>5. sent'[m] = sent[m] /\ Total(m)' = Total(m)
        BY <1>4, <1>7, <4>1
      <4>6. sent'[m].start + Total(m)' <= nbytes'
        <5>1. sent[m].start + Total(m) <= nbytes + total
          <6>1. nbytes \in Nat /\ total \in Nat
            BY <1>1, <1>3
          <6> HIDE DEF total
          <6> QED BY <4>2, <4>3, <6>1, SMTT(30)
        <5> QED BY <1>2, <4>5, <5>1, Zenon
      <4> QED BY <4>2, <4>4, <4>5, <4>6
    <3> QED BY <3>1, <3>2
  <2>3. ASSUME NEW m \in 1..Len(sent'), NEW k \in 1..Len(sent'), m < k
        PROVE  sent'[m].start + Total(m)' <= sent'[k].start
    <3>1. m \in 1..Len(sent) /\ sent'[m] = sent[m] /\ Total(m)' = Total(m)
      BY <1>3, <1>4, <1>7, <2>3
    <3>2. CASE k = n
      BY <1>4, <3>1, <3>2 DEF IInv, Stream
    <3>3. CASE k # n
      <4>1. k \in 1..Len(sent) /\ sent'[k] = sent[k]
        BY <1>3, <1>4, <3>3
      <4> QED BY <2>3, <3>1, <4>1 DEF IInv, Stream
    <3> QED BY <3>2, <3>3
  <2> QED BY <2>1, <2>2, <2>3 DEF Stream
<1>14. Content'
  <2> SUFFICES ASSUME NEW m \in (nread' + 1)..Len(sent'), NEW i \in 0..(Total(m)' - 1)
               PROVE  (block[At(head, sent[m].start - Start(nread + 1) + i)])'
                        = ByteOf(m, i, Total(m))'
    BY DEF Content
  <2> SUFFICES block[At(head, sent'[m].start - Start(nread + 1) + i)]
                 = ByteOf(m, i, Total(m)')
    BY <1>2, <1>10 DEF At, ByteOf
  <2>0. m \in (nread + 1)..n
    BY <1>4, <1>7
  <2>1. CASE m = n
    <3>1. sent'[m].start - Start(nread + 1) + i = Pending + i
      BY <1>3, <1>4, <1>10, <2>1 DEF Pending
    <3>2. i \in 0..(wpos - 1) /\ Total(m)' = total
      BY <1>1, <1>7, <2>1
    <3>3. block[At(tail, i)] = ByteOf(n, i, total)
      BY <1>1, <1>3, <3>2 DEF IInv, Writing
    <3>4. At(tail, i) = At(head, Pending + i)
      BY <1>1, <3>2, AtShift
    <3> QED BY <2>1, <3>1, <3>2, <3>3, <3>4
  <2>2. CASE m # n
    <3>1. m \in (nread + 1)..Len(sent) /\ m \in 1..Len(sent)
      BY <1>3, <1>7, <2>0, <2>2
    <3>2. sent'[m] = sent[m] /\ Total(m)' = Total(m)
      BY <1>4, <1>7, <3>1
    <3> QED BY <3>1, <3>2 DEF IInv, Content
  <2> QED BY <2>1, <2>2
<1>15. Writing'
  BY <1>2 DEF Writing
<1>16. Reading'
  <2> SUFFICES ASSUME rpc # "idle" PROVE Reading'
    BY <1>2 DEF Reading
  <2>1. /\ nread < Len(sent) /\ rtail # head
        /\ Dist(head, rtail) >= Total(nread + 1) /\ Len(rbuf) <= Total(nread + 1)
        /\ rpc = "header" => Len(rbuf) <= HeadSize
        /\ rpc = "body" => Len(rbuf) >= HeadSize
        /\ \A j \in 1..Len(rbuf) :
             rbuf[j] = ByteOf(nread + 1, j - 1, Total(nread + 1))
    BY DEF IInv, Reading
  <2>2. Total(nread + 1)' = Total(nread + 1) /\ nread < Len(sent')
    <3>1. nread + 1 \in 1..Len(sent)
      BY <1>3, <1>7, <2>1
    <3> QED BY <1>3, <1>4, <1>7, <2>1, <3>1 DEF Total
  <2> QED BY <1>2, <1>7, <2>1, <2>2 DEF Reading, Dist, ByteOf
<1> QED BY <1>6, <1>12, <1>13, <1>14, <1>15, <1>16 DEF IInv

\* Steps of the reader that store nothing shared leave the writer's part alone.
LEMMA WriterFrame ==
  ASSUME IInv, UNCHANGED <<shared, writer, history>>
  PROVE  Writing'
<1>1. Pending' = Pending
  BY RingFrame
<1> QED BY <1>1 DEF IInv, Writing, At, ByteOf, shared, writer, history

\* The reader's locals while it reads: total_len decodes to the length of the
\* oldest unread message as soon as the first header byte is copied.
LEMMA ReadingBasics ==
  ASSUME IInv, rpc # "idle"
  PROVE  /\ nread < Len(sent) /\ nread \in Nat
         /\ Total(nread + 1) \in Nat /\ HeadSize < Total(nread + 1)
         /\ Total(nread + 1) = HeadSize + sent[nread + 1].len
         /\ Total(nread + 1) < BlockSize
         /\ rbuf \in Seq(Byte) /\ Len(rbuf) \in Nat
         /\ Len(rbuf) <= Total(nread + 1)
         /\ Len(rbuf) >= HeadSize => TotalLen = Total(nread + 1)
         /\ head \in 0..BlockSize
<1>1. nread < Len(sent) /\ Len(rbuf) <= Total(nread + 1)
  BY DEF IInv, Reading
<1>2. /\ sent[nread + 1].len \in Nat \ {0} /\ Total(nread + 1) \in Nat
      /\ Total(nread + 1) <= Pending /\ Pending \in Nat /\ nread \in Nat
  BY <1>1, OldestUnread
<1>3. Total(nread + 1) = HeadSize + sent[nread + 1].len
  BY DEF Total
<1>4. Pending < BlockSize
  BY DEF IInv, Geometry
<1>5. rbuf \in Seq(Byte) /\ Len(rbuf) \in Nat /\ head \in 0..BlockSize
  BY DEF IInv, TypeOK
<1>6. ASSUME Len(rbuf) >= HeadSize
      PROVE  TotalLen = Total(nread + 1)
  <2>1. 1 \in 1..Len(rbuf)
    BY <1>5, <1>6, SizeAssumption
  <2>2. rbuf[1] = ByteOf(nread + 1, 0, Total(nread + 1))
    BY <2>1 DEF IInv, Reading
  <2> QED BY <2>2 DEF TotalLen, ByteOf
<1>7. HeadSize < Total(nread + 1) /\ Total(nread + 1) < BlockSize
  BY <1>2, <1>3, <1>4, SizeAssumption
<1> QED BY <1>1, <1>2, <1>3, <1>5, <1>6, <1>7

LEMMA ReadBeginIInv ==
  ASSUME IInv, ReadBegin
  PROVE  IInv'
<1>1. UNCHANGED <<shared, writer, history>>
  BY DEF ReadBegin
<1>2. TypeOK'
  BY DEF IInv, TypeOK, ReadBegin, shared, writer, history
<1>3. /\ Geometry' /\ Stream' /\ Content' /\ nread' = nread
      /\ Pending' = Pending /\ \A m : Total(m)' = Total(m)
  BY <1>1, RingFrame
<1>4. Reading'
  <2>1. nread < Len(sent)
    BY PendingBasics DEF ReadBegin
  <2>2. Dist(head, tail) >= Total(nread + 1) /\ Total(nread + 1) \in Nat
    BY <2>1, OldestUnread DEF IInv, Geometry
  <2>3. Total(nread + 1)' = Total(nread + 1)
    BY <1>1 DEF Total, nread, history
  <2> QED BY <1>1, <1>3, <2>1, <2>2, <2>3, SizeAssumption
      DEF Reading, ReadBegin, Dist, shared, history
<1> QED BY <1>1, <1>2, <1>3, <1>4, WriterFrame DEF IInv

\* A copied byte is the next byte of the oldest unread message, whichever of
\* the two loops copies it.
LEMMA ReadByteIInv ==
  ASSUME IInv, ReadHeaderByte \/ ReadBodyByte
  PROVE  IInv'
<1> USE SizeAssumption
<1> DEFINE k == Len(rbuf)
<1>1. /\ UNCHANGED <<shared, writer, history, rpc, rtail>>
      /\ rpc # "idle"
  BY DEF ReadHeaderByte, ReadBodyByte
<1>2. /\ nread < Len(sent) /\ nread \in Nat
      /\ Total(nread + 1) \in Nat /\ HeadSize < Total(nread + 1)
      /\ Total(nread + 1) = HeadSize + sent[nread + 1].len
      /\ Total(nread + 1) < BlockSize
      /\ rbuf \in Seq(Byte) /\ k \in Nat /\ head \in 0..BlockSize
  BY <1>1, ReadingBasics
<1>3. /\ k < Total(nread + 1)
      /\ rbuf' = Append(rbuf, block[At(head, k)])
      /\ rpc = "header" => k < HeadSize
      /\ rpc = "body" => k >= HeadSize
  <2>1. CASE ReadHeaderByte
    <3>1. HeaderIndex(head, k) = At(head, k) /\ k < HeadSize /\ rpc = "header"
      BY <1>2, <2>1, HeaderIndexIsAt DEF ReadHeaderByte
    <3> QED BY <1>2, <2>1, <3>1 DEF ReadHeaderByte
  <2>2. CASE ReadBodyByte
    <3>1. rpc = "body" /\ k >= HeadSize
      BY <2>2 DEF ReadBodyByte, IInv, Reading
    <3>2. TotalLen = Total(nread + 1) /\ k < Total(nread + 1)
      BY <1>1, <2>2, <3>1, ReadingBasics DEF ReadBodyByte
    <3>3. sent[nread + 1].len \in Nat /\ TotalLen - HeadSize = sent[nread + 1].len
      BY <1>2, <3>2, OldestUnread
    <3>4. DataIndex(head, k - HeadSize, TotalLen - HeadSize) = At(head, k)
      <4>1. k - HeadSize \in 0..(sent[nread + 1].len - 1)
        BY <1>2, <3>1, <3>2, <3>3
      <4>2. DataIndex(head, k - HeadSize, sent[nread + 1].len)
              = At(head, HeadSize + (k - HeadSize))
        BY <1>2, <3>3, <4>1, DataIndexIsAt
      <4>3. HeadSize + (k - HeadSize) = k
        BY <1>2
      <4> QED BY <3>3, <4>2, <4>3
    <3> QED BY <2>2, <3>1, <3>2, <3>4 DEF ReadBodyByte
  <2> QED BY <2>1, <2>2
<1>4. block[At(head, k)] = ByteOf(nread + 1, k, Total(nread + 1))
  <2>1. k \in 0..(Total(nread + 1) - 1)
    BY <1>2, <1>3
  <2> QED BY <1>2, <2>1, OldestUnread
<1>5. ByteOf(nread + 1, k, Total(nread + 1)) \in Byte
  BY <1>2 DEF ByteOf, Byte
<1>6. /\ rbuf' \in Seq(Byte) /\ Len(rbuf') = k + 1
      /\ \A j \in 1..k : rbuf'[j] = rbuf[j]
      /\ rbuf'[k + 1] = ByteOf(nread + 1, k, Total(nread + 1))
  BY <1>2, <1>3, <1>4, <1>5
<1>7. TypeOK'
  BY <1>1, <1>6 DEF IInv, TypeOK, shared, writer, history
<1>8. /\ Geometry' /\ Stream' /\ Content' /\ nread' = nread
  BY <1>1, RingFrame
<1>9. Reading'
  <2>1. Total(nread + 1)' = Total(nread + 1)
    BY <1>1 DEF Total, nread, history
  <2>2. ASSUME NEW j \in 1..Len(rbuf')
        PROVE  rbuf'[j] = ByteOf(nread + 1, j - 1, Total(nread + 1))
    <3>1. CASE j = k + 1
      BY <1>2, <1>6, <3>1
    <3>2. CASE j # k + 1
      <4>1. j \in 1..k
        BY <1>2, <1>6, <3>2
      <4> QED BY <1>1, <1>6, <4>1 DEF IInv, Reading
    <3> QED BY <3>1, <3>2
  <2>3. /\ Len(rbuf') <= Total(nread + 1)
        /\ rpc = "header" => Len(rbuf') <= HeadSize
        /\ rpc = "body" => Len(rbuf') >= HeadSize
    BY <1>2, <1>3, <1>6
  <2>4. rtail # head /\ Dist(head, rtail) >= Total(nread + 1)
    BY <1>1 DEF IInv, Reading
  <2> QED BY <1>1, <1>2, <1>8, <2>1, <2>2, <2>3, <2>4
      DEF Reading, Dist, ByteOf, shared, history
<1> QED BY <1>1, <1>7, <1>8, <1>9, WriterFrame DEF IInv

LEMMA ReaderControlIInv ==
  ASSUME IInv, ReadTooBig \/ ReadHeaderDone \/ ReaderRestart
  PROVE  IInv'
<1>1. /\ UNCHANGED <<shared, writer, history, rtail, rbuf>>
      /\ rpc' \in {"idle", "body"}
  BY DEF ReadTooBig, ReadHeaderDone, ReaderRestart
<1>2. TypeOK'
  BY <1>1 DEF IInv, TypeOK, shared, writer, history
<1>3. Geometry' /\ Stream' /\ Content' /\ nread' = nread
  BY <1>1, RingFrame
<1>4. Total(nread + 1)' = Total(nread + 1)
  BY <1>1 DEF Total, nread, history
<1>5. Reading'
  <2>1. CASE rpc' = "idle"
    BY <2>1 DEF Reading
  <2>2. CASE rpc' = "body"
    <3>1. rpc = "header" /\ Len(rbuf) = HeadSize
      BY <2>2 DEF ReadTooBig, ReadHeaderDone, ReaderRestart
    <3>2. /\ nread < Len(sent) /\ rtail # head
          /\ Dist(head, rtail) >= Total(nread + 1) /\ Len(rbuf) <= Total(nread + 1)
          /\ \A j \in 1..Len(rbuf) :
               rbuf[j] = ByteOf(nread + 1, j - 1, Total(nread + 1))
      BY <3>1 DEF IInv, Reading
    <3> QED BY <1>1, <1>3, <1>4, <2>2, <3>1, <3>2, SizeAssumption
        DEF Reading, Dist, ByteOf, shared, history
  <2> QED BY <1>1, <2>1, <2>2
<1> QED BY <1>1, <1>2, <1>3, <1>5, WriterFrame DEF IInv

LEMMA WriterRestartIInv ==
  ASSUME IInv, WriterRestart
  PROVE  IInv'
<1>1. /\ UNCHANGED <<shared, reader, history, wlen, wpos>>
      /\ wpc' = "idle"
  BY DEF WriterRestart
<1>2. TypeOK'
  BY <1>1 DEF IInv, TypeOK, shared, reader, history
<1>3. Geometry' /\ Stream' /\ Content' /\ nread' = nread
  BY <1>1, RingFrame
<1>4. Total(nread + 1)' = Total(nread + 1)
  BY <1>1 DEF Total, nread, history
<1>5. Reading'
  BY <1>1, <1>3, <1>4 DEF IInv, Reading, Dist, ByteOf, shared, reader, history
<1> QED BY <1>1, <1>2, <1>3, <1>5 DEF IInv, Writing

\* What the reader hands over is the body of the oldest unread message.
LEMMA ReadsWholeMessage ==
  ASSUME IInv, PublishHead
  PROVE  /\ nread < Len(sent)
         /\ TotalLen - HeadSize = sent[nread + 1].len
         /\ got' = Append(got, Body(nread + 1, sent[nread + 1].len))
<1>1. rpc # "idle" /\ Len(rbuf) >= TotalLen /\ rpc = "body"
  BY DEF PublishHead
<1>2. Len(rbuf) >= HeadSize
  BY <1>1 DEF IInv, Reading
<1>3. /\ nread < Len(sent) /\ TotalLen = Total(nread + 1)
      /\ Total(nread + 1) = HeadSize + sent[nread + 1].len
      /\ Total(nread + 1) \in Nat /\ Len(rbuf) \in Nat
      /\ Len(rbuf) <= Total(nread + 1)
  BY <1>1, <1>2, ReadingBasics
<1>4. sent[nread + 1].len \in Nat
  BY <1>3, OldestUnread
<1>5. TotalLen - HeadSize = sent[nread + 1].len
  BY <1>3, <1>4, SizeAssumption
<1>6. ASSUME NEW i \in 1..(TotalLen - HeadSize)
      PROVE  rbuf[HeadSize + i] = ByteOf(nread + 1, HeadSize + i - 1, Total(nread + 1))
  <2>1. HeadSize + i \in 1..Len(rbuf)
    BY <1>1, <1>3, <1>4, <1>5, SizeAssumption
  <2>2. \A j \in 1..Len(rbuf) :
          rbuf[j] = ByteOf(nread + 1, j - 1, Total(nread + 1))
    BY <1>1 DEF IInv, Reading
  <2>3. PICK j \in 1..Len(rbuf) : j = HeadSize + i
    BY <2>1
  <2>4. rbuf[j] = ByteOf(nread + 1, j - 1, Total(nread + 1))
    BY <2>2
  <2> QED BY <1>3, <1>4, <1>5, <2>3, <2>4, SizeAssumption
<1>7. [i \in 1..(TotalLen - HeadSize) |-> rbuf[HeadSize + i]]
        = Body(nread + 1, sent[nread + 1].len)
  BY <1>3, <1>5, <1>6 DEF Body
<1> QED BY <1>3, <1>5, <1>7 DEF PublishHead

\* Moving _head past the oldest message leaves every other byte at the same
\* place, counted from the new _head.
LEMMA PublishHeadIInv ==
  ASSUME IInv, PublishHead
  PROVE  IInv'
<1> USE SizeAssumption
<1> DEFINE len == sent[nread + 1].len
           total == HeadSize + len
<1>1. /\ nread < Len(sent) /\ TotalLen - HeadSize = len
      /\ got' = Append(got, Body(nread + 1, len))
  BY ReadsWholeMessage
<1>2. /\ len \in Nat \ {0} /\ total \in Nat /\ Total(nread + 1) = total
      /\ total <= Pending /\ Pending \in Nat /\ nread \in Nat
      /\ Start(nread + 1) = sent[nread + 1].start /\ tail # 0
  BY <1>1, OldestUnread DEF Total
<1>3. /\ head' = NextHead(head, len) /\ rpc' = "idle"
      /\ UNCHANGED <<block, tail, writer, rtail, rbuf, sent, nbytes>>
  BY <1>1 DEF PublishHead
<1>4. /\ head \in 0..BlockSize /\ tail \in 1..BlockSize
      /\ Pending = Dist(head, tail) /\ Pending < BlockSize
      /\ nbytes \in Nat /\ Len(sent) \in Nat /\ sent \in Seq(Msg)
      /\ got \in Seq(Seq(Byte))
  <2>1. tail \in 0..BlockSize
    BY DEF IInv, TypeOK
  <2>2. tail \in 1..BlockSize
    BY <1>2, <2>1
  <2> QED BY <2>2 DEF IInv, TypeOK, Geometry
<1>5. /\ head' \in 1..BlockSize
      /\ Dist(head', tail) = Pending - total
      /\ \A d \in Nat : total + d < BlockSize => At(head', d) = At(head, total + d)
  BY <1>2, <1>3, <1>4, NextHeadAdvances
<1>6. Body(nread + 1, len) \in Seq(Byte)
  <2>1. \A i \in 1..len : ByteOf(nread + 1, HeadSize + i - 1, HeadSize + len) \in Byte
    BY <1>2 DEF ByteOf, Byte
  <2>2. Body(nread + 1, len) \in [1..len -> Byte]
    BY <2>1 DEF Body
  <2> QED BY <1>2, <2>2
<1>7. got' \in Seq(Seq(Byte)) /\ nread' = nread + 1
  BY <1>1, <1>4, <1>6 DEF nread
<1>8. TypeOK'
  <2>1. head' \in 0..BlockSize
    BY <1>5
  <2> QED BY <1>3, <1>7, <2>1 DEF IInv, TypeOK, writer
<1>9. (\A m : Start(m)' = Start(m)) /\ (\A m : Total(m)' = Total(m))
  BY <1>3 DEF Start, Total
<1>10. Start(nread + 1)' = Start(nread + 1) + total
  <2>1. nread + 1 \in 1..Len(sent)
    BY <1>1, <1>2, <1>4
  <2>2. Start(nread + 1 + 1) = sent[nread + 1].start + Total(nread + 1)
    BY <2>1 DEF IInv, Stream
  <2>3. Start(nread + 1)' = Start(nread + 1 + 1)
    BY <1>3, <1>7 DEF Start
  <2> QED BY <1>2, <2>2, <2>3
<1>11. Pending' = Pending - total
  <2>1. Start(nread + 1) \in Nat
    <3>1. sent[nread + 1] \in Msg
      BY <1>1, <1>2, <1>4
    <3> QED BY <1>2, <3>1 DEF Msg
  <2> QED BY <1>2, <1>3, <1>4, <1>10, <2>1 DEF Pending
<1>12. Geometry'
  BY <1>2, <1>3, <1>4, <1>5, <1>11 DEF Geometry, Dist
<1>13. Stream'
  <2>1. nread' <= Len(sent)'
    BY <1>1, <1>2, <1>3, <1>4, <1>7
  <2> QED BY <1>3, <1>9, <2>1 DEF IInv, Stream
<1>14. Content'
  <2> SUFFICES ASSUME NEW m \in (nread' + 1)..Len(sent'), NEW i \in 0..(Total(m)' - 1)
               PROVE  (block[At(head, sent[m].start - Start(nread + 1) + i)])'
                        = ByteOf(m, i, Total(m))'
    BY DEF Content
  <2> DEFINE d == sent[m].start - Start(nread + 1) + i
  <2>1. m \in (nread + 1)..Len(sent) /\ nread + 1 < m /\ i \in 0..(Total(m) - 1)
    BY <1>2, <1>3, <1>4, <1>7, <1>9
  <2>2. /\ d \in 0..(Pending - 1) /\ sent[m].start \in Nat
        /\ Start(nread + 1) \in Nat
        /\ sent[m].start >= Start(nread + 1) + Total(nread + 1)
    BY <2>1, UnreadOffset
  <2>3. d - total \in Nat /\ total + (d - total) = d /\ d < BlockSize
    <3>1. d \in Int /\ i \in Nat
      BY <2>1, <2>2, UnreadOffset
    <3>2. Total(nread + 1) \in Nat /\ Total(nread + 1) = total
      BY <1>1, <1>2, OldestUnread
    <3>3. d < BlockSize
      BY <1>2, <1>4, <2>2
    <3> HIDE DEF total
    <3>4. d >= Total(nread + 1)
      BY <2>2, <3>1, <3>2
    <3> HIDE DEF d
    <3> QED BY <3>1, <3>2, <3>3, <3>4
  <2>4. At(head', d - total) = At(head, d)
    BY <1>5, <2>3
  <2>5. sent'[m].start - Start(nread + 1)' + i = d - total
    <3>1. sent'[m].start = sent[m].start /\ i \in Int
      BY <1>3, <2>1, UnreadOffset
    <3>2. total \in Int /\ Start(nread + 1)' = Start(nread + 1) + total
      BY <1>2, <1>10
    <3> HIDE DEF total
    <3> QED BY <2>2, <3>1, <3>2
  <2>6. block[At(head, d)] = ByteOf(m, i, Total(m))
    BY <2>1 DEF IInv, Content
  <2>7. block'[At(head', sent'[m].start - Start(nread + 1)' + i)] = ByteOf(m, i, Total(m))
    BY <1>3, <2>4, <2>5, <2>6
  <2> QED BY <1>9, <2>7 DEF At, ByteOf
<1>15. Writing'
  <2>1. CASE wpc # "copy"
    BY <1>3, <2>1 DEF Writing, writer
  <2>2. CASE wpc = "copy"
    <3>1. /\ wlen \in Lens /\ wpos <= HeadSize + wlen /\ Len(sent) < MaxMsgs
          /\ \A i \in 0..(wpos - 1) :
               block[At(tail, i)] = ByteOf(Len(sent) + 1, i, HeadSize + wlen)
      BY <2>2 DEF IInv, Writing
    <3>2. Pending' + HeadSize + wlen < BlockSize
      BY <1>2, <1>11, <2>2, WritingBasics
    <3> QED BY <1>3, <3>1, <3>2 DEF Writing, At, ByteOf, writer
  <2> QED BY <2>1, <2>2
<1>16. Reading'
  BY <1>3 DEF Reading
<1> QED BY <1>8, <1>12, <1>13, <1>14, <1>15, <1>16 DEF IInv

\* Every step of writer and reader, and a crash of either, keeps the invariant.
LEMMA NextIInv == IInv /\ [Next]_vars => IInv'
<1> SUFFICES ASSUME IInv, [Next]_vars PROVE IInv'
  OBVIOUS
<1>1. ASSUME NEW len \in Lens, WriteBegin(len) PROVE IInv'
  BY <1>1, WriteBeginIInv
<1>2. CASE CopyByte
  BY <1>2, CopyByteIInv
<1>3. CASE PublishTail
  BY <1>3, PublishTailIInv
<1>4. CASE ReadBegin
  BY <1>4, ReadBeginIInv
<1>5. CASE ReadHeaderByte \/ ReadBodyByte
  BY <1>5, ReadByteIInv
<1>6. CASE ReadTooBig \/ ReadHeaderDone \/ ReaderRestart
  BY <1>6, ReaderControlIInv
<1>7. CASE PublishHead
  BY <1>7, PublishHeadIInv
<1>8. CASE WriterRestart
  BY <1>8, WriterRestartIInv
<1>9. CASE UNCHANGED vars
  <2>1. UNCHANGED <<shared, writer, reader, history>>
    BY <1>9 DEF vars
  <2>2. TypeOK'
    BY <2>1 DEF IInv, TypeOK, shared, writer, reader, history
  <2>3. Geometry' /\ Stream' /\ Content' /\ Writing' /\ nread' = nread
    BY <2>1, RingFrame, WriterFrame
  <2>4. Total(nread + 1)' = Total(nread + 1)
    BY <2>1 DEF Total, nread, history
  <2>5. Reading'
    BY <2>1, <2>3, <2>4 DEF IInv, Reading, Dist, ByteOf, shared, reader, history
  <2> QED BY <2>2, <2>3, <2>5 DEF IInv
<1> QED BY <1>1, <1>2, <1>3, <1>4, <1>5, <1>6, <1>7, <1>8, <1>9
    DEF Next, Write, Read

\* The inductive invariant holds in every reachable state.
THEOREM InvariantHolds == Spec => []IInv
<1> QED BY InitIInv, NextIInv, PTL DEF Spec

-----------------------------------------------------------------------------
(* What it implies. *)

\* The shared words and the locals of both processes keep their types; _head
\* and _tail stay inside 0..BlockSize.
THEOREM TypeCorrect == Spec => []TypeOK
<1>1. IInv => TypeOK
  BY DEF IInv
<1> QED BY <1>1, InvariantHolds, PTL

\* usnet_write_mq never stores over bytes the reader has not consumed, although
\* it decides on a _head that may have moved since, and a full ring is never
\* mistaken for an empty one.
THEOREM WriterNeverOverruns == Spec => []NoOverrun
<1>1. IInv => NoOverrun
  <2> SUFFICES ASSUME IInv PROVE NoOverrun
    OBVIOUS
  <2>1. Pending < BlockSize
    BY DEF IInv, Geometry
  <2>2. wpc = "copy" => Pending + HeadSize + wlen < BlockSize
    BY DEF IInv, Writing
  <2> QED BY <2>1, <2>2, PendingBasics DEF NoOverrun
<1> QED BY <1>1, InvariantHolds, PTL

\* The assertion total_len <= used_len of usnet_read_mq holds, although used_len
\* is computed from a _tail that may have moved since.
THEOREM AssertionHolds == Spec => []HeaderAssert
<1>1. IInv => HeaderAssert
  <2> SUFFICES ASSUME IInv, rpc = "header", Len(rbuf) = HeadSize
               PROVE  TotalLen <= UsedLen(head, rtail)
    BY DEF HeaderAssert
  <2>1. TotalLen = Total(nread + 1)
    BY ReadingBasics, SizeAssumption
  <2>2. rtail # head /\ Dist(head, rtail) >= Total(nread + 1)
    BY DEF IInv, Reading
  <2>3. UsedLen(head, rtail) = Dist(head, rtail)
    BY <2>2, SizeAssumption DEF UsedLen, Dist, IInv, TypeOK
  <2>4. Total(nread + 1) \in Nat
    BY ReadingBasics
  <2>5. Dist(head, rtail) \in Int
    BY SizeAssumption DEF Dist, IInv, TypeOK
  <2> QED BY <2>1, <2>2, <2>3, <2>4, <2>5
<1> QED BY <1>1, InvariantHolds, PTL

\* What the reader copies is at any time the beginning of the oldest unread
\* message.
THEOREM ReaderSeesOldest == Spec => []ReadsOldest
<1>1. IInv => ReadsOldest
  BY DEF IInv, Reading, ReadsOldest, Total
<1> QED BY <1>1, InvariantHolds, PTL

\* A sequence given by its elements, one longer or one shorter than another.
LEMMA AppendByElements ==
  ASSUME NEW S, NEW n \in Nat, NEW f \in [1..n -> S], NEW g \in [1..(n + 1) -> S],
         \A k \in 1..n : g[k] = f[k]
  PROVE  g = Append(f, g[n + 1])
<1>1. f \in Seq(S) /\ Len(f) = n
  OBVIOUS
<1>2. g \in Seq(S) /\ Len(g) = n + 1 /\ g[n + 1] \in S
  OBVIOUS
<1> QED BY <1>1, <1>2

LEMMA TailByElements ==
  ASSUME NEW S, NEW n \in Nat \ {0}, NEW f \in [1..n -> S],
         NEW g \in [1..(n - 1) -> S], \A k \in 1..(n - 1) : g[k] = f[k + 1]
  PROVE  f # << >> /\ Head(f) = f[1] /\ g = Tail(f)
<1>1. f \in Seq(S) /\ Len(f) = n
  OBVIOUS
<1>2. g \in Seq(S) /\ Len(g) = n - 1
  OBVIOUS
<1> QED BY <1>1, <1>2

\* The byte ring implements a FIFO queue of whole messages: publishing _tail is
\* the enqueue, publishing _head the dequeue, and every other step, a crash of
\* either process included, is invisible.
THEOREM RingIsFifo == Spec => RefinesFifo
<1>1. Init => Fifo!Init
  <2> SUFFICES ASSUME Init PROVE Unread = << >> /\ got = << >>
    BY DEF Fifo!Init
  <2>1. Len(sent) - nread = 0 /\ got = << >>
    BY DEF Init, nread
  <2> QED BY <2>1 DEF Unread
<1>2. ASSUME IInv, [Next]_vars
      PROVE  [Fifo!Next]_(Fifo!vars)
  <2> DEFINE n == Len(sent) - nread
             AllBodies == {Body(m, len) : m \in Nat, len \in Nat}
  <2>1. /\ nread \in Nat /\ Len(sent) \in Nat /\ nread <= Len(sent)
        /\ sent \in Seq(Msg) /\ n \in Nat
    BY <1>2, PendingBasics DEF IInv, TypeOK
  <2>2. Unread \in [1..n -> AllBodies]
    <3>1. ASSUME NEW k \in 1..n
          PROVE  nread + k \in Nat /\ sent[nread + k].len \in Nat
      <4>1. nread + k \in 1..Len(sent)
        BY <2>1
      <4>2. sent[nread + k] \in Msg
        BY <2>1, <4>1
      <4> QED BY <2>1, <4>2 DEF Msg
    <3>2. \A k \in 1..n : Body(nread + k, sent[nread + k].len) \in AllBodies
      BY <3>1
    <3> HIDE DEF AllBodies
    <3> QED BY <3>2 DEF Unread
  <2>3. CASE PublishTail
    <3>1. /\ got' = got /\ wlen \in Lens /\ Len(sent) < MaxMsgs
          /\ sent' = Append(sent, [len |-> wlen, start |-> nbytes])
      BY <1>2, <2>3 DEF PublishTail, IInv, Writing
    <3>2. nread' = nread
      BY <3>1 DEF nread
    <3>3. /\ Len(sent') = Len(sent) + 1
          /\ \A m \in 1..Len(sent) : sent'[m] = sent[m]
          /\ sent'[Len(sent) + 1].len = wlen
      BY <2>1, <3>1
    <3>4. Body(Len(sent) + 1, wlen) \in Bodies /\ Body(Len(sent) + 1, wlen) \in AllBodies
      <4>1. Len(sent) + 1 \in 1..MaxMsgs /\ Len(sent) + 1 \in Nat /\ wlen \in Nat
        BY <2>1, <3>1, SizeAssumption
      <4> QED BY <3>1, <4>1 DEF Bodies
    <3>5. Unread' = Append(Unread, Body(Len(sent) + 1, wlen))
      <4>1. Unread' = [k \in 1..(n + 1) |-> Body(nread + k, sent'[nread + k].len)]
        BY <2>1, <3>2, <3>3 DEF Unread, Body, ByteOf
      <4>2. \A k \in 1..n : Unread'[k] = Unread[k]
        <5> SUFFICES ASSUME NEW k \in 1..n PROVE Unread'[k] = Unread[k]
          OBVIOUS
        <5>1. nread + k \in 1..Len(sent) /\ k \in 1..(n + 1)
          BY <2>1
        <5>2. sent'[nread + k] = sent[nread + k]
          BY <3>3, <5>1
        <5> QED BY <4>1, <5>1, <5>2 DEF Unread
      <4>3. Unread'[n + 1] = Body(Len(sent) + 1, wlen)
        BY <2>1, <3>3, <4>1
      <4>4. \A k \in 1..(n + 1) : Body(nread + k, sent'[nread + k].len) \in AllBodies
        <5>1. ASSUME NEW k \in 1..(n + 1), k # n + 1
              PROVE  Body(nread + k, sent'[nread + k].len) \in AllBodies
          <6>1. k \in 1..n /\ Unread[k] = Unread'[k]
            BY <2>1, <4>2, <5>1
          <6> HIDE DEF AllBodies
          <6> QED BY <2>2, <4>1, <6>1
        <5> HIDE DEF AllBodies
        <5> QED BY <2>1, <3>4, <4>1, <4>3, <5>1
      <4> HIDE DEF AllBodies, n
      <4>5. Unread' \in [1..(n + 1) -> AllBodies]
        BY <4>1, <4>4
      <4>6. Unread' = Append(Unread, Unread'[n + 1])
        BY <2>1, <2>2, <4>2, <4>5, AppendByElements
      <4> QED BY <4>3, <4>6
    <3> QED BY <3>1, <3>4, <3>5 DEF Fifo!Next, Fifo!Enqueue
  <2>4. CASE PublishHead
    <3>1. /\ nread < Len(sent) /\ got' = Append(got, Body(nread + 1, sent[nread + 1].len))
          /\ sent' = sent
      BY <1>2, <2>4, ReadsWholeMessage DEF PublishHead
    <3>2. nread' = nread + 1
      BY <1>2, <3>1 DEF nread, IInv, TypeOK
    <3>3. n \in Nat \ {0} /\ Unread[1] = Body(nread + 1, sent[nread + 1].len)
      BY <2>1, <3>1 DEF Unread
    <3>4. Unread' = [k \in 1..(n - 1) |-> Body(nread + 1 + k, sent[nread + 1 + k].len)]
      BY <2>1, <3>1, <3>2 DEF Unread, Body, ByteOf
    <3>5. ASSUME NEW k \in 1..(n - 1)
          PROVE  Unread'[k] = Unread[k + 1] /\ k + 1 \in 1..n
      <4>1. k + 1 \in 1..n /\ nread + 1 + k = nread + (k + 1)
        BY <2>1
      <4>2. Unread[k + 1] = Body(nread + (k + 1), sent[nread + (k + 1)].len)
        BY <4>1 DEF Unread
      <4> QED BY <3>4, <4>1, <4>2
    <3> HIDE DEF AllBodies, n
    <3>6. Unread' \in [1..(n - 1) -> AllBodies]
      BY <2>2, <3>4, <3>5
    <3>7. Unread # << >> /\ Head(Unread) = Unread[1] /\ Unread' = Tail(Unread)
      BY <2>2, <3>3, <3>5, <3>6, TailByElements
    <3> QED BY <3>1, <3>3, <3>7 DEF Fifo!Next, Fifo!Dequeue
  <2>5. CASE ~PublishTail /\ ~PublishHead
    <3>1. UNCHANGED <<sent, got>>
      BY <1>2, <2>5 DEF Next, Write, Read, WriteBegin, CopyByte, ReadBegin,
         ReadHeaderByte, ReadTooBig, ReadHeaderDone, ReadBodyByte,
         WriterRestart, ReaderRestart, vars, history
    <3>2. UNCHANGED <<Unread, got>>
      BY <3>1 DEF Unread, nread, Body, ByteOf
    <3> QED BY <3>2 DEF Fifo!vars
  <2> QED BY <2>3, <2>4, <2>5
<1> QED BY <1>1, <1>2, InvariantHolds, PTL DEF Spec, RefinesFifo, Fifo!Spec
=============================================================================
