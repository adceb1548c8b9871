-------------------------------- MODULE ShmMQ --------------------------------
(***************************************************************************)
(* The shared-memory message queue of mq.c: a byte ring of BlockSize bytes *)
(* written by one process and read by another without a lock.  A message   *)
(* is a header of HeadSize bytes (total_len and flow) followed by its      *)
(* data; header and data may each wrap around the end of the block.        *)
(*                                                                         *)
(* Every access to the shared block is a step of its own, so that writer   *)
(* and reader interleave between any two bytes.  The writer decides on the *)
(* value of _head it loaded at the start, the reader on the value of _tail *)
(* it loaded at the start; both may be stale when they are used.           *)
(*                                                                         *)
(* A byte is abstracted to <<message number, index in the message, total   *)
(* length of the message>>: enough to tell torn, lost, repeated and        *)
(* overwritten bytes apart, and to decode total_len from a header.         *)
(*                                                                         *)
(* Stores are seen in program order: memcpy may alias _head and _tail, so  *)
(* the compiler keeps their order, and the x86 machines netmap runs on     *)
(* keep the order of stores.  The statistics words (_enqueued_msg_cnt,     *)
(* _dequeued_msg_cnt) are left out: nothing reads them.                    *)
(***************************************************************************)
EXTENDS Integers, Sequences

CONSTANTS
  BlockSize,   \* _block_size
  HeadSize,    \* C_HEAD_SIZE, 8 in the code
  Lens,        \* the data_len values callers enqueue
  BufSize,     \* buf_size of the reader
  MaxMsgs      \* bound: messages accepted in one behaviour

ASSUME SizeAssumption ==
  /\ HeadSize \in Nat \ {0}
  /\ BlockSize \in Nat
  /\ BlockSize > HeadSize         \* assert(shm_size > C_HEAD_SIZE)
  /\ Lens \subseteq Nat \ {0}
  /\ BufSize \in Nat
  /\ MaxMsgs \in Nat

VARIABLES
  block,    \* the bytes of the ring
  head,     \* *_head, stored by the reader only
  tail,     \* *_tail, stored by the writer only
  wpc,      \* writer: "idle" or "copy" (inside usnet_write_mq)
  wlen,     \* writer: data_len of the message being copied
  wpos,     \* writer: bytes of it copied so far
  rpc,      \* reader: "idle", "header" or "body" (inside usnet_read_mq)
  rtail,    \* reader: the _tail it loaded
  rbuf,     \* reader: bytes of the current message copied so far
  sent,     \* history: [len, start] of each published message, where start
            \* counts the bytes published before it
  nbytes,   \* history: bytes published so far
  got       \* history: the bodies handed to the caller of the read

shared == <<block, head, tail>>
writer == <<wpc, wlen, wpos>>
reader == <<rpc, rtail, rbuf>>
history == <<sent, nbytes, got>>
vars == <<shared, writer, reader, history>>

Byte == Nat \X Nat \X Nat
Msg == [len : Nat, start : Nat]

\* The bytes of message m with total length t, header first.
ByteOf(m, i, t) == <<m, i, t>>
Body(m, len) == [i \in 1..len |-> ByteOf(m, HeadSize + i - 1, HeadSize + len)]

-----------------------------------------------------------------------------
(* Ring arithmetic.  Positions run over 0..BlockSize: after a message that *)
(* ends exactly at the end of the block the index stays at BlockSize.      *)

FreeLen(h, t) == IF h > t THEN h - t ELSE h + BlockSize - t

UsedLen(h, t) == IF t > h THEN t - h ELSE t + BlockSize - h

\* Mutant: when the header wraps, the data goes to the start of the block.
WriteIndexDataAtStart(t, i, total) ==
  LET tailLen == BlockSize - t IN
  IF tailLen < HeadSize /\ i >= HeadSize THEN i - HeadSize
  ELSE IF i < tailLen THEN t + i ELSE i - tailLen

\* Where usnet_write_mq stores byte i of a message of total length total: the
\* message fits before the end; or the header does and the data wraps; or the
\* header itself wraps.
WriteIndex(t, i, total) ==
  LET tailLen == BlockSize - t IN
  IF tailLen >= total THEN t + i
  ELSE IF tailLen >= HeadSize THEN
    IF i < tailLen THEN t + i ELSE i - tailLen
  ELSE IF i < HeadSize THEN
    IF i < tailLen THEN t + i ELSE i - tailLen
  ELSE (HeadSize - tailLen) + (i - HeadSize)

\* Mutants: the wrap of _tail is forgotten, or forgets the header.
NextTailNoWrap(t, total) == t + total

NextTailWrapsData(t, total) ==
  IF BlockSize - t >= total THEN t + total
  ELSE IF BlockSize - t >= HeadSize THEN t + total - HeadSize - BlockSize
  ELSE t + total - BlockSize

\* The new value of _tail, in the same three cases.
NextTail(t, total) ==
  LET tailLen == BlockSize - t IN
  IF tailLen >= total THEN t + total
  ELSE IF tailLen >= HeadSize THEN t + total - BlockSize
  ELSE (HeadSize - tailLen) + (total - HeadSize)

\* Where usnet_read_mq loads header byte i, and the local head after the header.
HeaderIndex(h, i) ==
  IF h + HeadSize > BlockSize
  THEN IF i < BlockSize - h THEN h + i ELSE i - (BlockSize - h)
  ELSE h + i

AfterHeader(h) ==
  IF h + HeadSize > BlockSize THEN HeadSize - (BlockSize - h) ELSE h + HeadSize

\* Where it loads data byte i (0 is the first after the header), and the value
\* it stores in _head.
DataIndex(h, i, len) ==
  LET h2 == AfterHeader(h) IN
  IF h2 + len > BlockSize /\ i >= BlockSize - h2
  THEN i - (BlockSize - h2)
  ELSE h2 + i

NextHead(h, len) ==
  LET h2 == AfterHeader(h) IN
  IF h2 + len > BlockSize THEN len - (BlockSize - h2) ELSE h2 + len

-----------------------------------------------------------------------------
Init ==
  /\ block = [p \in 0..(BlockSize - 1) |-> <<0, 0, 0>>]
  /\ head = 0
  /\ tail = 0
  /\ wpc = "idle" /\ wlen = 0 /\ wpos = 0
  /\ rpc = "idle" /\ rtail = 0 /\ rbuf = << >>
  /\ sent = << >> /\ nbytes = 0 /\ got = << >>

(* The writer: usnet_write_mq. *)

\* Loads _head and _tail and decides there is room.  When there is none
\* (free_len <= total_len) the call returns -1 and changes nothing.
HasRoomToTheBrim(len) == FreeLen(head, tail) >= len + HeadSize  \* mutant

HasRoom(len) == FreeLen(head, tail) > len + HeadSize

WriteBegin(len) ==
  /\ wpc = "idle"
  /\ Len(sent) < MaxMsgs
  /\ HasRoom(len)
  /\ wpc' = "copy" /\ wlen' = len /\ wpos' = 0
  /\ UNCHANGED <<shared, reader, history>>

CopyByte ==
  /\ wpc = "copy"
  /\ wpos < HeadSize + wlen
  /\ block' = [block EXCEPT ![WriteIndex(tail, wpos, HeadSize + wlen)] =
                              ByteOf(Len(sent) + 1, wpos, HeadSize + wlen)]
  /\ wpos' = wpos + 1
  /\ UNCHANGED <<head, tail, wpc, wlen, reader, history>>

\* Mutant: _tail is stored as soon as the header is in place.
PublishTailEarly ==
  /\ wpc = "copy"
  /\ wpos = HeadSize
  /\ tail' = NextTail(tail, HeadSize + wlen)
  /\ wpc' = "idle"
  /\ sent' = Append(sent, [len |-> wlen, start |-> nbytes])
  /\ nbytes' = nbytes + HeadSize + wlen
  /\ UNCHANGED <<block, head, wlen, wpos, reader, got>>

PublishTail ==
  /\ wpc = "copy"
  /\ wpos = HeadSize + wlen
  /\ tail' = NextTail(tail, HeadSize + wlen)
  /\ wpc' = "idle"
  /\ sent' = Append(sent, [len |-> wlen, start |-> nbytes])
  /\ nbytes' = nbytes + HeadSize + wlen
  /\ UNCHANGED <<block, head, wlen, wpos, reader, got>>

-----------------------------------------------------------------------------
(* The reader: usnet_read_mq. *)

\* Loads _head and _tail; equal means empty, and the call returns with
\* data_len = 0.
ReadBegin ==
  /\ rpc = "idle"
  /\ head # tail
  /\ rpc' = "header" /\ rtail' = tail /\ rbuf' = << >>
  /\ UNCHANGED <<shared, writer, history>>

ReadHeaderByte ==
  /\ rpc = "header"
  /\ Len(rbuf) < HeadSize
  /\ rbuf' = Append(rbuf, block[HeaderIndex(head, Len(rbuf))])
  /\ UNCHANGED <<shared, writer, rpc, rtail, history>>

\* total_len as decoded from the copied header bytes.
TotalLen == rbuf[1][3]

\* The header is complete: a message that does not fit the caller's buffer
\* makes the call return -1 and stays in the queue.
ReadTooBig ==
  /\ rpc = "header"
  /\ Len(rbuf) = HeadSize
  /\ TotalLen - HeadSize > BufSize
  /\ rpc' = "idle"
  /\ UNCHANGED <<shared, writer, rtail, rbuf, history>>

ReadHeaderDone ==
  /\ rpc = "header"
  /\ Len(rbuf) = HeadSize
  /\ TotalLen - HeadSize <= BufSize
  /\ rpc' = "body"
  /\ UNCHANGED <<shared, writer, rtail, rbuf, history>>

ReadBodyByte ==
  /\ rpc = "body"
  /\ Len(rbuf) < TotalLen
  /\ rbuf' = Append(rbuf, block[DataIndex(head, Len(rbuf) - HeadSize,
                                          TotalLen - HeadSize)])
  /\ UNCHANGED <<shared, writer, rpc, rtail, history>>

PublishHead ==
  /\ rpc = "body"
  /\ Len(rbuf) >= TotalLen
  /\ head' = NextHead(head, TotalLen - HeadSize)
  /\ rpc' = "idle"
  /\ got' = Append(got, [i \in 1..(TotalLen - HeadSize) |-> rbuf[HeadSize + i]])
  /\ UNCHANGED <<block, tail, writer, rtail, rbuf, sent, nbytes>>

-----------------------------------------------------------------------------
(* A process that dies inside a call and is started again attaches to the  *)
(* existing segment: usnet_init_shmmq clears it only when it created it.   *)

WriterRestart ==
  /\ wpc # "idle"
  /\ wpc' = "idle"
  /\ UNCHANGED <<shared, wlen, wpos, reader, history>>

ReaderRestart ==
  /\ rpc # "idle"
  /\ rpc' = "idle"
  /\ UNCHANGED <<shared, writer, rtail, rbuf, history>>

Write == (\E len \in Lens : WriteBegin(len)) \/ CopyByte \/ PublishTail

Read ==
  \/ ReadBegin \/ ReadHeaderByte \/ ReadTooBig
  \/ ReadHeaderDone \/ ReadBodyByte \/ PublishHead

Next == Write \/ Read \/ WriterRestart \/ ReaderRestart

Spec == Init /\ [][Next]_vars

-----------------------------------------------------------------------------
(* Properties. *)

nread == Len(got)
Start(m) == IF m <= Len(sent) THEN sent[m].start ELSE nbytes
Pending == nbytes - Start(nread + 1)

\* The shared words and both processes' locals have the types of the code;
\* positions never leave 0..BlockSize.
TypeOK ==
  /\ block \in [0..(BlockSize - 1) -> Byte]
  /\ head \in 0..BlockSize
  /\ tail \in 0..BlockSize
  /\ wpc \in {"idle", "copy"} /\ wlen \in Nat /\ wpos \in Nat
  /\ rpc \in {"idle", "header", "body"} /\ rtail \in 0..BlockSize
  /\ rbuf \in Seq(Byte)
  /\ sent \in Seq(Msg) /\ nbytes \in Nat
  /\ got \in Seq(Seq(Byte))

\* usnet_write_mq never stores into a byte the reader has not consumed, however
\* old the _head it decided on, and always leaves one byte free, so that
\* _head = _tail can only mean empty.
NoOverrun ==
  /\ Pending < BlockSize
  /\ (head = tail) <=> (Pending = 0)
  /\ wpc = "copy" => Pending + HeadSize + wlen < BlockSize

\* assert(total_len <= used_len) in usnet_read_mq cannot fail, whatever the
\* writer does between the reader's load of _tail and its reading the header.
HeaderAssert ==
  (rpc = "header" /\ Len(rbuf) = HeadSize) => TotalLen <= UsedLen(head, rtail)

\* What the reader has copied so far is the beginning of the oldest unread
\* message: no byte is torn, stale or taken from another message.
ReadsOldest ==
  rpc # "idle" =>
    /\ nread < Len(sent)
    /\ \A j \in 1..Len(rbuf) :
         rbuf[j] = ByteOf(nread + 1, j - 1, HeadSize + sent[nread + 1].len)

\* The unread messages as a sequence of bodies, and the bodies there can be.
Unread == [k \in 1..(Len(sent) - nread) |-> Body(nread + k, sent[nread + k].len)]
Bodies == {Body(m, len) : m \in 1..MaxMsgs, len \in Lens}

Fifo == INSTANCE FifoQueue WITH Data <- Bodies, queue <- Unread, delivered <- got

\* The ring is a FIFO queue of whole messages (module FifoQueue): what
\* usnet_write_mq publishes usnet_read_mq hands over unchanged, once and in order.
RefinesFifo == Fifo!Spec
=============================================================================
