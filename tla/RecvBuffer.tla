----------------------------- MODULE RecvBuffer -----------------------------
(***************************************************************************)
(* The receive path of one open connection, with its data: the net process *)
(* puts the payload of the segments into the shared ring buffer and merges *)
(* the fragments (usnet_process_tcp_payload, usnet_insert_fragment), the   *)
(* application reads (usnet_read).                                         *)
(*                                                                         *)
(* The k-th byte of the peer's stream is the number k, and a sequence      *)
(* number is the offset from irs + 1.  The peer sends any part of its      *)
(* stream below the right edge of a window it was told of; segments are    *)
(* lost, duplicated and reordered.  Segments that usnet_validate_seq       *)
(* refuses change nothing here: they are answered with an ack.             *)
(***************************************************************************)
EXTENDS Integers, Sequences

CONSTANTS
  Size,        \* buf->size
  InitWindow,  \* TCP_INITIAL_WINDOW
  Scale,       \* 2^wscale: the unit of the advertised window
  MaxDepleted, \* bound: times the shared pool of fragments is found empty
  Counts,      \* bound: the counts usnet_read is called with
  MaxSegment,  \* bound: bytes in one segment
  MaxSeq       \* bound: bytes of the peer's stream, and bytes read

\* data and head are uint16_t, and usnet_ringbuf_init is given 8096.
Word == 65536

ASSUME SizeAssumption == Size \in Nat /\ 1 < Size /\ Size < Word
ASSUME WindowAssumption == InitWindow \in Nat /\ Scale \in Nat \ {0}
ASSUME BoundAssumption ==
  /\ Counts \subseteq Nat \ {0}
  /\ MaxDepleted \in Nat /\ MaxSegment \in Nat \ {0} /\ MaxSeq \in Nat

VARIABLES
  ring,        \* shared: the data area
  data, head,  \* shared: where the application reads, where the next byte goes
  head_seq,    \* shared: the first byte not received yet
  win,         \* shared: free bytes less one, at the last insertion
  frags,       \* shared: the fragments beyond head_seq
  rcv_nxt, rcv_wnd,  \* net: of the control block
  rpc, rlen,   \* app: where in usnet_read, and the bytes it copied
  rdata,       \* app: data after this read
  edge,        \* peer: the right edge of the window it was told of
  nread,       \* history: bytes handed to the application
  received,    \* history: bytes taken into the buffer
  reordered,   \* history: a segment was inserted that did not start at head_seq
  overread,    \* history: a read went beyond the end of the ring
  depleted     \* history: times the pool of fragments was empty

buf == <<ring, data, head, head_seq, win, frags>>
vars == <<buf, rcv_nxt, rcv_wnd, rpc, rlen, rdata, edge, nread, received, reordered,
          overread, depleted>>

Junk == -1
Index == 0..(Size - 1)
Fragment == [seq : Nat, len : Nat]

\* usnet_get_ringbuf, and the block after the handshake.  win is 0 until the
\* first insertion.
Init ==
  /\ ring = [i \in Index |-> Junk]
  /\ data = 0 /\ head = 0 /\ head_seq = 0 /\ win = 0 /\ frags = << >>
  /\ rcv_nxt = 0 /\ rcv_wnd = InitWindow
  /\ rpc = "idle" /\ rlen = 0 /\ rdata = 0
  /\ edge = InitWindow
  /\ nread = 0 /\ received = {} /\ reordered = FALSE /\ overread = FALSE
  /\ depleted = 0

-----------------------------------------------------------------------------
(* The list of fragments. *)

\* Mutant: fragments that only touch are not merged.
CanMergeOverlap(a, b) == a.seq + a.len > b.seq /\ b.seq + b.len > a.seq

CanMerge(a, b) == a.seq + a.len + 1 > b.seq /\ b.seq + b.len + 1 > a.seq

Merge(a, b) ==
  LET first == IF a.seq <= b.seq THEN a.seq ELSE b.seq
      last == IF a.seq + a.len >= b.seq + b.len THEN a.seq + a.len ELSE b.seq + b.len
  IN  [seq |-> first, len |-> last - first]

\* One turn of the loop over the list.  cur is the new fragment, or the one it
\* was merged into; it has its place when the loop stops.
Traverse(new, acc, f) ==
  CASE acc.stop -> [acc EXCEPT !.out = Append(@, f)]
    [] ~acc.stop /\ CanMerge(acc.cur, f) ->
         [cur |-> Merge(acc.cur, f), merged |-> TRUE, stop |-> FALSE, out |-> acc.out]
    [] ~acc.stop /\ ~CanMerge(acc.cur, f) ->
         IF acc.merged \/ f.seq >= new.seq + new.len
         THEN [cur |-> acc.cur, merged |-> acc.merged, stop |-> TRUE,
               out |-> acc.out \o <<acc.cur, f>>]
         ELSE [acc EXCEPT !.out = Append(@, f)]

\* The loop, turn by turn.
Walk(new) ==
  LET walk[n \in 0..Len(frags)] ==
        IF n = 0
        THEN [cur |-> new, merged |-> FALSE, stop |-> FALSE, out |-> << >>]
        ELSE Traverse(new, walk[n - 1], frags[n])
  IN  walk

InsertFragment(new) ==
  LET acc == Walk(new)[Len(frags)]
  IN  IF acc.stop THEN acc.out ELSE Append(acc.out, acc.cur)

\* A first fragment that starts at head_seq moves head_seq and leaves the list.
Advance(list) ==
  IF list[1].seq = head_seq
  THEN [seq |-> head_seq + list[1].len, frags |-> Tail(list)]
  ELSE [seq |-> head_seq, frags |-> list]

-----------------------------------------------------------------------------
(* The ring: data and head are 16 bits wide; win is kept signed, a negative *)
(* one being above 2^31 and outside every comparison of sequence numbers.   *)

Free(d, h) == IF d > h THEN d - h ELSE d + Size - h

\* The build does not optimise (configure.ac sets CFLAGS to -g): the expression
\* loads data twice, and the application may go around the end of the ring
\* between the two loads.  The result is then not positive.
Windows(h) == {Free(data, h) - 1} \cup {e - h - 1 : e \in IF data > h THEN 0..h ELSE {}}

\* Where the payload starts: from head, also when it lies beyond head_seq.
Start(seq) ==
  LET off == head + (seq - head_seq) IN IF off > Size THEN off - Size ELSE off

Stored(seq, len) ==
  LET offset(i) == IF i >= Start(seq) THEN i - Start(seq) ELSE i + (Size - Start(seq))
  IN  [i \in Index |-> IF offset(i) < len THEN seq + offset(i) ELSE ring[i]]

\* Mutants: a payload that wraps counts from the start of the ring; head is signed.
HeadFromStart(seq, len) == IF Size - Start(seq) >= len THEN (head + len) % Word ELSE len

HeadSigned(seq, len) == IF Size - Start(seq) >= len THEN head + len ELSE head + len - Size

\* head moves by the length of the payload, wherever that was stored.
HeadAfter(seq, len) ==
  (IF Size - Start(seq) >= len THEN head + len ELSE head + len - Size) % Word

-----------------------------------------------------------------------------
(* Segments: usnet_validate_seq and usnet_process_tcp_payload. *)

Arrives(seq, len) ==
  /\ seq + len <= MaxSeq
  /\ seq + len <= edge
  /\ seq + len >= rcv_nxt /\ seq + len <= rcv_nxt + rcv_wnd - 1

Fits(seq, len) ==
  /\ seq >= head_seq
  /\ len <= Size
  /\ (seq - head_seq) + len <= Free(data, head)

\* After every insertion, failed ones too; the ack that follows tells the peer.
Update(nxt, w) ==
  /\ rcv_nxt' = nxt
  /\ rcv_wnd' = w
  /\ edge' = LET e == nxt + (w \div Scale) * Scale IN IF e > edge THEN e ELSE edge

\* usnet_insert_fragment.  (With data and head astray after reordered segments
\* the start can lie behind the ring; the copy then has a negative length and
\* ends the process.)
Insert(seq, len) ==
  /\ Arrives(seq, len) /\ Fits(seq, len) /\ Start(seq) <= Size
  /\ LET next == Advance(InsertFragment([seq |-> seq, len |-> len]))
     IN  /\ frags' = next.frags
         /\ head_seq' = next.seq
  /\ ring' = Stored(seq, len)
  /\ head' = HeadAfter(seq, len)
  /\ win' \in Windows(head')
  /\ Update(head_seq', win')
  /\ received' = received \cup seq..(seq + len - 1)
  /\ reordered' = (reordered \/ seq # head_seq)
  /\ UNCHANGED <<data, rpc, rlen, rdata, nread, overread, depleted>>

\* The payload is stored, but there is no fragment left to record it.
InsertNoFragment(seq, len) ==
  /\ depleted < MaxDepleted
  /\ depleted' = depleted + 1
  /\ Arrives(seq, len) /\ Fits(seq, len) /\ Start(seq) <= Size
  /\ ring' = Stored(seq, len)
  /\ head' = HeadAfter(seq, len)
  /\ Update(head_seq, win)
  /\ reordered' = TRUE
  /\ UNCHANGED <<data, head_seq, win, frags, rpc, rlen, rdata, nread, received, overread>>

\* The payload starts below head_seq or goes beyond the buffer, or a read that is
\* about to end moves data around between the two loads.
InsertFails(seq, len) ==
  /\ Arrives(seq, len)
  /\ ~Fits(seq, len) \/ (rpc = "copied" /\ data > head /\ rdata <= head)
  /\ Update(head_seq, win)
  /\ UNCHANGED <<buf, rpc, rlen, rdata, nread, received, reordered, overread, depleted>>

-----------------------------------------------------------------------------
(* The application: usnet_read.  Each use of buf->head in the C text is a load *)
(* of its own.  data moves after the bytes were copied.                       *)

\* First load: there is something to read.
ReadTest ==
  /\ rpc = "idle"
  /\ head # data
  /\ nread < MaxSeq
  /\ rpc' = "tested"
  /\ UNCHANGED <<buf, rcv_nxt, rcv_wnd, rlen, rdata, edge, nread, received, reordered,
                 overread, depleted>>

\* Second load: which branch.
ReadBranch ==
  /\ rpc = "tested"
  /\ rpc' = IF head > data THEN "upper" ELSE "wrapped"
  /\ UNCHANGED <<buf, rcv_nxt, rcv_wnd, rlen, rdata, edge, nread, received, reordered,
                 overread, depleted>>

\* Third load: data_len, compared with count as an unsigned number.
Readable == IF rpc = "upper" THEN head - data ELSE Size + head - data

DataAfter(len) ==
  IF rpc = "upper" \/ len <= Size - data THEN data + len ELSE len - (Size - data)

\* When head went around the end of the ring after the branch was chosen,
\* data_len is negative, and count bytes are copied from data on.
ReadCopy(count) ==
  /\ rpc \in {"upper", "wrapped"}
  /\ rlen' = IF 0 <= Readable /\ Readable <= count THEN Readable ELSE count
  /\ rdata' = DataAfter(rlen') % Word
  /\ overread' = (overread \/ (rpc = "upper" /\ data + rlen' > Size))
  /\ rpc' = "copied"
  /\ UNCHANGED <<buf, rcv_nxt, rcv_wnd, edge, nread, received, reordered, depleted>>

ReadDone ==
  /\ rpc = "copied"
  /\ data' = rdata
  /\ nread' = nread + rlen
  /\ rpc' = "idle" /\ rlen' = 0 /\ rdata' = 0
  /\ UNCHANGED <<ring, head, head_seq, win, frags, rcv_nxt, rcv_wnd, edge, received,
                 reordered, overread, depleted>>

-----------------------------------------------------------------------------
Segments ==
  \E seq \in 0..(MaxSeq - 1), len \in 1..MaxSegment :
    Insert(seq, len) \/ InsertNoFragment(seq, len) \/ InsertFails(seq, len)

Reads == ReadTest \/ ReadBranch \/ (\E count \in Counts : ReadCopy(count)) \/ ReadDone

Next == Segments \/ Reads

Spec == Init /\ [][Next]_vars

\* The application reads what there is, and the peer repeats what the window
\* allows until it arrives; a fragment is there in the end.
Fairness ==
  /\ WF_vars(Reads)
  /\ \A seq \in 0..(MaxSeq - 1) : SF_vars(\E len \in 1..MaxSegment : Insert(seq, len))

FairSpec == Spec /\ Fairness

-----------------------------------------------------------------------------
(* Properties. *)

\* The indices of usn_ringbuf_t have their 16 bits and the list holds fragments;
\* after reordered segments the indices may leave the ring.
TypeOK ==
  /\ ring \in [Index -> Int]
  /\ data \in 0..(Word - 1) /\ head \in 0..(Word - 1)
  /\ head_seq \in Nat /\ win \in Int /\ frags \in Seq(Fragment)
  /\ rcv_nxt \in Nat /\ rcv_wnd \in Int /\ edge \in Nat
  /\ rpc \in {"idle", "tested", "upper", "wrapped", "copied"}
  /\ rlen \in Nat /\ rdata \in 0..(Word - 1)
  /\ nread \in Nat /\ received \subseteq Nat /\ reordered \in BOOLEAN
  /\ overread \in BOOLEAN /\ depleted \in 0..MaxDepleted

Bytes(f) == f.seq..(f.seq + f.len - 1)

\* Whatever the order, the overlap and the repetition of the segments, the
\* fragments are sorted with a hole before each, and together with head_seq they
\* say exactly which bytes were received: an ack never covers a byte that is
\* missing, and no byte received is asked for again once the holes are filled.
ReassemblyExact ==
  /\ \A i \in DOMAIN frags :
       frags[i].seq > IF i = 1 THEN head_seq ELSE frags[i-1].seq + frags[i-1].len
  /\ received = 0..(head_seq - 1) \cup UNION {Bytes(frags[i]) : i \in DOMAIN frags}

Unread == IF head >= data THEN head - data ELSE Size + head - data

\* As long as the segments arrive in order, the readable part of the ring is the
\* stream from the first unread byte to head_seq, also around the end of the
\* ring and with the net process moving head between the loads of a read; in
\* particular a full ring is never taken for an empty one.  It ends with a read
\* that leaves the ring because head went around between two loads.
ReadsStream ==
  ~reordered /\ ~overread =>
    /\ nread + Unread = head_seq
    /\ \A k \in nread..(head_seq - 1) : ring[(data + (k - nread)) % Size] = k

\* What usnet_read would have to guarantee: with the segments in order, a read
\* stays in the ring.
ReadStaysInRing == ~reordered => ~overread

\* usnet_send_tcp_packet says that a window advertised as 0 is advertised again
\* later: once the peer was told of a closed window, it will be told of an open
\* one, if the application reads all there is; even if nothing was reordered.
WindowReopens ==
  (~reordered /\ rcv_wnd < Scale /\ nread < MaxSeq - MaxSegment) ~> (rcv_wnd >= Scale)
=============================================================================
