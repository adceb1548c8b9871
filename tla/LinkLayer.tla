----------------------------- MODULE LinkLayer ------------------------------
(***************************************************************************)
(* Below TCP: frames come in (usnet_recv_frame, usnet_eth_input), teach    *)
(* the ARP table, are answered by ICMP and UDP or handed to TCP, and       *)
(* answers go out through the one frame buffer ctx->nm_buf into the rings  *)
(* of the netmap device (usnet_eth_output_nm, usnet_send_frame).           *)
(*                                                                         *)
(* A payload is a sequence of words and perhaps a last odd byte, with      *)
(* words of Base values in the place of 65536: only the checksums look at  *)
(* it.  Frames that fail a check of usnet_ipv4_input, are of an unknown    *)
(* type, or ask for another address change nothing and are left out.       *)
(*                                                                         *)
(* Of TCP there is the control list: blocks whose packet could not be sent *)
(* at once, one block for a peer, and the pass that serves the list.  What *)
(* the packets mean is in Connection.                                      *)
(***************************************************************************)
EXTENDS Integers, Sequences, FiniteSets

CONSTANTS
  Ips,       \* addresses of peers
  Hwaddrs,   \* hardware addresses of peers
  OwnHa,     \* ifnet->hwa
  Broadcast, \* the address of all ones
  Byte,      \* values of a byte; a word has two
  Rings,     \* transmit rings of the device: first_tx_ring..last_tx_ring
  Slots,     \* frames a ring holds
  Burst,     \* ifnet->burst
  MaxArpEntries,  \* MAX_ARP_ENTRIES, the size of arp.entries
  Thresh,    \* blocks that one pass over the control list serves
  Words,     \* bound: words that a peer puts into a message
  OddBytes   \* bound: bytes at the end of a message of odd length

NoIp == "0.0.0.0"                 \* the address of entry 0, and of an ARP probe
NoClaim == "unclaimed"

ASSUME ByteAssumption == Byte \in Nat /\ Byte >= 2 /\ Byte % 2 = 0
ASSUME RingAssumption ==
  /\ Rings \subseteq Nat /\ Rings # {} /\ IsFiniteSet(Rings)
  /\ Slots \in Nat \ {0} /\ Burst \in Nat \ {0}
ASSUME WordsAssumption ==
  Words \subseteq 0..(Byte * Byte - 1) /\ OddBytes \subseteq 0..(Byte - 1)
\* The table has room for every address on the link: usnet_register_arp does
\* not look whether there is any left.
ASSUME TableAssumption ==
  /\ IsFiniteSet(Ips) /\ MaxArpEntries \in Nat /\ Cardinality(Ips) < MaxArpEntries
ASSUME ThreshAssumption == Thresh \in Nat \ {0}
ASSUME AddressAssumption ==
  /\ OwnHa \notin Hwaddrs /\ Broadcast \notin Hwaddrs \cup {OwnHa}
  /\ NoIp \notin Ips /\ NoClaim \notin Hwaddrs \cup {OwnHa}

VARIABLES
  entries,   \* ctx->arp.entries, up to arp.cnt
  control,   \* ctx->control_list: the peers of the blocks on it, in order
  owed,      \* history: peers whose block has a control packet to send
  phase,     \* "control" inside usnet_send_tcp_control_list, "handlers" in the
             \*   rest of the loop and in poll()
  left,      \* blocks that the pass still serves
  asked,     \* requests on the wire that the peer can answer
  nm_buf,    \* the frame in ctx->nm_buf
  pending,   \* frames in each transmit ring
  npkts,     \* ifnet->npkts
  claim,     \* history: the first hardware address ARP named for an address
  since,     \* history: frames put into a ring since usnet_send_frame last
             \*   gave one up, as far as Burst
  apart      \* history: what since was when it gave up the last one

device == <<pending, npkts, since, apart>>
lists == <<control, owed, phase, left>>
vars == <<entries, lists, asked, nm_buf, device, claim>>

Base == Byte * Byte
NoOdd == -1
Peers == Ips \cup {NoIp}
Odds == {NoOdd} \cup OddBytes
Message(words, odd, pseudo) == [words |-> words, odd |-> odd, pseudo |-> pseudo]
NoPayload == Message(<< >>, NoOdd, 0)
Kinds == {"none", "arp_request", "arp_reply", "icmp", "udp", "tcp"}
Frame(kind, ip, ha, data) == [kind |-> kind, ip |-> ip, ha |-> ha, data |-> data]

\* usnet_arp_init and usnet_netmap_init: entry 0 holds the own hardware
\* address under address 0.
Init ==
  /\ entries = << [ip |-> NoIp, ha |-> OwnHa] >>
  /\ control = << >> /\ owed = {} /\ asked = {}
  /\ phase = "handlers" /\ left = 0
  /\ nm_buf = Frame("none", NoIp, OwnHa, NoPayload)
  /\ pending = [r \in Rings |-> 0]
  /\ npkts = 0 /\ since = Burst /\ apart = Burst
  /\ claim = [ip \in Peers |-> IF ip = NoIp THEN OwnHa ELSE NoClaim]

-----------------------------------------------------------------------------
(* Checksums. *)

\* The sum of the words, as cksum, tcp_cksum and udp_cksum form it.
WordSum(w) ==
  LET sum[i \in 0..Len(w)] == IF i = 0 THEN 0 ELSE sum[i - 1] + w[i]
  IN sum[Len(w)]

Fold(s) == (s % Base) + (s \div Base)
Complement(s) == (Base - 1) - (s % Base)

\* cksum: `if (len > 1)' after the loop leaves a last odd byte out.
Cksum(p) == Complement(Fold(Fold(WordSum(p.words))))

\* A word as a short.
Short(w) == IF 2 * w < Base THEN w ELSE w - Base

\* ADDCARRY: any bit above the word, so also the sign, is one carry.
AddCarry(s) == IF s < 0 \/ s >= Base THEN (s % Base) + 1 ELSE s

\* in_cksum: the words are added as shorts; in the place of the odd byte it
\* adds the byte u.c[0], which nobody set (stray).
InCksum(p, stray) ==
  LET sum[i \in 0..Len(p.words)] ==
        IF i = 0 THEN 0 ELSE AddCarry(sum[i - 1] + Short(p.words[i]))
      s == sum[Len(p.words)]
  IN Complement(IF p.odd = NoOdd THEN s ELSE AddCarry(s + stray))

\* The sum that tcp_cksum and udp_cksum form: the words, the odd byte and the
\* sum over the pseudo header.
PseudoSum(p) == WordSum(p.words) + (IF p.odd = NoOdd THEN 0 ELSE p.odd) + p.pseudo

\* Mutant: the second fold of the sum is left out.
PseudoCksumOnce(p) == Complement(Fold(PseudoSum(p)))

\* tcp_cksum and udp_cksum.
PseudoCksum(p) ==
  LET s == Fold(PseudoSum(p)) IN Complement(s + (s \div Base))

\* Pseudo headers: none, one that the sum of a word just carries past a
\* word, and one whose two addresses are nearly all ones.
Pseudo == {0, Base - 1, 2 * Base - 3}

-----------------------------------------------------------------------------
(* The ARP table. *)

\* usnet_get_arp and usnet_get_hwaddr: the first entry of that address.
Found(ip) == \E i \in DOMAIN entries : entries[i].ip = ip

Hwaddr(ip) ==
  entries[CHOOSE i \in DOMAIN entries :
            /\ entries[i].ip = ip
            /\ \A j \in 1..(i - 1) : entries[j].ip # ip].ha

Claim(ip, ha) ==
  claim' = [claim EXCEPT ![ip] = IF @ = NoClaim THEN ha ELSE @]

\* Mutant: the entry is not looked for first.
LearnAlways(ip, ha) ==
  /\ entries' = IF Len(entries) > Cardinality(Ips) + 1 THEN entries
                ELSE Append(entries, [ip |-> ip, ha |-> ha])
  /\ Claim(ip, ha)

\* The common part of the two handlers: usnet_register_arp of a new address
\* (within the array only by TableAssumption).
Learn(ip, ha) ==
  /\ entries' = IF Found(ip) THEN entries
                ELSE Append(entries, [ip |-> ip, ha |-> ha])
  /\ Claim(ip, ha)

-----------------------------------------------------------------------------
(* The device. *)

Free == {r \in Rings : pending[r] < Slots}
First(R) == CHOOSE r \in R : \A q \in R : r <= q

Handed ==
  /\ since' = IF since < Burst THEN since + 1 ELSE Burst
  /\ UNCHANGED apart

GivenUp == since' = 0 /\ apart' = since

\* Mutant: nm_ring_empty is not asked.
PutFrameBlind(n) ==
  /\ pending' = [pending EXCEPT ![First(Rings)] = @ + 1]
  /\ npkts' = n + 1
  /\ Handed

\* The frame goes into the first ring with room; with no room anywhere the
\* rings are flushed, which waits until the device has sent everything.
PutFrame(n) ==
  LET P == IF Free = {} THEN [r \in Rings |-> 0] ELSE pending
      r == First(IF Free = {} THEN Rings ELSE Free)
  IN /\ pending' = [P EXCEPT ![r] = @ + 1]
     /\ npkts' = n + 1
     /\ Handed

\* Mutant: npkts is only reset when the poll succeeds, as in usnet_get_nmbuf.
SendFrameKeepCount(f) ==
  /\ nm_buf' = f
  /\ \/ npkts < Burst /\ PutFrame(npkts)
     \/ npkts >= Burst /\ PutFrame(0)
     \/ npkts >= Burst /\ GivenUp /\ UNCHANGED <<pending, npkts>>

\* usnet_send_frame of the frame f built in nm_buf.  After a burst the device
\* is polled: it takes frames, asks for a flush, or the poll fails and the
\* frame is given up.
SendFrame(f) ==
  /\ nm_buf' = f
  /\ \/ npkts < Burst /\ PutFrame(npkts)
     \/ npkts >= Burst /\ PutFrame(0)
     \/ /\ npkts >= Burst
        /\ pending' = [[r \in Rings |-> 0] EXCEPT ![First(Rings)] = 1]
        /\ npkts' = 1
        /\ Handed
     \/ /\ npkts >= Burst
        /\ npkts' = 0 /\ GivenUp
        /\ UNCHANGED pending

\* The device sends a frame of ring r.
Transmit(r) ==
  /\ pending[r] > 0
  /\ pending' = [pending EXCEPT ![r] = @ - 1]
  /\ UNCHANGED <<entries, lists, asked, nm_buf, npkts, claim, since, apart>>

-----------------------------------------------------------------------------
(* Input and output. *)

\* usnet_arp_request: the packet that needed the address is dropped.
ArpRequest(ip) ==
  /\ SendFrame(Frame("arp_request", ip, Broadcast, NoPayload))
  /\ asked' = IF since' = 0 THEN asked ELSE asked \cup {ip}

\* Mutant: an unknown address falls back to entry 0.
OutputDefault(kind, ip, data) ==
  /\ SendFrame(Frame(kind, ip, IF Found(ip) THEN Hwaddr(ip) ELSE entries[1].ha, data))
  /\ UNCHANGED asked

\* usnet_ipv4_output, usnet_ipv4_output_alone and usnet_send_data.
Output(kind, ip, data) ==
  IF Found(ip)
  THEN SendFrame(Frame(kind, ip, Hwaddr(ip), data)) /\ UNCHANGED asked
  ELSE ArpRequest(ip)

\* usnet_arp_req_handler: a request for our address; a probe has no sender.
RecvArpRequest(ip, ha) ==
  /\ phase = "handlers"
  /\ Learn(ip, ha)
  /\ SendFrame(Frame("arp_reply", ip, ha, NoPayload))
  /\ UNCHANGED <<lists, asked>>

\* usnet_arp_reply_handler.  Replies also come unasked.
RecvArpReply(ip, ha) ==
  /\ phase = "handlers"
  /\ Learn(ip, ha)
  /\ asked' = asked \ {ip}
  /\ UNCHANGED <<lists, nm_buf, device>>

\* usnet_icmp_input of an echo request <<type, checksum, word>> and
\* usnet_icmp_reflect.  Echo and its reply differ in the type word.
EchoType == 8 % Base
ReplyType == 0

RecvIcmp(ip, w, odd) ==
  /\ phase = "handlers"
  /\ LET ck == Cksum(Message(<<EchoType, 0, w>>, odd, 0))
     IN Cksum(Message(<<EchoType, ck, w>>, odd, 0)) = 0
  /\ \E stray \in (IF odd = NoOdd THEN {0} ELSE 0..(Byte - 1)) :
       LET p == Message(<<ReplyType, 0, w>>, odd, 0)
       IN Output("icmp", ip, [p EXCEPT !.words[2] = InCksum(p, stray)])
  /\ UNCHANGED <<entries, lists, claim>>

\* usnet_udp_input: <<source port, destination port, checksum, word>>, sent
\* back with the ports swapped; the checksum that came is not looked at.
RecvUdp(ip, sport, dport, w, odd, pseudo) ==
  /\ phase = "handlers"
  /\ LET p == Message(<<dport, sport, 0, w>>, odd, pseudo)
     IN Output("udp", ip, [p EXCEPT !.words[3] = PseudoCksum(p)])
  /\ UNCHANGED <<entries, lists, claim>>

-----------------------------------------------------------------------------
(* The control list. *)

Listed(ip) == \E i \in DOMAIN control : control[i] = ip

\* TAILQ_REMOVE of the block of ip, wherever it is on the list.
Unlink(ip) ==
  LET i == CHOOSE j \in DOMAIN control : control[j] = ip
  IN IF Listed(ip) THEN SubSeq(control, 1, i - 1) \o SubSeq(control, i + 1, Len(control))
     ELSE control

\* usnet_send_tcp_packet: it fails without the hardware address of the peer,
\* and does not see whether the device takes the frame.
SendTcp(ip, w, pseudo) ==
  LET p == Message(<<0, w>>, NoOdd, pseudo)
  IN Output("tcp", ip, [p EXCEPT !.words[1] = PseudoCksum(p)])

\* usnet_add_control_list, called by a segment, a timer or an event: the packet
\* is sent at once and the block leaves the list, or it goes to the end of the
\* list unless it is there already.
AddControl(ip, w, pseudo) ==
  /\ phase = "handlers"
  /\ SendTcp(ip, w, pseudo)
  /\ control' = IF Found(ip) THEN Unlink(ip)
                ELSE IF Listed(ip) THEN control ELSE Append(control, ip)
  /\ owed' = IF Found(ip) THEN owed \ {ip} ELSE owed \cup {ip}
  /\ UNCHANGED <<entries, claim, phase, left>>

\* usnet_remove_control_list when the block is released.
RemoveControl(ip) ==
  /\ phase = "handlers"
  /\ Listed(ip)
  /\ control' = Unlink(ip) /\ owed' = owed \ {ip}
  /\ UNCHANGED <<entries, phase, left, asked, nm_buf, device, claim>>

\* usnet_send_tcp_control_list serves the blocks that are on the list when it
\* begins.  The loop calls it when poll() reported something, never after an
\* idle poll.
StartPass ==
  /\ phase = "handlers"
  /\ phase' = "control"
  /\ left' = IF Len(control) < Thresh THEN Len(control) ELSE Thresh
  /\ UNCHANGED <<entries, control, owed, asked, nm_buf, device, claim>>

\* The next block of the pass: a packet that cannot be sent puts the block back
\* to the head of the list and ends the pass.
PassStep(w, pseudo, ifNotSent) ==
  /\ phase = "control" /\ left > 0
  /\ SendTcp(Head(control), w, pseudo)
  /\ IF Found(Head(control))
     THEN /\ control' = Tail(control) /\ owed' = owed \ {Head(control)}
          /\ left' = left - 1 /\ UNCHANGED phase
     ELSE /\ control' = ifNotSent /\ UNCHANGED owed
          /\ left' = 0 /\ phase' = "handlers"
  /\ UNCHANGED <<entries, claim>>

\* Mutant: a block whose packet was not sent is not put back.
SendControlDrops(w, pseudo) == PassStep(w, pseudo, Tail(control))

SendControl(w, pseudo) == PassStep(w, pseudo, control)

EndPass ==
  /\ phase = "control" /\ left = 0
  /\ phase' = "handlers"
  /\ UNCHANGED <<entries, control, owed, left, asked, nm_buf, device, claim>>

\* The network loses a request or its answer.
LoseRequest(ip) ==
  /\ ip \in asked
  /\ asked' = asked \ {ip}
  /\ UNCHANGED <<entries, lists, nm_buf, device, claim>>

-----------------------------------------------------------------------------
Arp ==
  \E ha \in Hwaddrs :
    \/ \E ip \in Peers : RecvArpRequest(ip, ha)
    \/ \E ip \in Ips : RecvArpReply(ip, ha)

Datagrams ==
  \E ip \in Peers, w \in Words, odd \in Odds :
    \/ RecvIcmp(ip, w, odd)
    \/ \E pseudo \in Pseudo : RecvUdp(ip, 1, Base - 1, w, odd, pseudo)

Pass ==
  \/ EndPass
  \/ \E w \in Words, pseudo \in Pseudo : SendControl(w, pseudo)

Tcp ==
  \/ \E ip \in Ips :
       \/ \E w \in Words, pseudo \in Pseudo : AddControl(ip, w, pseudo)
       \/ RemoveControl(ip)
  \/ StartPass \/ Pass

Environment ==
  \/ \E r \in Rings : Transmit(r)
  \/ \E ip \in Ips : LoseRequest(ip)

Next == Arp \/ Datagrams \/ Tcp \/ Environment

Spec == Init /\ [][Next]_vars

\* A pass that has begun goes on; nothing makes one begin.  The device does not
\* refuse every frame of the passes, and a peer that is asked again and again
\* answers.
TakenStep ==
  (\E w \in Words, pseudo \in Pseudo : SendControl(w, pseudo)) /\ since' # 0
AnswerStep(ip) == ip \in asked /\ \E ha \in Hwaddrs : RecvArpReply(ip, ha)

Fairness ==
  /\ WF_vars(Pass) /\ SF_vars(TakenStep)
  /\ \A ip \in Ips : SF_vars(AnswerStep(ip))

FairSpec == Spec /\ Fairness

-----------------------------------------------------------------------------
(* Properties *)

\* Types and bounds: no ring holds more frames than it has slots, a burst is
\* never exceeded (usnet_send_frame), the ARP table stays within its array as
\* long as the link has fewer addresses, and a pass never looks for a block on
\* an empty control list.
TypeOK ==
  /\ \A i \in DOMAIN entries :
       entries[i].ip \in Peers /\ entries[i].ha \in Hwaddrs \cup {OwnHa}
  /\ Len(entries) <= MaxArpEntries
  /\ control \in Seq(Ips) /\ owed \subseteq Ips /\ asked \subseteq Ips
  /\ phase \in {"handlers", "control"}
  /\ left \in 0..Thresh /\ left <= Len(control)
  /\ nm_buf.kind \in Kinds /\ nm_buf.ip \in Peers
  /\ nm_buf.ha \in Hwaddrs \cup {OwnHa, Broadcast}
  /\ \A i \in DOMAIN nm_buf.data.words : nm_buf.data.words[i] \in 0..(Base - 1)
  /\ pending \in [Rings -> 0..Slots]
  /\ npkts \in 0..Burst /\ since \in 0..Burst /\ apart \in 0..Burst
  /\ claim \in [Peers -> Hwaddrs \cup {OwnHa, NoClaim}]

\* However requests, replies, probes and repeated answers interleave, the ARP
\* table holds at most one entry for an address, so it holds no more than the
\* addresses on the link and an entry once found keeps its hardware address.
ArpUnique ==
  \A i, j \in DOMAIN entries : entries[i].ip = entries[j].ip => i = j

\* A datagram goes only to the hardware address that its destination claimed
\* (the first one: the table is never corrected), never to the broadcast
\* address that the ARP request before it left in the frame buffer.
FrameToOwner ==
  nm_buf.kind \in {"icmp", "udp", "tcp"} => nm_buf.ha = claim[nm_buf.ip]

\* The reference for a checksum: the ones' complement sum over everything,
\* carried until it is a word, is all ones.
Verifies(p) == PseudoSum(p) > 0 /\ PseudoSum(p) % (Base - 1) = 0

\* What leaves the host verifies at the peer: every UDP and TCP packet, and an
\* echo reply of even length whose words are all positive as shorts.
ChecksumsVerify ==
  \/ nm_buf.kind \notin {"icmp", "udp", "tcp"}
  \/ Verifies(nm_buf.data)
  \/ /\ nm_buf.kind = "icmp"
     /\ \/ nm_buf.data.odd # NoOdd
        \/ nm_buf.data.words[3] >= Base \div 2

\* A device that cannot be polled costs one frame in a burst: between two
\* frames that usnet_send_frame gives up, a whole burst has gone out.
LossesAreApart == apart >= Burst

\* A block that has a control packet to send is on the control list, whoever
\* took it off last: a handler that tried again, the release of another block or
\* a pass that it brought to its end.
OwedIsListed == \A ip \in owed : Listed(ip)

\* A control packet that could not be sent at once is not forgotten: it is
\* handed to the device (which may still give the frame up) or its block is
\* released, although the packet that found the hardware address missing is
\* dropped, requests are lost, and the block at the head of the list holds up
\* the others.  Only if the poll of the loop reports nothing any more, so that
\* no pass begins, does it stay.
OwedIsHanded ==
  \A ip \in Ips : []<>(ip \notin owed) \/ <>[](phase = "handlers")

\* The echo reply passes the test that usnet_icmp_input makes of a message,
\* as the request did.
EchoVerifies == nm_buf.kind = "icmp" => Cksum(nm_buf.data) = 0

=============================================================================
