-------------------------- MODULE LinkLayerProofs ---------------------------
(***************************************************************************)
(* Proofs about LinkLayer, for every set of peers and hardware addresses,  *)
(* every number of rings and slots, and every burst.                       *)
(***************************************************************************)
EXTENDS LinkLayer, FiniteSetTheorems, SequenceTheorems, WellFoundedInduction, TLAPS

-----------------------------------------------------------------------------
(* The control list. *)

\* What the pass rests on: outside it nothing is left to serve, inside it there
\* is a block for each turn left.
ListInv ==
  /\ control \in Seq(Ips) /\ owed \subseteq Ips
  /\ phase \in {"handlers", "control"}
  /\ left \in 0..Thresh /\ left <= Len(control)
  /\ phase = "handlers" => left = 0
  /\ OwedIsListed

\* TAILQ_REMOVE takes off one block and keeps the others.
LEMMA UnlinkKeeps ==
  ASSUME control \in Seq(Ips), NEW ip
  PROVE  /\ Unlink(ip) \in Seq(Ips)
         /\ \A x : x # ip /\ Listed(x) => \E k \in DOMAIN Unlink(ip) : Unlink(ip)[k] = x
<1>1. CASE ~Listed(ip)
  BY <1>1 DEF Unlink, Listed
<1>2. CASE Listed(ip)
  <2> DEFINE i == CHOOSE j \in DOMAIN control : control[j] = ip
             a == SubSeq(control, 1, i - 1)
             b == SubSeq(control, i + 1, Len(control))
  <2>1. i \in DOMAIN control /\ control[i] = ip
    BY <1>2 DEF Listed
  <2>2. Unlink(ip) = a \o b
    BY <1>2, Zenon DEF Unlink
  <2> HIDE DEF i
  <2>3. i \in 1..Len(control) /\ Len(control) \in Nat
    BY <2>1
  <2>4. /\ a \in Seq(Ips) /\ Len(a) = i - 1
        /\ \A j \in 1..(i - 1) : a[j] = control[j]
    BY <2>3
  <2>5. /\ b \in Seq(Ips) /\ Len(b) = Len(control) - i
        /\ \A j \in 1..(Len(control) - i) : b[j] = control[i + j]
    BY <2>3
  <2> HIDE DEF a, b
  <2>6. /\ a \o b \in Seq(Ips) /\ Len(a \o b) = Len(control) - 1
        /\ DOMAIN (a \o b) = 1..(Len(control) - 1)
        /\ \A j \in 1..(Len(control) - 1) :
             (a \o b)[j] = IF j <= i - 1 THEN a[j] ELSE b[j - (i - 1)]
    <3>1. /\ a \o b \in Seq(Ips) /\ Len(a \o b) = Len(a) + Len(b)
          /\ \A j \in 1..(Len(a) + Len(b)) :
               (a \o b)[j] = IF j <= Len(a) THEN a[j] ELSE b[j - Len(a)]
      BY <2>4, <2>5, ConcatProperties, Zenon
    <3>2. Len(a) + Len(b) = Len(control) - 1
      BY <2>3, <2>4, <2>5
    <3>3. DOMAIN (a \o b) = 1..Len(a \o b)
      BY <3>1
    <3> QED
      BY <2>4, <3>1, <3>2, <3>3, Zenon
  <2>7. ASSUME NEW x, x # ip, Listed(x) PROVE \E k \in DOMAIN (a \o b) : (a \o b)[k] = x
    <3>1. PICK j \in 1..Len(control) : control[j] = x
      BY <2>7 DEF Listed
    <3>2. j # i
      BY <2>1, <2>7, <3>1
    <3>3. CASE j < i
      <4>1. j \in 1..(Len(control) - 1) /\ j \in 1..(i - 1)
        BY <2>3, <3>3
      <4>2. (a \o b)[j] = x
        BY <2>4, <2>6, <3>1, <4>1
      <4> QED
        BY <2>6, <4>1, <4>2
    <3>4. CASE j > i
      <4>1. /\ j - 1 \in 1..(Len(control) - 1) /\ ~(j - 1 <= i - 1)
            /\ (j - 1) - (i - 1) = j - i /\ j - i \in 1..(Len(control) - i)
            /\ i + (j - i) = j
        BY <2>3, <3>4
      <4>2. (a \o b)[j - 1] = b[j - i]
        BY <2>6, <4>1
      <4>3. b[j - i] = control[j]
        BY <2>5, <4>1
      <4> QED
        BY <2>6, <3>1, <4>1, <4>2, <4>3
    <3> QED
      BY <2>3, <3>2, <3>3, <3>4
  <2> QED
    BY <2>2, <2>6, <2>7
<1> QED
  BY <1>1, <1>2

\* The block that a pass serves next.
LEMMA PassHead ==
  ASSUME ListInv, phase = "control", left > 0
  PROVE  /\ control # << >> /\ Head(control) \in Ips
         /\ Tail(control) \in Seq(Ips) /\ Len(Tail(control)) = Len(control) - 1
         /\ \A x : x # Head(control) /\ Listed(x) =>
              \E k \in DOMAIN Tail(control) : Tail(control)[k] = x
<1>1. /\ control \in Seq(Ips) /\ Len(control) \in Nat /\ left \in Nat
      /\ left <= Len(control)
  BY ThreshAssumption DEF ListInv
<1>2. control # << >> /\ Len(control) > 0
  BY <1>1
<1>3. /\ Head(control) \in Ips /\ Head(control) = control[1]
      /\ Tail(control) \in Seq(Ips) /\ Len(Tail(control)) = Len(control) - 1
      /\ \A j \in 1..(Len(control) - 1) : Tail(control)[j] = control[j + 1]
  BY <1>1, <1>2
<1>4. ASSUME NEW x, x # Head(control), Listed(x)
      PROVE  \E k \in DOMAIN Tail(control) : Tail(control)[k] = x
  <2>1. PICK j \in 1..Len(control) : control[j] = x
    BY <1>1, <1>4 DEF Listed
  <2>2. j # 1
    BY <1>3, <1>4, <2>1
  <2>3. /\ j - 1 \in 1..(Len(control) - 1) /\ (j - 1) + 1 = j
        /\ DOMAIN Tail(control) = 1..(Len(control) - 1)
    BY <1>1, <1>3, <2>2
  <2> QED
    BY <1>3, <2>1, <2>3
<1> QED
  BY <1>2, <1>3, <1>4

LEMMA ListStep == ListInv /\ [Next]_vars => ListInv'
<1> SUFFICES ASSUME ListInv, [Next]_vars PROVE ListInv'
  OBVIOUS
<1>0. /\ control \in Seq(Ips) /\ Len(control) \in Nat /\ Thresh \in Nat \ {0}
      /\ left \in Nat
  BY ThreshAssumption DEF ListInv
<1>1. ASSUME UNCHANGED lists PROVE ListInv'
  BY <1>1 DEF ListInv, lists, OwedIsListed, Listed
<1>2. CASE Arp
  BY <1>1, <1>2 DEF Arp, RecvArpRequest, RecvArpReply, lists
<1>3. CASE Datagrams
  BY <1>1, <1>3, Zenon DEF Datagrams, RecvIcmp, RecvUdp
<1>4. ASSUME NEW ip \in Ips, NEW w, NEW q, AddControl(ip, w, q) PROVE ListInv'
  <2>1. /\ phase = "handlers" /\ UNCHANGED <<phase, left>>
        /\ control' = IF Found(ip) THEN Unlink(ip)
                      ELSE IF Listed(ip) THEN control ELSE Append(control, ip)
        /\ owed' = IF Found(ip) THEN owed \ {ip} ELSE owed \cup {ip}
    BY <1>4, Zenon DEF AddControl
  <2>2. left = 0
    BY <2>1 DEF ListInv
  <2>3. owed' \subseteq Ips
    BY <2>1 DEF ListInv
  <2>4. control' \in Seq(Ips) /\ OwedIsListed'
    <3>1. CASE Found(ip)
      BY <1>0, <2>1, <3>1, UnlinkKeeps DEF ListInv, OwedIsListed, Listed
    <3>2. CASE ~Found(ip) /\ Listed(ip)
      BY <1>0, <2>1, <3>2 DEF ListInv, OwedIsListed, Listed
    <3>3. CASE ~Found(ip) /\ ~Listed(ip)
      <4>1. control' = Append(control, ip)
        BY <2>1, <3>3
      <4>2. /\ control' \in Seq(Ips) /\ DOMAIN control' = 1..(Len(control) + 1)
            /\ control'[Len(control) + 1] = ip
            /\ \A j \in DOMAIN control : j \in DOMAIN control' /\ control'[j] = control[j]
        BY <1>0, <4>1
      <4>3. Len(control) + 1 \in DOMAIN control'
        BY <1>0, <4>2
      <4> QED
        BY <2>1, <3>3, <4>2, <4>3 DEF ListInv, OwedIsListed, Listed
    <3> QED
      BY <3>1, <3>2, <3>3
  <2>5. Len(control') \in Nat
    BY <2>4
  <2> QED
    BY <1>0, <2>1, <2>2, <2>3, <2>4, <2>5 DEF ListInv
<1>5. ASSUME NEW ip \in Ips, RemoveControl(ip) PROVE ListInv'
  <2>1. /\ phase = "handlers" /\ UNCHANGED <<phase, left>>
        /\ control' = Unlink(ip) /\ owed' = owed \ {ip}
    BY <1>5 DEF RemoveControl
  <2>2. left = 0
    BY <2>1 DEF ListInv
  <2>3. control' \in Seq(Ips) /\ OwedIsListed'
    BY <1>0, <2>1, UnlinkKeeps DEF ListInv, OwedIsListed, Listed
  <2>4. Len(control') \in Nat
    BY <2>3
  <2> QED
    BY <1>0, <2>1, <2>2, <2>3, <2>4 DEF ListInv
<1>6. CASE StartPass
  BY <1>0, <1>6 DEF StartPass, ListInv, OwedIsListed, Listed
<1>7. CASE EndPass
  BY <1>0, <1>7 DEF EndPass, ListInv, OwedIsListed, Listed
<1>8. ASSUME NEW w, NEW q, SendControl(w, q) PROVE ListInv'
  <2>1. /\ phase = "control" /\ left > 0
        /\ IF Found(Head(control))
           THEN /\ control' = Tail(control) /\ owed' = owed \ {Head(control)}
                /\ left' = left - 1 /\ phase' = phase
           ELSE control' = control /\ owed' = owed /\ left' = 0 /\ phase' = "handlers"
    BY <1>8, Zenon DEF SendControl, PassStep
  <2>2. CASE Found(Head(control))
    <3>1. control' \in Seq(Ips) /\ Len(control') = Len(control) - 1 /\ OwedIsListed'
      BY <2>1, <2>2, PassHead DEF ListInv, OwedIsListed, Listed
    <3> QED
      BY <1>0, <2>1, <2>2, <3>1 DEF ListInv
  <2>3. CASE ~Found(Head(control))
    BY <1>0, <2>1, <2>3 DEF ListInv, OwedIsListed, Listed
  <2> QED
    BY <2>2, <2>3
<1>9. CASE Environment
  BY <1>1, <1>9 DEF Environment, Transmit, LoseRequest
<1>10. CASE UNCHANGED vars
  BY <1>1, <1>10 DEF vars
<1>11. CASE Tcp
  BY <1>4, <1>5, <1>6, <1>7, <1>8, <1>11, Zenon DEF Tcp, Pass
<1> QED
  BY <1>2, <1>3, <1>9, <1>10, <1>11 DEF Next

LEMMA ListInit == Init => ListInv
  BY ThreshAssumption DEF Init, ListInv, OwedIsListed

\* A control packet that was not sent keeps its block on the control list until
\* it is sent or the block released, for every number of peers and every limit
\* of the pass.
THEOREM OwedStaysListed == Spec => []OwedIsListed
<1>1. ListInv => OwedIsListed
  BY DEF ListInv
<1> QED
  BY <1>1, ListInit, ListStep, PTL DEF Spec

-----------------------------------------------------------------------------
(* The device. *)

\* What keeps losses apart: as long as frames go out, at least as many have
\* gone out since the last one given up as the burst counts.
DeviceInv ==
  /\ npkts \in 0..Burst /\ since \in 0..Burst /\ apart \in Nat
  /\ npkts <= since
  /\ LossesAreApart

\* usnet_send_frame keeps the relation between the burst and the history.
LEMMA SendFrameKeeps ==
  ASSUME DeviceInv, NEW f, SendFrame(f)
  PROVE  DeviceInv'
<1>1. Burst \in Nat \ {0}
  BY RingAssumption
<1>2. ASSUME NEW n \in {0, npkts}, n < Burst, PutFrame(n)
      PROVE  DeviceInv'
  BY <1>1, <1>2 DEF DeviceInv, LossesAreApart, PutFrame, Handed
<1>3. CASE npkts < Burst /\ PutFrame(npkts)
  BY <1>2, <1>3
<1>4. CASE npkts >= Burst /\ PutFrame(0)
  BY <1>1, <1>2, <1>4
<1>5. CASE npkts >= Burst /\ npkts' = 1 /\ Handed
  BY <1>1, <1>5 DEF DeviceInv, LossesAreApart, Handed
<1>6. CASE npkts >= Burst /\ npkts' = 0 /\ GivenUp
  BY <1>1, <1>6 DEF DeviceInv, LossesAreApart, GivenUp
<1> QED
  BY <1>3, <1>4, <1>5, <1>6 DEF SendFrame

\* Output sends one frame, the datagram or an ARP request.
LEMMA OutputKeeps ==
  ASSUME DeviceInv, NEW kind, NEW ip, NEW data, Output(kind, ip, data)
  PROVE  DeviceInv'
BY SendFrameKeeps DEF Output, ArpRequest

LEMMA DeviceStep == DeviceInv /\ [Next]_vars => DeviceInv'
<1> SUFFICES ASSUME DeviceInv, [Next]_vars PROVE DeviceInv'
  OBVIOUS
<1>1. ASSUME UNCHANGED <<npkts, since, apart>> PROVE DeviceInv'
  BY <1>1 DEF DeviceInv, LossesAreApart
<1>2. CASE Arp
  <2>1. ASSUME NEW ip, NEW ha, RecvArpRequest(ip, ha) PROVE DeviceInv'
    BY <2>1, SendFrameKeeps DEF RecvArpRequest
  <2>2. ASSUME NEW ip, NEW ha, RecvArpReply(ip, ha) PROVE DeviceInv'
    BY <2>2, <1>1 DEF RecvArpReply, device
  <2> QED
    BY <1>2, <2>1, <2>2 DEF Arp
<1>3. CASE Datagrams
  <2>1. ASSUME NEW ip, NEW w, NEW odd, RecvIcmp(ip, w, odd) PROVE DeviceInv'
    BY <2>1, OutputKeeps DEF RecvIcmp
  <2>2. ASSUME NEW ip, NEW s, NEW d, NEW w, NEW odd, NEW q, RecvUdp(ip, s, d, w, odd, q)
        PROVE  DeviceInv'
    BY <2>2, OutputKeeps DEF RecvUdp
  <2> QED
    BY <1>3, <2>1, <2>2 DEF Datagrams
<1>4. CASE Tcp
  <2>1. CASE (\E ip \in Ips : RemoveControl(ip)) \/ StartPass \/ EndPass
    BY <2>1, <1>1 DEF RemoveControl, StartPass, EndPass, device
  <2>2. ASSUME NEW ip, NEW w, NEW q, SendTcp(ip, w, q) PROVE DeviceInv'
    BY <2>2, OutputKeeps DEF SendTcp
  <2>3. ASSUME NEW ip, NEW w, NEW q, AddControl(ip, w, q) PROVE DeviceInv'
    BY <2>2, <2>3, Zenon DEF AddControl
  <2>4. ASSUME NEW w, NEW q, SendControl(w, q) PROVE DeviceInv'
    BY <2>2, <2>4, Zenon DEF SendControl, PassStep
  <2> QED
    BY <1>4, <2>1, <2>3, <2>4, Zenon DEF Tcp, Pass
<1>5. CASE Environment
  BY <1>5, <1>1 DEF Environment, Transmit, LoseRequest, device
<1>6. CASE UNCHANGED vars
  BY <1>6, <1>1 DEF vars, device
<1> QED
  BY <1>2, <1>3, <1>4, <1>5, <1>6 DEF Next

\* Between two frames that usnet_send_frame gives up because the device cannot
\* be polled, at least a whole burst has gone into the rings.
THEOREM BurstBetweenLosses == Spec => []LossesAreApart
<1>1. Init => DeviceInv
  BY RingAssumption DEF Init, DeviceInv, LossesAreApart
<1>2. DeviceInv => LossesAreApart
  BY DEF DeviceInv
<1> QED
  BY <1>1, <1>2, DeviceStep, PTL DEF Spec

-----------------------------------------------------------------------------

\* The table is a sequence of entries; the second part is ArpUnique.
TableInv ==
  /\ entries \in Seq([ip : Peers, ha : Hwaddrs \cup {OwnHa}])
  /\ ArpUnique

\* The fields of an entry.
LEMMA EntryTyped ==
  ASSUME TableInv, NEW i \in DOMAIN entries
  PROVE  entries[i].ip \in Peers /\ entries[i].ha \in Hwaddrs \cup {OwnHa}
<1> DEFINE Entry == [ip : Peers, ha : Hwaddrs \cup {OwnHa}]
<1>1. entries \in Seq(Entry)
  BY DEF TableInv
<1> HIDE DEF Entry
<1>2. entries[i] \in Entry
  BY <1>1
<1> QED
  BY <1>2 DEF Entry

\* Registering an address that was looked for and not found keeps the table
\* without repetitions.
LEMMA LearnKeeps ==
  ASSUME TableInv, NEW ip \in Peers, NEW ha \in Hwaddrs, Learn(ip, ha)
  PROVE  TableInv'
<1>1. CASE Found(ip)
  BY <1>1 DEF TableInv, ArpUnique, Learn
<1>2. CASE ~Found(ip)
  <2>1. entries' = Append(entries, [ip |-> ip, ha |-> ha])
    BY <1>2 DEF Learn
  <2>2. entries' \in Seq([ip : Peers, ha : Hwaddrs \cup {OwnHa}])
    BY <2>1 DEF TableInv
  <2>3. \A i \in DOMAIN entries : entries[i].ip # ip
    BY <1>2 DEF Found
  <2>4. ASSUME NEW i \in DOMAIN entries', NEW j \in DOMAIN entries',
               entries'[i].ip = entries'[j].ip
        PROVE  i = j
    BY <2>1, <2>3, <2>4 DEF TableInv, ArpUnique
  <2> QED
    BY <2>2, <2>4 DEF TableInv, ArpUnique
<1> QED
  BY <1>1, <1>2

LEMMA TableStep == TableInv /\ [Next]_vars => TableInv'
<1> SUFFICES ASSUME TableInv, [Next]_vars PROVE TableInv'
  OBVIOUS
<1>1. ASSUME UNCHANGED entries PROVE TableInv'
  BY <1>1 DEF TableInv, ArpUnique
<1>2. CASE Arp
  <2>1. Ips \subseteq Peers
    BY DEF Peers
  <2> QED
    BY <1>2, <2>1, LearnKeeps DEF Arp, RecvArpRequest, RecvArpReply
<1>3. CASE Datagrams
  BY <1>3, <1>1 DEF Datagrams, RecvIcmp, RecvUdp
<1>4. CASE Tcp
  <2>1. UNCHANGED entries
    BY <1>4, Zenon DEF Tcp, Pass, AddControl, RemoveControl, StartPass, EndPass,
       SendControl, PassStep
  <2> QED
    BY <1>1, <2>1
<1>5. CASE Environment
  BY <1>5, <1>1 DEF Environment, Transmit, LoseRequest
<1>6. CASE UNCHANGED vars
  BY <1>6, <1>1 DEF vars
<1> QED
  BY <1>2, <1>3, <1>4, <1>5, <1>6 DEF Next

\* The ARP table never holds an address twice, however requests, replies and
\* probes interleave: usnet_arp_req_handler and usnet_arp_reply_handler look
\* before they register.
THEOREM ArpTableUnique == Spec => []ArpUnique
<1>1. Init => TableInv
  BY DEF Init, TableInv, ArpUnique, Peers
<1>2. TableInv => ArpUnique
  BY DEF TableInv
<1> QED
  BY <1>1, <1>2, TableStep, PTL DEF Spec

-----------------------------------------------------------------------------

\* What FrameToOwner rests on: the table holds, for every address that was
\* ever claimed and for no other, the first claim.
OwnerInv ==
  /\ TableInv
  /\ claim \in [Peers -> Hwaddrs \cup {OwnHa, NoClaim}]
  /\ \A i \in DOMAIN entries : claim[entries[i].ip] = entries[i].ha
  /\ \A ip \in Peers : claim[ip] # NoClaim => Found(ip)
  /\ nm_buf.kind \in {"icmp", "udp", "tcp"} =>
       /\ nm_buf.ip \in Peers
       /\ claim[nm_buf.ip] # NoClaim
       /\ nm_buf.ha = claim[nm_buf.ip]

\* The first entry of an address is one of the table.
LEMMA HwaddrIsClaim ==
  ASSUME OwnerInv, NEW ip \in Peers, Found(ip)
  PROVE  Hwaddr(ip) = claim[ip] /\ claim[ip] # NoClaim
<1> DEFINE First1(i) == /\ entries[i].ip = ip
                        /\ \A j \in 1..(i - 1) : entries[j].ip # ip
<1>1. PICK i \in DOMAIN entries : entries[i].ip = ip
  BY DEF Found
<1>2. i \in Nat \ {0} /\ DOMAIN entries = 1..Len(entries)
  BY <1>1 DEF OwnerInv, TableInv
<1>3. \A j \in DOMAIN entries : entries[j].ip = ip => j = i
  BY <1>1 DEF OwnerInv, TableInv, ArpUnique
<1>4. First1(i)
  BY <1>1, <1>2, <1>3
<1>5. \A j \in DOMAIN entries : First1(j) => j = i
  BY <1>3
<1>6. (CHOOSE j \in DOMAIN entries : First1(j)) = i
  BY <1>1, <1>4, <1>5
<1>7. Hwaddr(ip) = entries[i].ha
  BY <1>6 DEF Hwaddr
<1>8. entries[i].ha \in Hwaddrs \cup {OwnHa}
  BY <1>1, EntryTyped DEF OwnerInv
<1> QED
  BY <1>1, <1>7, <1>8, AddressAssumption DEF OwnerInv

\* A datagram goes where the table says; an ARP request is no datagram.
LEMMA OutputToOwner ==
  ASSUME OwnerInv, NEW ip \in Peers, NEW kind, NEW data, Output(kind, ip, data),
         UNCHANGED <<entries, claim>>
  PROVE  OwnerInv'
<1>1. TableInv' /\ (Found(ip) <=> Found(ip)') /\ (\A q \in Peers : Found(q) => Found(q)')
  BY DEF OwnerInv, TableInv, ArpUnique, Found
<1>2. CASE Found(ip)
  <2>1. nm_buf' = [kind |-> kind, ip |-> ip, ha |-> Hwaddr(ip), data |-> data]
    BY <1>2 DEF Output, SendFrame, Frame
  <2> QED
    BY <1>1, <1>2, <2>1, HwaddrIsClaim DEF OwnerInv
<1>3. CASE ~Found(ip)
  <2>1. nm_buf'.kind = "arp_request"
    BY <1>3 DEF Output, ArpRequest, SendFrame, Frame
  <2> QED
    BY <1>1, <2>1 DEF OwnerInv
<1> QED
  BY <1>2, <1>3

\* Learning keeps the table and the first claims together.
LEMMA LearnFirst ==
  ASSUME OwnerInv, NEW ip \in Peers, NEW ha \in Hwaddrs, Learn(ip, ha),
         nm_buf' = nm_buf \/ nm_buf'.kind = "arp_reply"
  PROVE  OwnerInv'
<1>1. TableInv'
  BY LearnKeeps DEF OwnerInv
<1>2. claim' = [claim EXCEPT ![ip] = IF @ = NoClaim THEN ha ELSE @]
  BY DEF Learn, Claim
<1>3. claim' \in [Peers -> Hwaddrs \cup {OwnHa, NoClaim}]
  BY <1>2 DEF OwnerInv
<1>4. \A q \in Peers : claim[q] # NoClaim => claim'[q] = claim[q]
  BY <1>2 DEF OwnerInv
<1>5. CASE Found(ip)
  <2>1. claim[ip] # NoClaim
    BY <1>5, HwaddrIsClaim
  <2>2. claim' = claim /\ entries' = entries
    BY <1>2, <1>5, <2>1 DEF OwnerInv, Learn
  <2>3. \A q \in Peers : Found(q) => Found(q)'
    BY <2>2 DEF Found
  <2> QED
    BY <1>1, <1>3, <2>2, <2>3 DEF OwnerInv
<1>6. CASE ~Found(ip)
  <2>1. entries' = Append(entries, [ip |-> ip, ha |-> ha])
    BY <1>6 DEF Learn
  <2>2. claim[ip] = NoClaim
    BY <1>6 DEF OwnerInv
  <2>3. claim'[ip] = ha /\ \A q \in Peers : q # ip => claim'[q] = claim[q]
    BY <1>2, <2>2 DEF OwnerInv
  <2>4. entries \in Seq([ip : Peers, ha : Hwaddrs \cup {OwnHa}])
    BY DEF OwnerInv, TableInv
  <2>5. /\ DOMAIN entries' = 1..(Len(entries) + 1)
        /\ entries'[Len(entries) + 1] = [ip |-> ip, ha |-> ha]
        /\ DOMAIN entries = 1..Len(entries) /\ Len(entries) \in Nat
        /\ \A i \in DOMAIN entries : /\ entries'[i] = entries[i]
                                     /\ entries[i].ip \in Peers
                                     /\ entries[i].ip # ip
    <3>1. /\ DOMAIN entries' = 1..(Len(entries) + 1)
          /\ entries'[Len(entries) + 1] = [ip |-> ip, ha |-> ha]
          /\ DOMAIN entries = 1..Len(entries) /\ Len(entries) \in Nat
          /\ \A i \in DOMAIN entries : entries'[i] = entries[i]
      BY <2>1, <2>4
    <3>2. \A i \in DOMAIN entries : entries[i].ip \in Peers
      BY EntryTyped DEF OwnerInv
    <3>3. \A i \in DOMAIN entries : entries[i].ip # ip
      BY <1>6 DEF Found
    <3> QED
      BY <3>1, <3>2, <3>3
  <2>6. \A i \in DOMAIN entries' : claim'[entries'[i].ip] = entries'[i].ha
    <3> SUFFICES ASSUME NEW i \in DOMAIN entries'
                 PROVE  claim'[entries'[i].ip] = entries'[i].ha
      OBVIOUS
    <3>1. CASE i = Len(entries) + 1
      BY <2>3, <2>5, <3>1
    <3>2. CASE i \in DOMAIN entries
      BY <2>3, <2>5, <3>2 DEF OwnerInv
    <3> QED
      BY <2>5, <3>1, <3>2
  <2>7. \A q \in Peers : claim'[q] # NoClaim => Found(q)'
    <3>1. Found(ip)'
      BY <2>5 DEF Found
    <3>2. ASSUME NEW q \in Peers, Found(q) PROVE Found(q)'
      BY <2>5, <3>2 DEF Found
    <3> QED
      BY <2>3, <3>1, <3>2 DEF OwnerInv
  <2> QED
    BY <1>1, <1>3, <1>4, <2>6, <2>7 DEF OwnerInv
<1> QED
  BY <1>5, <1>6

LEMMA OwnerStep == ListInv /\ OwnerInv /\ [Next]_vars => OwnerInv'
<1> SUFFICES ASSUME ListInv, OwnerInv, [Next]_vars PROVE OwnerInv'
  OBVIOUS
<1>1. ASSUME UNCHANGED <<entries, claim, nm_buf>> PROVE OwnerInv'
  BY <1>1 DEF OwnerInv, TableInv, ArpUnique, Found
<1>2. Ips \subseteq Peers
  BY DEF Peers
<1>3. CASE Arp
  <2>1. ASSUME NEW ip \in Peers, NEW ha \in Hwaddrs, RecvArpRequest(ip, ha)
        PROVE  OwnerInv'
    <3>1. nm_buf'.kind = "arp_reply"
      BY <2>1 DEF RecvArpRequest, SendFrame, Frame
    <3> QED
      BY <2>1, <3>1, LearnFirst DEF RecvArpRequest
  <2>2. ASSUME NEW ip \in Ips, NEW ha \in Hwaddrs, RecvArpReply(ip, ha)
        PROVE  OwnerInv'
    BY <1>2, <2>2, LearnFirst DEF RecvArpReply
  <2> QED
    BY <1>3, <2>1, <2>2 DEF Arp
<1>4. CASE Datagrams
  <2>1. ASSUME NEW ip \in Peers, NEW w, NEW odd, RecvIcmp(ip, w, odd) PROVE OwnerInv'
    BY <2>1, OutputToOwner DEF RecvIcmp
  <2>2. ASSUME NEW ip \in Peers, NEW s, NEW d, NEW w, NEW odd, NEW q,
               RecvUdp(ip, s, d, w, odd, q)
        PROVE  OwnerInv'
    BY <2>2, OutputToOwner DEF RecvUdp
  <2> QED
    BY <1>4, <2>1, <2>2 DEF Datagrams
<1>5. CASE Tcp
  <2>1. CASE (\E ip \in Ips : RemoveControl(ip)) \/ StartPass \/ EndPass
    BY <1>1, <2>1 DEF RemoveControl, StartPass, EndPass
  <2>2. ASSUME NEW ip \in Ips, NEW w, NEW q, SendTcp(ip, w, q), UNCHANGED <<entries, claim>>
        PROVE  OwnerInv'
    BY <1>2, <2>2, OutputToOwner DEF SendTcp
  <2>3. ASSUME NEW ip \in Ips, NEW w, NEW q, AddControl(ip, w, q) PROVE OwnerInv'
    BY <2>2, <2>3, Zenon DEF AddControl
  <2>4. ASSUME NEW w, NEW q, SendControl(w, q) PROVE OwnerInv'
    <3>1. /\ phase = "control" /\ left > 0 /\ SendTcp(Head(control), w, q)
          /\ UNCHANGED <<entries, claim>>
      BY <2>4, Zenon DEF SendControl, PassStep
    <3>2. Head(control) \in Ips
      BY <3>1, PassHead
    <3> QED
      BY <2>2, <3>1, <3>2
  <2> QED
    BY <1>5, <2>1, <2>3, <2>4, Zenon DEF Tcp, Pass
<1>6. CASE Environment
  BY <1>6, <1>1 DEF Environment, Transmit, LoseRequest
<1>7. CASE UNCHANGED vars
  BY <1>7, <1>1 DEF vars
<1> QED
  BY <1>3, <1>4, <1>5, <1>6, <1>7 DEF Next

LEMMA OwnerInit == Init => OwnerInv
<1> SUFFICES ASSUME Init PROVE OwnerInv
  OBVIOUS
<1>1. TableInv
  BY DEF Init, TableInv, ArpUnique, Peers
<1>2. nm_buf.kind = "none" /\ DOMAIN entries = {1} /\ entries[1].ip = NoIp
      /\ entries[1].ha = OwnHa
  BY DEF Init, Frame
<1>3. claim = [ip \in Peers |-> IF ip = NoIp THEN OwnHa ELSE NoClaim] /\ NoIp \in Peers
  BY DEF Init, Peers
<1> QED
  BY <1>1, <1>2, <1>3 DEF OwnerInv, Found

\* A datagram is sent only to the hardware address that its destination claimed
\* first, whatever an ARP request left in the frame buffer before it, for every
\* set of peers and hardware addresses.
THEOREM DatagramToOwner == Spec => []FrameToOwner
<1>1. Init => OwnerInv
  BY OwnerInit
<1>2. OwnerInv => FrameToOwner
  BY DEF OwnerInv, FrameToOwner
<1> QED
  BY <1>1, <1>2, ListInit, ListStep, OwnerStep, PTL DEF Spec

-----------------------------------------------------------------------------
(* The rings of the device. *)

\* A set of naturals that is not empty has a least element.
LEMMA Least ==
  ASSUME NEW T \in SUBSET Nat, T # {}
  PROVE  \E x \in T : \A y \in T : x <= y
<1> DEFINE R == {p \in Nat \X Nat : p[1] < p[2]}
<1>1. OpToRel(<, Nat) = R
  BY Zenon DEF OpToRel
<1>2. IsWellFoundedOn(R, Nat)
  BY <1>1, NatLessThanWellFounded, Zenon
<1>3. \E x \in T : \A y \in T : <<y, x>> \notin R
  <2> HIDE DEF R
  <2> QED
    BY <1>2, WFMin, Zenon
<1>4. PICK x \in T : \A y \in T : <<y, x>> \notin R
  BY <1>3
<1>5. ASSUME NEW y \in T PROVE x <= y
  <2>1. x \in Nat /\ y \in Nat
    OBVIOUS
  <2>2. <<y, x>> \notin R
    BY <1>4
  <2>3. ~(y < x)
    BY <2>1, <2>2
  <2> QED
    BY <2>1, <2>3
<1> QED
  BY <1>5

LEMMA FirstIn ==
  ASSUME NEW R \in SUBSET Rings, R # {}
  PROVE  First(R) \in R
<1>1. R \in SUBSET Nat
  BY RingAssumption
<1>2. \E x \in R : \A y \in R : x <= y
  BY <1>1, Least
<1> QED
  BY <1>2, Zenon DEF First

RingsTyped == pending \in [Rings -> 0..Slots] /\ apart \in 0..Burst

LEMMA PutFrameTyped ==
  ASSUME RingsTyped, NEW n, PutFrame(n)
  PROVE  RingsTyped'
<1> DEFINE P == IF Free = {} THEN [q \in Rings |-> 0] ELSE pending
           R == IF Free = {} THEN Rings ELSE Free
           r == First(R)
<1>1. pending' = [P EXCEPT ![r] = @ + 1] /\ apart' = apart
  BY Zenon DEF PutFrame, Handed
<1>2. P \in [Rings -> 0..Slots]
  BY RingAssumption DEF RingsTyped
<1>3. R \in SUBSET Rings /\ R # {}
  BY RingAssumption DEF Free
<1>4. ASSUME NEW q \in R PROVE P[q] < Slots /\ P[q] \in Nat
  <2>1. CASE Free = {}
    BY <1>3, <2>1, RingAssumption
  <2>2. CASE Free # {}
    BY <2>2, RingAssumption DEF Free, RingsTyped
  <2> QED
    BY <2>1, <2>2
<1>5. r \in R
  BY <1>3, FirstIn
<1> HIDE DEF P, r, R
<1>6. P[r] + 1 \in 0..Slots /\ r \in Rings
  BY <1>3, <1>4, <1>5, RingAssumption
<1>7. pending' \in [Rings -> 0..Slots]
  BY <1>1, <1>2, <1>6
<1> QED
  BY <1>1, <1>7 DEF RingsTyped

\* usnet_send_frame puts a frame only into a ring with room, also after it has
\* emptied the rings.
LEMMA SendFrameTyped ==
  ASSUME RingsTyped, DeviceInv, NEW f, SendFrame(f)
  PROVE  RingsTyped' /\ nm_buf' = f
<1>1. nm_buf' = f
  BY Zenon DEF SendFrame
<1>2. ASSUME NEW n, PutFrame(n) PROVE RingsTyped'
  BY <1>2, PutFrameTyped
<1>3. CASE /\ pending' = [[q \in Rings |-> 0] EXCEPT ![First(Rings)] = 1]
           /\ Handed
  <2>1. Slots \in Nat /\ 1 \in 0..Slots /\ 0 \in 0..Slots
    BY RingAssumption
  <2>2. pending' \in [Rings -> 0..Slots]
    BY <1>3, <2>1
  <2>3. apart' = apart
    BY <1>3, Zenon DEF Handed
  <2> QED
    BY <1>1, <2>2, <2>3 DEF RingsTyped
<1>4. CASE GivenUp /\ UNCHANGED pending
  <2>1. apart' = since /\ pending' = pending
    BY <1>4, Zenon DEF GivenUp
  <2>2. since \in 0..Burst
    BY DEF DeviceInv
  <2> QED
    BY <1>1, <2>1, <2>2 DEF RingsTyped
<1> QED
  BY <1>1, <1>2, <1>3, <1>4, Zenon DEF SendFrame

-----------------------------------------------------------------------------
(* The checksums, for words of any base. *)

\* A set of naturals with 0 and every successor has them all.
LEMMA SetInduction ==
  ASSUME NEW S \in SUBSET Nat, 0 \in S, \A n \in S : n + 1 \in S
  PROVE  S = Nat
<1> DEFINE T == Nat \ S
<1> SUFFICES ASSUME T # {} PROVE FALSE
  OBVIOUS
<1>1. T \in SUBSET Nat
  OBVIOUS
<1> HIDE DEF T
<1>2. PICK x \in T : \A y \in T : x <= y
  BY <1>1, Least
<1>3. x \in Nat /\ x \notin S
  BY DEF T
<1>4. x - 1 \in Nat
  BY <1>3
<1>5. x - 1 \in S
  BY <1>2, <1>3, <1>4 DEF T
<1> QED
  BY <1>3, <1>4, <1>5

Partial(w, f, i) == IF i = 0 THEN 0 ELSE f[i - 1] + w[i]

IsSum(w, f, m) == f = [i \in 0..m |-> Partial(w, f, i)]

\* The partial sums of a sequence are a function, whatever its length.
LEMMA SumExists ==
  ASSUME NEW w
  PROVE  \A m \in Nat : \E f : IsSum(w, f, m)
<1> DEFINE S == {m \in Nat : \E f : IsSum(w, f, m)}
<1>1. 0 \in S
  <2> DEFINE f == [i \in 0..0 |-> 0]
  <2>1. \A i \in 0..0 : Partial(w, f, i) = 0
    BY DEF Partial
  <2>2. IsSum(w, f, 0)
    BY <2>1, Zenon DEF IsSum
  <2> QED
    BY <2>2
<1>2. ASSUME NEW m \in S PROVE m + 1 \in S
  <2>1. PICK f : IsSum(w, f, m)
    OBVIOUS
  <2> DEFINE g == [i \in 0..(m + 1) |-> IF i <= m THEN f[i] ELSE Partial(w, f, i)]
  <2>2. m \in Nat
    OBVIOUS
  <2>3. \A i \in 0..m : g[i] = f[i] /\ f[i] = Partial(w, f, i)
    <3>1. \A i \in 0..m : f[i] = Partial(w, f, i)
      BY <2>1, Zenon DEF IsSum
    <3>2. \A i \in 0..m : i \in 0..(m + 1) /\ i <= m
      BY <2>2
    <3> QED
      BY <3>1, <3>2, Zenon
  <2>4. ASSUME NEW i \in 0..(m + 1)
        PROVE  g[i] = Partial(w, g, i)
    <3>1. g[i] = Partial(w, f, i)
      <4>1. i <= m => i \in 0..m
        BY <2>2
      <4> QED
        BY <4>1, <2>3, Zenon
    <3>2. i = 0 \/ i - 1 \in 0..m
      BY <2>2
    <3>3. i # 0 => g[i - 1] = f[i - 1]
      BY <2>3, <3>2
    <3> QED
      BY <3>1, <3>3, Zenon DEF Partial
  <2>5. IsSum(w, g, m + 1)
    BY <2>4, Zenon DEF IsSum
  <2> QED
    BY <2>2, <2>5
<1> HIDE DEF S
<1>3. S = Nat
  <2>1. S \in SUBSET Nat
    BY DEF S
  <2> QED
    BY <1>1, <1>2, <2>1, SetInduction
<1> QED
  BY <1>3 DEF S

\* A sum of words, term by term.
LEMMA SumTerms ==
  ASSUME NEW w, Len(w) \in Nat
  PROVE  \E f : /\ WordSum(w) = f[Len(w)]
                /\ \A i \in 0..Len(w) : f[i] = Partial(w, f, i)
<1> DEFINE s == CHOOSE f : IsSum(w, f, Len(w))
<1>1. IsSum(w, s, Len(w))
  BY SumExists, Zenon
<1>2. WordSum(w) = s[Len(w)]
  BY Zenon DEF WordSum, IsSum, Partial
<1>3. \A i \in 0..Len(w) : s[i] = Partial(w, s, i)
  BY <1>1, Zenon DEF IsSum
<1> QED
  BY <1>2, <1>3, Zenon

LEMMA SumOfTwo ==
  ASSUME NEW a \in Int, NEW b \in Int
  PROVE  WordSum(<<a, b>>) = a + b
<1> DEFINE w == <<a, b>>
<1>1. Len(w) = 2 /\ w[1] = a /\ w[2] = b
  OBVIOUS
<1> HIDE DEF w
<1>2. PICK f : WordSum(w) = f[2] /\ \A i \in 0..2 : f[i] = Partial(w, f, i)
  <2>1. Len(w) \in Nat
    BY <1>1
  <2> QED
    BY <1>1, <2>1, SumTerms, ZenonT(30)
<1>3. f[0] = 0 /\ f[1] = f[0] + w[1] /\ f[2] = f[1] + w[2]
  BY <1>2 DEF Partial
<1> QED
  BY <1>1, <1>2, <1>3 DEF w

LEMMA SumOfThree ==
  ASSUME NEW a \in Int, NEW b \in Int, NEW c \in Int
  PROVE  WordSum(<<a, b, c>>) = a + b + c
<1> DEFINE w == <<a, b, c>>
<1>1. Len(w) = 3 /\ w[1] = a /\ w[2] = b /\ w[3] = c
  OBVIOUS
<1> HIDE DEF w
<1>2. PICK f : WordSum(w) = f[3] /\ \A i \in 0..3 : f[i] = Partial(w, f, i)
  <2>1. Len(w) \in Nat
    BY <1>1
  <2> QED
    BY <1>1, <2>1, SumTerms, ZenonT(30)
<1>3. f[0] = 0 /\ f[1] = f[0] + w[1] /\ f[2] = f[1] + w[2] /\ f[3] = f[2] + w[3]
  BY <1>2 DEF Partial
<1> QED
  BY <1>1, <1>2, <1>3 DEF w

LEMMA SumOfFour ==
  ASSUME NEW a \in Int, NEW b \in Int, NEW c \in Int, NEW d \in Int
  PROVE  WordSum(<<a, b, c, d>>) = a + b + c + d
<1> DEFINE w == <<a, b, c, d>>
<1>1. Len(w) = 4 /\ w[1] = a /\ w[2] = b /\ w[3] = c /\ w[4] = d
  OBVIOUS
<1> HIDE DEF w
<1>2. PICK f : WordSum(w) = f[4] /\ \A i \in 0..4 : f[i] = Partial(w, f, i)
  <2>1. Len(w) \in Nat
    BY <1>1
  <2> QED
    BY <1>1, <2>1, SumTerms, ZenonT(30)
<1>3. /\ f[0] = Partial(w, f, 0) /\ f[1] = Partial(w, f, 1) /\ f[2] = Partial(w, f, 2)
      /\ f[3] = Partial(w, f, 3) /\ f[4] = Partial(w, f, 4)
  BY <1>2
<1>4. /\ f[0] = 0 /\ f[1] = f[0] + w[1] /\ f[2] = f[1] + w[2]
      /\ f[3] = f[2] + w[3] /\ f[4] = f[3] + w[4]
  BY <1>3 DEF Partial
<1> QED
  BY <1>1, <1>2, <1>4 DEF w

\* Quotient and remainder, and the multiples of a number.
LEMMA Split ==
  ASSUME NEW n \in Nat, n > 0, NEW x \in Nat
  PROVE  /\ x % n \in 0..(n - 1) /\ x \div n \in Nat
         /\ x = n * (x \div n) + (x % n)
<1>1. x % n \in 0..(n - 1)
  OBVIOUS
<1>2. x \div n \in Nat
  OBVIOUS
<1>3. x % n = x - n * (x \div n)
  BY SMTT(30)
<1> DEFINE y == n * (x \div n)
           z == x % n
<1>4. y \in Nat /\ z \in Int /\ z = x - y
  BY <1>1, <1>2, <1>3
<1> HIDE DEF y, z
<1>5. x = y + z
  BY <1>4
<1> QED
  BY <1>1, <1>2, <1>5, Zenon DEF y, z

LEMMA Divided ==
  ASSUME NEW n \in Nat, n > 0, NEW x \in Nat, NEW q \in Nat, NEW r \in Nat, r < n, x = q * n + r
  PROVE  x % n = r /\ x \div n = q
  OBVIOUS

LEMMA BaseFacts ==
  /\ Base \in Nat /\ Base >= 4 /\ Byte \in Nat /\ Byte >= 2 /\ Byte <= Base
  /\ Byte > 2 => Base > Byte + 4 /\ Base > 4
<1>1. Byte \in Nat /\ Byte >= 2
  BY ByteAssumption
<1>2. Byte * Byte >= 2 * Byte /\ Byte * Byte \in Nat
  BY <1>1
<1>3. Byte > 2 => Byte >= 4
  <2>1. 3 % 2 = 1
    OBVIOUS
  <2>2. Byte # 3
    BY <2>1, ByteAssumption
  <2> QED
    BY <1>1, <2>2
<1>4. Byte >= 4 => Byte * Byte >= 4 * Byte
  BY <1>1
<1> QED
  BY <1>1, <1>2, <1>3, <1>4 DEF Base

\* A sum of at most four words and a little more is made a word by two folds,
\* and its complement completes it to a multiple of Base - 1: tcp_cksum and
\* udp_cksum agree with the reference, whatever the word size.
LEMMA FoldsVerify ==
  ASSUME NEW S \in Nat, S < 4 * Base \/ (Base > 4 /\ S < 5 * Base),
         NEW c, c = Complement(Fold(S) + (Fold(S) \div Base))
  PROVE  /\ c \in 0..(Base - 1)
         /\ S + c > 0 /\ (S + c) % (Base - 1) = 0
<1>1. Base \in Nat /\ Base >= 4
  BY BaseFacts
<1>2. PICK k \in 0..4, r \in Nat : S = k * Base + r /\ r < Base /\ (k < 4 \/ Base > 4)
  <2>1. CASE S < Base
    <3>1. S = 0 * Base + S /\ 0 < 4
      BY <1>1
    <3> QED
      BY <2>1, <3>1
  <2>2. CASE Base <= S /\ S < 2 * Base
    <3>1. S = 1 * Base + (S - Base) /\ S - Base \in Nat /\ S - Base < Base /\ 1 < 4
      BY <1>1, <2>2
    <3> QED
      BY <3>1
  <2>3. CASE 2 * Base <= S /\ S < 3 * Base
    <3>1. S = 2 * Base + (S - 2 * Base) /\ S - 2 * Base \in Nat /\ S - 2 * Base < Base /\ 2 < 4
      BY <1>1, <2>3
    <3> QED
      BY <3>1
  <2>4. CASE 3 * Base <= S /\ S < 4 * Base
    <3>1. S = 3 * Base + (S - 3 * Base) /\ S - 3 * Base \in Nat /\ S - 3 * Base < Base /\ 3 < 4
      BY <1>1, <2>4
    <3> QED
      BY <3>1
  <2>5. CASE 4 * Base <= S /\ S < 5 * Base /\ Base > 4
    <3>1. S = 4 * Base + (S - 4 * Base) /\ S - 4 * Base \in Nat /\ S - 4 * Base < Base
      BY <1>1, <2>5
    <3> QED
      BY <2>5, <3>1
  <2> QED
    BY <1>1, <2>1, <2>2, <2>3, <2>4, <2>5
<1>3. S % Base = r /\ S \div Base = k
  BY <1>1, <1>2, Divided
<1> DEFINE s == Fold(S)
           t == s + (s \div Base)
<1>4. s = r + k /\ s \in Nat /\ s <= Base + 3
  BY <1>1, <1>2, <1>3 DEF Fold
<1> HIDE DEF s
<1>5. c = (Base - 1) - (t % Base)
  BY Zenon DEF Complement, s
<1>6. \E m \in {k + 1, k + 2} : c \in 0..(Base - 1) /\ S + c = m * (Base - 1)
  <2>1. CASE s < Base
    <3>1. s = 0 * Base + s
      BY <1>1, <1>4
    <3>2. s \div Base = 0 /\ s % Base = s
      BY <1>1, <1>4, <2>1, <3>1, Divided
    <3>3. t = s
      BY <1>4, <3>2
    <3>4. c = (Base - 1) - s
      BY <1>5, <3>2, <3>3, Zenon
    <3>5. c \in 0..(Base - 1) /\ S + c = (k + 1) * (Base - 1)
      BY <1>1, <1>2, <1>4, <2>1, <3>4
    <3> QED
      BY <3>5
  <2>2. CASE ~(s < Base)
    <3>1. s = 1 * Base + (s - Base) /\ s - Base \in Nat /\ s - Base < Base
      BY <1>1, <1>4, <2>2
    <3>2. s \div Base = 1
      BY <1>1, <1>4, <3>1, Divided
    <3>3. t = s + 1 /\ t \in Nat
      BY <1>4, <3>2
    <3>4. t = 1 * Base + (t - Base) /\ t - Base \in Nat /\ t - Base < Base
      BY <1>1, <1>2, <1>4, <2>2, <3>3
    <3> HIDE DEF t
    <3>5. t % Base = t - Base
      BY <1>1, <3>3, <3>4, Divided
    <3>6. c = (Base - 1) - (t - Base)
      BY <1>5, <3>5, Zenon
    <3>7. c \in 0..(Base - 1) /\ S + c = (k + 2) * (Base - 1)
      BY <1>1, <1>2, <1>4, <3>3, <3>4, <3>6
    <3> QED
      BY <3>7
  <2> QED
    BY <2>1, <2>2
<1>7. PICK m \in Nat : m > 0 /\ c \in 0..(Base - 1) /\ S + c = m * (Base - 1)
  BY <1>2, <1>6
<1>8. (S + c) > 0
  <2>1. m * (Base - 1) >= Base - 1
    BY <1>1, <1>7
  <2> QED
    BY <1>1, <1>7, <2>1
<1>9. S + c = m * (Base - 1) + 0 /\ S + c \in Nat /\ Base - 1 \in Nat /\ Base - 1 > 0
  BY <1>1, <1>7
<1>10. (S + c) % (Base - 1) = 0
  BY <1>9, Divided
<1> QED
  BY <1>7, <1>8, <1>10

-----------------------------------------------------------------------------
(* The messages that leave the host. *)

WordsTyped(p) == \A i \in DOMAIN p.words : p.words[i] \in 0..(Base - 1)

\* What is required of the checksum of a message, as in ChecksumsVerify.
Checked(kind, p) ==
  \/ kind \notin {"icmp", "udp", "tcp"}
  \/ Verifies(p)
  \/ kind = "icmp" /\ (p.odd # NoOdd \/ p.words[3] >= Base \div 2)

LEMMA WordFacts ==
  /\ \A w \in Words : w \in Nat /\ w <= Base - 1
  /\ \A o \in Odds : o \in Int /\ (o # NoOdd => o \in Nat /\ o <= Byte - 1)
  /\ \A q \in Pseudo : q \in Nat /\ q <= 2 * Base - 3
<1>1. Words \subseteq 0..(Base - 1) /\ OddBytes \subseteq 0..(Byte - 1)
  BY WordsAssumption DEF Base
<1> QED
  BY <1>1, BaseFacts DEF Odds, NoOdd, Pseudo

LEMMA MessageFields ==
  ASSUME NEW words, NEW odd, NEW q, NEW d, d = [words |-> words, odd |-> odd, pseudo |-> q]
  PROVE  d.words = words /\ d.odd = odd /\ d.pseudo = q
  OBVIOUS

\* The message d is p with a checksum in the third, or the first, word.
SumAtThree(p, d) == d = [p EXCEPT !.words[3] = PseudoCksum(p)]
SumAtOne(p, d) == d = [p EXCEPT !.words[1] = PseudoCksum(p)]
UdpReply(p, w, odd, q) == p = Message(<<Base - 1, 1, 0, w>>, odd, q)
TcpSegment(p, w, q) == p = Message(<<0, w>>, NoOdd, q)

\* The reply of usnet_udp_input.
LEMMA UdpChecked ==
  ASSUME NEW w \in Words, NEW odd \in Odds, NEW q \in Pseudo,
         NEW p, UdpReply(p, w, odd, q), NEW d, SumAtThree(p, d)
  PROVE  WordsTyped(d) /\ Checked("udp", d)
<1> DEFINE o == IF odd = NoOdd THEN 0 ELSE odd
           S == PseudoSum(p)
           c == PseudoCksum(p)
<1>1. /\ w \in Nat /\ w <= Base - 1 /\ q \in Nat /\ q <= 2 * Base - 3
      /\ o \in Nat /\ o <= Byte - 1
  <2>1. odd # NoOdd => odd \in Nat /\ odd <= Byte - 1
    BY WordFacts
  <2>2. Byte \in Nat /\ Byte >= 2
    BY BaseFacts
  <2>3. o \in Nat /\ o <= Byte - 1
    <3>1. CASE odd = NoOdd
      BY <2>2, <3>1
    <3>2. CASE odd # NoOdd
      <4>1. o = odd
        BY <3>2, Zenon
      <4> QED
        BY <2>1, <3>2, <4>1
    <3> QED
      BY <3>1, <3>2
  <2> QED
    BY <2>3, WordFacts
<1>2. /\ p.words = <<Base - 1, 1, 0, w>> /\ p.odd = odd /\ p.pseudo = q
      /\ p = [words |-> <<Base - 1, 1, 0, w>>, odd |-> odd, pseudo |-> q]
  BY DEF Message, UdpReply
<1> HIDE DEF c
<1>3. d = [words |-> <<Base - 1, 1, c, w>>, odd |-> odd, pseudo |-> q]
  BY <1>2 DEF c, SumAtThree
<1>4. d.words = <<Base - 1, 1, c, w>> /\ d.odd = odd /\ d.pseudo = q
  BY <1>3, MessageFields, Zenon
<1>5. WordSum(<<Base - 1, 1, 0, w>>) = (Base - 1) + 1 + 0 + w
  BY <1>1, BaseFacts, SumOfFour
<1>6. S = Base + w + o + q
  BY <1>1, <1>2, <1>5, BaseFacts DEF PseudoSum
<1> HIDE DEF o
<1>7. S \in Nat /\ (S < 4 * Base \/ (Base > 4 /\ S < 5 * Base))
  BY <1>1, <1>6, BaseFacts
<1>8. c = Complement(Fold(S) + (Fold(S) \div Base))
  BY Zenon DEF PseudoCksum, c
<1> HIDE DEF S
<1>9. c \in 0..(Base - 1) /\ S + c > 0 /\ (S + c) % (Base - 1) = 0
  BY <1>7, <1>8, FoldsVerify
<1>10. WordSum(<<Base - 1, 1, c, w>>) = (Base - 1) + 1 + c + w
  BY <1>1, <1>9, BaseFacts, SumOfFour
<1>11. PseudoSum(d) = S + c
  <2>1. WordSum(d.words) = Base + c + w
    BY <1>1, <1>4, <1>9, <1>10, BaseFacts
  <2>2. PseudoSum(d) = WordSum(d.words) + o + q
    BY <1>4, Zenon DEF PseudoSum, o
  <2> QED
    BY <1>1, <1>6, <1>9, <2>1, <2>2, BaseFacts
<1>12. Verifies(d)
  BY <1>9, <1>11, Zenon DEF Verifies
<1>13. WordsTyped(d)
  BY <1>1, <1>4, <1>9, BaseFacts DEF WordsTyped
<1> QED
  BY <1>12, <1>13 DEF Checked

\* A segment of usnet_send_tcp_packet.
LEMMA TcpChecked ==
  ASSUME NEW w \in Words, NEW q \in Pseudo,
         NEW p, TcpSegment(p, w, q), NEW d, SumAtOne(p, d)
  PROVE  WordsTyped(d) /\ Checked("tcp", d)
<1> DEFINE S == PseudoSum(p)
           c == PseudoCksum(p)
<1>1. w \in Nat /\ w <= Base - 1 /\ q \in Nat /\ q <= 2 * Base - 3
  BY WordFacts
<1>2. /\ p.words = <<0, w>> /\ p.odd = NoOdd /\ p.pseudo = q
      /\ p = [words |-> <<0, w>>, odd |-> NoOdd, pseudo |-> q]
  BY DEF Message, TcpSegment
<1> HIDE DEF c
<1>3. d = [words |-> <<c, w>>, odd |-> NoOdd, pseudo |-> q]
  BY <1>2 DEF c, SumAtOne
<1>4. d.words = <<c, w>> /\ d.odd = NoOdd /\ d.pseudo = q
  BY <1>3, MessageFields, Zenon
<1>5. WordSum(<<0, w>>) = 0 + w
  BY <1>1, SumOfTwo
<1>6. S = w + q
  BY <1>1, <1>2, <1>5 DEF PseudoSum
<1>7. S \in Nat /\ S < 4 * Base
  BY <1>1, <1>6, BaseFacts
<1>8. c = Complement(Fold(S) + (Fold(S) \div Base))
  BY Zenon DEF PseudoCksum, c
<1> HIDE DEF S
<1>9. c \in 0..(Base - 1) /\ S + c > 0 /\ (S + c) % (Base - 1) = 0
  BY <1>7, <1>8, FoldsVerify
<1>10. WordSum(<<c, w>>) = c + w
  BY <1>1, <1>9, SumOfTwo
<1>11. PseudoSum(d) = S + c
  BY <1>1, <1>4, <1>6, <1>9, <1>10 DEF PseudoSum
<1>12. Verifies(d)
  BY <1>9, <1>11, Zenon DEF Verifies
<1>13. WordsTyped(d)
  BY <1>1, <1>4, <1>9, BaseFacts DEF WordsTyped
<1> QED
  BY <1>12, <1>13 DEF Checked

CarryTerm(w, f, i) == IF i = 0 THEN 0 ELSE AddCarry(f[i - 1] + Short(w[i]))

\* in_cksum of three words, the first two of them 0.
LEMMA CarrySum ==
  ASSUME NEW D, D = 0..3, NEW w, w[1] = 0, w[2] = 0, w[3] \in 0..(Base - 1)
  PROVE  (CHOOSE f : f = [i \in D |-> CarryTerm(w, f, i)])[3] = AddCarry(Short(w[3]))
<1> DEFINE s == AddCarry(Short(w[3]))
           g == [i \in D |-> IF i = 3 THEN s ELSE 0]
           f == CHOOSE h : h = [i \in D |-> CarryTerm(w, h, i)]
<1>1. Base \in Nat /\ Base >= 4
  BY BaseFacts
<1>2. Short(0) = 0 /\ AddCarry(0) = 0 /\ Short(w[3]) \in Int
  BY <1>1 DEF Short, AddCarry
<1>3. ASSUME NEW h, h[0] = 0, h[1] = AddCarry(h[0] + Short(w[1])),
             h[2] = AddCarry(h[1] + Short(w[2]))
      PROVE  h[1] = 0 /\ h[2] = 0 /\ AddCarry(h[2] + Short(w[3])) = s
  <2>1. h[1] = 0
    BY <1>2, <1>3
  <2>2. h[2] = 0
    BY <1>2, <1>3, <2>1
  <2>3. h[2] + Short(w[3]) = Short(w[3])
    BY <1>2, <2>2
  <2> QED
    BY <2>1, <2>2, <2>3
<1>4. g = [i \in D |-> CarryTerm(w, g, i)]
  <2> HIDE DEF s
  <2>1. g[0] = 0 /\ g[1] = 0 /\ g[2] = 0 /\ g[3] = s
    OBVIOUS
  <2> HIDE DEF g
  <2>2. /\ CarryTerm(w, g, 0) = 0
        /\ CarryTerm(w, g, 1) = AddCarry(g[0] + Short(w[1]))
        /\ CarryTerm(w, g, 2) = AddCarry(g[1] + Short(w[2]))
        /\ CarryTerm(w, g, 3) = AddCarry(g[2] + Short(w[3]))
    BY DEF CarryTerm
  <2>3. AddCarry(g[0] + Short(w[1])) = 0 /\ AddCarry(g[1] + Short(w[2])) = 0
    BY <1>2, <2>1
  <2>4. AddCarry(g[2] + Short(w[3])) = s
    BY <1>2, <2>1 DEF s
  <2>5. \A i \in D : g[i] = CarryTerm(w, g, i)
    <3>1. \A i \in D : i = 0 \/ i = 1 \/ i = 2 \/ i = 3
      OBVIOUS
    <3> QED
      BY <2>1, <2>2, <2>3, <2>4, <3>1, Zenon
  <2> QED
    BY <2>5, Zenon DEF g
<1>5. f = [i \in D |-> CarryTerm(w, f, i)]
  BY <1>4, Zenon
<1> HIDE DEF f, g, s
<1>6. \A i \in D : f[i] = CarryTerm(w, f, i)
  BY <1>5, Zenon
<1>7. /\ f[0] = 0 /\ f[1] = AddCarry(f[0] + Short(w[1]))
      /\ f[2] = AddCarry(f[1] + Short(w[2])) /\ f[3] = AddCarry(f[2] + Short(w[3]))
  BY <1>6 DEF CarryTerm
<1>8. f[3] = s
  BY <1>3, <1>7, Zenon
<1> QED
  BY <1>8 DEF f, s

\* The reply of usnet_icmp_reflect: it verifies, unless it has an odd byte or a
\* word that is negative as a short.
IcmpReply(p, w, odd) == p = Message(<<ReplyType, 0, w>>, odd, 0)
InCksumAtTwo(p, stray, d) == d = [p EXCEPT !.words[2] = InCksum(p, stray)]

LEMMA IcmpChecked ==
  ASSUME NEW w \in Words, NEW odd \in Odds, NEW stray \in Int,
         NEW p, IcmpReply(p, w, odd), NEW d, InCksumAtTwo(p, stray, d)
  PROVE  WordsTyped(d) /\ Checked("icmp", d)
<1> DEFINE c == InCksum(p, stray)
           s == AddCarry(Short(w))
<1>1. w \in Nat /\ w <= Base - 1 /\ w \in 0..(Base - 1)
  BY WordFacts, BaseFacts
<1>2. /\ p.words = <<0, 0, w>> /\ p.odd = odd
      /\ p = [words |-> <<0, 0, w>>, odd |-> odd, pseudo |-> 0]
  BY DEF Message, IcmpReply, ReplyType
<1> HIDE DEF c
<1>3. d = [words |-> <<0, c, w>>, odd |-> odd, pseudo |-> 0]
  BY <1>2 DEF c, InCksumAtTwo
<1>4. d.words = <<0, c, w>> /\ d.odd = odd /\ d.pseudo = 0
  BY <1>3, MessageFields, Zenon
<1>5. c = Complement(IF odd = NoOdd THEN s ELSE AddCarry(s + stray))
  <2> DEFINE v == p.words
             D == 0..Len(v)
             f == CHOOSE h : h = [i \in D |-> CarryTerm(v, h, i)]
  <2>1. Len(v) = 3 /\ D = 0..3 /\ v[1] = 0 /\ v[2] = 0 /\ v[3] = w
    BY <1>2
  <2>2. c = Complement(IF p.odd = NoOdd THEN f[Len(v)] ELSE AddCarry(f[Len(v)] + stray))
    BY Zenon DEF c, InCksum, CarryTerm
  <2> HIDE DEF v, D
  <2>3. v[3] \in 0..(Base - 1)
    BY <1>1, <2>1
  <2>4. (CHOOSE h : h = [i \in D |-> CarryTerm(v, h, i)])[3] = AddCarry(Short(v[3]))
    BY <2>1, <2>3, CarrySum, SMTT(30)
  <2>5. f[3] = AddCarry(Short(v[3]))
    BY <2>4, Zenon
  <2> HIDE DEF f
  <2>6. f[Len(v)] = s
    BY <2>1, <2>5, Zenon
  <2> HIDE DEF s
  <2> QED
    BY <1>2, <2>2, <2>6, Zenon
<1>6. Base \in Nat /\ Base >= 4
  BY BaseFacts
<1>7. s \in Int /\ AddCarry(s + stray) \in Int
  <2>1. \A x \in Int : AddCarry(x) \in Int
    BY <1>6 DEF AddCarry
  <2>2. Short(w) \in Int
    BY <1>1, <1>6 DEF Short
  <2> HIDE DEF s
  <2>3. s \in Int
    BY <2>1, <2>2 DEF s
  <2> QED
    BY <2>1, <2>3
<1>8. \A x \in Int : Complement(x) \in 0..(Base - 1)
  <2>1. \A x \in Int : x % Base \in 0..(Base - 1)
    BY <1>6
  <2> QED
    BY <1>6, <2>1 DEF Complement
<1>9. c \in 0..(Base - 1)
  <2> HIDE DEF s
  <2> QED
    BY <1>5, <1>7, <1>8
<1>10. WordsTyped(d)
  BY <1>1, <1>4, <1>6, <1>9 DEF WordsTyped
<1>11. ASSUME odd = NoOdd, ~(w >= Base \div 2) PROVE Verifies(d)
  <2>1. 2 * w < Base /\ w < Base
    <3>1. Base \div 2 \in Nat /\ 2 * (Base \div 2) <= Base
      BY <1>6
    <3> QED
      BY <1>1, <1>6, <1>11, <3>1
  <2>2. s = w
    BY <1>1, <1>6, <2>1 DEF Short, AddCarry
  <2>3. c = (Base - 1) - w
    <3>1. w = 0 * Base + w
      BY <1>1, <1>6
    <3>2. w % Base = w
      BY <1>1, <1>6, <2>1, <3>1, Divided
    <3>3. c = Complement(w)
      BY <1>5, <1>11, <2>2, Zenon
    <3> QED
      BY <3>2, <3>3, Zenon DEF Complement
  <2>4. WordSum(<<0, c, w>>) = 0 + c + w
    BY <1>1, <1>9, SumOfThree
  <2>5. WordSum(d.words) = Base - 1
    BY <1>1, <1>4, <1>6, <2>3, <2>4
  <2>6. PseudoSum(d) = WordSum(d.words) + 0 + 0
    BY <1>4, <1>11, Zenon DEF PseudoSum
  <2>7. PseudoSum(d) = Base - 1 /\ Base - 1 = 1 * (Base - 1) + 0
    BY <1>6, <2>5, <2>6
  <2>8. (Base - 1) % (Base - 1) = 0
    BY <1>6, <2>7, Divided
  <2> QED
    BY <1>6, <2>7, <2>8 DEF Verifies
<1>12. d.words[3] = w
  BY <1>4
<1> QED
  BY <1>4, <1>10, <1>11, <1>12, Zenon DEF Checked

-----------------------------------------------------------------------------
(* The frame buffer. *)

\* A frame that usnet_send_frame may be given.
Fits(f) ==
  /\ f.kind \in Kinds /\ f.ip \in Peers
  /\ f.ha \in Hwaddrs \cup {OwnHa, Broadcast}
  /\ WordsTyped(f.data) /\ Checked(f.kind, f.data)

\* Besides what it says of the buffer and the rings: address 0 is in the table
\* from the start, so nobody is asked for it.
FrameInv ==
  /\ RingsTyped
  /\ asked \subseteq Ips
  /\ claim[NoIp] # NoClaim
  /\ Fits(nm_buf)

LEMMA FrameFits ==
  ASSUME NEW kind \in Kinds, NEW ip \in Peers, NEW ha \in Hwaddrs \cup {OwnHa, Broadcast},
         NEW data, WordsTyped(data), Checked(kind, data)
  PROVE  Fits(Frame(kind, ip, ha, data))
<1> DEFINE f == Frame(kind, ip, ha, data)
<1>1. f.kind = kind /\ f.ip = ip /\ f.ha = ha /\ f.data = data
  BY DEF Frame
<1> HIDE DEF f
<1>2. Fits(f)
  BY <1>1, Zenon DEF Fits
<1> QED
  BY <1>2 DEF f

\* An ARP frame carries no words.
LEMMA ArpFits ==
  ASSUME NEW kind \in {"none", "arp_request", "arp_reply"}, NEW ip \in Peers,
         NEW ha \in Hwaddrs \cup {OwnHa, Broadcast}
  PROVE  Fits(Frame(kind, ip, ha, NoPayload))
<1>1. NoPayload.words = << >>
  BY DEF NoPayload, Message
<1>2. WordsTyped(NoPayload)
  BY <1>1 DEF WordsTyped
<1>3. kind \in Kinds /\ Checked(kind, NoPayload)
  BY DEF Kinds, Checked
<1> QED
  BY <1>2, <1>3, FrameFits

\* A datagram goes out if the table has its address; else a peer is asked.
LEMMA OutputFits ==
  ASSUME FrameInv, DeviceInv, OwnerInv, NEW ip \in Peers,
         NEW kind \in {"icmp", "udp", "tcp"}, NEW data, WordsTyped(data), Checked(kind, data),
         Output(kind, ip, data)
  PROVE  RingsTyped' /\ asked' \subseteq Ips /\ Fits(nm_buf)'
<1>1. CASE Found(ip)
  <2>1. SendFrame(Frame(kind, ip, Hwaddr(ip), data)) /\ asked' = asked
    BY <1>1 DEF Output
  <2>2. Hwaddr(ip) \in Hwaddrs \cup {OwnHa}
    <3>1. Hwaddr(ip) = claim[ip] /\ claim[ip] # NoClaim
      BY <1>1, HwaddrIsClaim
    <3>2. claim[ip] \in Hwaddrs \cup {OwnHa, NoClaim}
      BY DEF OwnerInv
    <3> QED
      BY <3>1, <3>2
  <2>3. kind \in Kinds
    BY DEF Kinds
  <2>4. Fits(Frame(kind, ip, Hwaddr(ip), data))
    BY <2>2, <2>3, FrameFits
  <2>5. RingsTyped
    BY DEF FrameInv
  <2>6. RingsTyped' /\ nm_buf' = Frame(kind, ip, Hwaddr(ip), data)
    BY <2>1, <2>5, SendFrameTyped
  <2>7. Fits(nm_buf')
    BY <2>4, <2>6, Zenon
  <2> QED
    BY <2>1, <2>6, <2>7 DEF FrameInv, Fits
<1>2. CASE ~Found(ip)
  <2>1. ArpRequest(ip)
    BY <1>2 DEF Output
  <2>2. ip \in Ips
    <3>1. Found(NoIp)
      BY DEF FrameInv, OwnerInv, Peers
    <3> QED
      BY <1>2, <3>1 DEF Peers
  <2>3. asked' \subseteq Ips
    BY <2>1, <2>2 DEF ArpRequest, FrameInv
  <2>4. Fits(Frame("arp_request", ip, Broadcast, NoPayload))
    BY ArpFits
  <2>5. RingsTyped
    BY DEF FrameInv
  <2>6. RingsTyped' /\ nm_buf' = Frame("arp_request", ip, Broadcast, NoPayload)
    BY <2>1, <2>5, SendFrameTyped DEF ArpRequest
  <2>7. Fits(nm_buf')
    BY <2>4, <2>6, Zenon
  <2> QED
    BY <2>3, <2>6, <2>7 DEF Fits
<1> QED
  BY <1>1, <1>2

\* The answer of usnet_udp_input, of usnet_icmp_reflect, and of the control
\* list.
LEMMA UdpFits ==
  ASSUME FrameInv, DeviceInv, OwnerInv, NEW ip \in Peers, NEW w \in Words,
         NEW odd \in Odds, NEW q \in Pseudo, RecvUdp(ip, 1, Base - 1, w, odd, q)
  PROVE  RingsTyped' /\ asked' \subseteq Ips /\ Fits(nm_buf)'
<1> DEFINE p == Message(<<Base - 1, 1, 0, w>>, odd, q)
           d == [p EXCEPT !.words[3] = PseudoCksum(p)]
<1>1. Output("udp", ip, d)
  BY Zenon DEF RecvUdp
<1>2. UdpReply(p, w, odd, q) /\ SumAtThree(p, d)
  BY Zenon DEF UdpReply, SumAtThree
<1> HIDE DEF p, d
<1>3. WordsTyped(d) /\ Checked("udp", d)
  BY <1>2, UdpChecked
<1> QED
  BY <1>1, <1>3, OutputFits

LEMMA IcmpFits ==
  ASSUME FrameInv, DeviceInv, OwnerInv, NEW ip \in Peers, NEW w \in Words,
         NEW odd \in Odds, RecvIcmp(ip, w, odd)
  PROVE  RingsTyped' /\ asked' \subseteq Ips /\ Fits(nm_buf)'
<1> DEFINE p == Message(<<ReplyType, 0, w>>, odd, 0)
           d(stray) == [p EXCEPT !.words[2] = InCksum(p, stray)]
           Strays == IF odd = NoOdd THEN {0} ELSE 0..(Byte - 1)
<1>1. \E stray \in Strays : Output("icmp", ip, d(stray))
  BY Zenon DEF RecvIcmp
<1>2. Strays \subseteq Int
  OBVIOUS
<1>3. IcmpReply(p, w, odd)
  BY Zenon DEF IcmpReply
<1>4. \A stray \in Strays : InCksumAtTwo(p, stray, d(stray))
  BY Zenon DEF InCksumAtTwo
<1> HIDE DEF p, d, Strays
<1>5. PICK stray \in Strays : Output("icmp", ip, d(stray))
  BY <1>1
<1>6. stray \in Int /\ InCksumAtTwo(p, stray, d(stray))
  BY <1>2, <1>4
<1>7. WordsTyped(d(stray)) /\ Checked("icmp", d(stray))
  BY <1>3, <1>6, IcmpChecked
<1> QED
  BY <1>5, <1>7, OutputFits

LEMMA TcpFits ==
  ASSUME FrameInv, DeviceInv, OwnerInv, NEW ip \in Peers, NEW w \in Words,
         NEW q \in Pseudo, SendTcp(ip, w, q)
  PROVE  RingsTyped' /\ asked' \subseteq Ips /\ Fits(nm_buf)'
<1> DEFINE p == Message(<<0, w>>, NoOdd, q)
           d == [p EXCEPT !.words[1] = PseudoCksum(p)]
<1>1. Output("tcp", ip, d)
  BY Zenon DEF SendTcp
<1>2. TcpSegment(p, w, q) /\ SumAtOne(p, d)
  BY Zenon DEF TcpSegment, SumAtOne
<1> HIDE DEF p, d
<1>3. WordsTyped(d) /\ Checked("tcp", d)
  BY <1>2, TcpChecked
<1> QED
  BY <1>1, <1>3, OutputFits

LEMMA FrameStep ==
  FrameInv /\ ListInv /\ DeviceInv /\ OwnerInv /\ [Next]_vars => FrameInv'
<1> SUFFICES ASSUME FrameInv, ListInv, DeviceInv, OwnerInv, [Next]_vars PROVE FrameInv'
  OBVIOUS
<1>1. ASSUME UNCHANGED <<pending, apart, claim, nm_buf>>, asked' \subseteq Ips
      PROVE  FrameInv'
  BY <1>1 DEF FrameInv, RingsTyped, Fits
<1>2. ASSUME RingsTyped', asked' \subseteq Ips, Fits(nm_buf)', claim' = claim
      PROVE  FrameInv'
  BY <1>2 DEF FrameInv
<1>3. Ips \subseteq Peers /\ NoIp \in Peers
  BY DEF Peers
<1>4. ASSUME NEW ip \in Peers, NEW ha \in Hwaddrs, Learn(ip, ha)
      PROVE  claim'[NoIp] # NoClaim
  BY <1>3, <1>4 DEF Learn, Claim, FrameInv, OwnerInv
<1>5. CASE Arp
  <2>1. ASSUME NEW ip \in Peers, NEW ha \in Hwaddrs, RecvArpRequest(ip, ha)
        PROVE  FrameInv'
    <3>1. /\ Learn(ip, ha) /\ SendFrame(Frame("arp_reply", ip, ha, NoPayload))
          /\ asked' = asked
      BY <2>1 DEF RecvArpRequest
    <3>2. RingsTyped
      BY DEF FrameInv
    <3>3. RingsTyped' /\ nm_buf' = Frame("arp_reply", ip, ha, NoPayload)
      BY <3>1, <3>2, SendFrameTyped
    <3>4. Fits(Frame("arp_reply", ip, ha, NoPayload))
      BY ArpFits
    <3>5. Fits(nm_buf')
      BY <3>3, <3>4, Zenon
    <3>6. Fits(nm_buf)'
      BY <3>5 DEF Fits
    <3>7. claim'[NoIp] # NoClaim
      BY <1>4, <3>1
    <3>8. asked' \subseteq Ips
      BY <3>1 DEF FrameInv
    <3> QED
      BY <3>3, <3>6, <3>7, <3>8 DEF FrameInv
  <2>2. ASSUME NEW ip \in Ips, NEW ha \in Hwaddrs, RecvArpReply(ip, ha)
        PROVE  FrameInv'
    <3>1. claim'[NoIp] # NoClaim
      BY <1>3, <1>4, <2>2 DEF RecvArpReply
    <3>2. /\ asked' \subseteq asked
          /\ nm_buf' = nm_buf /\ pending' = pending /\ apart' = apart
      BY <2>2 DEF RecvArpReply, device
    <3> QED
      BY <3>1, <3>2 DEF FrameInv, RingsTyped, Fits
  <2> QED
    BY <1>5, <2>1, <2>2 DEF Arp
<1>6. CASE Datagrams
  <2>1. ASSUME NEW ip \in Peers, NEW w \in Words, NEW odd \in Odds, RecvIcmp(ip, w, odd)
        PROVE  FrameInv'
    <3>1. RingsTyped' /\ asked' \subseteq Ips /\ Fits(nm_buf)'
      BY <2>1, IcmpFits
    <3>2. claim' = claim
      BY <2>1, Zenon DEF RecvIcmp
    <3> QED
      BY <1>2, <3>1, <3>2
  <2>2. ASSUME NEW ip \in Peers, NEW w \in Words, NEW odd \in Odds, NEW q \in Pseudo,
               RecvUdp(ip, 1, Base - 1, w, odd, q)
        PROVE  FrameInv'
    <3>1. RingsTyped' /\ asked' \subseteq Ips /\ Fits(nm_buf)'
      BY <2>2, UdpFits
    <3>2. claim' = claim
      BY <2>2, Zenon DEF RecvUdp
    <3> QED
      BY <1>2, <3>1, <3>2
  <2> QED
    BY <1>6, <2>1, <2>2, Zenon DEF Datagrams
<1>7. CASE Tcp
  <2>1. CASE (\E ip \in Ips : RemoveControl(ip)) \/ StartPass \/ EndPass
    <3>1. UNCHANGED <<pending, apart, claim, nm_buf, asked>>
      BY <2>1 DEF RemoveControl, StartPass, EndPass, device
    <3> QED
      BY <1>1, <3>1 DEF FrameInv
  <2>2. ASSUME NEW ip \in Ips, NEW w \in Words, NEW q \in Pseudo, SendTcp(ip, w, q),
               claim' = claim
        PROVE  FrameInv'
    <3>1. RingsTyped' /\ asked' \subseteq Ips /\ Fits(nm_buf)'
      BY <1>3, <2>2, TcpFits
    <3> QED
      BY <1>2, <2>2, <3>1
  <2>3. ASSUME NEW ip \in Ips, NEW w \in Words, NEW q \in Pseudo, AddControl(ip, w, q)
        PROVE  FrameInv'
    <3>1. SendTcp(ip, w, q) /\ claim' = claim
      BY <2>3, Zenon DEF AddControl
    <3> QED
      BY <2>2, <3>1
  <2>4. ASSUME NEW w \in Words, NEW q \in Pseudo, SendControl(w, q) PROVE FrameInv'
    <3>1. /\ phase = "control" /\ left > 0 /\ SendTcp(Head(control), w, q)
          /\ claim' = claim
      BY <2>4, Zenon DEF SendControl, PassStep
    <3>2. Head(control) \in Ips
      BY <3>1, PassHead
    <3> QED
      BY <2>2, <3>1, <3>2
  <2> QED
    BY <1>7, <2>1, <2>3, <2>4, Zenon DEF Tcp, Pass
<1>8. CASE Environment
  <2>1. ASSUME NEW r \in Rings, Transmit(r) PROVE FrameInv'
    <3>1. /\ pending' = [pending EXCEPT ![r] = @ - 1] /\ pending[r] > 0
          /\ UNCHANGED <<asked, nm_buf, claim, apart>>
      BY <2>1 DEF Transmit
    <3>2. pending \in [Rings -> 0..Slots] /\ Slots \in Nat
      BY RingAssumption DEF FrameInv, RingsTyped
    <3>3. pending' \in [Rings -> 0..Slots]
      BY <3>1, <3>2
    <3> QED
      BY <3>1, <3>3 DEF FrameInv, RingsTyped, Fits
  <2>2. ASSUME NEW ip \in Ips, LoseRequest(ip) PROVE FrameInv'
    <3>1. /\ UNCHANGED <<pending, apart, claim, nm_buf>>
          /\ asked' = asked \ {ip}
      BY <2>2 DEF LoseRequest, device
    <3>2. asked' \subseteq Ips
      BY <3>1 DEF FrameInv
    <3> QED
      BY <1>1, <3>1, <3>2
  <2> QED
    BY <1>8, <2>1, <2>2, Zenon DEF Environment
<1>9. CASE UNCHANGED vars
  <2>1. UNCHANGED <<pending, apart, claim, nm_buf, asked>>
    BY <1>9 DEF vars, device
  <2> QED
    BY <1>1, <2>1 DEF FrameInv
<1> QED
  BY <1>5, <1>6, <1>7, <1>8, <1>9 DEF Next

LinkInv == FrameInv /\ ListInv /\ DeviceInv /\ OwnerInv

LEMMA LinkInvariant == Spec => []LinkInv
<1>1. Init => DeviceInv
  BY RingAssumption DEF Init, DeviceInv, LossesAreApart
<1>2. Init => OwnerInv
  BY OwnerInit
<1>3. Init => FrameInv
  <2> SUFFICES ASSUME Init PROVE FrameInv
    OBVIOUS
  <2>1. RingsTyped
    BY RingAssumption DEF Init, RingsTyped
  <2>2. asked \subseteq Ips
    BY DEF Init
  <2>3. claim[NoIp] # NoClaim
    BY AddressAssumption DEF Init, Peers
  <2>4. nm_buf = Frame("none", NoIp, OwnHa, NoPayload)
    BY DEF Init
  <2>5. Fits(Frame("none", NoIp, OwnHa, NoPayload))
    BY ArpFits DEF Peers
  <2>6. Fits(nm_buf)
    BY <2>4, <2>5, Zenon
  <2> QED
    BY <2>1, <2>2, <2>3, <2>6 DEF FrameInv
<1> QED
  BY <1>1, <1>2, <1>3, ListInit, ListStep, DeviceStep, OwnerStep, FrameStep, PTL
  DEF Spec, LinkInv

\* As the addresses in the table differ, it holds no more than there are.
LEMMA TableFits == ASSUME TableInv PROVE Len(entries) <= MaxArpEntries
<1> DEFINE n == Len(entries)
           f == [i \in 1..n |-> entries[i].ip]
<1>1. n \in Nat /\ DOMAIN entries = 1..n
  BY DEF TableInv
<1>2. \A i \in 1..n : entries[i].ip \in Peers
  BY <1>1, EntryTyped
<1>3. \A i, j \in 1..n : entries[i].ip = entries[j].ip => i = j
  BY <1>1 DEF TableInv, ArpUnique
<1> HIDE DEF n
<1>4. f \in Injection(1..n, Peers)
  <2>1. f \in [1..n -> Peers]
    BY <1>2
  <2>2. \A i, j \in DOMAIN f : f[i] = f[j] => i = j
    BY <1>3
  <2> HIDE DEF f
  <2> QED
    BY <2>1, <2>2, Zenon DEF Injection, IsInjective
<1> HIDE DEF f
<1>5. IsFiniteSet(Peers) /\ Cardinality(Peers) = Cardinality(Ips) + 1
  BY TableAssumption, AddressAssumption, FS_AddElement DEF Peers
<1>6. Cardinality(1..n) <= Cardinality(Peers)
  BY <1>4, <1>5, FS_Injection
<1>7. Cardinality(1..n) = n
  <2>1. Cardinality(1..n) = IF 1 > n THEN 0 ELSE (n - 1) + 1
    BY <1>1, FS_Interval
  <2> QED
    BY <1>1, <2>1
<1>8. Cardinality(Ips) \in Nat /\ MaxArpEntries \in Nat /\ Cardinality(Ips) < MaxArpEntries
  BY TableAssumption, FS_CardinalityType
<1>9. n <= MaxArpEntries
  BY <1>1, <1>5, <1>6, <1>7, <1>8
<1> QED
  BY <1>9 DEF n

\* No ring is given more frames than it has slots and no burst is exceeded
\* (usnet_send_frame), the ARP table stays within its array if that is larger
\* than the number of addresses, a pass finds a block for every turn, and every
\* word of a message is a word.
THEOREM LinkTyped == Spec => []TypeOK
<1>1. LinkInv => TypeOK
  <2> SUFFICES ASSUME LinkInv PROVE TypeOK
    OBVIOUS
  <2>1. \A i \in DOMAIN entries :
          entries[i].ip \in Peers /\ entries[i].ha \in Hwaddrs \cup {OwnHa}
    BY EntryTyped DEF LinkInv, OwnerInv
  <2>5. /\ Len(entries) <= MaxArpEntries /\ control \in Seq(Ips) /\ owed \subseteq Ips
        /\ phase \in {"handlers", "control"} /\ left \in 0..Thresh /\ left <= Len(control)
    BY TableFits DEF LinkInv, OwnerInv, ListInv
  <2>2. /\ asked \subseteq Ips
        /\ nm_buf.kind \in Kinds /\ nm_buf.ip \in Peers
        /\ nm_buf.ha \in Hwaddrs \cup {OwnHa, Broadcast}
        /\ \A i \in DOMAIN nm_buf.data.words : nm_buf.data.words[i] \in 0..(Base - 1)
    BY Zenon DEF LinkInv, FrameInv, Fits, WordsTyped
  <2>3. /\ pending \in [Rings -> 0..Slots] /\ apart \in 0..Burst
        /\ npkts \in 0..Burst /\ since \in 0..Burst
    BY Zenon DEF LinkInv, FrameInv, RingsTyped, DeviceInv
  <2>4. claim \in [Peers -> Hwaddrs \cup {OwnHa, NoClaim}]
    BY Zenon DEF LinkInv, OwnerInv
  <2> QED
    BY <2>1, <2>2, <2>3, <2>4, <2>5, Zenon DEF TypeOK
<1> QED
  BY <1>1, LinkInvariant, PTL

\* What tcp_cksum, udp_cksum and in_cksum put into a packet verifies at the
\* peer, for words of any (even) size: two folds of the sum are enough, with the
\* two cases in which in_cksum does not agree left out as ChecksumsVerify does.
THEOREM ChecksumsHold == Spec => []ChecksumsVerify
<1>1. LinkInv => ChecksumsVerify
  BY Zenon DEF LinkInv, FrameInv, Fits, Checked, ChecksumsVerify
<1> QED
  BY <1>1, LinkInvariant, PTL

=============================================================================
