# A TLA+ model of libusnet

libusnet is a user-space TCP/IP stack on netmap. `usnet_setup` (core.c) forks
two processes that share System V memory: the *net process*, which runs
`usnet_dispatch_net` and owns the protocol, and the *application process*, which
calls the socket functions. This directory holds TLA+ modules of the parts that
carry the logic, TLC configurations, and proofs checked with TLAPS.

Build facts the model relies on: `Makefile.am` defines
`TCPOPT_TIMESTAMP_ENABLED`, `TRY_SEND_BEFORE_QUEUE` and `DUMP_STREAM`; asserts are
live; `USE_ADAPTIVE_CONTROL`, `ACK_PIGGYBACK` and
`USE_NETMAP_BUF` are off. `configure.ac` sets `CFLAGS` to `-g`: nothing is optimised,
so each use of a shared field in the C text is a load of its own.

## 1. Inventory

Paths are below `src/src/usnet/`.

| Component | State | Operations | Hard behaviour | What makes it correct |
|---|---|---|---|---|
| message queue (`mq.c`) | byte ring, `_head`, `_tail` | `usnet_write_mq`, `usnet_read_mq` | two processes without a lock, stale `_head`/`_tail`, wrap of header and data, restart inside a call | a FIFO of whole messages; the assert on the header length holds; the writer never overruns |
| notification (`mq.c`, `epoll.c`, `event.c`) | fifo bytes, loop counters | enqueue + byte; poll, loop, dequeue, select, drain | lost wake-ups, full fifo, limits of the loops | nobody sleeps over a message |
| net events (`event.c`) | two queues | LISTEN, CONNECT, WRITE handlers | events that arrive after a reset, dropped events | events act on the connection they were meant for |
| dispatch loop (`core.c`) | phase of the loop | poll, frames, events, timers, lists | the order in which work is served | every list is served, timers are looked at |
| TCP input (`tcp.c`) | control block | passive open, `usnet_handle_*`, `usnet_process_ack`, `usnet_process_tcp_payload` | loss, duplication, reordering, resets | state machine, sequence variables |
| control blocks (`tcb.c`) | tcb cache, bindings to sockets and buffers | new, bind, release | pointers kept after a release, reuse of a four-tuple | block, socket and buffer name each other |
| timers (`timer.c`) | rto wheel with its far list, counter and hand, timeout list | `usnet_handle_rto`, `usnet_check_*` | a timeout racing an acknowledgement, double removal, time stamps that wrap, an idle loop | a block is on the list its index names, every timer runs out, data in flight is timed, open connections are watched, given-up ones destroyed |
| TCP output (`tcp_out.c`) | control, ack, send lists | send lists, flush, control packets | refused packets, the window | every byte goes out under its own number |
| send buffer (`sndbuf.c`) | ring, `head`, `sent_head`, `tail`, `len`, `head_seq` | write (app), flush, remove (net) | shared without a lock, wrap | unacknowledged bytes are kept |
| receive buffer (`ringbuf.c`) | ring, `data`, `head`, fragments, `win` | insert (net), read (app) | overlap, repetition, reordering, wrap, closed window | exact reassembly, the application reads the stream |
| sockets and epoll (`core.c`, `socket.c`, `epoll.c`) | socket cache, backlog | listen, accept, read, write, epoll_wait | accept racing resets, full cache | a peer taken is not forgotten, descriptors are accepted in order |
| cache, memory pool (`cache.c`, `mempool.c`) | rows of cells, runs of free chunks | attach, get, search, remove; allocate, free | collisions, holes, depletion, attach by a second process, release during a write | an entry has one owner, a key one entry, a chunk is never lost |
| ARP (`arp.c`) | address table | request, reply, probe | packets dropped while the address is unknown, repeated answers | the table is a function; a datagram goes to its owner; what waits for an address is kept |
| Ethernet, netmap (`eth.c`) | one frame buffer, transmit rings, burst count | `usnet_send_frame` | full rings, a device that cannot be polled | rings are not overrun, losses are bounded |
| IP, ICMP, UDP, checksums (`ip.c`, `ip_icmp.c`, `udp.c`, `utils.c`) | none | input, output | carries, odd lengths | what leaves verifies at the peer |
| log, shm | — | — | — | see section 8 |

The processes interact through two 32 MB queues, `ev_app2net_mq` and
`ev_net2app_mq`, each with a fifo for wake-ups, and through the shared caches of
sockets, send buffers and receive buffers. Because `usnet_connect` and
`usnet_close` are stubs, the only reachable TCP states are LISTEN, SYN_RECEIVED,
ESTABLISHED, CLOSE_WAIT and CLOSED. The states FIN_WAIT, CLOSING, LAST_ACK,
SYN_SENT and TIME_WAIT have code but no way in, and are not modelled.

`PROJECT.json` lists every component, every definition with the source lines it
stands for, and the hazards the properties are aimed at.

## 2. Modules

| Module | Models | Granularity |
|---|---|---|
| `FifoQueue` | what a message queue promises | one step per message |
| `ShmMQ` | `usnet_write_mq`, `usnet_read_mq`, re-attachment after a crash | one step per byte |
| `ShmMQProofs` | proofs about `ShmMQ` | |
| `EventWakeup` | `usnet_shmmq_enqueue`, `usnet_shmmq_dequeue`, the loops of `usnet_epoll_wait` and `usnet_tcpev_net` | one step per access to the ring or the fifo |
| `EventWakeupProofs` | proofs about `EventWakeup` | |
| `Connection` | the life of connections: dispatch loop, TCP input, timers, lists, event handlers, listen/accept/write | one step per handler; queues as sequences, data as "queued / in flight" |
| `SendBuffer` | the send path of one open connection with its bytes | write split at its shared accesses; one step per segment flushed |
| `SendBufferProofs` | proofs about `SendBuffer` | |
| `RecvBuffer` | the receive path of one open connection with its bytes | one step per insertion; read split at each load of `head` and before it moves `data` |
| `ConnectionProofs` | proofs about `Connection` | |
| `RecvBufferProofs` | proofs about `RecvBuffer` | |
| `RtoWheel` | the retransmission timers: wheel, far list, counter, the loop that turns it, the handler that may release a block | one step per handled timeout or turn of the hand |
| `RtoWheelProofs` | proofs about `RtoWheel` | |
| `Store` | hash caches, memory pools, descriptors and backlog: who holds what | one step per call; `usnet_write` split after its look-up |
| `StoreProofs` | proofs about `Store` | |
| `LinkLayer` | ARP table, frame buffer, device rings, control list, ICMP and UDP answers, checksums | one step per frame in or out, and per block of a pass over the list |
| `LinkLayerProofs` | proofs about `LinkLayer` | |

Module `X` is instantiated for TLC by `MCX`. `Connection` stands on the two
modules below it: its queues are the FIFO that `ShmMQ` is shown to implement.
`SendBuffer` and `RecvBuffer` are the data the abstract buffers of `Connection`
leave out; `RtoWheel` is the "armed" timer of `Connection` and `SendBuffer` in full;
`Store` is where the blocks, sockets and buffers of `Connection` live, and takes a
connection as something that may end at any moment; `LinkLayer` is below TCP: a
connection is a peer that has a control packet to send, and the control list, whose
order `Connection` leaves open, is kept with its order and its early end.

How the state corresponds to the code:

- Variables carry the names of the C fields. Variables marked *history* in the
  declarations exist for the properties only; no guard reads them, except the
  bounds on how much happens in one behaviour and `sent_max` and `edge`, which
  stand for what the peer knows.
- Definitions marked *Mutant* are not part of a specification. Each is a
  plausible mistake in the code that breaks the property it is paired with in
  `PROJECT.json`.
- In `ShmMQ` a byte is the triple (message, index, total length). Stores are
  seen in program order (see the module's comment).
- In `SendBuffer` and `RecvBuffer` byte *k* of the stream is the number *k*, and
  sequence numbers are offsets from the initial one. Windows are far below
  2^31, where the comparison macros of `tcp.h` agree with those of the integers.
  `dup_acks` saturates at 4: values above 3 only widen the window, which may be
  anything up to `Window` anyway.
- In `RecvBuffer` the 16-bit width of `data` and `head` is kept (`Word`). The loop of
  `usnet_insert_fragment` is the recursive function `Walk`, one value per fragment looked
  at. The three loads of `head` in `usnet_read` (core.c:889, 892, 893 or 905) are three
  steps (`ReadTest`, `ReadBranch`, `ReadCopy`). The insertion is one step; what a read
  can do to it, going around the end of the ring between the two loads of `data` in
  ringbuf.c:233 and 334, is a nondeterministic outcome of that step (`InsertFails`,
  `Windows`).
- In `Connection` time is abstracted: an armed timer may expire at each pass of
  the loop; a transmission may fail; a queue may be full, also of events the
  module leaves out; the order in which a list is served is left open. `backlog` is
  the array `bq_connq` with `bq_head` and `bq_tail`, which wrap at different places and
  are never compared (core.c:805-807, 836-841): after `BacklogSize` sockets
  `usnet_accept` returns old descriptors again, here as in the code.
- In `RtoWheel` time stamps are words of `Word` values that wrap, kept relative to
  `cur_time`: the code only uses differences. A tick is one unit of `cur_time`, which
  is `time(0)`, a second (core.c:479), although `HZ` (tcp.h:134) takes it for a
  millisecond; nothing in the model depends on its length. `diff + rto_now_idx` is
  an unsigned sum, as in C, and the far list's `diff` has the opposite sign
  (timer.c:512), as in the code. `drift` counts the blocks that the handler released.
- In `Store` a cache is the function from cells to keys, 0 for empty. Four-tuples are
  numbers that are their own hash, so which of them collide is chosen by the
  configuration. The array of the backlog has one place more than the code allocates:
  the tail does reach it (core.c:806). What a released block leaves in its cell is
  forgotten, as the next insertion overwrites it.
- In `LinkLayer` words have `Byte * Byte` values and messages a few words; the
  checksums are the operations of the code on that base. The pseudo header is one
  number, its sum. A peer is its address; address `0.0.0.0` is the one of entry 0 of
  the table, and of an ARP probe. `usnet_register_arp` does not test the size of its
  array; `TableAssumption` says that the link has fewer addresses than that has
  entries (`MAX_ARP_ENTRIES`, 1024), and `TypeOK` then says that the table stays in it.
  A packet is *owed* from a failed `usnet_send_control_packet` until a later one is
  handed to `usnet_send_frame`, which returns nothing: a frame the device gives up is
  handed over too.
- The context is allocated with `malloc` and only partly cleared
  (core.c:577 clears the size of a pointer); the models take it as zero.

## 3. Runs that pass

Sizes are on two to four workers.

| Run | Bounds | Checks |
|---|---|---|
| `mq` | block of 7, header of 2, data of 1–3, reader's buffer of 2, 6 messages | `TypeOK`, `NoOverrun`, `HeaderAssert`, `ReadsOldest`, refinement `RefinesFifo`. About 100 000 states. |
| `wakeup` | ring of 4, fifo of 3, drain of 2, batch of 5 | `TypeOK`, `SleepIsCovered`, liveness `EmptySleeperWakes` |
| `connection` | two peers (symmetric), two sockets, two blocks, backlog of 3, queues of 1, no retransmission | `ConnectIsPending`, `OpenIsWatched`. About a million states. |
| `connection_data` | one peer, two successive connections and sockets, backlog of 2, queues of 1, one retransmission, writes | `TypeOK`, `SocketBinding`, `WriteReachesOwner`, action property `RebindAfterWrap`. About 1.8 million states. |
| `send` | ring of 4, segments of 2, window of 4, one retransmission, 6 bytes written | `TypeOK`, `UnackedIsKept`, `SentBetween`, `InFlightIsTimed`. About 2.5 million states. |
| `recv` | ring of 7, initial window of 9, scale of 2, segments up to 3, 9 bytes | `TypeOK`, `ReassemblyExact`, `ReadsStream`. About 1.5 million states. |
| `rto` | two blocks, wheel of 3, rearrangement at each tick, word of 8, timeouts of 1 and 3 ticks, one retransmission, one timeout per call, one release in the handler | `TypeOK`, `ListMatchesIndex`, `CountOfListed`, liveness `TimerIsServed` and `ResendUnderTraffic`. About 67 000 states. |
| `link` | two peers and two hardware addresses, one ring of one slot, burst of 2, words of 16 values, passes of one block | `TypeOK`, `ChecksumsVerify`, `LossesAreApart`, `ArpUnique`, `FrameToOwner`, `OwedIsListed`, liveness `OwedIsHanded`. About 150 000 states. |
| `store` | rows of 3 and 2 cells, two colliding peers, pools of 2 and of 1 or 2 chunks, backlog of 3, four descriptors, queues of 1 | `TypeOK`, `SocketFound`, `KeyUnique`, `ChunksConserved`, `BuffersOwned`, `WriteLands`, `AcceptInOrder`. About 630 000 states. |

Why the bounds are enough. In `mq` the sum of the lengths exceeds the block
several times, and with 7, 2 and 1–3 every way of wrapping occurs (before the
header, inside it, between header and data, inside the data, exactly at the
end), and messages too long for the reader's buffer occur. In `wakeup` the batch
limit, the maxevents limit, a full ring, a full fifo and a fifo holding more than
one drain takes all occur. In the connection runs a four-tuple is reused
while messages of its predecessor are still on their way, the socket cache fills
up, in `connection_data` `bq_head` goes around and an old descriptor is accepted again
and bound to a later block, and the threshold of retransmissions is reached (`MaxRtx` 0 and 1: the code
compares `nrtx` with it and does nothing else with it). In `send` and `recv` the
stream goes around the ring, and the ring fills and empties. In `recv` the initial
window is larger than the ring, as in the code (14600 and 8096).
In `rto` the word is no multiple of the wheel, as 2^32 is none of 3000, one timeout
lies on the wheel and one beyond it, and the hand and the stamps go around; the
rearrangement is more frequent than the turn of the wheel, as in the code (1000
and 3000), which `TimerIsServed` depends on. In `store` keys 1 and 7 share their
cells in both rows and descriptors 1 and 4 in the first, both pools get used up,
each alone and together, and two connections wait on the backlog at a time before it
has gone around. In `link` the ring fills within a burst, a burst ends, sums carry into a second fold, messages have odd and
even lengths, both peers claim either hardware address, the block at the head of the list
holds up the one behind it, and blocks are added and removed between passes.

`ConnectionWrap.cfg` (module `MCConnection`; one peer, three successive connections, backlog
of 2, no writes; 1.4 million states) is kept beside the runs.
There `bq_tail` goes around too and an entry that was not read is passed over; `TypeOK`, `SocketBinding`, `ConnectIsPending` and
`RebindAfterWrap` hold as well. The proofs cover every size of the backlog.

`recv` uses `VIEW View`: once a segment was reordered or a read left the ring the bytes
in it are left out of the state. That is sound because no guard reads `ring`, and no
property does after `reordered` or `overread` is set, which they stay.

Deadlock is not checked in `mq`, `send` and `recv`: behaviours end when the bound
on the messages or bytes is reached, and a quiet connection may stop.

What they show:

- `RefinesFifo`: what is published is delivered whole, once and in order,
  although neither side takes a lock and either may restart inside a call.
- `SleepIsCovered`, `EmptySleeperWakes`: a reader that found the queue empty is
  woken by every later message.
- `SocketBinding`, `WriteReachesOwner`: although `so_tcb` is never cleared, removing the
  send buffer keeps a late WRITE event off a released block, and block and socket
  always name each other. A late CONNECT may still bind a descriptor to a newer
  connection of the same peer; the two then agree, but it is not the connection the
  application accepted.
- `RebindAfterWrap`: a descriptor moves to another block only after `bq_size` sockets
  were made, when `usnet_accept` returns old descriptors, and then only from a released
  block to a later one.
- `ConnectIsPending`: as long as no more than `bq_size` sockets were made, a peer whose
  SYN was taken is known to one of the two processes until it is bound, unless a
  message was dropped or the socket cache was full. Beyond `bq_size` entries of the
  backlog are passed over.
- `TypeOK` of `Connection` says, also beyond `bq_size`, that `usnet_accept` takes only
  descriptors from the backlog that have a socket.
- `OpenIsWatched`: the assert of `usnet_add_timeout_list` holds, and an open
  connection is on the timeout list.
- `UnackedIsKept`, `SentBetween`: the application never overwrites a byte the
  peer may need, and no acknowledgement frees a byte that was not sent. Both
  exclude behaviours in which a flush went beyond what was written (`astray`),
  which `SendBufferBytes.cfg` is about.
- `InFlightIsTimed`: `snd_una < snd_nxt` only with the timer armed. A timeout sets
  `snd_nxt` back; bytes that are outstanding beyond it are not covered, and
  `send_resend` shows what becomes of them.
- `ReassemblyExact`: head_seq and the fragment list say exactly which bytes were
  received, for every order, overlap and repetition.
- `ReadsStream`: the readable part of the ring is the stream, for segments that
  arrive in order, with the net process moving `head` between the loads of a read; up
  to a read that copies beyond the end of the ring because `head` went around between
  two loads (`RecvBufferRace.cfg`).
- `ListMatchesIndex`: `TAILQ_REMOVE` always finds a block where it looks, although
  timers are moved by acknowledgements, by the rearrangement and by the handler.
- `CountOfListed`: the count that starts and stops the wheel is exact except for the
  releases inside the handler, each of which is counted down twice. After one, the
  wheel stops while a block is still on it. `TimerIsServed` is therefore stated up to
  the first such release; until then every timer runs out or is stopped, also the
  ones whose offset was computed from a difference of the wrong sign.
- `ResendUnderTraffic`: what a timeout puts on an output list is looked at, provided
  that poll keeps finding something (see `RtoWheelIdle.cfg` below for the idle case).
- `KeyUnique`, `ChunksConserved`, `BuffersOwned`: neither collisions, holes left by a
  removal, the unwinding of a failed creation nor releases make an entry double, lost
  or shared. `WriteLands` says the same of a write, unless the buffer was released
  between its look-up and its copy.
- `SocketFound`: with the net process attached first, no cache is cleared under a
  socket. `AcceptInOrder`: until the end of the backlog has been reached, descriptors are
  returned in the order of the connections and each once; beyond that they are not
  (`StoreBacklog.cfg`).
- `FrameToOwner`, `ArpUnique`: one frame buffer for everything, and a table that is
  only ever appended to, never send a datagram elsewhere than to the first claim.
- `ChecksumsVerify`: the two folds of `tcp_cksum` and `udp_cksum` always suffice; the
  echo reply is excepted for odd lengths and for words that are negative as shorts.
- `LossesAreApart`: a refused frame costs one in a burst.
- `OwedIsListed`, `OwedIsHanded`: although the packet that needed an address is dropped
  (arp.c:110) and a failed one ends the pass for all (core.c:243), a block that owes a
  packet stays on the control list, and the packet is handed to the device in the end,
  unless the poll of the loop reports nothing any more (core.c:487).

## 4. Runs that find a disagreement

Each states what a comment or an assertion of the code says.

| Run | Property | What happens |
|---|---|---|
| `wakeup_lost` | `PendingIsNotified` | a reader that stops at `maxevents` (or after 10000 passes) may have drained the signals of the messages it leaves: it sleeps over a non-empty queue |
| `send_resend` | `LostIsResent` | after a timeout the flush starts at `sent_head`, finds nothing and leaves the timer off |
| `recv_window` | `WindowReopens` | `need_wnd_adv` is never read, and the window is only computed when a segment is inserted |

The following configurations are kept beside the runs. Each states one property that
the code does not have, and `tlc -config <file> <module>` prints the counterexample
within a minute.

| Configuration, module | Property | What happens |
|---|---|---|
| `ConnectionGiveUp.cfg`, `MCConnection` | `GivenUpIsDestroyed` | timer.c:223 "destroy and notify": a block with a socket is closed but never released |
| `SendBufferAssert.cfg`, `MCSendBuffer` | `SeqInBuffer` | three repetitions of an acknowledgement below `snd_una` put `snd_nxt` below the buffer, and the flush runs into `assert(0)` (tcp_out.c:631) |
| `SendBufferBytes.cfg`, `MCSendBuffer` | `SegmentIsStream` | the payload is taken from `sent_head`, not from the place of `snd_nxt`, and around the end of the ring its length is computed from the tail |
| `RecvBufferRace.cfg`, `MCRecvBuffer` | `ReadStaysInRing` | `head` goes around between the second and the third load of `usnet_read`: `data_len` is negative, passes for a large unsigned number, and the copy leaves the ring |
| `RtoWheelIdle.cfg`, `MCRtoWheel` | `ResendIsSent` | a turn of the loop in which poll finds nothing runs the timers and not the lists (core.c:487): without traffic a retransmission waits for ever |
| `LinkLayerEcho.cfg`, `MCLinkLayer` | `EchoVerifies` | `in_cksum` adds words as signed shorts: the echo reply fails the test that the request passed |
| `StoreBacklog.cfg`, `MCStore` | `BacklogIsQueue` | tail and head wrap at different places: `usnet_accept` returns old descriptors again |
| `StoreStartup.cfg`, `MCStore` | `SocketFound` | without the two seconds of core.c:203 the net process clears a socket that was handed out |
| `StoreWrite.cfg`, `MCStore` | `WriteIsOwn` | the buffer found is released and given to another connection before the copy |
| `StoreEarlyData.cfg`, `MCStore` | `ReadFindsOwn` | payload before the accept is kept under the listening descriptor, where no read of the connection looks |

## 5. Fairness

- `EventWakeup`: weak fairness of the writer's signal (it is inside a call) and
  of the reader's loop. `poll` with its timeout is not relied upon: a timeout
  returns without reading.
- `Connection`: weak fairness of the loop, the lists and the events, because
  `usnet_dispatch_net` is an endless loop that serves them in turn; strong
  fairness of each timer, because it is looked at in each pass but can be
  disabled in between, and of a RST that is tried again. Nothing is assumed of
  peers or of the application.
- `SendBuffer`: weak fairness of event handling, flush, timers and of a write in
  progress; strong fairness of sending a segment (a window asked for again and
  again opens). Nothing is assumed of acknowledgements or of more writes.
- `RecvBuffer`: weak fairness of reading and strong fairness of each segment: the
  peer repeats what the window allows. This is generous to the code, and the
  property fails nevertheless.
- `RtoWheel`: weak fairness of the clock and of the timer loop, strong fairness of
  leaving the other phases, each of which the code ends by itself, and of a block on
  an output list when the loop comes by there. No frame is assumed to arrive; the
  premise of `ResendUnderTraffic` says when it is.
- `LinkLayer`: weak fairness of a pass over the control list that has begun, because
  `usnet_send_tcp_control_list` is a loop that ends; none of its beginning, because an
  idle poll runs no list (core.c:487-491), which is why `OwedIsHanded` has the
  alternative that no pass begins. Strong fairness of a step of a pass whose frame the
  device takes, and of the answer to an ARP request that was taken: a device asked again
  and again takes a frame, and a peer answers. The last is a real assumption on the
  link: one peer that never answers stays at the head of the list and holds up all the
  others (core.c:241-248).
- `Store` has safety properties only.

## 6. Proofs

Every safety invariant and action property that a run of section 3 checks is also a
theorem of the specification, for every value of the constants that satisfies the
module's assumptions. Each `XProofs` module extends module `X` and is laid out the same
way: the inductive invariant as a conjunction of named parts, lemmas about the operators,
one lemma per action, one that combines them into the step, and the theorems.

| Module | Theorems (property) | Inductive invariant |
|---|---|---|
| `ShmMQProofs` | `TypeCorrect`, `WriterNeverOverruns` (`NoOverrun`), `AssertionHolds` (`HeaderAssert`), `ReaderSeesOldest` (`ReadsOldest`), `RingIsFifo` (`RefinesFifo`) | `IInv` |
| `EventWakeupProofs` | `WakeupTyped`, `NoLostWakeupAfterEmpty` (`SleepIsCovered`) | `IInv` |
| `ConnectionProofs` | `ConnectionTyped`, `SocketsBound` (`SocketBinding`), `WritesReachOwner`, `ConnectsPending` (`ConnectIsPending`), `OpenWatched` (`OpenIsWatched`), `RebindsAfterWrap` (action property `RebindAfterWrap`) | `IInv` |
| `SendBufferProofs` | `TypeCorrect`, `DataInFlightIsTimed` (`InFlightIsTimed`), `UnackedBytesAreKept` (`UnackedIsKept`), `SentLiesBetween` (`SentBetween`) | `IInv`, `RingInv` |
| `RecvBufferProofs` | `RecvTyped`, `Reassembly` (`ReassemblyExact`), `StreamRead` (`ReadsStream`) | `IInv` |
| `RtoWheelProofs` | `WheelTyped`, `ListsAndIndicesAgree` (`ListMatchesIndex`), `CountDrift` (`CountOfListed`) | `IInv` |
| `StoreProofs` | `StoreTyped`, `KeysUnique`, `ChunksKept` (`ChunksConserved`), `BuffersHeld` (`BuffersOwned`), `WritesLand`, `AcceptsInOrder`, `SocketsStay` (`SocketFound`) | `IInv` |
| `LinkLayerProofs` | `LinkTyped`, `ArpTableUnique` (`ArpUnique`), `DatagramToOwner` (`FrameToOwner`), `BurstBetweenLosses` (`LossesAreApart`), `ChecksumsHold` (`ChecksumsVerify`), `OwedStaysListed` (`OwedIsListed`) | `DeviceInv`, `OwnerInv`, `FrameInv`, `ListInv` |

The assumptions are named in the modules that declare the constants and evaluated by TLC
in every run. They say what the code's constants satisfy anyway: the block of a queue is
larger than a header; a ring has at least two bytes and, for the receive buffer, fewer
than 2^16 (`data` and `head` are 16 bits wide, and the code's ring has 8096); the wheel is
at most half the word; the free cell, the null pointer and the addresses of ARP are
values of their own; at least one descriptor exists. Three more are worth naming:

- `SocketsStay` has the hypothesis `NetFirst`: the net process sets up its caches within
  the two seconds that `usnet_setup` waits (core.c:203). Without it the property is
  false, and `StoreStartup.cfg` shows how. The other theorems of `StoreProofs` do not
  need it.
- `LinkTyped` uses `TableAssumption`: fewer addresses on the link than entries in the ARP
  table. The code does not test it.
- `SendBuffer` assumes that the peer acknowledges only what was sent to it
  (`a \in 0..sent_max`).

### The queue

`NoOverrun` is not inductive. That the writer has room says nothing about where
the bytes are, and that the reader copies the right bytes depends on nobody
having touched them. The inductive invariant `IInv` therefore adds

- `Geometry`: head and tail bracket exactly the unread bytes, and position 0 is
  only the initial one;
- `Stream`: published messages lie one after the other;
- `Content`: every byte of every unread message is in its place;
- `Writing`: there is still room for the message being copied, and what was copied
  is in place;
- `Reading`: the tail the reader loaded lies beyond the oldest message, and what it
  copied is the start of that message.

The ring is unrolled with `At` (the byte *d* places after *h*) and `Dist`. The lemmas
`WriteIndexIsAt`, `HeaderIndexIsAt`, `DataIndexIsAt`, `NextTailAdvances` and
`NextHeadAdvances` show once that the branches of the code compute these; the
proofs of the steps use only them. `RingIsFifo` maps the published messages not yet read
to the queue of `FifoQueue`.

### The wake-up

The invariant adds `SelectIsCovered`: between finding the queue empty and looking at the
fifo, a message comes with a byte. The property depends on the order in
`usnet_shmmq_dequeue`, which drains the fifo before the second read. `DequeueBelowLimit`
carries `TypeOK`: inside a dequeue the loop has passed its tests, so one more event
exceeds neither `maxevents` nor the batch.

### The life of connections

`SocketBinding` and `WriteReachesOwner` are about pointers that are kept after a release
and about a four-tuple that is used again. What makes them hold is in the parts

- `Ids`: the id of a block is its own, and a socket points to a block made before or to
  none;
- `Pointers`: a socket points to no block later than the one of its four-tuple, and to a
  live block only if that is of its four-tuple. This is what is left when a descriptor
  can be accepted twice: a second CONNECT may only move it forward;
- `OnBacklog`: up to `bq_size` sockets the array holds the descriptors in their order and
  the tail is their number; from then on every entry that the head can reach holds some
  descriptor, whichever it is. `HeadListed` takes from it that `usnet_accept` finds a
  socket;
- `OnTheWay`: a CONNECT event carries the four-tuple of its socket;
- `FirstRound`: below `bq_size` sockets a descriptor waits for its block in one place only,
  on the backlog or in one CONNECT event, and until then its socket points to no block;
- `BufferBinding`: the block that owns a send buffer is the one the socket of the
  descriptor points to;
- `Startup`: nothing overtakes the answer to `usnet_listen`.

`RebindsAfterWrap` follows from `FirstRound` below `bq_size` sockets, and from `Pointers`
beyond: a CONNECT that moves a descriptor finds the block of the four-tuple, whose id is
not below the one the socket pointed to.

### The send path

- `IInv` for `InFlightIsTimed`: besides the types, `HeadBelowUna`
  (`head_seq <= snd_una`). An old acknowledgement can move `snd_nxt` up to itself
  without touching the timer; that it thereby puts nothing in flight is because it
  is not above `head_seq`.
- `RingInv` for `UnackedIsKept` and `SentBetween`. `Writing` says that a write which
  found room still has it; `Bounds` and `Seqs` that an acknowledgement frees no more
  than was sent; and `Bounds` also that something is left to send while the tail
  stands at the very end of the ring. The last part is the subtle one: `head` wraps
  to 0 there and the tail does not, so if everything could be acknowledged in that
  position an empty ring would look full. It cannot, because the flush sends nothing
  while `size - tail` is 0.

### The receive path

`ReassemblyExact` speaks of the set of bytes received; `Listed` says how the list has to
look for that: fragments that are not empty, sorted, with a hole between any two (`Holes`),
beyond `head_seq` (`Beyond`), and covering together with it exactly what came (`Exact`).
The loop over the fragments in `usnet_insert_fragment` is the recursive function `Walk`;
what holds after each of its turns is the predicate `Turned`, proved by induction over the
turns: what was passed lies before the fragment that is carried along and before the rest
of the list (`Moving`), and the two hold exactly the bytes of the new segment and of the
fragments seen so far (`Kept`, `Given`).

`ReadsStream` holds up to the first reordered segment and the first read that leaves the
ring, and so does `InOrder`: the bytes from `data` to `head` are the stream from `nread`
on, the window that the peer was told of (`WindowFits`) leaves a byte of the ring free,
and what a read in progress found out stays true (`Reading`): there is something to read,
a `head` below `data` stays below, and the bytes that were copied are still there when
`data` moves. Only "`head` is above `data`" does not stay; the copy is right nevertheless
unless it leaves the ring (`ReadCopyInOrder`). The window part is what keeps a full ring from
looking empty: with `head = data` the code takes the whole ring for free, so a segment
that filled the last byte would be followed by one that overwrites unread bytes.

### The timer wheel

`TypeOK`, `ListMatchesIndex` and `CountOfListed` are together inductive. The proof is in
the arithmetic of `Offset` and `Slot`, which reach a list of the wheel whatever sign the
difference has, in the cardinality lemmas (`OneLess`, `OneMore`), and in the walk over a
list from which the handler releases blocks and to which it adds them.

### Caches, pools and the backlog

Hardly a property of `Store` is inductive on its own:

- that a buffer has one owner depends on descriptors standing for one peer
  (`EventsAgree`, `BacklogAgrees`, `BlocksAgree`), and that `usnet_accept` hands out a
  descriptor at all on its reading only places that were written (`Written`);
- that an insertion does not double a key depends on every key being in one of its own
  cells (`Placed`), where the look-up before it searches;
- that a chunk is never lost depends on the runs of the free list being disjoint and the
  counter being the number of their chunks (`PoolOK`), also after an allocation that
  failed half-way and was undone;
- `AcceptInOrder` depends on `Ordered`: until the end of the backlog has been reached it holds
  growing descriptors, of which the ones before the head were returned.

### The link layer

- `DeviceInv` for `LossesAreApart`: the count of the burst is never above the number of
  frames that went out since the last loss, because both are reset together and every
  frame that goes out is counted in both.
- `OwnerInv` for `FrameToOwner`: the table holds the first claim of exactly the addresses
  that were claimed. That the frame buffer is right after one step follows from the table;
  that it stays right later needs that a claim is never changed.
- `FrameInv` for `TypeOK` and `ChecksumsVerify`: what was put into the frame buffer
  verifies. The lemma behind it, `FoldsVerify`, says that two folds of the sum, the second
  without the remainder of `Fold`, are enough for the sums that occur, and that their
  complement completes the sum to a multiple of `Base - 1`, for every base and not only
  the 16 of the run; 65536 is one of them. `IcmpChecked` covers the half of `in_cksum`
  that is right. The sum over a message is a recursive function, which is unrolled for the
  lengths of the modelled messages (`SumOfTwo`, `SumOfThree`, `SumOfFour`, `CarrySum`).
- `ListInv` for `OwedIsListed`: besides it, that a pass has no more turns left than there
  are blocks on the list, so that its next block exists, and that outside a pass none are
  left. The lemmas on `Unlink` say that taking one block off leaves the others on.

### Recursive functions and induction

The definitions that a proof needs values of (`WordSum`, `Walk`, the sums of `in_cksum`)
are recursive functions, and induction is done with sets: the set of counterexamples, if
there were one, would have a least element (`Least`, from the well-foundedness of the
naturals; `SetInduction`).

## 7. Model-checked only

- Liveness: `EmptySleeperWakes`, `TimerIsServed`, `ResendUnderTraffic`, `OwedIsHanded`.
  Fairness and ENABLED are outside the prover's reach.
- The findings of section 4: a counterexample is one behaviour, which TLC exhibits.
- Checksums of messages of other lengths than the modelled ones: a statement over all
  lengths would be an induction over the data of the message.

## 8. Not modelled

- Header layout, and frames that fail a check: they change nothing. What the network
  can do to a segment (lose, repeat, reorder) is an input of the TCP models.
- `usnet_get_nmbuf`, `usnet_trigger_nm`: compiled out.
- Log, dump functions, `shm.c`: output or operating system calls.
- The adaptive control of `mq.c`: compiled out.
- RTT estimation, congestion window arithmetic, option parsing: the models allow
  any outcome.
- The bit width of `ack_cnt` and the order within the ack list: see the plan.
- The caller's buffer of `usnet_read`: the wrapped branch copies `tail_len` bytes although
  `count` may be less (core.c:911).
- Fragments of a receive buffer that is released are not returned to their pool
  (`usnet_free_fragment_chain`, ringbuf.c:202, has no effect): `RecvBuffer` has one
  connection and lets the pool be empty at any time.

## 9. Plan

In order of importance:

1. Done: queue, wake-up, connection life, send and receive path, timer wheel, caches and
   pools, link layer, and the proofs of their safety properties.
2. `AckList`: the ack list with `ack_cnt` of six bits.
3. `RecvBuffer`: the application reading a hole after reordered segments.
4. The remaining hazards of `PROJECT.json` without a property: the close of given-up
   connections, the wrapped branch of `usnet_read`, and a write before the handshake ended.
