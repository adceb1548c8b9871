-------------------------------- MODULE Store -------------------------------
(***************************************************************************)
(* Where the two processes keep things: the shared hash caches (cache.c)   *)
(* of control blocks, sockets, send and receive buffers, the memory pools  *)
(* of the net process (mempool.c), the descriptors and the backlog of the  *)
(* application, and the operations that take entries out of them and give  *)
(* them back.  What goes on inside a connection is in Connection; here a   *)
(* block may be released at any moment.                                    *)
(*                                                                         *)
(* A cache is an array of HbTime rows.  A key has one cell in each row; an *)
(* entry is in the first cell of its key that was empty.  A cache is given *)
(* by the keys in its cells, 0 for an empty one.  Four-tuples are numbers, *)
(* their own hash.                                                         *)
(***************************************************************************)
EXTENDS Integers, Sequences, FiniteSets

CONSTANTS
  HbLen,        \* hb_len
  HbTime,       \* hb_time
  Keys,         \* four-tuples of peers
  ListenKey,    \* four-tuple of the listening socket
  RcvChunks,    \* sizes of rcvvars_mp
  SndChunks,    \* sizes of sndvars_mp
  BacklogSize,  \* bq_size
  NetFirst,     \* two seconds are enough for the net process to set up
  MaxFd,        \* bound: descriptors handed out, the listening one included
  WriteFds,     \* bound: descriptors the application writes to
  QueueBound    \* events that a queue holds

VARIABLES
  up,           \* processes that have attached to the caches
  tcb_cache, socket_cache, sndbuf_cache, ringbuf_cache,
  tcb,          \* net: the control block in each cell of tcb_cache
  sndvars_mp, rcvvars_mp,
  so,           \* app: the four-tuple in the socket of each descriptor, 0
                \*   when it got none
  g_fd,         \* app: ctx->g_fd
  backlog,      \* app: [connq, head, tail] of the listening socket
  net2app,      \* CONNECT events: four-tuples
  app2net,      \* CONNECT events: [fd, key]
  writer,       \* app: inside usnet_write: [fd, buf] after the look-up
  again,        \* history: usnet_accept returned a descriptor twice
  returned,     \* history: descriptors usnet_accept returned
  moved         \* history: the writer's buffer was released after the look-up

caches == <<tcb_cache, sndbuf_cache, ringbuf_cache>>
pools == <<sndvars_mp, rcvvars_mp>>
sockets == <<socket_cache, so, g_fd, backlog, again, returned>>
vars == <<up, caches, tcb, pools, sockets, net2app, app2net, writer, moved>>

Null == <<0, 0>>
Rows == 1..HbTime
Cells == Rows \X (0..(HbLen - 1))
Empty == [c \in Cells |-> 0]
ListenFd == 1

-----------------------------------------------------------------------------
(* The hash cache. *)

\* usnet_hashbase_init: the HbTime largest numbers up to HbLen that no
\* k in 2..sqrt(HbLen) divides.
Sqrt == CHOOSE r \in 0..HbLen : r * r <= HbLen /\ (r + 1) * (r + 1) > HbLen
Candidates == {i \in 1..HbLen : \A k \in 2..Sqrt : i % k # 0}
HbBase == [j \in Rows |-> CHOOSE i \in Candidates :
             Cardinality({m \in Candidates : m > i}) = j - 1]

\* Too small an hb_len ends the process.
ASSUME HashAssumption ==
  HbLen \in Nat \ {0} /\ HbTime \in Nat \ {0} /\ Cardinality(Candidates) >= HbTime

ASSUME KeyAssumption ==
  /\ Keys \subseteq Nat \ {0} /\ ListenKey \in Nat \ (Keys \cup {0})
  /\ RcvChunks \subseteq Nat \ {0} /\ SndChunks \subseteq Nat \ {0}
  /\ BacklogSize \in Nat \ {0} /\ MaxFd \in Nat \ {0} /\ QueueBound \in Nat

Cell(k, i) == <<i, k % HbBase[i]>>

\* The first cell of k in S.
Scan(k, S) ==
  LET hits == {i \in Rows : Cell(k, i) \in S}
  IN IF hits = {} THEN Null
     ELSE Cell(k, CHOOSE i \in hits : \A j \in hits : i <= j)

\* usnet_cache_get, and usnet_cache_insert before it copies the item.
CacheGet(cache, k) == Scan(k, {c \in Cells : cache[c] = 0})

\* Mutant: the search ends at the first empty cell.
CacheSearchToHole(cache, k) ==
  LET c == Scan(k, {d \in Cells : cache[d] \in {0, k}})
  IN IF c # Null /\ cache[c] = k THEN c ELSE Null

\* usnet_cache_search.
CacheSearch(cache, k) == Scan(k, {c \in Cells : cache[c] = k})

CachePut(cache, c, k) == [cache EXCEPT ![c] = k]

\* usnet_cache_remove: nothing for a null item.
CacheRemove(cache, c) == IF c = Null THEN cache ELSE [cache EXCEPT ![c] = 0]

-----------------------------------------------------------------------------
(* The memory pool: a list of runs of free chunks. *)

\* usn_mempool_create: one run of all chunks.
NewPool(total) ==
  [total |-> total, free |-> total, list |-> << [at |-> 1, n |-> total] >>]

\* usnet_mempool_allocate when mp_free_chunks is not 0: the chunk returned, and
\* the pool left.
Chunk(mp) == mp.list[1].at

\* Mutant: mp_free_chunks is not counted down.
AllocateUncounted(mp) ==
  LET p == mp.list[1]
  IN [mp EXCEPT
        !.list = (IF p.n > 1 THEN << [at |-> p.at + 1, n |-> p.n - 1] >> ELSE << >>)
                 \o Tail(@)]

Allocate(mp) ==
  LET p == mp.list[1]
  IN [mp EXCEPT !.free = @ - 1,
        !.list = (IF p.n > 1 THEN << [at |-> p.at + 1, n |-> p.n - 1] >> ELSE << >>)
                 \o Tail(@)]

\* usnet_mempool_free.
FreeChunk(mp, p) ==
  [mp EXCEPT !.free = @ + 1, !.list = << [at |-> p, n |-> 1] >> \o @]

-----------------------------------------------------------------------------
NoTcb == [fd |-> 0, rcvvar |-> 0, sndvar |-> 0, sndbuf |-> Null, rcvbuf |-> Null]
NoWriter == [fd |-> 0, buf |-> Null]

\* usnet_shmmq_enqueue drops the event when the queue is full.
Enqueue(q, e) == IF Len(q) < QueueBound THEN Append(q, e) ELSE q

\* usnet_setup has forked the two processes.
Init ==
  /\ up = {}
  /\ tcb_cache = Empty /\ socket_cache = Empty
  /\ sndbuf_cache = Empty /\ ringbuf_cache = Empty
  /\ tcb = [c \in Cells |-> NoTcb]
  /\ so = << >> /\ g_fd = 1
  /\ \E n \in SndChunks : sndvars_mp = NewPool(n)
  /\ \E n \in RcvChunks : rcvvars_mp = NewPool(n)
  /\ backlog = [connq |-> [i \in 0..BacklogSize |-> 0], head |-> 0, tail |-> 0]
  /\ net2app = << >> /\ app2net = << >>
  /\ writer = NoWriter /\ moved = FALSE
  /\ again = FALSE /\ returned = {}

-----------------------------------------------------------------------------
(* Setting up.  The segments may be there from an earlier run; attaching   *)
(* clears them (usnet_get_cache).                                          *)

\* usnet_net_setup.
NetSetup ==
  /\ "net" \notin up
  /\ up' = up \cup {"net"}
  /\ tcb_cache' = Empty /\ socket_cache' = Empty
  /\ sndbuf_cache' = Empty /\ ringbuf_cache' = Empty
  /\ UNCHANGED <<tcb, pools, so, g_fd, backlog, again, returned, net2app, app2net,
                 writer, moved>>

\* Mutant: the application does not wait.
WorkerSetupAtOnce ==
  /\ "app" \notin up
  /\ up' = up \cup {"app"}
  /\ socket_cache' = Empty /\ sndbuf_cache' = Empty /\ ringbuf_cache' = Empty
  /\ UNCHANGED <<tcb_cache, tcb, pools, so, g_fd, backlog, again, returned, net2app,
                 app2net, writer, moved>>

\* usnet_worker_setup, after its sleep.
WorkerSetup ==
  /\ "app" \notin up
  /\ NetFirst => "net" \in up
  /\ up' = up \cup {"app"}
  /\ socket_cache' = Empty /\ sndbuf_cache' = Empty /\ ringbuf_cache' = Empty
  /\ UNCHANGED <<tcb_cache, tcb, pools, so, g_fd, backlog, again, returned, net2app,
                 app2net, writer, moved>>

\* usnet_socket and usnet_bind of the socket to listen on.
Socket ==
  /\ "app" \in up /\ g_fd = ListenFd
  /\ socket_cache' = CachePut(socket_cache, CacheGet(socket_cache, ListenFd), ListenFd)
  /\ so' = << ListenKey >> /\ g_fd' = g_fd + 1
  /\ UNCHANGED <<up, caches, tcb, pools, backlog, again, returned, net2app, app2net,
                 writer, moved>>

\* usnet_listen: the net process finds the socket and registers it
\* (usnet_register_socket) while the application waits for the answer.
Listen ==
  LET c == CacheGet(tcb_cache, ListenKey)
  IN /\ up = {"net", "app"}
     /\ CacheSearch(socket_cache, ListenFd) # Null
     /\ CacheSearch(tcb_cache, ListenKey) = Null /\ c # Null
     /\ tcb_cache' = CachePut(tcb_cache, c, ListenKey)
     /\ tcb' = [tcb EXCEPT ![c].fd = ListenFd]
     /\ UNCHANGED <<up, sndbuf_cache, ringbuf_cache, pools, sockets, net2app, app2net,
                    writer, moved>>

-----------------------------------------------------------------------------
(* The net process. *)

\* usnet_init_newtcb once the block is in its cell c.
Created(c, k) ==
  /\ tcb_cache' = CachePut(tcb_cache, c, k)
  /\ tcb' = [tcb EXCEPT ![c] = [NoTcb EXCEPT !.fd = ListenFd,
               !.rcvvar = Chunk(rcvvars_mp), !.sndvar = Chunk(sndvars_mp)]]
  /\ rcvvars_mp' = Allocate(rcvvars_mp) /\ sndvars_mp' = Allocate(sndvars_mp)
  /\ net2app' = Enqueue(net2app, k)

\* Mutant: the receive variables are not given back.
NoSndvarsLeak ==
  /\ rcvvars_mp' = Allocate(rcvvars_mp)
  /\ UNCHANGED <<tcb_cache, tcb, sndvars_mp, net2app>>

\* The send variables are used up: the chunk of the receive variables goes
\* back, and the block leaves its cell.
NoSndvars ==
  /\ rcvvars_mp' = FreeChunk(Allocate(rcvvars_mp), Chunk(rcvvars_mp))
  /\ UNCHANGED <<tcb_cache, tcb, sndvars_mp, net2app>>

\* A SYN: usnet_tcp_input searches the block; usnet_handle_passive_open,
\* usnet_init_newtcb and usnet_handle_listen.
Syn(k) ==
  LET c == CacheGet(tcb_cache, k)
  IN /\ CacheSearch(tcb_cache, ListenKey) # Null
     /\ CacheSearch(tcb_cache, k) = Null
     /\ c # Null
     /\ rcvvars_mp.free > 0
     /\ IF sndvars_mp.free > 0 THEN Created(c, k) ELSE NoSndvars
     /\ UNCHANGED <<up, sndbuf_cache, ringbuf_cache, sockets, app2net, writer, moved>>

\* usnet_process_tcp_payload: the receive buffer is made for the descriptor
\* that the block has at that time.
Payload(k) ==
  LET c == CacheSearch(tcb_cache, k)
      b == CacheGet(ringbuf_cache, tcb[c].fd)
  IN /\ c # Null
     /\ tcb[c].rcvbuf = Null /\ b # Null
     /\ ringbuf_cache' = CachePut(ringbuf_cache, b, tcb[c].fd)
     /\ tcb' = [tcb EXCEPT ![c].rcvbuf = b]
     /\ UNCHANGED <<up, tcb_cache, sndbuf_cache, pools, sockets, net2app, app2net, writer, moved>>

\* Mutant: a second binding takes the send buffer to the new descriptor.
ConnectHandlerRekeys ==
  /\ app2net # << >>
  /\ LET ev == Head(app2net)
         c == CacheSearch(tcb_cache, ev.key)
         b == IF c # Null /\ tcb[c].sndbuf # Null THEN tcb[c].sndbuf
              ELSE CacheGet(sndbuf_cache, ev.fd)
     IN IF c = Null \/ b = Null \/ CacheSearch(socket_cache, ev.fd) = Null
        THEN UNCHANGED <<tcb, sndbuf_cache>>
        ELSE /\ tcb' = [tcb EXCEPT ![c].fd = ev.fd, ![c].sndbuf = b]
             /\ sndbuf_cache' = CachePut(sndbuf_cache, b, ev.fd)
  /\ app2net' = Tail(app2net)
  /\ UNCHANGED <<up, tcb_cache, ringbuf_cache, pools, sockets, net2app, writer, moved>>

\* usnet_connect_net_handler: binds the block to the socket; the send buffer
\* is made for its descriptor.  An event without socket or block is refused.
ConnectHandler ==
  /\ app2net # << >>
  /\ LET ev == Head(app2net)
         c == CacheSearch(tcb_cache, ev.key)
         b == CacheGet(sndbuf_cache, ev.fd)
     IN IF c = Null \/ CacheSearch(socket_cache, ev.fd) = Null
        THEN UNCHANGED <<tcb, sndbuf_cache>>
        ELSE IF tcb[c].sndbuf # Null \/ b = Null
        THEN tcb' = [tcb EXCEPT ![c].fd = ev.fd] /\ UNCHANGED sndbuf_cache
        ELSE /\ tcb' = [tcb EXCEPT ![c].fd = ev.fd, ![c].sndbuf = b]
             /\ sndbuf_cache' = CachePut(sndbuf_cache, b, ev.fd)
  /\ app2net' = Tail(app2net)
  /\ UNCHANGED <<up, tcb_cache, ringbuf_cache, pools, sockets, net2app, writer, moved>>

\* Mutant: the receive buffer stays in its cache.
ReleaseKeepsRcvbuf(k) ==
  LET c == CacheSearch(tcb_cache, k)
  IN /\ c # Null
     /\ sndbuf_cache' = CacheRemove(sndbuf_cache, tcb[c].sndbuf)
     /\ rcvvars_mp' = FreeChunk(rcvvars_mp, tcb[c].rcvvar)
     /\ sndvars_mp' = FreeChunk(sndvars_mp, tcb[c].sndvar)
     /\ tcb_cache' = CacheRemove(tcb_cache, c)
     /\ tcb' = [tcb EXCEPT ![c] = NoTcb]
     /\ moved' = (moved \/ (writer # NoWriter /\ tcb[c].sndbuf = writer.buf))
     /\ UNCHANGED <<up, ringbuf_cache, sockets, net2app, app2net, writer>>

\* usnet_release_tcb, after a reset, a timeout or a packet for a closed block.
Release(k) ==
  LET c == CacheSearch(tcb_cache, k)
  IN /\ c # Null
     /\ sndbuf_cache' = CacheRemove(sndbuf_cache, tcb[c].sndbuf)
     /\ ringbuf_cache' = CacheRemove(ringbuf_cache, tcb[c].rcvbuf)
     /\ rcvvars_mp' = FreeChunk(rcvvars_mp, tcb[c].rcvvar)
     /\ sndvars_mp' = FreeChunk(sndvars_mp, tcb[c].sndvar)
     /\ tcb_cache' = CacheRemove(tcb_cache, c)
     /\ tcb' = [tcb EXCEPT ![c] = NoTcb]
     /\ moved' = (moved \/ (writer # NoWriter /\ tcb[c].sndbuf = writer.buf))
     /\ UNCHANGED <<up, sockets, net2app, app2net, writer>>

-----------------------------------------------------------------------------
(* The application. *)

\* usnet_accept_newconn: a socket for the peer of a CONNECT event, and its
\* descriptor into the backlog; the descriptor is used up also when the cache
\* has no cell for it.
AcceptNewconn ==
  /\ net2app # << >> /\ g_fd <= MaxFd
  /\ LET k == Head(net2app)
         c == CacheGet(socket_cache, g_fd)
         t == backlog.tail + 1
     IN /\ so' = Append(so, IF c = Null THEN 0 ELSE k)
        /\ socket_cache' = IF c = Null THEN socket_cache ELSE CachePut(socket_cache, c, g_fd)
        /\ backlog' = IF c = Null THEN backlog
                      ELSE [backlog EXCEPT !.connq[backlog.tail] = g_fd,
                              !.tail = IF t > BacklogSize THEN t - BacklogSize ELSE t]
  /\ g_fd' = g_fd + 1
  /\ net2app' = Tail(net2app)
  /\ UNCHANGED <<up, caches, tcb, pools, app2net, writer, again, returned, moved>>

\* Mutant: the head goes around one place too early.
AcceptEarlyWrap ==
  /\ backlog.head # backlog.tail
  /\ LET fd == backlog.connq[backlog.head]
         h == backlog.head + 1
     IN /\ backlog' = [backlog EXCEPT !.head = IF h >= BacklogSize - 1 THEN 0 ELSE h]
        /\ app2net' = IF CacheSearch(socket_cache, fd) = Null THEN app2net
                      ELSE Enqueue(app2net, [fd |-> fd, key |-> so[fd]])
        /\ again' = (again \/ fd \in returned)
        /\ returned' = returned \cup {fd}
  /\ UNCHANGED <<up, caches, tcb, pools, socket_cache, so, g_fd, net2app, writer, moved>>

\* usnet_accept: the next descriptor of the backlog, and a CONNECT event.
Accept ==
  /\ backlog.head # backlog.tail
  /\ LET fd == backlog.connq[backlog.head]
         h == backlog.head + 1
     IN /\ backlog' = [backlog EXCEPT !.head = IF h >= BacklogSize THEN h - BacklogSize ELSE h]
        /\ app2net' = IF CacheSearch(socket_cache, fd) = Null THEN app2net
                      ELSE Enqueue(app2net, [fd |-> fd, key |-> so[fd]])
        /\ again' = (again \/ fd \in returned)
        /\ returned' = returned \cup {fd}
  /\ UNCHANGED <<up, caches, tcb, pools, socket_cache, so, g_fd, net2app, writer, moved>>

\* usnet_write: the look-up; without a buffer it returns.
WriteLookup(fd) ==
  LET b == CacheSearch(sndbuf_cache, fd)
  IN /\ writer = NoWriter
     /\ b # Null
     /\ writer' = [fd |-> fd, buf |-> b] /\ moved' = FALSE
     /\ UNCHANGED <<up, caches, tcb, pools, sockets, net2app, app2net>>

\* usnet_write_data into the buffer found, whatever it is by now.  The bytes are
\* in SendBuffer, the WRITE event that follows in Connection.
WriteData ==
  /\ writer # NoWriter
  /\ writer' = NoWriter /\ moved' = FALSE
  /\ UNCHANGED <<up, caches, tcb, pools, sockets, net2app, app2net>>

-----------------------------------------------------------------------------
Setup == NetSetup \/ WorkerSetup \/ Socket \/ Listen

Net == \/ \E k \in Keys : Syn(k) \/ Payload(k) \/ Release(k)
       \/ ConnectHandler

App == \/ AcceptNewconn \/ Accept \/ WriteData
       \/ \E fd \in WriteFds \cap returned : WriteLookup(fd)

Next == Setup \/ Net \/ App

Spec == Init /\ [][Next]_vars

-----------------------------------------------------------------------------
(* Properties *)

Blocks == {c \in Cells : tcb_cache[c] \in Keys}
IsPool(mp) ==
  /\ mp.free \in 0..mp.total
  /\ \A i \in DOMAIN mp.list : mp.list[i] \in [at : 1..mp.total, n : 1..mp.total]

\* Types and bounds: descriptors, cells and the counts of the pools.
TypeOK ==
  /\ up \subseteq {"net", "app"}
  /\ tcb_cache \in [Cells -> Keys \cup {0, ListenKey}]
  /\ socket_cache \in [Cells -> 0..MaxFd]
  /\ sndbuf_cache \in [Cells -> 0..MaxFd] /\ ringbuf_cache \in [Cells -> 0..MaxFd]
  /\ tcb \in [Cells -> [fd : 0..MaxFd, rcvvar : 0..rcvvars_mp.total, sndvar : 0..sndvars_mp.total,
                        sndbuf : Cells \cup {Null}, rcvbuf : Cells \cup {Null}]]
  /\ IsPool(rcvvars_mp) /\ IsPool(sndvars_mp)
  /\ g_fd \in 1..(MaxFd + 1) /\ Len(so) = g_fd - 1
  /\ backlog.head \in 0..(BacklogSize - 1) /\ backlog.tail \in 0..BacklogSize

\* A socket handed out stays where usnet_socket or usnet_accept_newconn put
\* it: no process that attaches later clears the cache (usnet_get_cache).
SocketFound ==
  \A fd \in 1..(g_fd - 1) : so[fd] # 0 => CacheSearch(socket_cache, fd) # Null

\* No cache holds a key twice, whatever was removed in between: a segment
\* finds the block of its connection, a descriptor its socket and its buffers
\* (usnet_cache_insert and usnet_cache_get do not look for the key).  Receive
\* buffers made before the accept stand under the listening descriptor.
KeyUnique ==
  \A c, d \in Cells : c # d =>
    /\ tcb_cache[c] = tcb_cache[d] => tcb_cache[c] = 0
    /\ socket_cache[c] = socket_cache[d] => socket_cache[c] = 0
    /\ sndbuf_cache[c] = sndbuf_cache[d] => sndbuf_cache[c] = 0
    /\ ringbuf_cache[c] = ringbuf_cache[d] => ringbuf_cache[c] \in {0, ListenFd}

\* Across allocation, its unwinding when a pool is used up, and release, every
\* chunk of a pool is in its free list once or held by one block, and
\* mp_free_chunks says how many are free: so the assert of
\* usnet_mempool_allocate holds and no chunk is ever lost.
Run(r) == r.at..(r.at + r.n - 1)

Conserved(mp, held) ==
  LET free == UNION {Run(mp.list[i]) : i \in DOMAIN mp.list}
      used == {held[c] : c \in Blocks}
  IN /\ \A i, j \in DOMAIN mp.list : i # j => Run(mp.list[i]) \cap Run(mp.list[j]) = {}
     /\ mp.free = Cardinality(free)
     /\ free \cap used = {} /\ free \cup used = 1..mp.total
     /\ Cardinality(used) = Cardinality(Blocks)

ChunksConserved ==
  /\ Conserved(rcvvars_mp, [c \in Cells |-> tcb[c].rcvvar])
  /\ Conserved(sndvars_mp, [c \in Cells |-> tcb[c].sndvar])

\* A cell of a buffer cache is taken exactly as long as one block holds it:
\* a release gives back both buffers, also those made under another
\* descriptor, and no two connections share one.
Owned(cache, held) ==
  \A b \in Cells :
    LET owners == {c \in Blocks : held[c] = b}
    IN Cardinality(owners) = (IF cache[b] = 0 THEN 0 ELSE 1)

BuffersOwned ==
  /\ Owned(sndbuf_cache, [c \in Cells |-> tcb[c].sndbuf])
  /\ Owned(ringbuf_cache, [c \in Cells |-> tcb[c].rcvbuf])

\* usnet_write writes where its descriptor's bytes belong, unless the net
\* process released the buffer after the look-up.
WriteLands == writer # NoWriter => sndbuf_cache[writer.buf] = writer.fd \/ moved

\* The backlog is a queue as long as fewer than bq_size descriptors were given
\* to connections: usnet_accept returns each descriptor once, and passes over
\* no connection that came before, also when the socket cache had no room for
\* one in between.  (Later bq_head and bq_tail go around at different places.)
AcceptInOrder ==
  g_fd - 2 < BacklogSize =>
    /\ ~again
    /\ \A fd \in returned : \A e \in 2..fd : so[e] # 0 => e \in returned

\* The backlog is a queue: usnet_accept returns a descriptor once.
BacklogIsQueue == ~again

\* usnet_write never writes into the buffer of another descriptor.
WriteIsOwn == writer # NoWriter => sndbuf_cache[writer.buf] \in {0, writer.fd}

\* usnet_read finds what a bound connection received.
ReadFindsOwn ==
  \A c \in Blocks :
    tcb[c].rcvbuf # Null /\ tcb[c].fd # ListenFd =>
      CacheSearch(ringbuf_cache, tcb[c].fd) = tcb[c].rcvbuf

=============================================================================
