---------------------------- MODULE StoreProofs -----------------------------
(***************************************************************************)
(* Proofs about Store, for every size of the caches, of the pools and of   *)
(* the backlog, and every set of four-tuples.                              *)
(***************************************************************************)
EXTENDS Store, FiniteSetTheorems, WellFoundedInduction, SequenceTheorems, TLAPS

-----------------------------------------------------------------------------
(* The inductive invariant. *)

Fds == 2..(g_fd - 1)

\* The types, those of TypeOK and of what it leaves open; the bounds on the
\* chunks follow from ChunksTaken.
BlocksTyped ==
  /\ up \subseteq {"net", "app"}
  /\ tcb_cache \in [Cells -> Keys \cup {0, ListenKey}]
  /\ sndbuf_cache \in [Cells -> 0..MaxFd] /\ ringbuf_cache \in [Cells -> 0..MaxFd]
  /\ tcb \in [Cells -> [fd : 0..MaxFd, rcvvar : Nat, sndvar : Nat,
                        sndbuf : Cells \cup {Null}, rcvbuf : Cells \cup {Null}]]

SocketsTyped ==
  /\ socket_cache \in [Cells -> 0..MaxFd]
  /\ g_fd \in 1..(MaxFd + 1) /\ so \in Seq(Keys \cup {0, ListenKey}) /\ Len(so) = g_fd - 1
  /\ backlog.head \in 0..(BacklogSize - 1) /\ backlog.tail \in 0..BacklogSize
  /\ backlog.connq \in [0..BacklogSize -> Nat]
  /\ backlog = [connq |-> backlog.connq, head |-> backlog.head, tail |-> backlog.tail]
  /\ again \in BOOLEAN /\ returned \subseteq Fds

EventsTyped ==
  /\ net2app \in Seq(Keys) /\ app2net \in Seq([fd : Nat, key : Keys])
  /\ writer \in [fd : Nat \ {0}, buf : Cells] \cup {NoWriter} /\ moved \in BOOLEAN

\* Nothing is in the caches before both processes have attached to them, and
\* there is no connection before there is a socket to listen on.
Quiet ==
  /\ up # {"net", "app"} => /\ tcb_cache = Empty /\ sndbuf_cache = Empty
                            /\ ringbuf_cache = Empty /\ writer = NoWriter
  /\ "app" \notin up => g_fd = 1
  /\ g_fd = 1 => socket_cache = Empty /\ tcb_cache = Empty /\ net2app = << >>
  /\ NetFirst /\ "app" \in up => "net" \in up

\* Every key is in one of its own cells, in one only.
Placed(cache) == \A c \in Cells : cache[c] # 0 => \E i \in Rows : c = Cell(cache[c], i)
Unique(cache) == \A c, d \in Cells : c # d /\ cache[c] = cache[d] => cache[c] = 0

\* A descriptor stands for one peer: the events, the backlog and the blocks
\* name it together with the four-tuple of its socket.
Peers == {<<fd, so[fd]>> : fd \in Fds}

EventsAgree == \A i \in DOMAIN app2net : <<app2net[i].fd, app2net[i].key>> \in Peers

BacklogAgrees ==
  \A j \in 0..BacklogSize :
    backlog.connq[j] # 0 => backlog.connq[j] \in Fds /\ so[backlog.connq[j]] \in Keys

BlocksAgree ==
  /\ \A c \in Blocks : tcb[c].fd = ListenFd \/ <<tcb[c].fd, tcb_cache[c]>> \in Peers
  /\ \A c \in Cells : tcb_cache[c] = 0 => tcb[c] = NoTcb
  /\ \A c \in Cells : tcb_cache[c] = ListenKey => tcb[c] = [NoTcb EXCEPT !.fd = ListenFd]

\* The sockets are under their descriptors.
SocketsPlaced ==
  /\ \A c \in Cells : socket_cache[c] < g_fd
  /\ NetFirst => \A fd \in 1..(g_fd - 1) :
       so[fd] # 0 => \E i \in Rows : socket_cache[Cell(fd, i)] = fd

\* A buffer is held by one block, and stands under a descriptor of its peer.
Used(key) == {c \in Cells : key[c] \in Keys}

Held(cache, held, key, peers) ==
  /\ \A c, d \in Used(key) : held[c] = held[d] /\ held[c] # Null => c = d
  /\ \A b \in Cells : cache[b] = 0 => \A c \in Used(key) : held[c] # b
  /\ \A b \in Cells : cache[b] # 0 =>
       \E c \in Used(key) : /\ held[c] = b
                            /\ cache[b] = ListenFd \/ <<cache[b], key[c]>> \in peers

Sndbufs == [c \in Cells |-> tcb[c].sndbuf]
Rcvbufs == [c \in Cells |-> tcb[c].rcvbuf]

SndbufsHeld ==
  /\ Held(sndbuf_cache, Sndbufs, tcb_cache, Peers)
  /\ \A b \in Cells : sndbuf_cache[b] # ListenFd
RcvbufsHeld == Held(ringbuf_cache, Rcvbufs, tcb_cache, Peers)

\* The chunks in a pool's list of runs.
FreeSet(mp) == UNION {Run(mp.list[i]) : i \in DOMAIN mp.list}

\* A pool whose runs do not overlap and whose counter is right.
PoolOK(mp) ==
  /\ mp \in [total : Nat, free : Nat, list : Seq([at : Nat \ {0}, n : Nat \ {0}])]
  /\ FreeSet(mp) \subseteq 1..mp.total
  /\ \A i, j \in DOMAIN mp.list : i # j => Run(mp.list[i]) \cap Run(mp.list[j]) = {}
  /\ mp.free = Cardinality(FreeSet(mp))

\* The chunks in use are the ones not free, each held by one block.
Taken(mp, held, key) ==
  /\ PoolOK(mp)
  /\ \A c \in Used(key) : held[c] \in (1..mp.total) \ FreeSet(mp)
  /\ \A x \in (1..mp.total) \ FreeSet(mp) : \E c \in Used(key) : held[c] = x
  /\ \A c, d \in Used(key) : held[c] = held[d] => c = d

Rcvvars == [c \in Cells |-> tcb[c].rcvvar]
Sndvars == [c \in Cells |-> tcb[c].sndvar]

RcvvarsTaken == Taken(rcvvars_mp, Rcvvars, tcb_cache)
SndvarsTaken == Taken(sndvars_mp, Sndvars, tcb_cache)

\* Until the backlog has gone around, its places up to the tail hold the
\* descriptors of all connections, growing, and those before the head are the
\* ones returned.
Ordered ==
  g_fd - 2 < BacklogSize =>
    /\ ~again /\ backlog.head <= backlog.tail
    /\ backlog.tail <= (IF g_fd = 1 THEN 0 ELSE g_fd - 2)
    /\ \A i, j \in 0..(backlog.tail - 1) : i < j => backlog.connq[i] < backlog.connq[j]
    /\ \A fd \in returned : \E i \in 0..(backlog.head - 1) : backlog.connq[i] = fd
    /\ \A i \in 0..(backlog.head - 1) : backlog.connq[i] \in returned
    /\ \A fd \in 2..(g_fd - 1) :
         so[fd] # 0 => \E i \in 0..(backlog.tail - 1) : backlog.connq[i] = fd

\* A place that usnet_accept reads was written before.
Written ==
  \/ \A j \in 0..(BacklogSize - 1) : backlog.connq[j] # 0
  \/ /\ backlog.head <= backlog.tail
     /\ \A j \in 0..(backlog.tail - 1) : backlog.connq[j] # 0

Cached == Placed(tcb_cache) /\ Unique(tcb_cache) /\ BlocksAgree
Socketed == Unique(socket_cache) /\ SocketsPlaced /\ BacklogAgrees /\ Ordered /\ Written
Stored == SndbufsHeld /\ RcvbufsHeld /\ RcvvarsTaken /\ SndvarsTaken

IInv ==
  /\ BlocksTyped /\ SocketsTyped /\ EventsTyped /\ Quiet
  /\ Cached /\ Socketed /\ EventsAgree /\ Stored /\ WriteLands

-----------------------------------------------------------------------------
(* Induction over the naturals, by least elements. *)

\* A set of naturals that is not empty has a least element.
LEMMA Least ==
  ASSUME NEW T \in SUBSET Nat, T # {}
  PROVE  \E x \in T : \A y \in T : x <= y
<1> DEFINE R == {p \in Nat \X Nat : p[1] < p[2]}
<1>1. OpToRel(<, Nat) = R
  BY Zenon DEF OpToRel
<1>2. IsWellFoundedOn(R, Nat)
  BY <1>1, NatLessThanWellFounded, Zenon
<1>3. \E x \in T : \A y \in T : <<y, x>> \notin R
  <2> HIDE DEF R
  <2> QED
    BY <1>2, WFMin, Zenon
<1>4. PICK x \in T : \A y \in T : <<y, x>> \notin R
  BY <1>3
<1>5. ASSUME NEW y \in T PROVE x <= y
  <2>1. x \in Nat /\ y \in Nat
    OBVIOUS
  <2>2. <<y, x>> \notin R
    BY <1>4
  <2>3. ~(y < x)
    BY <2>1, <2>2
  <2> QED
    BY <2>1, <2>3
<1> QED
  BY <1>5

\* A set of naturals with 0 and every successor has them all.
LEMMA SetInduction ==
  ASSUME NEW S \in SUBSET Nat, 0 \in S, \A n \in S : n + 1 \in S
  PROVE  S = Nat
<1> DEFINE T == Nat \ S
<1> SUFFICES ASSUME T # {} PROVE FALSE
  OBVIOUS
<1>1. T \in SUBSET Nat
  OBVIOUS
<1> HIDE DEF T
<1>2. PICK x \in T : \A y \in T : x <= y
  BY <1>1, Least
<1>3. x \in Nat /\ x \notin S
  BY DEF T
<1>4. x - 1 \in Nat
  BY <1>3
<1>5. x - 1 \in S
  BY <1>2, <1>3, <1>4 DEF T
<1> QED
  BY <1>3, <1>4, <1>5

\* A set of naturals below a bound that is not empty has a greatest element.
LEMMA Greatest ==
  ASSUME NEW n \in Nat, NEW T \in SUBSET (0..n), T # {}
  PROVE  \E x \in T : \A y \in T : y <= x
<1> DEFINE D == {n - y : y \in T}
<1>1. D \in SUBSET Nat /\ D # {}
  <2>1. \A y \in T : n - y \in Nat
    OBVIOUS
  <2> QED
    BY <2>1
<1> HIDE DEF D
<1>2. PICK d \in D : \A e \in D : d <= e
  BY <1>1, Least
<1>3. PICK x \in T : d = n - x
  BY DEF D
<1>4. ASSUME NEW y \in T PROVE y <= x
  <2>1. n - y \in D
    BY DEF D
  <2> QED
    BY <1>2, <1>3, <2>1
<1> QED
  BY <1>4

-----------------------------------------------------------------------------
(* The hash cache. *)

Above(i) == {m \in Candidates : m > i}

LEMMA CandidatesFinite ==
  /\ Candidates \subseteq 0..HbLen /\ IsFiniteSet(Candidates)
  /\ Cardinality(Candidates) \in Nat
  /\ \A i : IsFiniteSet(Above(i)) /\ Cardinality(Above(i)) \in Nat
<1>1. HbLen \in Nat
  BY HashAssumption
<1>2. Candidates \subseteq 0..HbLen
  BY <1>1 DEF Candidates
<1>3. IsFiniteSet(0..HbLen)
  BY <1>1, FS_Interval
<1>4. IsFiniteSet(Candidates)
  BY <1>2, <1>3, FS_Subset
<1>5. \A i : Above(i) \subseteq Candidates
  BY DEF Above
<1>6. \A i : IsFiniteSet(Above(i))
  BY <1>4, <1>5, FS_Subset
<1> QED
  BY <1>2, <1>4, <1>6, FS_CardinalityType

\* The candidates below the j largest: as long as there are more than j
\* candidates, one has exactly j above it.
LEMMA Ranked ==
  \A j \in Nat : j < Cardinality(Candidates) =>
    \E i \in Candidates : Cardinality(Above(i)) = j
<1> DEFINE P(j) == j < Cardinality(Candidates) =>
                     \E i \in Candidates : Cardinality(Above(i)) = j
           S == {j \in Nat : P(j)}
<1>1. HbLen \in Nat /\ \A m \in Candidates : m \in Int
  BY HashAssumption DEF Candidates
<1>2. P(0)
  <2> SUFFICES ASSUME 0 < Cardinality(Candidates)
               PROVE  \E i \in Candidates : Cardinality(Above(i)) = 0
    OBVIOUS
  <2>1. Candidates # {}
    BY FS_EmptySet
  <2>2. PICK i \in Candidates : \A y \in Candidates : y <= i
    BY <1>1, <2>1, CandidatesFinite, Greatest
  <2>3. Above(i) = {}
    BY <1>1, <2>2 DEF Above
  <2> QED
    BY <2>3, FS_EmptySet
<1>3. ASSUME NEW j \in Nat, P(j) PROVE P(j + 1)
  <2> SUFFICES ASSUME j + 1 < Cardinality(Candidates)
               PROVE  \E i \in Candidates : Cardinality(Above(i)) = j + 1
    OBVIOUS
  <2>1. PICK i \in Candidates : Cardinality(Above(i)) = j
    BY <1>3, CandidatesFinite
  <2> DEFINE Below == {m \in Candidates : m < i}
  <2>2. i \notin Above(i)
    BY CandidatesFinite DEF Above
  <2>3. IsFiniteSet(Above(i) \cup {i}) /\ Cardinality(Above(i) \cup {i}) = j + 1
    BY <2>1, <2>2, CandidatesFinite, FS_AddElement
  <2>4. Candidates = Below \cup (Above(i) \cup {i})
    BY <1>1 DEF Above
  <2>5. Below # {}
    <3>1. SUFFICES ASSUME Below = {} PROVE FALSE
      OBVIOUS
    <3>2. Candidates = Above(i) \cup {i}
      BY <2>4, <3>1
    <3> QED
      BY <2>3, <3>2
  <2>6. Below \in SUBSET (0..HbLen)
    BY CandidatesFinite
  <2> HIDE DEF Below
  <2>7. PICK k \in Below : \A y \in Below : y <= k
    BY <1>1, <2>5, <2>6, Greatest
  <2>8. k \in Candidates /\ k < i
    BY DEF Below
  <2>9. Above(k) = Above(i) \cup {i}
    BY <1>1, <2>7, <2>8 DEF Above, Below
  <2> QED
    BY <2>3, <2>8, <2>9
<1>4. S \in SUBSET Nat /\ 0 \in S /\ \A j \in S : j + 1 \in S
  BY <1>2, <1>3
<1> HIDE DEF S
<1>5. S = Nat
  BY <1>4, SetInduction
<1> QED
  BY <1>5 DEF S

\* usnet_hashbase_init finds a base for every row, so that every cell of a key
\* is in the cache.
LEMMA BaseType == \A j \in Rows : HbBase[j] \in 1..HbLen
<1> SUFFICES ASSUME NEW j \in Rows PROVE HbBase[j] \in 1..HbLen
  OBVIOUS
<1>1. j \in Nat \ {0} /\ j - 1 < Cardinality(Candidates)
  BY HashAssumption, CandidatesFinite DEF Rows
<1>2. \E i \in Candidates : Cardinality(Above(i)) = j - 1
  BY <1>1, Ranked
<1>3. HbBase[j] \in Candidates
  BY <1>2 DEF HbBase, Above
<1> QED
  BY <1>3, HashAssumption DEF Candidates

LEMMA CellType ==
  ASSUME NEW k \in Nat, NEW i \in Rows
  PROVE  Cell(k, i) \in Cells
<1>1. HbBase[i] \in 1..HbLen
  BY BaseType
<1>2. HbLen \in Nat
  BY HashAssumption
<1>3. HbBase[i] \in Nat \ {0} /\ HbBase[i] <= HbLen
  BY <1>1, <1>2
<1>4. k % HbBase[i] \in 0..(HbBase[i] - 1)
  BY <1>3
<1>5. k % HbBase[i] \in 0..(HbLen - 1)
  BY <1>2, <1>3, <1>4
<1> QED
  BY <1>5 DEF Cell, Cells

LEMMA NullIsNoCell == Null \notin Cells
BY HashAssumption DEF Null, Cells, Rows

\* What a scan of the cells of a key finds.
LEMMA ScanResult ==
  ASSUME NEW k \in Nat, NEW S \in SUBSET Cells
  PROVE  /\ Scan(k, S) = Null => \A i \in Rows : Cell(k, i) \notin S
         /\ Scan(k, S) # Null => /\ Scan(k, S) \in S
                                 /\ \E i \in Rows : Scan(k, S) = Cell(k, i)
<1> DEFINE hits == {i \in Rows : Cell(k, i) \in S}
<1>1. CASE hits = {}
  BY <1>1 DEF Scan
<1>2. CASE hits # {}
  <2>1. hits \in SUBSET Nat
    BY HashAssumption DEF Rows
  <2>2. \E i \in hits : \A j \in hits : i <= j
    <3> HIDE DEF hits
    <3> QED
      BY <1>2, <2>1, Least
  <2> DEFINE m == CHOOSE i \in hits : \A j \in hits : i <= j
  <2>3. m \in hits
    BY <2>2
  <2>4. Scan(k, S) = Cell(k, m)
    BY <1>2 DEF Scan
  <2> HIDE DEF m
  <2>5. Cell(k, m) \in S
    BY <2>3
  <2>6. Scan(k, S) # Null
    BY <2>4, <2>5, NullIsNoCell
  <2> QED
    BY <2>3, <2>4, <2>5, <2>6
<1> QED
  BY <1>1, <1>2

\* usnet_cache_search finds a cell with the key, and fails only when no cell of
\* the key has it.
LEMMA SearchResult ==
  ASSUME NEW k \in Nat, NEW cache \in [Cells -> Nat]
  PROVE  /\ CacheSearch(cache, k) = Null => \A i \in Rows : cache[Cell(k, i)] # k
         /\ CacheSearch(cache, k) # Null => /\ CacheSearch(cache, k) \in Cells
                                            /\ cache[CacheSearch(cache, k)] = k
<1> DEFINE S == {c \in Cells : cache[c] = k}
<1>1. CacheSearch(cache, k) = Scan(k, S)
  BY DEF CacheSearch
<1>2. S \in SUBSET Cells
  OBVIOUS
<1>3. /\ Scan(k, S) = Null => \A i \in Rows : Cell(k, i) \notin S
      /\ Scan(k, S) # Null => Scan(k, S) \in S
  <2> HIDE DEF S
  <2> QED
    BY <1>2, ScanResult
<1>4. \A i \in Rows : Cell(k, i) \in Cells
  BY CellType
<1> QED
  BY <1>1, <1>3, <1>4

\* usnet_cache_get returns an empty cell of the key.
LEMMA GetResult ==
  ASSUME NEW k \in Nat, NEW cache \in [Cells -> Nat], CacheGet(cache, k) # Null
  PROVE  /\ CacheGet(cache, k) \in Cells /\ cache[CacheGet(cache, k)] = 0
         /\ \E i \in Rows : CacheGet(cache, k) = Cell(k, i)
<1> DEFINE S == {c \in Cells : cache[c] = 0}
<1>1. CacheGet(cache, k) = Scan(k, S)
  BY DEF CacheGet
<1>2. S \in SUBSET Cells
  OBVIOUS
<1>3. Scan(k, S) \in S /\ \E i \in Rows : Scan(k, S) = Cell(k, i)
  <2> HIDE DEF S
  <2> QED
    BY <1>1, <1>2, ScanResult
<1> QED
  BY <1>1, <1>3

\* In a cache with every key in its place, a key that is not found is nowhere.
LEMMA NotFound ==
  ASSUME NEW k \in Nat \ {0}, NEW cache \in [Cells -> Nat], Placed(cache),
         CacheSearch(cache, k) = Null, NEW c \in Cells
  PROVE  cache[c] # k
<1> SUFFICES ASSUME cache[c] = k PROVE FALSE
  OBVIOUS
<1>1. PICK i \in Rows : c = Cell(k, i)
  BY DEF Placed
<1>2. cache[Cell(k, i)] # k
  BY SearchResult
<1> QED
  BY <1>1, <1>2

\* An item put into an empty cell of its key, and one taken out.
LEMMA PutKeeps ==
  ASSUME NEW k \in Nat \ {0}, NEW cache \in [Cells -> Nat], NEW c \in Cells,
         cache[c] = 0, \A d \in Cells : cache[d] # k
  PROVE  /\ CachePut(cache, c, k) \in [Cells -> Nat]
         /\ \A d \in Cells : CachePut(cache, c, k)[d] = IF d = c THEN k ELSE cache[d]
         /\ Unique(cache) => Unique(CachePut(cache, c, k))
         /\ Placed(cache) /\ (\E i \in Rows : c = Cell(k, i)) => Placed(CachePut(cache, c, k))
<1> DEFINE new == CachePut(cache, c, k)
<1>1. new \in [Cells -> Nat] /\ \A d \in Cells : new[d] = IF d = c THEN k ELSE cache[d]
  BY DEF CachePut
<1> HIDE DEF new
<1>2. Unique(cache) => Unique(new)
  BY <1>1 DEF Unique
<1>3. Placed(cache) /\ (\E i \in Rows : c = Cell(k, i)) => Placed(new)
  BY <1>1 DEF Placed
<1> QED
  BY <1>1, <1>2, <1>3 DEF new

LEMMA RemoveKeeps ==
  ASSUME NEW cache \in [Cells -> Nat], NEW c \in Cells \cup {Null}
  PROVE  /\ CacheRemove(cache, c) \in [Cells -> Nat]
         /\ \A d \in Cells : CacheRemove(cache, c)[d] = IF d = c THEN 0 ELSE cache[d]
         /\ Unique(cache) => Unique(CacheRemove(cache, c))
         /\ Placed(cache) => Placed(CacheRemove(cache, c))
<1> DEFINE new == CacheRemove(cache, c)
<1>1. new \in [Cells -> Nat] /\ \A d \in Cells : new[d] = IF d = c THEN 0 ELSE cache[d]
  BY NullIsNoCell DEF CacheRemove
<1> HIDE DEF new
<1>2. Unique(cache) => Unique(new)
  BY <1>1 DEF Unique
<1>3. Placed(cache) => Placed(new)
  BY <1>1 DEF Placed
<1> QED
  BY <1>1, <1>2, <1>3 DEF new

-----------------------------------------------------------------------------
(* The memory pool. *)

LEMMA ConsSeq ==
  ASSUME NEW R, NEW q \in R, NEW s \in Seq(R)
  PROVE  /\ << q >> \o s \in Seq(R) /\ Len(<< q >> \o s) = Len(s) + 1
         /\ (<< q >> \o s)[1] = q
         /\ \A i \in 1..Len(s) : (<< q >> \o s)[i + 1] = s[i]
         /\ Len(s) \in Nat /\ DOMAIN s = 1..Len(s)
         /\ DOMAIN (<< q >> \o s) = 1..(Len(s) + 1)
OBVIOUS

LEMMA TailSeq ==
  ASSUME NEW R, NEW s \in Seq(R), s # << >>
  PROVE  /\ Tail(s) \in Seq(R) /\ Len(s) = Len(Tail(s)) + 1 /\ Len(Tail(s)) \in Nat
         /\ \A i \in 1..Len(Tail(s)) : Tail(s)[i] = s[i + 1]
         /\ s[1] \in R /\ 1 \in DOMAIN s
         /\ DOMAIN s = 1..Len(s) /\ DOMAIN Tail(s) = 1..Len(Tail(s))
OBVIOUS

LEMMA PoolUpdate ==
  ASSUME NEW L, NEW mp \in [total : Nat, free : Nat, list : L],
         NEW n \in Int, NEW l \in L,
         NEW new, new = [mp EXCEPT !.free = n, !.list = l]
  PROVE  /\ new \in [total : Nat, free : Int, list : L]
         /\ n \in Nat => new \in [total : Nat, free : Nat, list : L]
         /\ new.total = mp.total /\ new.free = n /\ new.list = l
<1>1. new = [[mp EXCEPT !.free = n] EXCEPT !.list = l]
  OBVIOUS
<1>2. mp \in [total : Nat, free : Int, list : L]
  OBVIOUS
<1>3. [mp EXCEPT !.free = n] \in [total : Nat, free : Int, list : L]
  BY <1>2
<1>4. n \in Nat => [mp EXCEPT !.free = n] \in [total : Nat, free : Nat, list : L]
  OBVIOUS
<1> QED
  BY <1>1, <1>3, <1>4

LEMMA FreeSetFinite ==
  ASSUME NEW mp, PoolOK(mp)
  PROVE  /\ IsFiniteSet(FreeSet(mp)) /\ mp.free = Cardinality(FreeSet(mp))
         /\ mp.free \in 0..mp.total
<1>1. mp.total \in Nat /\ mp.free \in Nat
  BY DEF PoolOK
<1>2. IsFiniteSet(1..mp.total) /\ Cardinality(1..mp.total) = mp.total
  <2> DEFINE n == mp.total
  <2>1. n \in Nat
    BY <1>1
  <2> HIDE DEF n
  <2>2. IsFiniteSet(1..n)
    BY <2>1, FS_Interval
  <2>3. CASE n = 0
    <3>1. 1..n = {}
      BY <2>1, <2>3
    <3> QED
      BY <2>2, <2>3, <3>1, FS_EmptySet DEF n
  <2>4. CASE n # 0
    BY <2>1, <2>2, <2>4, FS_Interval DEF n
  <2> QED
    BY <2>3, <2>4
<1>3. IsFiniteSet(FreeSet(mp)) /\ Cardinality(FreeSet(mp)) <= mp.total
  BY <1>2, FS_Subset DEF PoolOK
<1> QED
  BY <1>1, <1>3 DEF PoolOK

LEMMA NewPoolOK ==
  ASSUME NEW n \in Nat \ {0}
  PROVE  PoolOK(NewPool(n)) /\ FreeSet(NewPool(n)) = 1..n /\ NewPool(n).total = n
<1> DEFINE mp == NewPool(n)
<1>1. /\ mp \in [total : Nat, free : Nat, list : Seq([at : Nat \ {0}, n : Nat \ {0}])]
      /\ mp.total = n /\ mp.free = n /\ DOMAIN mp.list = {1}
      /\ mp.list[1] = [at |-> 1, n |-> n]
  BY DEF NewPool
<1>2. Run(mp.list[1]) = 1..n
  BY <1>1 DEF Run
<1>3. FreeSet(mp) = 1..n
  BY <1>1, <1>2 DEF FreeSet
<1>4. Cardinality(1..n) = n
  BY FS_Interval
<1> QED
  BY <1>1, <1>3, <1>4 DEF PoolOK

\* usnet_mempool_allocate takes one free chunk out of the list, be it the last
\* of its run or not.
LEMMA AllocateOK ==
  ASSUME NEW mp, PoolOK(mp), mp.free > 0
  PROVE  /\ PoolOK(Allocate(mp)) /\ Allocate(mp).total = mp.total
         /\ Chunk(mp) \in FreeSet(mp)
         /\ FreeSet(Allocate(mp)) = FreeSet(mp) \ {Chunk(mp)}
<1> DEFINE R == [at : Nat \ {0}, n : Nat \ {0}]
           p == mp.list[1]
           rest == Tail(mp.list)
           new == (IF p.n > 1 THEN << [at |-> p.at + 1, n |-> p.n - 1] >> ELSE << >>) \o rest
<1>1. /\ mp \in [total : Nat, free : Nat, list : Seq(R)] /\ mp.list \in Seq(R)
      /\ \A i, j \in DOMAIN mp.list : i # j => Run(mp.list[i]) \cap Run(mp.list[j]) = {}
  BY DEF PoolOK
<1>2. mp.list # << >>
  <2> SUFFICES ASSUME mp.list = << >> PROVE FALSE
    OBVIOUS
  <2>1. FreeSet(mp) = {}
    BY DEF FreeSet
  <2> QED
    BY <2>1, FreeSetFinite, FS_EmptySet
<1>3. /\ p \in R /\ 1 \in DOMAIN mp.list /\ rest \in Seq(R)
      /\ Len(mp.list) = Len(rest) + 1 /\ Len(rest) \in Nat
      /\ \A i \in 1..Len(rest) : rest[i] = mp.list[i + 1]
      /\ DOMAIN mp.list = 1..(Len(rest) + 1) /\ DOMAIN rest = 1..Len(rest)
  <2> HIDE DEF R
  <2> QED
    BY <1>1, <1>2, TailSeq
<1>4. /\ p.at \in Nat \ {0} /\ p.n \in Nat \ {0} /\ p.at \in Run(p)
  BY <1>3 DEF Run
<1>5. Chunk(mp) = p.at /\ p.at \in FreeSet(mp)
  BY <1>3, <1>4 DEF Chunk, FreeSet
<1>6. \A i \in DOMAIN mp.list : i # 1 => p.at \notin Run(mp.list[i])
  BY <1>1, <1>3, <1>4
<1>14. \A x : x \in FreeSet(mp) <=> \E i \in DOMAIN mp.list : x \in Run(mp.list[i])
  BY DEF FreeSet
<1>7. /\ new \in Seq(R)
      /\ \A i, j \in DOMAIN new : i # j => Run(new[i]) \cap Run(new[j]) = {}
      /\ UNION {Run(new[i]) : i \in DOMAIN new} = FreeSet(mp) \ {p.at}
  <2>1. CASE p.n > 1
    <3> DEFINE q == [at |-> p.at + 1, n |-> p.n - 1]
    <3>1. p.at + 1 \in Nat \ {0} /\ p.n - 1 \in Nat \ {0}
      BY <1>4, <2>1
    <3>2. q \in R /\ q.at = p.at + 1 /\ q.n = p.n - 1
      BY <3>1
    <3>3. Run(q) = Run(p) \ {p.at}
      BY <1>4, <2>1, <3>2 DEF Run
    <3>4. new = << q >> \o rest
      BY <2>1
    <3> HIDE DEF q, R, rest, p
    <3>5. /\ new \in Seq(R) /\ DOMAIN new = 1..(Len(rest) + 1) /\ new[1] = q
          /\ \A i \in 1..Len(rest) : new[i + 1] = rest[i]
      BY <1>3, <3>2, <3>4, ConsSeq
    <3> HIDE DEF new
    <3>6. ASSUME NEW i \in DOMAIN mp.list
          PROVE  Run(new[i]) = Run(mp.list[i]) \ {p.at}
      <4>1. CASE i = 1
        BY <3>3, <3>5, <4>1 DEF p
      <4>2. CASE i # 1
        <5>1. i - 1 \in 1..Len(rest) /\ (i - 1) + 1 = i
          BY <1>3, <4>2
        <5>2. new[i] = mp.list[i]
          BY <1>3, <3>5, <5>1
        <5> QED
          BY <1>6, <4>2, <5>2
      <4> QED
        BY <4>1, <4>2
    <3>7. DOMAIN new = DOMAIN mp.list
      BY <1>3, <3>5
    <3>8. \A i, j \in DOMAIN new : i # j => Run(new[i]) \cap Run(new[j]) = {}
      BY <1>1, <3>6, <3>7
    <3>9. \A x : (\E i \in DOMAIN new : x \in Run(new[i])) <=> x \in FreeSet(mp) /\ x # p.at
      BY <1>14, <3>6, <3>7
    <3>10. UNION {Run(new[i]) : i \in DOMAIN new} = FreeSet(mp) \ {p.at}
      BY <3>9
    <3> QED
      BY <3>5, <3>8, <3>10
  <2>2. CASE ~(p.n > 1)
    <3>1. new = rest
      <4>1. new = << >> \o rest
        BY <2>2
      <4> HIDE DEF rest, R, new
      <4> QED
        BY <1>3, <4>1
    <3>2. Run(p) = {p.at}
      BY <1>4, <2>2 DEF Run
    <3> HIDE DEF p, rest, new
    <3>3. \A i \in DOMAIN rest : /\ i + 1 \in DOMAIN mp.list /\ i + 1 # 1
                                 /\ Run(rest[i]) = Run(mp.list[i + 1])
      BY <1>3, SMTT(30)
    <3>4. ASSUME NEW i \in DOMAIN rest, NEW j \in DOMAIN rest, i # j
          PROVE  Run(rest[i]) \cap Run(rest[j]) = {}
      <4>1. i \in 1..Len(rest) /\ j \in 1..Len(rest) /\ i # j
        BY <1>3, <3>4
      <4>2. i + 1 # j + 1
        BY <4>1
      <4> QED
        BY <1>1, <3>3, <4>2
    <3>5. \A i \in DOMAIN mp.list : i = 1 \/ (i - 1 \in DOMAIN rest /\ (i - 1) + 1 = i)
      BY <1>3
    <3>6. ASSUME NEW x
          PROVE  (\E i \in DOMAIN rest : x \in Run(rest[i])) <=> x \in FreeSet(mp) /\ x # p.at
      <4>1. ASSUME NEW i \in DOMAIN rest, x \in Run(rest[i])
            PROVE  x \in FreeSet(mp) /\ x # p.at
        BY <1>6, <1>14, <3>3, <4>1
      <4>2. ASSUME x \in FreeSet(mp), x # p.at
            PROVE  \E i \in DOMAIN rest : x \in Run(rest[i])
        <5>1. PICK i \in DOMAIN mp.list : x \in Run(mp.list[i])
          BY <1>14, <4>2
        <5>2. i # 1
          BY <3>2, <4>2, <5>1 DEF p
        <5> QED
          BY <3>3, <3>5, <5>1, <5>2
      <4> QED
        BY <4>1, <4>2
    <3>7. UNION {Run(rest[i]) : i \in DOMAIN rest} = FreeSet(mp) \ {p.at}
      BY <3>6
    <3> QED
      BY <1>3, <3>1, <3>4, <3>7
  <2> QED
    BY <2>1, <2>2
<1>8. /\ Allocate(mp) \in [total : Nat, free : Int, list : Seq(R)]
      /\ Allocate(mp).total = mp.total
      /\ Allocate(mp).free = mp.free - 1 /\ Allocate(mp).list = new
  <2>1. Allocate(mp) = [mp EXCEPT !.free = @ - 1, !.list = new]
    BY DEF Allocate
  <2>2. new \in Seq(R)
    BY <1>7
  <2> HIDE DEF new, R
  <2>3. mp \in [total : Nat, free : Nat, list : Seq(R)]
    BY <1>1
  <2>4. mp.free - 1 \in Int
    BY <2>3
  <2> QED
    BY <2>1, <2>2, <2>3, <2>4, PoolUpdate
<1>9. FreeSet(Allocate(mp)) = FreeSet(mp) \ {p.at}
  BY <1>7, <1>8, ZenonT(30) DEF FreeSet
<1>10. Cardinality(FreeSet(mp) \ {p.at}) = mp.free - 1
  <2> HIDE DEF p
  <2> QED
    BY <1>5, FreeSetFinite, FS_RemoveElement
<1>11. mp.free - 1 \in Nat
  BY <1>1
<1> HIDE DEF new, p
<1>12. PoolOK(Allocate(mp))
  BY <1>7, <1>8, <1>9, <1>10, <1>11 DEF PoolOK
<1> QED
  BY <1>5, <1>8, <1>9, <1>12

\* usnet_mempool_free puts one chunk back.
LEMMA FreeChunkOK ==
  ASSUME NEW mp, PoolOK(mp), NEW x \in (1..mp.total) \ FreeSet(mp)
  PROVE  /\ PoolOK(FreeChunk(mp, x)) /\ FreeChunk(mp, x).total = mp.total
         /\ FreeSet(FreeChunk(mp, x)) = FreeSet(mp) \cup {x}
<1> DEFINE R == [at : Nat \ {0}, n : Nat \ {0}]
           q == [at |-> x, n |-> 1]
           new == << q >> \o mp.list
<1>1. /\ mp \in [total : Nat, free : Nat, list : Seq(R)] /\ mp.list \in Seq(R)
      /\ \A i, j \in DOMAIN mp.list : i # j => Run(mp.list[i]) \cap Run(mp.list[j]) = {}
  BY DEF PoolOK
<1>2. x \in Nat \ {0} /\ q \in R
  BY <1>1
<1>3. /\ new \in Seq(R) /\ new[1] = q
      /\ \A i \in 1..Len(mp.list) : new[i + 1] = mp.list[i]
      /\ Len(mp.list) \in Nat /\ DOMAIN mp.list = 1..Len(mp.list)
      /\ DOMAIN new = 1..(Len(mp.list) + 1)
  <2> HIDE DEF R, q
  <2> QED
    BY <1>1, <1>2, ConsSeq
<1>4. Run(q) = {x}
  BY <1>2 DEF Run
<1> HIDE DEF new, q, R
<1>5. \A i \in DOMAIN new : i = 1 \/ (i - 1 \in DOMAIN mp.list /\ (i - 1) + 1 = i)
  BY <1>3
<1>6. \A i \in DOMAIN new : i = 1 \/ (i - 1 \in DOMAIN mp.list /\ new[i] = mp.list[i - 1])
  BY <1>3, <1>5
<1>7. \A i \in DOMAIN mp.list : x \notin Run(mp.list[i])
  BY DEF FreeSet
<1>8. \A i, j \in DOMAIN new : i # j => Run(new[i]) \cap Run(new[j]) = {}
  <2> SUFFICES ASSUME NEW i \in DOMAIN new, NEW j \in DOMAIN new, i # j
               PROVE  Run(new[i]) \cap Run(new[j]) = {}
    OBVIOUS
  <2>1. CASE i = 1
    BY <2>1, <1>3, <1>4, <1>6, <1>7
  <2>2. CASE j = 1
    BY <2>2, <1>3, <1>4, <1>6, <1>7
  <2>3. CASE i # 1 /\ j # 1
    <3>1. i - 1 \in DOMAIN mp.list /\ j - 1 \in DOMAIN mp.list /\ i - 1 # j - 1
      BY <2>3, <1>3, <1>5
    <3> QED
      BY <2>3, <3>1, <1>1, <1>6
  <2> QED
    BY <2>1, <2>2, <2>3
<1>9. UNION {Run(new[i]) : i \in DOMAIN new} = FreeSet(mp) \cup {x}
  <2>1. \A i \in DOMAIN mp.list : i + 1 \in DOMAIN new /\ new[i + 1] = mp.list[i]
    BY <1>3
  <2>2. \A y : y \in FreeSet(mp) <=> \E i \in DOMAIN mp.list : y \in Run(mp.list[i])
    BY DEF FreeSet
  <2>3. 1 \in DOMAIN new
    BY <1>3
  <2>4. \A y : (\E i \in DOMAIN new : y \in Run(new[i])) <=> y \in FreeSet(mp) \/ y = x
    BY <1>3, <1>4, <1>6, <2>1, <2>2, <2>3
  <2> QED
    BY <2>4
<1>10. /\ FreeChunk(mp, x) \in [total : Nat, free : Nat, list : Seq(R)]
       /\ FreeChunk(mp, x).total = mp.total
       /\ FreeChunk(mp, x).free = mp.free + 1 /\ FreeChunk(mp, x).list = new
  <2>1. FreeChunk(mp, x) = [mp EXCEPT !.free = @ + 1, !.list = new]
    BY DEF FreeChunk, new, q
  <2>2. new \in Seq(R)
    BY <1>3
  <2>3. mp \in [total : Nat, free : Nat, list : Seq(R)]
    BY <1>1
  <2>4. mp.free + 1 \in Int /\ mp.free + 1 \in Nat
    BY <2>3
  <2> QED
    BY <2>1, <2>2, <2>3, <2>4, PoolUpdate
<1>11. FreeSet(FreeChunk(mp, x)) = FreeSet(mp) \cup {x}
  BY <1>9, <1>10 DEF FreeSet
<1>12. Cardinality(FreeSet(mp) \cup {x}) = mp.free + 1
  BY FreeSetFinite, FS_AddElement
<1>13. FreeSet(mp) \cup {x} \subseteq 1..mp.total
  BY DEF PoolOK
<1> QED
  BY <1>8, <1>10, <1>11, <1>12, <1>13 DEF PoolOK, R

-----------------------------------------------------------------------------
(* Buffers and chunks as blocks come and go.  key is the cache of blocks, held *)
(* what each block holds.                                                      *)

\* Cell c changes, every other one keeps its key and what it holds.
OnlyAt(c, key, key2, held, held2) ==
  \A d \in Cells : d # c => key2[d] = key[d] /\ held2[d] = held[d]

\* A block that holds no buffer yet.
LEMMA HeldAdd ==
  ASSUME NEW cache, NEW held, NEW held2, NEW key, NEW key2, NEW peers, NEW c \in Cells,
         OnlyAt(c, key, key2, held, held2), key[c] \notin Keys, key2[c] \in Keys,
         held2[c] = Null, Held(cache, held, key, peers)
  PROVE  Held(cache, held2, key2, peers)
<1>1. Used(key2) = Used(key) \cup {c} /\ c \notin Used(key)
  BY DEF OnlyAt, Used
<1>2. \A d \in Used(key) : held2[d] = held[d] /\ key2[d] = key[d]
  BY <1>1 DEF OnlyAt, Used
<1>3. \A d, e \in Used(key2) : held2[d] = held2[e] /\ held2[d] # Null => d = e
  BY <1>1, <1>2 DEF Held
<1>4. \A b \in Cells : cache[b] = 0 => \A d \in Used(key2) : held2[d] # b
  BY <1>1, <1>2, NullIsNoCell DEF Held
<1>5. \A b \in Cells : cache[b] # 0 =>
        \E d \in Used(key2) : /\ held2[d] = b
                              /\ cache[b] = ListenFd \/ <<cache[b], key2[d]>> \in peers
  <2> SUFFICES ASSUME NEW b \in Cells, cache[b] # 0
               PROVE  \E d \in Used(key2) :
                        /\ held2[d] = b
                        /\ cache[b] = ListenFd \/ <<cache[b], key2[d]>> \in peers
    OBVIOUS
  <2>1. PICK d \in Used(key) : /\ held[d] = b
                               /\ cache[b] = ListenFd \/ <<cache[b], key[d]>> \in peers
    BY DEF Held
  <2> QED
    BY <1>1, <1>2, <2>1
<1> QED
  BY <1>3, <1>4, <1>5 DEF Held

\* A block is released, and its buffer with it.
LEMMA HeldRemove ==
  ASSUME NEW cache, NEW cache2, NEW held, NEW held2, NEW key, NEW key2, NEW peers,
         NEW c \in Cells,
         OnlyAt(c, key, key2, held, held2), key[c] \in Keys, key2[c] \notin Keys,
         \A b \in Cells : cache2[b] = IF b = held[c] THEN 0 ELSE cache[b],
         Held(cache, held, key, peers)
  PROVE  Held(cache2, held2, key2, peers)
<1>1. Used(key2) = Used(key) \ {c} /\ c \in Used(key)
  BY DEF OnlyAt, Used
<1>2. \A d \in Used(key2) : held2[d] = held[d] /\ key2[d] = key[d]
  BY <1>1 DEF OnlyAt, Used
<1>3. \A d, e \in Used(key2) : held2[d] = held2[e] /\ held2[d] # Null => d = e
  BY <1>1, <1>2 DEF Held
<1>4. ASSUME NEW b \in Cells, cache2[b] = 0, NEW d \in Used(key2)
      PROVE  held2[d] # b
  <2>1. CASE b = held[c]
    BY <1>1, <1>2, <2>1, NullIsNoCell DEF Held
  <2>2. CASE b # held[c]
    BY <1>1, <1>2, <1>4, <2>2 DEF Held
  <2> QED
    BY <2>1, <2>2
<1>5. ASSUME NEW b \in Cells, cache2[b] # 0
      PROVE  \E d \in Used(key2) : /\ held2[d] = b
                                   /\ cache2[b] = ListenFd \/ <<cache2[b], key2[d]>> \in peers
  <2>1. b # held[c] /\ cache2[b] = cache[b]
    BY <1>5
  <2>2. PICK d \in Used(key) : /\ held[d] = b
                               /\ cache[b] = ListenFd \/ <<cache[b], key[d]>> \in peers
    BY <1>5, <2>1 DEF Held
  <2>3. d \in Used(key2)
    BY <1>1, <2>1, <2>2
  <2> QED
    BY <1>2, <2>1, <2>2, <2>3
<1> QED
  BY <1>3, <1>4, <1>5 DEF Held

\* A block without a buffer takes an empty cell.
LEMMA HeldTake ==
  ASSUME NEW cache, NEW cache2, NEW held, NEW held2, NEW key, NEW peers, NEW fd,
         NEW c \in Cells, NEW b \in Cells,
         OnlyAt(c, key, key, held, held2), key[c] \in Keys, held[c] = Null, held2[c] = b,
         cache[b] = 0, \A e \in Cells : cache2[e] = IF e = b THEN fd ELSE cache[e],
         fd # 0, fd = ListenFd \/ <<fd, key[c]>> \in peers,
         Held(cache, held, key, peers)
  PROVE  Held(cache2, held2, key, peers)
<1>1. c \in Used(key)
  BY DEF Used
<1>2. \A d \in Used(key) : d # c => held2[d] = held[d]
  BY DEF OnlyAt, Used
<1>3. \A d \in Used(key) : held[d] # b
  BY DEF Held
<1>4. \A d, e \in Used(key) : held2[d] = held2[e] /\ held2[d] # Null => d = e
  BY <1>1, <1>2, <1>3 DEF Held
<1>5. ASSUME NEW a \in Cells, cache2[a] = 0, NEW d \in Used(key)
      PROVE  held2[d] # a
  <2>1. a # b /\ cache[a] = 0
    BY <1>5
  <2> QED
    BY <1>1, <1>2, <2>1 DEF Held
<1>6. ASSUME NEW a \in Cells, cache2[a] # 0
      PROVE  \E d \in Used(key) : /\ held2[d] = a
                                  /\ cache2[a] = ListenFd \/ <<cache2[a], key[d]>> \in peers
  <2>1. CASE a = b
    BY <1>1, <2>1
  <2>2. CASE a # b
    <3>1. cache2[a] = cache[a] /\ cache[a] # 0
      BY <1>6, <2>2
    <3>2. PICK d \in Used(key) : /\ held[d] = a
                                 /\ cache[a] = ListenFd \/ <<cache[a], key[d]>> \in peers
      BY <3>1 DEF Held
    <3>3. d # c
      BY <3>2, NullIsNoCell
    <3> QED
      BY <1>2, <3>1, <3>2, <3>3
  <2> QED
    BY <2>1, <2>2
<1> QED
  BY <1>4, <1>5, <1>6 DEF Held

\* More peers, the same blocks.
LEMMA HeldGrow ==
  ASSUME NEW cache, NEW held, NEW key, NEW peers, NEW peers2, peers \subseteq peers2,
         Held(cache, held, key, peers)
  PROVE  Held(cache, held, key, peers2)
BY DEF Held

\* A cell that is not of a peer changes.
LEMMA HeldFrame ==
  ASSUME NEW cache, NEW held, NEW held2, NEW key, NEW key2, NEW peers,
         \A d \in Cells : (key2[d] \in Keys <=> key[d] \in Keys)
                          /\ (key[d] \in Keys => key2[d] = key[d] /\ held2[d] = held[d]),
         Held(cache, held, key, peers)
  PROVE  Held(cache, held2, key2, peers)
<1>1. Used(key2) = Used(key)
  BY DEF Used
<1>2. \A d \in Used(key) : key2[d] = key[d] /\ held2[d] = held[d]
  BY DEF Used
<1> QED
  BY <1>1, <1>2, ZenonT(30) DEF Held

\* A block takes a chunk.
LEMMA TakenAdd ==
  ASSUME NEW mp, NEW held, NEW held2, NEW key, NEW key2, NEW c \in Cells,
         OnlyAt(c, key, key2, held, held2), key[c] \notin Keys, key2[c] \in Keys,
         mp.free > 0, held2[c] = Chunk(mp), Taken(mp, held, key)
  PROVE  Taken(Allocate(mp), held2, key2)
<1> DEFINE new == Allocate(mp)
           p == Chunk(mp)
<1>1. Used(key2) = Used(key) \cup {c} /\ c \notin Used(key)
  BY DEF OnlyAt, Used
<1>2. \A d \in Used(key) : held2[d] = held[d]
  BY <1>1 DEF OnlyAt, Used
<1>3. /\ PoolOK(new) /\ new.total = mp.total /\ p \in FreeSet(mp)
      /\ FreeSet(new) = FreeSet(mp) \ {p} /\ p \in 1..mp.total
  BY AllocateOK DEF Taken, PoolOK
<1> HIDE DEF new, p
<1>4. (1..new.total) \ FreeSet(new) = ((1..mp.total) \ FreeSet(mp)) \cup {p}
  BY <1>3
<1>5. /\ \A d \in Used(key) : held[d] \in (1..mp.total) \ FreeSet(mp)
      /\ \A x \in (1..mp.total) \ FreeSet(mp) : \E d \in Used(key) : held[d] = x
      /\ \A d, e \in Used(key) : held[d] = held[e] => d = e
  BY DEF Taken
<1>6. held2[c] = p
  BY DEF p
<1>7. \A d \in Used(key2) : held2[d] \in (1..new.total) \ FreeSet(new)
  BY <1>1, <1>2, <1>4, <1>5, <1>6
<1>8. \A x \in (1..new.total) \ FreeSet(new) : \E d \in Used(key2) : held2[d] = x
  BY <1>1, <1>2, <1>4, <1>5, <1>6
<1>9. \A d, e \in Used(key2) : held2[d] = held2[e] => d = e
  BY <1>1, <1>2, <1>3, <1>5, <1>6
<1> QED
  BY <1>3, <1>7, <1>8, <1>9 DEF Taken, new

\* A block gives its chunk back.
LEMMA TakenRemove ==
  ASSUME NEW mp, NEW held, NEW held2, NEW key, NEW key2, NEW c \in Cells,
         OnlyAt(c, key, key2, held, held2), key[c] \in Keys, key2[c] \notin Keys,
         Taken(mp, held, key)
  PROVE  Taken(FreeChunk(mp, held[c]), held2, key2)
<1> DEFINE new == FreeChunk(mp, held[c])
<1>1. Used(key2) = Used(key) \ {c} /\ c \in Used(key)
  BY DEF OnlyAt, Used
<1>2. \A d \in Used(key2) : held2[d] = held[d]
  BY <1>1 DEF OnlyAt, Used
<1>3. held[c] \in (1..mp.total) \ FreeSet(mp)
  BY <1>1 DEF Taken
<1>4. /\ PoolOK(new) /\ new.total = mp.total
      /\ FreeSet(new) = FreeSet(mp) \cup {held[c]}
  BY <1>3, FreeChunkOK DEF Taken
<1> HIDE DEF new
<1>5. (1..new.total) \ FreeSet(new) = ((1..mp.total) \ FreeSet(mp)) \ {held[c]}
  BY <1>4
<1>6. /\ \A d \in Used(key) : held[d] \in (1..mp.total) \ FreeSet(mp)
      /\ \A x \in (1..mp.total) \ FreeSet(mp) : \E d \in Used(key) : held[d] = x
      /\ \A d, e \in Used(key) : held[d] = held[e] => d = e
  BY DEF Taken
<1>7. \A d \in Used(key2) : held2[d] \in (1..new.total) \ FreeSet(new)
  BY <1>1, <1>2, <1>5, <1>6
<1>8. \A x \in (1..new.total) \ FreeSet(new) : \E d \in Used(key2) : held2[d] = x
  BY <1>1, <1>2, <1>5, <1>6
<1>9. \A d, e \in Used(key2) : held2[d] = held2[e] => d = e
  BY <1>1, <1>2, <1>6
<1> QED
  BY <1>4, <1>7, <1>8, <1>9 DEF Taken, new

\* The unwinding of usnet_init_newtcb puts the chunk it took back.
LEMMA TakenUnwind ==
  ASSUME NEW mp, NEW held, NEW key, mp.free > 0, Taken(mp, held, key)
  PROVE  Taken(FreeChunk(Allocate(mp), Chunk(mp)), held, key)
<1> DEFINE mid == Allocate(mp)
           p == Chunk(mp)
           new == FreeChunk(mid, p)
<1>1. /\ PoolOK(mid) /\ mid.total = mp.total /\ p \in FreeSet(mp)
      /\ FreeSet(mid) = FreeSet(mp) \ {p} /\ FreeSet(mp) \subseteq 1..mp.total
  BY AllocateOK DEF Taken, PoolOK
<1> HIDE DEF mid, p
<1>2. p \in (1..mid.total) \ FreeSet(mid)
  BY <1>1
<1>3. PoolOK(new) /\ new.total = mp.total /\ FreeSet(new) = FreeSet(mp)
  BY <1>1, <1>2, FreeChunkOK
<1> HIDE DEF new
<1>4. Taken(new, held, key)
  BY <1>3 DEF Taken
<1> QED
  BY <1>4 DEF new, mid, p

LEMMA TakenFrame ==
  ASSUME NEW mp, NEW held, NEW held2, NEW key, NEW key2,
         \A d \in Cells : (key2[d] \in Keys <=> key[d] \in Keys)
                          /\ (key[d] \in Keys => held2[d] = held[d]),
         Taken(mp, held, key)
  PROVE  Taken(mp, held2, key2)
<1>1. Used(key2) = Used(key)
  BY DEF Used
<1>2. \A d \in Used(key) : held2[d] = held[d]
  BY DEF Used
<1> QED
  BY <1>1, <1>2 DEF Taken

-----------------------------------------------------------------------------
(* The steps. *)

\* The caches hold naturals.
LEMMA CacheTypes ==
  ASSUME IInv
  PROVE  /\ tcb_cache \in [Cells -> Nat] /\ socket_cache \in [Cells -> Nat]
         /\ sndbuf_cache \in [Cells -> Nat] /\ ringbuf_cache \in [Cells -> Nat]
         /\ Keys \subseteq Nat \ {0} /\ ListenKey \in Nat \ {0} /\ ListenKey \notin Keys
         /\ 0 \notin Keys /\ MaxFd \in Nat \ {0} /\ g_fd \in Nat \ {0} /\ g_fd <= MaxFd + 1
         /\ ListenFd = 1
<1>1. Keys \cup {0, ListenKey} \subseteq Nat /\ MaxFd \in Nat
  BY KeyAssumption
<1>2. 0..MaxFd \subseteq Nat
  BY <1>1
<1> QED
  BY <1>1, <1>2, KeyAssumption, SMTT(30) DEF IInv, BlocksTyped, SocketsTyped, ListenFd

LEMMA WriteStep ==
  ASSUME IInv, \/ WriteData
               \/ \E fd \in WriteFds \cap returned : WriteLookup(fd)
  PROVE  IInv'
<1>1. UNCHANGED <<up, caches, tcb, pools, sockets, net2app, app2net>>
  BY DEF WriteData, WriteLookup
<1> USE <1>1 DEF caches, pools, sockets
<1>2. BlocksTyped'
  BY DEF IInv, BlocksTyped
<1>3. SocketsTyped'
  BY DEF IInv, SocketsTyped, Fds
<1>4. Cached'
  BY DEF IInv, Cached, Placed, Unique, BlocksAgree, Blocks, Peers, Fds
<1>5. Socketed'
  BY DEF IInv, Socketed, Unique, SocketsPlaced, BacklogAgrees, Ordered, Written, Fds
<1>6. EventsAgree'
  BY DEF IInv, EventsAgree, Peers, Fds
<1>7. Stored'
  BY DEF IInv, Stored, SndbufsHeld, RcvbufsHeld, RcvvarsTaken, SndvarsTaken, Peers, Fds,
         Sndbufs, Rcvbufs, Rcvvars, Sndvars
<1>8. CASE WriteData
  <2>1. writer' = NoWriter /\ moved' = FALSE
    BY <1>8 DEF WriteData
  <2>2. EventsTyped'
    BY <2>1 DEF IInv, EventsTyped, NoWriter
  <2>3. Quiet'
    BY <2>1 DEF IInv, Quiet
  <2>4. WriteLands'
    BY <2>1 DEF WriteLands
  <2> QED
    BY <1>2, <1>3, <1>4, <1>5, <1>6, <1>7, <2>2, <2>3, <2>4 DEF IInv
<1>9. ASSUME NEW fd \in WriteFds \cap returned, WriteLookup(fd) PROVE IInv'
  <2> DEFINE b == CacheSearch(sndbuf_cache, fd)
  <2>1. b # Null /\ writer' = [fd |-> fd, buf |-> b] /\ moved' = FALSE
    BY <1>9 DEF WriteLookup
  <2>2. fd \in Nat \ {0}
    BY CacheTypes DEF IInv, SocketsTyped, Fds
  <2>3. b \in Cells /\ sndbuf_cache[b] = fd
    BY <2>1, <2>2, CacheTypes, SearchResult
  <2> HIDE DEF b
  <2>4. EventsTyped'
    BY <2>1, <2>2, <2>3 DEF IInv, EventsTyped
  <2>5. up = {"net", "app"}
    BY <2>2, <2>3 DEF IInv, Quiet, Empty
  <2>6. Quiet'
    BY <2>5 DEF IInv, Quiet
  <2>7. WriteLands'
    BY <2>1, <2>3 DEF WriteLands
  <2> QED
    BY <1>2, <1>3, <1>4, <1>5, <1>6, <1>7, <2>4, <2>6, <2>7 DEF IInv
<1> QED
  BY <1>8, <1>9

\* Attaching clears caches that are empty still, but for the sockets of an
\* application that did not wait for the net process.
LEMMA SetupStep ==
  ASSUME IInv, NetSetup \/ WorkerSetup
  PROVE  IInv'
<1>1. up # {"net", "app"}
  BY DEF NetSetup, WorkerSetup
<1>2. /\ tcb_cache = Empty /\ sndbuf_cache = Empty /\ ringbuf_cache = Empty
      /\ writer = NoWriter
  BY <1>1 DEF IInv, Quiet
<1>3. /\ UNCHANGED <<caches, tcb, pools, so, g_fd, backlog, again, returned, net2app,
                     app2net, writer, moved>>
      /\ socket_cache' = Empty
      /\ up' = up \cup {"net"} \/ up' = up \cup {"app"}
  BY <1>2 DEF NetSetup, WorkerSetup, caches
<1> USE <1>3 DEF caches, pools
<1>4. \A c \in Cells : socket_cache'[c] = 0
  BY DEF Empty
<1>5. BlocksTyped'
  BY DEF IInv, BlocksTyped
<1>6. SocketsTyped'
  <2>1. socket_cache' \in [Cells -> 0..MaxFd]
    BY KeyAssumption DEF Empty
  <2> QED
    BY <2>1 DEF IInv, SocketsTyped, Fds
<1>7. EventsTyped'
  BY DEF IInv, EventsTyped
<1>8. Quiet'
  BY <1>2 DEF IInv, Quiet, NetSetup, WorkerSetup
<1>9. Cached'
  BY DEF IInv, Cached, Placed, Unique, BlocksAgree, Blocks, Peers, Fds
<1>10. Socketed'
  <2>1. Unique(socket_cache)'
    BY <1>4 DEF Unique
  <2>2. SocketsPlaced'
    <3>1. \A c \in Cells : socket_cache'[c] < g_fd'
      BY <1>4, CacheTypes
    <3>2. NetFirst => g_fd = 1
      BY DEF IInv, Quiet, NetSetup, WorkerSetup
    <3>3. NetFirst => 1..(g_fd' - 1) = {}
      BY <3>2
    <3> QED
      BY <3>1, <3>3 DEF SocketsPlaced
  <2> QED
    BY <2>1, <2>2 DEF IInv, Socketed, BacklogAgrees, Ordered, Written, Fds
<1>11. EventsAgree'
  BY DEF IInv, EventsAgree, Peers, Fds
<1>12. Stored'
  BY DEF IInv, Stored, SndbufsHeld, RcvbufsHeld, RcvvarsTaken, SndvarsTaken, Peers, Fds,
         Sndbufs, Rcvbufs, Rcvvars, Sndvars
<1>13. WriteLands'
  BY DEF IInv, WriteLands
<1> QED
  BY <1>5, <1>6, <1>7, <1>8, <1>9, <1>10, <1>11, <1>12, <1>13 DEF IInv

\* usnet_cache_get finds a cell in an empty cache.
LEMMA GetInEmpty ==
  ASSUME NEW k \in Nat
  PROVE  CacheGet(Empty, k) # Null
<1> DEFINE S == {c \in Cells : Empty[c] = 0}
<1>1. 1 \in Rows
  BY HashAssumption DEF Rows
<1>2. Cell(k, 1) \in S
  BY <1>1, CellType DEF Empty
<1>3. S \in SUBSET Cells
  OBVIOUS
<1> HIDE DEF S
<1>4. Scan(k, S) # Null
  BY <1>1, <1>2, <1>3, ScanResult
<1> QED
  BY <1>4 DEF CacheGet, S

LEMMA SocketStep ==
  ASSUME IInv, Socket
  PROVE  IInv'
<1> DEFINE c == CacheGet(socket_cache, ListenFd)
<1>1. /\ g_fd = 1 /\ g_fd' = 2 /\ so' = << ListenKey >> /\ "app" \in up
      /\ socket_cache' = CachePut(socket_cache, c, 1)
      /\ UNCHANGED <<up, caches, tcb, pools, backlog, again, returned, net2app, app2net,
                     writer, moved>>
  BY DEF Socket, ListenFd
<1>2. socket_cache = Empty /\ tcb_cache = Empty /\ net2app = << >>
  BY <1>1 DEF IInv, Quiet
<1>3. c \in Cells /\ \E i \in Rows : c = Cell(1, i)
  <2>1. 1 \in Nat /\ ListenFd = 1
    BY DEF ListenFd
  <2>2. CacheGet(socket_cache, 1) # Null
    BY <1>2, <2>1, GetInEmpty
  <2> QED
    BY <2>1, <2>2, CacheTypes, GetResult
<1> HIDE DEF c
<1>4. \A d \in Cells : socket_cache'[d] = IF d = c THEN 1 ELSE 0
  BY <1>1, <1>2, <1>3 DEF CachePut, Empty
<1>5. socket_cache' \in [Cells -> {0, 1}]
  BY <1>1, <1>2, <1>3 DEF CachePut, Empty
<1> USE <1>1 DEF caches, pools
<1>6. Fds = {} /\ Fds' = {} /\ Peers = {} /\ Peers' = {}
  BY DEF Fds, Peers
<1>7. BlocksTyped'
  BY DEF IInv, BlocksTyped
<1>8. SocketsTyped'
  <2>1. socket_cache' \in [Cells -> 0..MaxFd]
    <3>1. {0, 1} \subseteq 0..MaxFd
      BY CacheTypes
    <3> QED
      BY <1>5, <3>1
  <2>2. g_fd' \in 1..(MaxFd + 1) /\ Len(so') = g_fd' - 1
    BY CacheTypes
  <2>3. so' \in Seq(Keys \cup {0, ListenKey})
    OBVIOUS
  <2> QED
    BY <1>6, <2>1, <2>2, <2>3 DEF IInv, SocketsTyped
<1>9. EventsTyped'
  BY DEF IInv, EventsTyped
<1>10. Quiet'
  BY DEF IInv, Quiet
<1>11. Cached'
  <2>1. \A d \in Cells : tcb_cache[d] = 0
    BY <1>2 DEF Empty
  <2>2. Blocks = {} /\ Blocks' = {}
    BY <2>1, CacheTypes DEF Blocks
  <2> QED
    BY <2>2 DEF IInv, Cached, Placed, Unique, BlocksAgree
<1>12. Socketed'
  <2>1. Unique(socket_cache)'
    BY <1>4 DEF Unique
  <2>2. SocketsPlaced'
    <3>1. \A d \in Cells : socket_cache'[d] < g_fd'
      BY <1>4
    <3>2. \E i \in Rows : socket_cache'[Cell(1, i)] = 1
      BY <1>3, <1>4
    <3>3. 1..(g_fd' - 1) = {1}
      OBVIOUS
    <3> QED
      BY <3>1, <3>2, <3>3 DEF SocketsPlaced
  <2>3. BacklogAgrees'
    BY <1>6 DEF IInv, Socketed, BacklogAgrees
  <2>4. Ordered'
    <3>1. BacklogSize \in Nat \ {0} /\ g_fd - 2 < BacklogSize
      BY KeyAssumption
    <3> QED
      BY <3>1 DEF IInv, Socketed, Ordered
  <2> QED
    BY <2>1, <2>2, <2>3, <2>4 DEF IInv, Socketed, Written
<1>13. EventsAgree'
  BY <1>6 DEF IInv, EventsAgree
<1>14. Stored'
  BY <1>6 DEF IInv, Stored, SndbufsHeld, RcvbufsHeld, RcvvarsTaken, SndvarsTaken,
         Sndbufs, Rcvbufs, Rcvvars, Sndvars
<1>15. WriteLands'
  BY DEF IInv, WriteLands
<1> QED
  BY <1>7, <1>8, <1>9, <1>10, <1>11, <1>12, <1>13, <1>14, <1>15 DEF IInv

\* The steps of the net process leave the sockets alone.
LEMMA SocketsKept ==
  ASSUME IInv, UNCHANGED sockets
  PROVE  SocketsTyped' /\ Socketed' /\ Fds' = Fds /\ Peers' = Peers
<1> USE DEF sockets
<1>1. Fds' = Fds /\ Peers' = Peers
  BY DEF Fds, Peers
<1>2. SocketsTyped'
  BY <1>1 DEF IInv, SocketsTyped
<1>3. Socketed'
  BY <1>1 DEF IInv, Socketed, Unique, SocketsPlaced, BacklogAgrees, Ordered, Written
<1> QED
  BY <1>1, <1>2, <1>3

\* What the components of a block are.
LEMMA BlockType ==
  ASSUME IInv, NEW c \in Cells
  PROVE  /\ tcb[c] \in [fd : 0..MaxFd, rcvvar : Nat, sndvar : Nat,
                        sndbuf : Cells \cup {Null}, rcvbuf : Cells \cup {Null}]
         /\ Sndbufs[c] = tcb[c].sndbuf /\ Rcvbufs[c] = tcb[c].rcvbuf
         /\ Rcvvars[c] = tcb[c].rcvvar /\ Sndvars[c] = tcb[c].sndvar
BY DEF IInv, BlocksTyped, Sndbufs, Rcvbufs, Rcvvars, Sndvars

LEMMA ListenStep ==
  ASSUME IInv, Listen
  PROVE  IInv'
<1> DEFINE c == CacheGet(tcb_cache, ListenKey)
<1>1. /\ up = {"net", "app"} /\ CacheSearch(socket_cache, 1) # Null
      /\ CacheSearch(tcb_cache, ListenKey) = Null /\ c # Null
      /\ tcb_cache' = CachePut(tcb_cache, c, ListenKey)
      /\ tcb' = [tcb EXCEPT ![c].fd = 1]
      /\ UNCHANGED <<up, sndbuf_cache, ringbuf_cache, pools, sockets, net2app, app2net,
                     writer, moved>>
  BY DEF Listen, ListenFd
<1>2. ListenKey \in Nat \ {0} /\ tcb_cache \in [Cells -> Nat] /\ 1 \in Nat
      /\ ListenKey \notin Keys /\ 0 \notin Keys
  BY CacheTypes
<1>3. c \in Cells /\ tcb_cache[c] = 0 /\ \E i \in Rows : c = Cell(ListenKey, i)
  BY <1>1, <1>2, GetResult
<1> HIDE DEF c
<1>4. \A d \in Cells : tcb_cache[d] # ListenKey
  BY <1>1, <1>2, NotFound DEF IInv, Cached
<1>5. /\ \A d \in Cells : tcb_cache'[d] = IF d = c THEN ListenKey ELSE tcb_cache[d]
      /\ Unique(tcb_cache') /\ Placed(tcb_cache')
  BY <1>1, <1>2, <1>3, <1>4, PutKeeps DEF IInv, Cached
<1>6. tcb[c] = NoTcb
  BY <1>3 DEF IInv, Cached, BlocksAgree
<1>7. tcb \in [Cells -> [fd : 0..MaxFd, rcvvar : Nat, sndvar : Nat,
                         sndbuf : Cells \cup {Null}, rcvbuf : Cells \cup {Null}]]
  BY DEF IInv, BlocksTyped
<1>8. /\ tcb' \in [Cells -> [fd : 0..MaxFd, rcvvar : Nat, sndvar : Nat,
                            sndbuf : Cells \cup {Null}, rcvbuf : Cells \cup {Null}]]
      /\ \A d \in Cells : tcb'[d] = IF d = c THEN [NoTcb EXCEPT !.fd = 1] ELSE tcb[d]
  <2>1. 1 \in 0..MaxFd
    BY CacheTypes
  <2> QED
    BY <1>1, <1>3, <1>6, <1>7, <2>1
<1>9. SocketsTyped' /\ Socketed' /\ Fds' = Fds /\ Peers' = Peers
  BY <1>1, SocketsKept
<1>10. BlocksTyped'
  <2>1. tcb_cache' \in [Cells -> Keys \cup {0, ListenKey}]
    BY <1>1, <1>3 DEF IInv, BlocksTyped, CachePut
  <2> QED
    BY <1>1, <1>8, <2>1 DEF IInv, BlocksTyped
<1>11. EventsTyped'
  BY <1>1 DEF IInv, EventsTyped
<1>12. Quiet'
  <2>1. g_fd # 1
    <3> SUFFICES ASSUME g_fd = 1 PROVE FALSE
      OBVIOUS
    <3>1. socket_cache = Empty
      BY DEF IInv, Quiet
    <3> QED
      BY <1>1, <1>2, <3>1, SearchResult, CacheTypes DEF Empty
  <2> QED
    BY <1>1, <2>1 DEF IInv, Quiet, sockets
<1>13. Cached'
  <2>1. BlocksAgree'
    <3>1. Blocks' = Blocks
      BY <1>2, <1>3, <1>5 DEF Blocks
    <3>2. \A d \in Blocks : d \in Cells /\ d # c
      BY <1>2, <1>3 DEF Blocks
    <3>3. \A d \in Blocks : tcb[d].fd = 1 \/ <<tcb[d].fd, tcb_cache[d]>> \in Peers
      BY DEF IInv, Cached, BlocksAgree, ListenFd
    <3>4. \A d \in Blocks' : tcb'[d].fd = 1 \/ <<tcb'[d].fd, tcb_cache'[d]>> \in Peers'
      BY <1>5, <1>8, <1>9, <3>1, <3>2, <3>3
    <3>5. \A d \in Cells : tcb_cache'[d] = 0 => tcb'[d] = NoTcb
      BY <1>2, <1>5, <1>8 DEF IInv, Cached, BlocksAgree
    <3>6. \A d \in Cells : tcb_cache'[d] = ListenKey => tcb'[d] = [NoTcb EXCEPT !.fd = 1]
      BY <1>4, <1>5, <1>8
    <3> QED
      BY <3>4, <3>5, <3>6 DEF BlocksAgree, ListenFd
  <2> QED
    BY <1>5, <2>1 DEF Cached
<1>14. EventsAgree'
  BY <1>1, <1>9 DEF IInv, EventsAgree
<1>15. Stored'
  <2>1. \A d \in Cells : /\ tcb_cache'[d] \in Keys <=> tcb_cache[d] \in Keys
                         /\ tcb_cache[d] \in Keys => /\ tcb_cache'[d] = tcb_cache[d]
                                                     /\ tcb'[d] = tcb[d]
    BY <1>2, <1>3, <1>5, <1>8
  <2>2. \A d \in Cells : tcb_cache[d] \in Keys =>
          /\ Sndbufs'[d] = Sndbufs[d] /\ Rcvbufs'[d] = Rcvbufs[d]
          /\ Rcvvars'[d] = Rcvvars[d] /\ Sndvars'[d] = Sndvars[d]
    BY <2>1 DEF Sndbufs, Rcvbufs, Rcvvars, Sndvars
  <2>3. /\ Held(sndbuf_cache, Sndbufs, tcb_cache, Peers)
        /\ Held(ringbuf_cache, Rcvbufs, tcb_cache, Peers)
        /\ Taken(rcvvars_mp, Rcvvars, tcb_cache) /\ Taken(sndvars_mp, Sndvars, tcb_cache)
    BY DEF IInv, Stored, SndbufsHeld, RcvbufsHeld, RcvvarsTaken, SndvarsTaken
  <2>4. Held(sndbuf_cache, Sndbufs', tcb_cache', Peers)
    BY <2>1, <2>2, <2>3, HeldFrame
  <2>5. Held(ringbuf_cache, Rcvbufs', tcb_cache', Peers)
    BY <2>1, <2>2, <2>3, HeldFrame
  <2>6. Taken(rcvvars_mp, Rcvvars', tcb_cache')
    BY <2>1, <2>2, <2>3, TakenFrame
  <2>7. Taken(sndvars_mp, Sndvars', tcb_cache')
    BY <2>1, <2>2, <2>3, TakenFrame
  <2> QED
    BY <1>1, <1>9, <2>4, <2>5, <2>6, <2>7
       DEF IInv, Stored, SndbufsHeld, RcvbufsHeld, RcvvarsTaken, SndvarsTaken, pools
<1>16. WriteLands'
  BY <1>1 DEF IInv, WriteLands
<1> QED
  BY <1>9, <1>10, <1>11, <1>12, <1>13, <1>14, <1>15, <1>16 DEF IInv

LEMMA EnqueueType ==
  ASSUME NEW S, NEW q \in Seq(S), NEW e \in S
  PROVE  /\ Enqueue(q, e) \in Seq(S)
         /\ \A i \in DOMAIN Enqueue(q, e) :
              (i \in DOMAIN q /\ Enqueue(q, e)[i] = q[i]) \/ Enqueue(q, e)[i] = e
<1>1. Append(q, e) \in Seq(S)
  OBVIOUS
<1>2. \A i \in DOMAIN Append(q, e) : (i \in DOMAIN q /\ Append(q, e)[i] = q[i])
                                     \/ Append(q, e)[i] = e
  OBVIOUS
<1> QED
  BY <1>1, <1>2 DEF Enqueue

\* A block in a cell: both processes are there, and a socket to listen on.
LEMMA Running ==
  ASSUME IInv, NEW c \in Cells, tcb_cache[c] # 0
  PROVE  up = {"net", "app"} /\ g_fd # 1
BY DEF IInv, Quiet, Empty

LEMMA SynStep ==
  ASSUME IInv, NEW k \in Keys, Syn(k)
  PROVE  IInv'
<1> DEFINE c == CacheGet(tcb_cache, k)
<1>1. /\ CacheSearch(tcb_cache, ListenKey) # Null /\ CacheSearch(tcb_cache, k) = Null
      /\ c # Null /\ rcvvars_mp.free > 0
      /\ IF sndvars_mp.free > 0 THEN Created(c, k) ELSE NoSndvars
      /\ UNCHANGED <<up, sndbuf_cache, ringbuf_cache, sockets, app2net, writer, moved>>
  BY DEF Syn
<1>2. /\ ListenKey \in Nat /\ k \in Nat \ {0} /\ tcb_cache \in [Cells -> Nat]
      /\ ListenKey \notin Keys /\ 0 \notin Keys /\ 1 \in 0..MaxFd /\ k # ListenKey
  BY CacheTypes
<1>3. up = {"net", "app"} /\ g_fd # 1
  <2>1. \E d \in Cells : tcb_cache[d] # 0
    BY <1>1, <1>2, SearchResult, CacheTypes
  <2> QED
    BY <2>1, Running
<1>4. c \in Cells /\ tcb_cache[c] = 0 /\ \E i \in Rows : c = Cell(k, i)
  BY <1>1, <1>2, GetResult
<1> HIDE DEF c
<1>5. SocketsTyped' /\ Socketed' /\ Fds' = Fds /\ Peers' = Peers
  BY <1>1, SocketsKept
<1>6. EventsAgree'
  BY <1>1, <1>5 DEF IInv, EventsAgree
<1>7. WriteLands'
  BY <1>1 DEF IInv, WriteLands
<1>8. Quiet'
  BY <1>1, <1>3 DEF IInv, Quiet, sockets
<1>9. /\ Held(sndbuf_cache, Sndbufs, tcb_cache, Peers)
      /\ Held(ringbuf_cache, Rcvbufs, tcb_cache, Peers)
      /\ Taken(rcvvars_mp, Rcvvars, tcb_cache) /\ Taken(sndvars_mp, Sndvars, tcb_cache)
  BY DEF IInv, Stored, SndbufsHeld, RcvbufsHeld, RcvvarsTaken, SndvarsTaken
<1>10. CASE ~(sndvars_mp.free > 0)
  <2>1. /\ rcvvars_mp' = FreeChunk(Allocate(rcvvars_mp), Chunk(rcvvars_mp))
        /\ UNCHANGED <<tcb_cache, tcb, sndvars_mp, net2app>>
    BY <1>1, <1>10 DEF NoSndvars
  <2>2. BlocksTyped' /\ EventsTyped'
    BY <1>1, <2>1 DEF IInv, BlocksTyped, EventsTyped
  <2>3. Cached'
    BY <1>5, <2>1 DEF IInv, Cached, Placed, Unique, BlocksAgree, Blocks
  <2>4. Taken(rcvvars_mp', Rcvvars, tcb_cache)
    BY <1>1, <1>9, <2>1, TakenUnwind
  <2>5. Stored'
    BY <1>1, <1>5, <2>1, <2>4 DEF IInv, Stored, SndbufsHeld, RcvbufsHeld,
       RcvvarsTaken, SndvarsTaken, Sndbufs, Rcvbufs, Rcvvars, Sndvars
  <2> QED
    BY <1>5, <1>6, <1>7, <1>8, <2>2, <2>3, <2>5 DEF IInv
<1>11. CASE sndvars_mp.free > 0
  <2> DEFINE new == [NoTcb EXCEPT !.fd = 1, !.rcvvar = Chunk(rcvvars_mp),
                                  !.sndvar = Chunk(sndvars_mp)]
  <2>1. /\ tcb_cache' = CachePut(tcb_cache, c, k)
        /\ tcb' = [tcb EXCEPT ![c] = new]
        /\ rcvvars_mp' = Allocate(rcvvars_mp) /\ sndvars_mp' = Allocate(sndvars_mp)
        /\ net2app' = Enqueue(net2app, k)
    BY <1>1, <1>11 DEF Created, ListenFd
  <2>2. Chunk(rcvvars_mp) \in Nat /\ Chunk(sndvars_mp) \in Nat
    <3>1. Chunk(rcvvars_mp) \in 1..rcvvars_mp.total
      BY <1>1, <1>9, AllocateOK DEF Taken, PoolOK
    <3>2. Chunk(sndvars_mp) \in 1..sndvars_mp.total
      BY <1>9, <1>11, AllocateOK DEF Taken, PoolOK
    <3>3. rcvvars_mp.total \in Nat /\ sndvars_mp.total \in Nat
      BY <1>9 DEF Taken, PoolOK
    <3> QED
      BY <3>1, <3>2, <3>3
  <2>3. /\ new \in [fd : 0..MaxFd, rcvvar : Nat, sndvar : Nat,
                    sndbuf : Cells \cup {Null}, rcvbuf : Cells \cup {Null}]
        /\ new.fd = 1 /\ new.rcvvar = Chunk(rcvvars_mp) /\ new.sndvar = Chunk(sndvars_mp)
        /\ new.sndbuf = Null /\ new.rcvbuf = Null
    <3>1. new = [fd |-> 1, rcvvar |-> Chunk(rcvvars_mp), sndvar |-> Chunk(sndvars_mp),
                 sndbuf |-> Null, rcvbuf |-> Null]
      <4> DEFINE x == Chunk(rcvvars_mp)
                 y == Chunk(sndvars_mp)
      <4>1. new = [[[NoTcb EXCEPT !.fd = 1] EXCEPT !.rcvvar = x] EXCEPT !.sndvar = y]
        OBVIOUS
      <4> HIDE DEF x, y, new
      <4>2. [NoTcb EXCEPT !.fd = 1] = [fd |-> 1, rcvvar |-> 0, sndvar |-> 0,
                                       sndbuf |-> Null, rcvbuf |-> Null]
        BY DEF NoTcb
      <4>3. new = [fd |-> 1, rcvvar |-> x, sndvar |-> y, sndbuf |-> Null, rcvbuf |-> Null]
        BY <4>1, <4>2
      <4> QED
        BY <4>3 DEF x, y
    <3> QED
      BY <1>2, <2>2, <3>1
  <2> HIDE DEF new
  <2>4. \A d \in Cells : tcb_cache[d] # k
    BY <1>1, <1>2, NotFound DEF IInv, Cached
  <2>5. /\ \A d \in Cells : tcb_cache'[d] = IF d = c THEN k ELSE tcb_cache[d]
        /\ Unique(tcb_cache') /\ Placed(tcb_cache')
    BY <1>2, <1>4, <2>1, <2>4, PutKeeps DEF IInv, Cached
  <2>6. /\ tcb' \in [Cells -> [fd : 0..MaxFd, rcvvar : Nat, sndvar : Nat,
                               sndbuf : Cells \cup {Null}, rcvbuf : Cells \cup {Null}]]
        /\ \A d \in Cells : tcb'[d] = IF d = c THEN new ELSE tcb[d]
    BY <1>4, <2>1, <2>3 DEF IInv, BlocksTyped
  <2>7. BlocksTyped'
    <3>1. tcb_cache' \in [Cells -> Keys \cup {0, ListenKey}]
      BY <1>4, <2>1 DEF IInv, BlocksTyped, CachePut
    <3> QED
      BY <1>1, <2>6, <3>1 DEF IInv, BlocksTyped
  <2>8. EventsTyped'
    <3>1. net2app' \in Seq(Keys)
      BY <2>1, EnqueueType DEF IInv, EventsTyped
    <3> QED
      BY <1>1, <3>1 DEF IInv, EventsTyped
  <2>9. Cached'
    <3>1. Blocks' = Blocks \cup {c}
      BY <1>4, <2>5 DEF Blocks
    <3>2. \A d \in Blocks : d \in Cells /\ d # c
      BY <1>2, <1>4 DEF Blocks
    <3>3. \A d \in Blocks : tcb[d].fd = 1 \/ <<tcb[d].fd, tcb_cache[d]>> \in Peers
      BY DEF IInv, Cached, BlocksAgree, ListenFd
    <3>4. \A d \in Blocks' : tcb'[d].fd = 1 \/ <<tcb'[d].fd, tcb_cache'[d]>> \in Peers'
      BY <1>4, <1>5, <2>3, <2>5, <2>6, <3>1, <3>2, <3>3
    <3>5. \A d \in Cells : tcb_cache'[d] = 0 => tcb'[d] = NoTcb
      BY <1>2, <2>5, <2>6 DEF IInv, Cached, BlocksAgree
    <3>6. \A d \in Cells : tcb_cache'[d] = ListenKey => tcb'[d] = [NoTcb EXCEPT !.fd = 1]
      BY <1>2, <2>5, <2>6 DEF IInv, Cached, BlocksAgree, ListenFd
    <3> QED
      BY <2>5, <3>4, <3>5, <3>6 DEF Cached, BlocksAgree, ListenFd
  <2>10. /\ OnlyAt(c, tcb_cache, tcb_cache', Sndbufs, Sndbufs')
         /\ OnlyAt(c, tcb_cache, tcb_cache', Rcvbufs, Rcvbufs')
         /\ OnlyAt(c, tcb_cache, tcb_cache', Rcvvars, Rcvvars')
         /\ OnlyAt(c, tcb_cache, tcb_cache', Sndvars, Sndvars')
    BY <2>5, <2>6 DEF OnlyAt, Sndbufs, Rcvbufs, Rcvvars, Sndvars
  <2>11. /\ Sndbufs'[c] = Null /\ Rcvbufs'[c] = Null
         /\ Rcvvars'[c] = Chunk(rcvvars_mp) /\ Sndvars'[c] = Chunk(sndvars_mp)
    BY <1>4, <2>3, <2>6 DEF Sndbufs, Rcvbufs, Rcvvars, Sndvars
  <2>12. tcb_cache[c] \notin Keys /\ tcb_cache'[c] \in Keys
    BY <1>2, <1>4, <2>5
  <2>13. Held(sndbuf_cache, Sndbufs', tcb_cache', Peers)
    BY <1>4, <1>9, <2>10, <2>11, <2>12, HeldAdd
  <2>14. Held(ringbuf_cache, Rcvbufs', tcb_cache', Peers)
    BY <1>4, <1>9, <2>10, <2>11, <2>12, HeldAdd
  <2>15. Taken(rcvvars_mp', Rcvvars', tcb_cache')
    BY <1>1, <1>4, <1>9, <2>1, <2>10, <2>11, <2>12, TakenAdd
  <2>16. Taken(sndvars_mp', Sndvars', tcb_cache')
    BY <1>4, <1>9, <1>11, <2>1, <2>10, <2>11, <2>12, TakenAdd
  <2>17. Stored'
    BY <1>1, <1>5, <2>13, <2>14, <2>15, <2>16
       DEF IInv, Stored, SndbufsHeld, RcvbufsHeld, RcvvarsTaken, SndvarsTaken
  <2> QED
    BY <1>5, <1>6, <1>7, <1>8, <2>7, <2>8, <2>9, <2>17 DEF IInv
<1> QED
  BY <1>10, <1>11

LEMMA ReleaseStep ==
  ASSUME IInv, NEW k \in Keys, Release(k)
  PROVE  IInv'
<1> DEFINE c == CacheSearch(tcb_cache, k)
<1>1. /\ c # Null
      /\ sndbuf_cache' = CacheRemove(sndbuf_cache, tcb[c].sndbuf)
      /\ ringbuf_cache' = CacheRemove(ringbuf_cache, tcb[c].rcvbuf)
      /\ rcvvars_mp' = FreeChunk(rcvvars_mp, tcb[c].rcvvar)
      /\ sndvars_mp' = FreeChunk(sndvars_mp, tcb[c].sndvar)
      /\ tcb_cache' = CacheRemove(tcb_cache, c)
      /\ tcb' = [tcb EXCEPT ![c] = NoTcb]
      /\ moved' = (moved \/ (writer # NoWriter /\ tcb[c].sndbuf = writer.buf))
      /\ UNCHANGED <<up, sockets, net2app, app2net, writer>>
  BY DEF Release
<1>2. /\ k \in Nat \ {0} /\ tcb_cache \in [Cells -> Nat] /\ sndbuf_cache \in [Cells -> Nat]
      /\ ringbuf_cache \in [Cells -> Nat] /\ ListenKey \notin Keys /\ 0 \notin Keys
      /\ 0 \in 0..MaxFd /\ ListenKey # 0 /\ k # ListenKey
  BY CacheTypes
<1>3. c \in Cells /\ tcb_cache[c] = k
  BY <1>1, <1>2, SearchResult
<1> HIDE DEF c
<1>4. up = {"net", "app"} /\ g_fd # 1
  BY <1>2, <1>3, Running
<1>5. SocketsTyped' /\ Socketed' /\ Fds' = Fds /\ Peers' = Peers
  BY <1>1, SocketsKept
<1>6. /\ tcb[c].sndbuf \in Cells \cup {Null} /\ tcb[c].rcvbuf \in Cells \cup {Null}
      /\ Sndbufs[c] = tcb[c].sndbuf /\ Rcvbufs[c] = tcb[c].rcvbuf
      /\ Rcvvars[c] = tcb[c].rcvvar /\ Sndvars[c] = tcb[c].sndvar
  BY <1>3, BlockType
<1>7. /\ \A d \in Cells : tcb_cache'[d] = IF d = c THEN 0 ELSE tcb_cache[d]
      /\ Unique(tcb_cache') /\ Placed(tcb_cache')
  BY <1>1, <1>2, <1>3, RemoveKeeps DEF IInv, Cached
<1>8. \A b \in Cells : sndbuf_cache'[b] = IF b = Sndbufs[c] THEN 0 ELSE sndbuf_cache[b]
  BY <1>1, <1>2, <1>6, RemoveKeeps
<1>9. \A b \in Cells : ringbuf_cache'[b] = IF b = Rcvbufs[c] THEN 0 ELSE ringbuf_cache[b]
  BY <1>1, <1>2, <1>6, RemoveKeeps
<1>10. \A d \in Cells : tcb'[d] = IF d = c THEN NoTcb ELSE tcb[d]
  BY <1>1, <1>3 DEF IInv, BlocksTyped
<1>11. BlocksTyped'
  <2>1. tcb_cache' \in [Cells -> Keys \cup {0, ListenKey}]
    BY <1>1 DEF IInv, BlocksTyped, CacheRemove
  <2>2. sndbuf_cache' \in [Cells -> 0..MaxFd] /\ ringbuf_cache' \in [Cells -> 0..MaxFd]
    BY <1>1, <1>2 DEF IInv, BlocksTyped, CacheRemove
  <2>3. NoTcb \in [fd : 0..MaxFd, rcvvar : Nat, sndvar : Nat,
                   sndbuf : Cells \cup {Null}, rcvbuf : Cells \cup {Null}]
    BY <1>2 DEF NoTcb
  <2>4. tcb' \in [Cells -> [fd : 0..MaxFd, rcvvar : Nat, sndvar : Nat,
                            sndbuf : Cells \cup {Null}, rcvbuf : Cells \cup {Null}]]
    BY <1>1, <2>3 DEF IInv, BlocksTyped
  <2> QED
    BY <1>1, <2>1, <2>2, <2>4 DEF IInv, BlocksTyped
<1>12. EventsTyped'
  BY <1>1 DEF IInv, EventsTyped
<1>13. Quiet'
  BY <1>1, <1>4 DEF IInv, Quiet, sockets
<1>14. Cached'
  <2>1. Blocks' = Blocks \ {c}
    BY <1>2, <1>3, <1>7 DEF Blocks
  <2>2. Blocks \subseteq Cells
    BY DEF Blocks
  <2>3. \A d \in Blocks : tcb[d].fd = 1 \/ <<tcb[d].fd, tcb_cache[d]>> \in Peers
    BY DEF IInv, Cached, BlocksAgree, ListenFd
  <2>4. \A d \in Blocks' : tcb'[d].fd = 1 \/ <<tcb'[d].fd, tcb_cache'[d]>> \in Peers'
    BY <1>5, <1>7, <1>10, <2>1, <2>2, <2>3
  <2>5. \A d \in Cells : tcb_cache'[d] = 0 => tcb'[d] = NoTcb
    BY <1>7, <1>10 DEF IInv, Cached, BlocksAgree
  <2>6. \A d \in Cells : tcb_cache'[d] = ListenKey => tcb'[d] = [NoTcb EXCEPT !.fd = 1]
    BY <1>2, <1>7, <1>10 DEF IInv, Cached, BlocksAgree, ListenFd
  <2> QED
    BY <1>7, <2>4, <2>5, <2>6 DEF Cached, BlocksAgree, ListenFd
<1>15. EventsAgree'
  BY <1>1, <1>5 DEF IInv, EventsAgree
<1>16. /\ Held(sndbuf_cache, Sndbufs, tcb_cache, Peers)
       /\ Held(ringbuf_cache, Rcvbufs, tcb_cache, Peers)
       /\ Taken(rcvvars_mp, Rcvvars, tcb_cache) /\ Taken(sndvars_mp, Sndvars, tcb_cache)
       /\ \A b \in Cells : sndbuf_cache[b] # ListenFd
  BY DEF IInv, Stored, SndbufsHeld, RcvbufsHeld, RcvvarsTaken, SndvarsTaken
<1>17. Stored'
  <2>1. /\ OnlyAt(c, tcb_cache, tcb_cache', Sndbufs, Sndbufs')
        /\ OnlyAt(c, tcb_cache, tcb_cache', Rcvbufs, Rcvbufs')
        /\ OnlyAt(c, tcb_cache, tcb_cache', Rcvvars, Rcvvars')
        /\ OnlyAt(c, tcb_cache, tcb_cache', Sndvars, Sndvars')
    BY <1>7, <1>10 DEF OnlyAt, Sndbufs, Rcvbufs, Rcvvars, Sndvars
  <2>2. tcb_cache[c] \in Keys /\ tcb_cache'[c] \notin Keys
    BY <1>2, <1>3, <1>7
  <2>3. Held(sndbuf_cache', Sndbufs', tcb_cache', Peers)
    BY <1>3, <1>8, <1>16, <2>1, <2>2, HeldRemove
  <2>4. Held(ringbuf_cache', Rcvbufs', tcb_cache', Peers)
    BY <1>3, <1>9, <1>16, <2>1, <2>2, HeldRemove
  <2>5. Taken(rcvvars_mp', Rcvvars', tcb_cache')
    BY <1>1, <1>3, <1>6, <1>16, <2>1, <2>2, TakenRemove
  <2>6. Taken(sndvars_mp', Sndvars', tcb_cache')
    BY <1>1, <1>3, <1>6, <1>16, <2>1, <2>2, TakenRemove
  <2>7. \A b \in Cells : sndbuf_cache'[b] # ListenFd
    BY <1>8, <1>16 DEF ListenFd
  <2> QED
    BY <1>5, <2>3, <2>4, <2>5, <2>6, <2>7
       DEF Stored, SndbufsHeld, RcvbufsHeld, RcvvarsTaken, SndvarsTaken
<1>18. WriteLands'
  <2> SUFFICES ASSUME writer' # NoWriter, ~moved'
               PROVE  sndbuf_cache'[writer'.buf] = writer'.fd
    BY DEF WriteLands
  <2>1. writer # NoWriter /\ writer' = writer /\ ~moved /\ tcb[c].sndbuf # writer.buf
    BY <1>1 DEF IInv, EventsTyped
  <2>2. sndbuf_cache[writer.buf] = writer.fd
    BY <2>1 DEF IInv, WriteLands
  <2>3. writer.buf \in Cells
    BY <2>1 DEF IInv, EventsTyped
  <2> QED
    BY <1>6, <1>8, <2>1, <2>2, <2>3
<1> QED
  BY <1>5, <1>11, <1>12, <1>13, <1>14, <1>15, <1>17, <1>18 DEF IInv

\* The descriptor of a peer.
LEMMA PeerFd ==
  ASSUME IInv, NEW fd, NEW k, <<fd, k>> \in Peers
  PROVE  fd \in Fds /\ fd \in Nat /\ fd > 1 /\ fd < g_fd /\ fd \in 0..MaxFd /\ so[fd] = k
<1>1. fd \in Fds /\ so[fd] = k
  BY DEF Peers
<1> QED
  BY <1>1, CacheTypes DEF Fds

LEMMA PayloadStep ==
  ASSUME IInv, NEW k \in Keys, Payload(k)
  PROVE  IInv'
<1> DEFINE c == CacheSearch(tcb_cache, k)
           fd == tcb[c].fd
           b == CacheGet(ringbuf_cache, fd)
<1>1. /\ c # Null /\ tcb[c].rcvbuf = Null /\ b # Null
      /\ ringbuf_cache' = CachePut(ringbuf_cache, b, fd)
      /\ tcb' = [tcb EXCEPT ![c].rcvbuf = b]
      /\ UNCHANGED <<up, tcb_cache, sndbuf_cache, pools, sockets, net2app, app2net, writer,
                     moved>>
  BY DEF Payload
<1>2. /\ k \in Nat \ {0} /\ tcb_cache \in [Cells -> Nat] /\ ringbuf_cache \in [Cells -> Nat]
      /\ ListenKey \notin Keys /\ 0 \notin Keys /\ 1 \in 0..MaxFd
  BY CacheTypes
<1>3. c \in Cells /\ tcb_cache[c] = k /\ c \in Blocks
  BY <1>1, <1>2, SearchResult DEF Blocks
<1> HIDE DEF c
<1>4. fd = 1 \/ <<fd, k>> \in Peers
  BY <1>3 DEF IInv, Cached, BlocksAgree, ListenFd
<1>5. fd \in Nat \ {0} /\ fd \in 0..MaxFd
  <2> HIDE DEF fd
  <2> QED
    BY <1>2, <1>4, PeerFd
<1> HIDE DEF fd
<1>6. b \in Cells /\ ringbuf_cache[b] = 0
  BY <1>1, <1>2, <1>5, GetResult
<1> HIDE DEF b
<1>7. up = {"net", "app"} /\ g_fd # 1
  BY <1>2, <1>3, Running
<1>8. SocketsTyped' /\ Socketed' /\ Fds' = Fds /\ Peers' = Peers
  BY <1>1, SocketsKept
<1>9. /\ ringbuf_cache' \in [Cells -> 0..MaxFd]
      /\ \A e \in Cells : ringbuf_cache'[e] = IF e = b THEN fd ELSE ringbuf_cache[e]
  BY <1>1, <1>5, <1>6 DEF IInv, BlocksTyped, CachePut
<1>10. /\ tcb' \in [Cells -> [fd : 0..MaxFd, rcvvar : Nat, sndvar : Nat,
                              sndbuf : Cells \cup {Null}, rcvbuf : Cells \cup {Null}]]
       /\ \A d \in Cells : tcb'[d] = IF d = c THEN [tcb[c] EXCEPT !.rcvbuf = b] ELSE tcb[d]
  BY <1>1, <1>3, <1>6 DEF IInv, BlocksTyped
<1>11. \A d \in Cells : /\ tcb'[d].fd = tcb[d].fd /\ tcb'[d].rcvvar = tcb[d].rcvvar
                        /\ tcb'[d].sndvar = tcb[d].sndvar /\ tcb'[d].sndbuf = tcb[d].sndbuf
                        /\ tcb'[d].rcvbuf = IF d = c THEN b ELSE tcb[d].rcvbuf
  BY <1>10, BlockType
<1>12. BlocksTyped'
  BY <1>1, <1>9, <1>10 DEF IInv, BlocksTyped
<1>13. EventsTyped'
  BY <1>1 DEF IInv, EventsTyped
<1>14. Quiet'
  BY <1>1, <1>7 DEF IInv, Quiet, sockets
<1>15. Cached'
  <2>1. Blocks' = Blocks /\ Blocks \subseteq Cells
    BY <1>1 DEF Blocks
  <2>2. \A d \in Blocks' : tcb'[d].fd = 1 \/ <<tcb'[d].fd, tcb_cache'[d]>> \in Peers'
    BY <1>1, <1>8, <1>11, <2>1 DEF IInv, Cached, BlocksAgree, ListenFd
  <2>3. \A d \in Cells : tcb_cache'[d] = 0 => tcb'[d] = NoTcb
    BY <1>1, <1>2, <1>3, <1>10 DEF IInv, Cached, BlocksAgree
  <2>4. \A d \in Cells : tcb_cache'[d] = ListenKey => tcb'[d] = [NoTcb EXCEPT !.fd = 1]
    BY <1>1, <1>2, <1>3, <1>10 DEF IInv, Cached, BlocksAgree, ListenFd
  <2> QED
    BY <1>1, <2>2, <2>3, <2>4 DEF IInv, Cached, BlocksAgree, ListenFd, Placed, Unique
<1>16. EventsAgree'
  BY <1>1, <1>8 DEF IInv, EventsAgree
<1>17. Stored'
  <2>1. Sndbufs' = Sndbufs /\ Rcvvars' = Rcvvars /\ Sndvars' = Sndvars
    BY <1>11 DEF Sndbufs, Rcvvars, Sndvars
  <2>2. OnlyAt(c, tcb_cache, tcb_cache, Rcvbufs, Rcvbufs')
    BY <1>11 DEF OnlyAt, Rcvbufs
  <2>3. Rcvbufs[c] = Null /\ Rcvbufs'[c] = b
    BY <1>1, <1>3, <1>11 DEF Rcvbufs
  <2>4. Held(ringbuf_cache, Rcvbufs, tcb_cache, Peers)
    BY DEF IInv, Stored, RcvbufsHeld
  <2>5. fd # 0 /\ (fd = ListenFd \/ <<fd, tcb_cache[c]>> \in Peers) /\ tcb_cache[c] \in Keys
    BY <1>3, <1>4, <1>5 DEF ListenFd
  <2>6. Held(ringbuf_cache', Rcvbufs', tcb_cache, Peers)
    BY <1>3, <1>6, <1>9, <2>2, <2>3, <2>4, <2>5, HeldTake
  <2> QED
    BY <1>1, <1>8, <2>1, <2>6
       DEF IInv, Stored, SndbufsHeld, RcvbufsHeld, RcvvarsTaken, SndvarsTaken, pools
<1>18. WriteLands'
  BY <1>1 DEF IInv, WriteLands
<1> QED
  BY <1>8, <1>12, <1>13, <1>14, <1>15, <1>16, <1>17, <1>18 DEF IInv

\* A CONNECT event binds the block of its peer to the descriptor, at the first
\* one the block also takes a send buffer.
LEMMA ConnectStep ==
  ASSUME IInv, ConnectHandler
  PROVE  IInv'
<1> DEFINE ev == Head(app2net)
           fd == ev.fd
           k == ev.key
           c == CacheSearch(tcb_cache, k)
           b == CacheGet(sndbuf_cache, fd)
           none == c = Null \/ CacheSearch(socket_cache, fd) = Null
           bind == tcb[c].sndbuf # Null \/ b = Null
<1>1. /\ app2net # << >> /\ app2net' = Tail(app2net)
      /\ UNCHANGED <<up, tcb_cache, ringbuf_cache, pools, sockets, net2app, writer, moved>>
      /\ none => UNCHANGED <<tcb, sndbuf_cache>>
      /\ ~none /\ bind => tcb' = [tcb EXCEPT ![c].fd = fd] /\ UNCHANGED sndbuf_cache
      /\ ~none /\ ~bind => /\ tcb' = [tcb EXCEPT ![c].fd = fd, ![c].sndbuf = b]
                           /\ sndbuf_cache' = CachePut(sndbuf_cache, b, fd)
  BY DEF ConnectHandler
<1>2. /\ app2net' \in Seq([fd : Nat, key : Keys]) /\ ev \in [fd : Nat, key : Keys]
      /\ 1 \in DOMAIN app2net /\ ev = app2net[1]
      /\ \A i \in DOMAIN app2net' : i + 1 \in DOMAIN app2net /\ app2net'[i] = app2net[i + 1]
  <2> DEFINE R == [fd : Nat, key : Keys]
  <2>1. app2net \in Seq(R)
    BY DEF IInv, EventsTyped
  <2> HIDE DEF R, ev
  <2>2. /\ app2net' \in Seq(R) /\ app2net[1] \in R /\ 1 \in DOMAIN app2net
        /\ Len(app2net) = Len(app2net') + 1 /\ Len(app2net') \in Nat
        /\ DOMAIN app2net = 1..Len(app2net) /\ DOMAIN app2net' = 1..Len(app2net')
        /\ \A i \in 1..Len(app2net') : app2net'[i] = app2net[i + 1]
    BY <1>1, <2>1, TailSeq
  <2>3. ev = app2net[1]
    BY <1>1, <2>1 DEF ev
  <2>4. \A i \in DOMAIN app2net' : i + 1 \in DOMAIN app2net /\ app2net'[i] = app2net[i + 1]
    BY <2>2
  <2> QED
    BY <2>2, <2>3, <2>4 DEF R
<1>3. k \in Keys /\ <<fd, k>> \in Peers
  BY <1>2 DEF IInv, EventsAgree
<1> HIDE DEF fd, k
<1>4. /\ k \in Nat \ {0} /\ tcb_cache \in [Cells -> Nat] /\ sndbuf_cache \in [Cells -> Nat]
      /\ ListenKey \notin Keys /\ 0 \notin Keys
  BY <1>3, CacheTypes
<1>5. fd \in Nat \ {0, 1} /\ fd \in 0..MaxFd
  BY <1>3, PeerFd
<1>6. c # Null => c \in Cells /\ tcb_cache[c] = k
  BY <1>4, SearchResult
<1>7. b # Null => b \in Cells /\ sndbuf_cache[b] = 0
  BY <1>4, <1>5, GetResult
<1>8. SocketsTyped' /\ Socketed' /\ Fds' = Fds /\ Peers' = Peers
  BY <1>1, SocketsKept
<1> HIDE DEF ev, c, b, none, bind
<1>9. EventsTyped'
  BY <1>1, <1>2 DEF IInv, EventsTyped
<1>10. EventsAgree'
  BY <1>2, <1>8 DEF IInv, EventsAgree
<1>11. CASE none
  <2>1. UNCHANGED <<tcb, sndbuf_cache>>
    BY <1>1, <1>11
  <2>2. BlocksTyped' /\ Quiet' /\ Cached' /\ WriteLands'
    <3>1. Blocks' = Blocks
      BY <1>1 DEF Blocks
    <3> QED
      BY <1>1, <1>8, <2>1, <3>1 DEF IInv, BlocksTyped, Quiet, Cached, WriteLands, Placed, Unique,
                               BlocksAgree, sockets
  <2>3. Stored'
    BY <1>1, <1>8, <2>1 DEF IInv, Stored, SndbufsHeld, RcvbufsHeld, RcvvarsTaken,
       SndvarsTaken, Sndbufs, Rcvbufs, Rcvvars, Sndvars, pools
  <2> QED
    BY <1>8, <1>9, <1>10, <2>2, <2>3 DEF IInv
<1>12. CASE ~none
  <2> DEFINE buf == IF bind THEN tcb[c].sndbuf ELSE b
  <2>1. c \in Cells /\ tcb_cache[c] = k /\ c # Null
    BY <1>6, <1>12 DEF none
  <2>2. ~bind => b \in Cells /\ sndbuf_cache[b] = 0 /\ tcb[c].sndbuf = Null
    BY <1>7 DEF bind
  <2>3. /\ tcb \in [Cells -> [fd : 0..MaxFd, rcvvar : Nat, sndvar : Nat,
                              sndbuf : Cells \cup {Null}, rcvbuf : Cells \cup {Null}]]
        /\ tcb[c].sndbuf \in Cells \cup {Null} /\ buf \in Cells \cup {Null}
    BY <2>1, <2>2 DEF IInv, BlocksTyped
  <2>4. /\ tcb' \in [Cells -> [fd : 0..MaxFd, rcvvar : Nat, sndvar : Nat,
                               sndbuf : Cells \cup {Null}, rcvbuf : Cells \cup {Null}]]
        /\ \A d \in Cells : d # c => tcb'[d] = tcb[d]
        /\ tcb'[c].fd = fd /\ tcb'[c].sndbuf = buf /\ tcb'[c].rcvbuf = tcb[c].rcvbuf
        /\ tcb'[c].rcvvar = tcb[c].rcvvar /\ tcb'[c].sndvar = tcb[c].sndvar
    <3>1. CASE bind
      <4>1. tcb' = [tcb EXCEPT ![c].fd = fd]
        BY <1>1, <1>12, <3>1
      <4> QED
        BY <1>5, <2>1, <2>3, <3>1, <4>1
    <3>2. CASE ~bind
      <4> DEFINE mid == [tcb EXCEPT ![c].fd = fd]
      <4>1. tcb' = [mid EXCEPT ![c].sndbuf = b]
        BY <1>1, <1>12, <3>2
      <4>2. /\ mid \in [Cells -> [fd : 0..MaxFd, rcvvar : Nat, sndvar : Nat,
                                 sndbuf : Cells \cup {Null}, rcvbuf : Cells \cup {Null}]]
            /\ \A d \in Cells : d # c => mid[d] = tcb[d]
            /\ mid[c].fd = fd /\ mid[c].rcvbuf = tcb[c].rcvbuf
            /\ mid[c].rcvvar = tcb[c].rcvvar /\ mid[c].sndvar = tcb[c].sndvar
        BY <1>5, <2>1, <2>3
      <4> HIDE DEF mid
      <4> QED
        BY <2>1, <2>2, <3>2, <4>1, <4>2
    <3> QED
      BY <3>1, <3>2
  <2>5. /\ sndbuf_cache' \in [Cells -> 0..MaxFd]
        /\ bind => sndbuf_cache' = sndbuf_cache
        /\ ~bind => \A e \in Cells : sndbuf_cache'[e] = IF e = b THEN fd ELSE sndbuf_cache[e]
    BY <1>1, <1>5, <1>12, <2>2 DEF IInv, BlocksTyped, CachePut
  <2> HIDE DEF buf
  <2>6. up = {"net", "app"} /\ g_fd # 1
    BY <1>4, <2>1, Running
  <2>7. BlocksTyped'
    BY <1>1, <2>4, <2>5 DEF IInv, BlocksTyped
  <2>8. Quiet'
    BY <1>1, <2>6 DEF IInv, Quiet, sockets
  <2>9. Cached'
    <3>1. Blocks' = Blocks /\ Blocks \subseteq Cells
      BY <1>1 DEF Blocks
    <3>2. \A d \in Blocks : tcb[d].fd = 1 \/ <<tcb[d].fd, tcb_cache[d]>> \in Peers
      BY DEF IInv, Cached, BlocksAgree, ListenFd
    <3>3. \A d \in Blocks' : tcb'[d].fd = 1 \/ <<tcb'[d].fd, tcb_cache'[d]>> \in Peers'
      BY <1>1, <1>3, <1>8, <2>1, <2>4, <3>1, <3>2
    <3>4. \A d \in Cells : tcb_cache'[d] = 0 => tcb'[d] = NoTcb
      BY <1>1, <1>4, <2>1, <2>4 DEF IInv, Cached, BlocksAgree
    <3>5. \A d \in Cells : tcb_cache'[d] = ListenKey => tcb'[d] = [NoTcb EXCEPT !.fd = 1]
      BY <1>1, <1>3, <1>4, <2>1, <2>4 DEF IInv, Cached, BlocksAgree, ListenFd
    <3> QED
      BY <1>1, <3>3, <3>4, <3>5 DEF IInv, Cached, BlocksAgree, ListenFd, Placed, Unique
  <2>10. Stored'
    <3>1. Rcvbufs' = Rcvbufs /\ Rcvvars' = Rcvvars /\ Sndvars' = Sndvars
      <4>1. \A d \in Cells : /\ tcb'[d].rcvbuf = tcb[d].rcvbuf /\ tcb'[d].rcvvar = tcb[d].rcvvar
                             /\ tcb'[d].sndvar = tcb[d].sndvar
        BY <2>4
      <4> QED
        BY <4>1 DEF Rcvbufs, Rcvvars, Sndvars
    <3>2. /\ Held(sndbuf_cache, Sndbufs, tcb_cache, Peers)
          /\ \A e \in Cells : sndbuf_cache[e] # ListenFd
      BY DEF IInv, Stored, SndbufsHeld
    <3>3. Held(sndbuf_cache', Sndbufs', tcb_cache, Peers)
      <4>1. CASE bind
        <5>1. \A d \in Cells : tcb'[d].sndbuf = tcb[d].sndbuf
          BY <2>4, <4>1 DEF buf
        <5>2. Sndbufs' = Sndbufs
          BY <5>1 DEF Sndbufs
        <5> QED
          BY <2>5, <3>2, <4>1, <5>2
      <4>2. CASE ~bind
        <5>1. OnlyAt(c, tcb_cache, tcb_cache, Sndbufs, Sndbufs')
          BY <2>4 DEF OnlyAt, Sndbufs
        <5>2. Sndbufs[c] = Null /\ Sndbufs'[c] = b
          BY <2>1, <2>2, <2>4, <4>2 DEF Sndbufs, buf
        <5>3. fd # 0 /\ <<fd, tcb_cache[c]>> \in Peers /\ tcb_cache[c] \in Keys
          BY <1>3, <1>5, <2>1
        <5> QED
          BY <2>1, <2>2, <2>5, <3>2, <4>2, <5>1, <5>2, <5>3, HeldTake
      <4> QED
        BY <4>1, <4>2
    <3>4. \A e \in Cells : sndbuf_cache'[e] # ListenFd
      BY <1>5, <2>5, <3>2 DEF ListenFd
    <3> QED
      BY <1>1, <1>8, <3>1, <3>3, <3>4
         DEF IInv, Stored, SndbufsHeld, RcvbufsHeld, RcvvarsTaken, SndvarsTaken, pools
  <2>11. WriteLands'
    <3> SUFFICES ASSUME writer' # NoWriter, ~moved'
                 PROVE  sndbuf_cache'[writer'.buf] = writer'.fd
      BY DEF WriteLands
    <3>1. writer.buf \in Cells /\ writer.fd # 0 /\ writer' = writer /\ ~moved
      BY <1>1 DEF IInv, EventsTyped
    <3>2. sndbuf_cache[writer.buf] = writer.fd
      BY <1>1, <3>1 DEF IInv, WriteLands
    <3> QED
      BY <2>2, <2>5, <3>1, <3>2
  <2> QED
    BY <1>8, <1>9, <1>10, <2>7, <2>8, <2>9, <2>10, <2>11 DEF IInv
<1> QED
  BY <1>11, <1>12

\* What the backlog is after a descriptor is put in, or the head moves.
LEMMA BacklogUpdate ==
  ASSUME NEW C, NEW H, NEW T, NEW bl \in [connq : C, head : H, tail : T],
         NEW q, NEW t, NEW h
  PROVE  /\ LET new == [bl EXCEPT !.connq = q, !.tail = t]
            IN new = [connq |-> q, head |-> bl.head, tail |-> t]
         /\ LET new == [bl EXCEPT !.head = h]
            IN new = [connq |-> bl.connq, head |-> h, tail |-> bl.tail]
<1>1. [bl EXCEPT !.connq = q, !.tail = t] = [[bl EXCEPT !.connq = q] EXCEPT !.tail = t]
  OBVIOUS
<1>2. [bl EXCEPT !.connq = q] = [connq |-> q, head |-> bl.head, tail |-> bl.tail]
  OBVIOUS
<1>3. [[bl EXCEPT !.connq = q] EXCEPT !.tail = t]
        = [connq |-> q, head |-> bl.head, tail |-> t]
  <2> DEFINE h0 == bl.head
             t0 == bl.tail
  <2>1. [bl EXCEPT !.connq = q] = [connq |-> q, head |-> h0, tail |-> t0]
    BY <1>2
  <2> HIDE DEF h0, t0
  <2>2. [[connq |-> q, head |-> h0, tail |-> t0] EXCEPT !.tail = t]
          = [connq |-> q, head |-> h0, tail |-> t]
    OBVIOUS
  <2> QED
    BY <2>1, <2>2 DEF h0
<1>4. [bl EXCEPT !.head = h] = [connq |-> bl.connq, head |-> h, tail |-> bl.tail]
  OBVIOUS
<1> QED
  BY <1>1, <1>3, <1>4

LEMMA NewconnStep ==
  ASSUME IInv, AcceptNewconn
  PROVE  IInv'
<1> DEFINE k == Head(net2app)
           c == CacheGet(socket_cache, g_fd)
           v == IF c = Null THEN 0 ELSE k
           t == backlog.tail + 1
           t2 == IF t > BacklogSize THEN t - BacklogSize ELSE t
           q2 == [backlog.connq EXCEPT ![backlog.tail] = g_fd]
<1>1. /\ net2app # << >> /\ g_fd <= MaxFd /\ g_fd' = g_fd + 1
      /\ so' = Append(so, v) /\ net2app' = Tail(net2app)
      /\ c = Null => UNCHANGED <<socket_cache, backlog>>
      /\ c # Null => /\ socket_cache' = CachePut(socket_cache, c, g_fd)
                     /\ backlog' = [backlog EXCEPT !.connq = q2, !.tail = t2]
      /\ UNCHANGED <<up, caches, tcb, pools, app2net, writer, again, returned, moved>>
  BY DEF AcceptNewconn
<1>2. /\ g_fd \in Nat \ {0} /\ socket_cache \in [Cells -> Nat] /\ MaxFd \in Nat
      /\ BacklogSize \in Nat \ {0} /\ g_fd # 1 /\ g_fd > 1 /\ 0 \notin Keys
  <2>1. g_fd # 1
    BY <1>1 DEF IInv, Quiet
  <2> QED
    BY <2>1, CacheTypes, KeyAssumption
<1>3. k \in Keys /\ net2app' \in Seq(Keys)
  <2>1. net2app \in Seq(Keys)
    BY DEF IInv, EventsTyped
  <2> QED
    BY <1>1, <2>1
<1>4. c # Null => /\ c \in Cells /\ socket_cache[c] = 0
                  /\ \E i \in Rows : c = Cell(g_fd, i)
  BY <1>2, GetResult
<1> HIDE DEF k, c
<1>5. /\ so' \in Seq(Keys \cup {0, ListenKey}) /\ Len(so') = g_fd
      /\ so'[g_fd] = v /\ \A fd \in 1..(g_fd - 1) : so'[fd] = so[fd]
  <2>1. so \in Seq(Keys \cup {0, ListenKey}) /\ Len(so) = g_fd - 1
    BY DEF IInv, SocketsTyped
  <2>2. v \in Keys \cup {0, ListenKey}
    BY <1>3
  <2> HIDE DEF v
  <2> QED
    BY <1>1, <1>2, <2>1, <2>2
<1>6. /\ backlog.head \in 0..(BacklogSize - 1) /\ backlog.tail \in 0..BacklogSize
      /\ backlog.connq \in [0..BacklogSize -> Nat]
      /\ backlog = [connq |-> backlog.connq, head |-> backlog.head, tail |-> backlog.tail]
  BY DEF IInv, SocketsTyped
<1>7. c # Null => backlog' = [connq |-> q2, head |-> backlog.head, tail |-> t2]
  <2>1. backlog \in [connq : [0..BacklogSize -> Nat], head : 0..(BacklogSize - 1),
                     tail : 0..BacklogSize]
    BY <1>6
  <2> HIDE DEF q2, t2
  <2> QED
    BY <1>1, <2>1, BacklogUpdate
<1>8. t2 \in 0..BacklogSize /\ q2 \in [0..BacklogSize -> Nat]
  BY <1>2, <1>6
<1>9. \A j \in 0..BacklogSize :
        q2[j] = IF j = backlog.tail THEN g_fd ELSE backlog.connq[j]
  BY <1>6
<1>10. t2 = IF backlog.tail = BacklogSize THEN 1 ELSE backlog.tail + 1
  BY <1>2, <1>6
<1> HIDE DEF q2, t2, v
<1>11. /\ backlog'.head = backlog.head
       /\ c = Null => backlog'.connq = backlog.connq /\ backlog'.tail = backlog.tail
       /\ c # Null => backlog'.connq = q2 /\ backlog'.tail = t2
  BY <1>1, <1>7
<1>12. Fds' = Fds \cup {g_fd} /\ Fds \subseteq 1..(g_fd - 1) /\ g_fd \notin Fds
  BY <1>1, <1>2 DEF Fds
<1>13. Peers \subseteq Peers'
  BY <1>5, <1>12 DEF Peers
<1>14. BlocksTyped'
  BY <1>1 DEF IInv, BlocksTyped, caches
<1>15. EventsTyped'
  BY <1>1, <1>3 DEF IInv, EventsTyped
<1>16. Quiet'
  <2>1. g_fd' # 1 /\ "app" \in up
    BY <1>1, <1>2 DEF IInv, Quiet
  <2> QED
    BY <1>1, <2>1 DEF IInv, Quiet, caches
<1>17. \A d \in Cells : socket_cache[d] < g_fd /\ socket_cache[d] # g_fd
  BY <1>2 DEF IInv, Socketed, SocketsPlaced
<1>18. c # Null => /\ Unique(socket_cache')
                   /\ \A d \in Cells : socket_cache'[d] = IF d = c THEN g_fd ELSE socket_cache[d]
  BY <1>1, <1>2, <1>4, <1>17, PutKeeps DEF IInv, Socketed
<1>19. SocketsTyped'
  <2>1. socket_cache' \in [Cells -> 0..MaxFd]
    <3>1. g_fd \in 0..MaxFd
      BY <1>1, <1>2
    <3> QED
      BY <1>1, <1>4, <3>1 DEF IInv, SocketsTyped, CachePut
  <2>2. g_fd' \in 1..(MaxFd + 1) /\ Len(so') = g_fd' - 1
    BY <1>1, <1>2, <1>5
  <2>3. backlog' = [connq |-> backlog'.connq, head |-> backlog'.head, tail |-> backlog'.tail]
    <3>1. CASE c = Null
      BY <1>1, <1>6, <3>1
    <3>2. CASE c # Null
      BY <1>7, <3>2
    <3> QED
      BY <3>1, <3>2
  <2>4. /\ backlog'.head \in 0..(BacklogSize - 1) /\ backlog'.tail \in 0..BacklogSize
        /\ backlog'.connq \in [0..BacklogSize -> Nat]
    BY <1>6, <1>8, <1>11
  <2>5. again' \in BOOLEAN /\ returned' \subseteq Fds'
    BY <1>1, <1>12 DEF IInv, SocketsTyped
  <2> QED
    BY <1>5, <2>1, <2>2, <2>3, <2>4, <2>5 DEF SocketsTyped
<1>20. SocketsPlaced'
  <2>1. \A d \in Cells : socket_cache'[d] < g_fd'
    <3>1. CASE c = Null
      <4>1. \A d \in Cells : socket_cache[d] \in Nat /\ socket_cache[d] < g_fd
        BY <1>2, <1>17
      <4> QED
        BY <1>1, <1>2, <3>1, <4>1
    <3>2. CASE c # Null
      <4>1. \A d \in Cells : socket_cache[d] \in Nat /\ socket_cache[d] < g_fd
        BY <1>2, <1>17
      <4> QED
        BY <1>1, <1>2, <1>18, <3>2, <4>1
    <3> QED
      BY <3>1, <3>2
  <2>2. ASSUME NetFirst, NEW fd \in 1..(g_fd' - 1), so'[fd] # 0
        PROVE  \E i \in Rows : socket_cache'[Cell(fd, i)] = fd
    <3>1. CASE fd = g_fd
      <4>1. c # Null
        BY <1>5, <2>2, <3>1 DEF v
      <4> QED
        BY <1>4, <1>18, <3>1, <4>1
    <3>2. CASE fd # g_fd
      <4>1. fd \in 1..(g_fd - 1) /\ fd \in Nat \ {0}
        BY <1>1, <1>2, <3>2
      <4>2. so[fd] # 0
        BY <1>5, <2>2, <4>1
      <4>3. PICK i \in Rows : socket_cache[Cell(fd, i)] = fd
        BY <2>2, <4>1, <4>2 DEF IInv, Socketed, SocketsPlaced
      <4>4. Cell(fd, i) \in Cells
        BY <4>1, CellType
      <4>5. socket_cache'[Cell(fd, i)] = fd
        BY <1>1, <1>4, <1>18, <4>1, <4>3, <4>4
      <4> QED
        BY <4>5
    <3> QED
      BY <3>1, <3>2
  <2> QED
    BY <2>1, <2>2 DEF SocketsPlaced
<1>21. \A j \in 0..BacklogSize :
         backlog.connq[j] # 0 => backlog.connq[j] \in Fds /\ so[backlog.connq[j]] \in Keys
  BY DEF IInv, Socketed, BacklogAgrees
<1>22. BacklogAgrees'
  <2> SUFFICES ASSUME NEW j \in 0..BacklogSize, backlog'.connq[j] # 0
               PROVE  backlog'.connq[j] \in Fds' /\ so'[backlog'.connq[j]] \in Keys
    BY DEF BacklogAgrees
  <2>1. CASE c # Null /\ j = backlog.tail
    <3>1. backlog'.connq[j] = g_fd
      BY <1>9, <1>11, <2>1
    <3>2. so'[g_fd] \in Keys
      BY <1>3, <1>5, <2>1 DEF v
    <3> QED
      BY <1>12, <3>1, <3>2
  <2>2. CASE ~(c # Null /\ j = backlog.tail)
    <3>1. backlog'.connq[j] = backlog.connq[j]
      BY <1>9, <1>11, <2>2
    <3> QED
      BY <1>5, <1>12, <1>21, <3>1
  <2> QED
    BY <2>1, <2>2
<1>23. Ordered'
  <2>6. g_fd' # 1
    BY <1>1, <1>2
  <2> SUFFICES ASSUME g_fd' - 2 < BacklogSize
               PROVE  /\ ~again' /\ backlog'.head <= backlog'.tail
                      /\ backlog'.tail <= g_fd' - 2
                      /\ \A i, j \in 0..(backlog'.tail - 1) :
                           i < j => backlog'.connq[i] < backlog'.connq[j]
                      /\ \A fd \in returned' :
                           \E i \in 0..(backlog'.head - 1) : backlog'.connq[i] = fd
                      /\ \A i \in 0..(backlog'.head - 1) : backlog'.connq[i] \in returned'
                      /\ \A fd \in 2..(g_fd' - 1) : so'[fd] # 0 =>
                           \E i \in 0..(backlog'.tail - 1) : backlog'.connq[i] = fd
    BY <2>6 DEF Ordered
  <2>1. g_fd - 2 < BacklogSize
    BY <1>1, <1>2
  <2>2. /\ ~again /\ backlog.head <= backlog.tail /\ backlog.tail <= g_fd - 2
        /\ \A i, j \in 0..(backlog.tail - 1) : i < j => backlog.connq[i] < backlog.connq[j]
        /\ \A fd \in returned : \E i \in 0..(backlog.head - 1) : backlog.connq[i] = fd
        /\ \A i \in 0..(backlog.head - 1) : backlog.connq[i] \in returned
        /\ \A fd \in 2..(g_fd - 1) :
             so[fd] # 0 => \E i \in 0..(backlog.tail - 1) : backlog.connq[i] = fd
    BY <1>2, <2>1 DEF IInv, Socketed, Ordered
  <2>5. \A fd \in 2..(g_fd' - 1) : fd = g_fd \/ (fd \in 2..(g_fd - 1) /\ so'[fd] = so[fd])
    BY <1>1, <1>2, <1>5
  <2>3. CASE c = Null
    <3>1. /\ ~again' /\ backlog'.head <= backlog'.tail /\ backlog'.tail <= g_fd' - 2
          /\ \A i, j \in 0..(backlog'.tail - 1) :
               i < j => backlog'.connq[i] < backlog'.connq[j]
      BY <1>1, <1>2, <1>6, <1>11, <2>2, <2>3
    <3>2. so'[g_fd] = 0
      BY <1>5, <2>3 DEF v
    <3>3. \A fd \in 2..(g_fd' - 1) : so'[fd] # 0 =>
            \E i \in 0..(backlog'.tail - 1) : backlog'.connq[i] = fd
      BY <1>11, <2>2, <2>3, <2>5, <3>2
    <3>4. returned' = returned /\ backlog'.head = backlog.head /\ backlog'.connq = backlog.connq
      BY <1>1, <1>11, <2>3
    <3> QED
      BY <2>2, <3>1, <3>3, <3>4
  <2>4. CASE c # Null
    <3>1. backlog.tail # BacklogSize /\ backlog'.tail = backlog.tail + 1
      BY <1>1, <1>2, <1>6, <1>10, <1>11, <2>2, <2>4
    <3>2. backlog'.head <= backlog'.tail /\ backlog'.tail <= g_fd' - 2
      BY <1>1, <1>2, <1>6, <1>11, <2>2, <3>1
    <3>3. \A i \in 0..(backlog.tail - 1) : i \in 0..BacklogSize /\ i # backlog.tail
      BY <1>2, <1>6
    <3>4. \A i \in 0..(backlog.tail - 1) : backlog'.connq[i] = backlog.connq[i]
      BY <1>9, <1>11, <2>4, <3>3
    <3>5. backlog'.connq[backlog.tail] = g_fd
      BY <1>6, <1>9, <1>11, <2>4
    <3>6. \A i \in 0..(backlog.tail - 1) : backlog.connq[i] < g_fd
      <4>1. \A x \in Fds : x < g_fd
        BY <1>2, <1>12
      <4> QED
        BY <1>2, <1>21, <3>3, <4>1
    <3>7. ASSUME NEW i \in 0..(backlog'.tail - 1), NEW j \in 0..(backlog'.tail - 1), i < j
          PROVE  backlog'.connq[i] < backlog'.connq[j]
      <4>1. i \in 0..(backlog.tail - 1) /\ (j \in 0..(backlog.tail - 1) \/ j = backlog.tail)
        BY <1>6, <3>1, <3>7
      <4> QED
        BY <2>2, <3>4, <3>5, <3>6, <3>7, <4>1
    <3>8. \A i \in 0..(backlog.head - 1) : i \in 0..(backlog.tail - 1)
      BY <1>6, <2>2
    <3>9. \A fd \in returned' : \E i \in 0..(backlog'.head - 1) : backlog'.connq[i] = fd
      BY <1>1, <1>11, <2>2, <3>4, <3>8
    <3>10. \A i \in 0..(backlog'.head - 1) : backlog'.connq[i] \in returned'
      BY <1>1, <1>11, <2>2, <3>4, <3>8
    <3>11. /\ backlog.tail \in 0..(backlog'.tail - 1)
           /\ \A i \in 0..(backlog.tail - 1) : i \in 0..(backlog'.tail - 1)
      BY <1>6, <3>1
    <3>12. \A fd \in 2..(g_fd' - 1) : so'[fd] # 0 =>
             \E i \in 0..(backlog'.tail - 1) : backlog'.connq[i] = fd
      BY <2>2, <2>5, <3>4, <3>5, <3>11
    <3> QED
      BY <1>1, <2>2, <3>2, <3>7, <3>9, <3>10, <3>12
  <2> QED
    BY <2>3, <2>4
<1>24. Written'
  <2>1. CASE c = Null
    BY <1>1, <2>1 DEF IInv, Socketed, Written
  <2>2. CASE c # Null
    <3>1. CASE \A j \in 0..(BacklogSize - 1) : backlog.connq[j] # 0
      <4>1. \A j \in 0..(BacklogSize - 1) : j \in 0..BacklogSize
        BY <1>2
      <4>2. \A j \in 0..(BacklogSize - 1) : backlog'.connq[j] # 0
        BY <1>2, <1>9, <1>11, <2>2, <3>1, <4>1
      <4> QED
        BY <4>2 DEF Written
    <3>2. CASE /\ backlog.head <= backlog.tail /\ backlog.tail # BacklogSize
               /\ \A j \in 0..(backlog.tail - 1) : backlog.connq[j] # 0
      <4>1. backlog'.tail = backlog.tail + 1 /\ backlog'.head = backlog.head
        BY <1>10, <1>11, <2>2, <3>2
      <4>2. backlog'.head <= backlog'.tail
        BY <1>6, <3>2, <4>1
      <4>3. \A j \in 0..(backlog'.tail - 1) :
              j \in 0..BacklogSize /\ (j = backlog.tail \/ j \in 0..(backlog.tail - 1))
        BY <1>2, <1>6, <4>1
      <4>4. \A j \in 0..(backlog'.tail - 1) : backlog'.connq[j] # 0
        BY <1>2, <1>9, <1>11, <2>2, <3>2, <4>3
      <4> QED
        BY <4>2, <4>4 DEF Written
    <3> QED
      BY <3>1, <3>2 DEF IInv, Socketed, Written
  <2> QED
    BY <2>1, <2>2
<1>25. Socketed'
  <2>1. Unique(socket_cache')
    <3>1. CASE c = Null
      BY <1>1, <3>1 DEF IInv, Socketed
    <3> QED
      BY <1>18, <3>1
  <2> QED
    BY <2>1, <1>20, <1>22, <1>23, <1>24 DEF Socketed
<1>26. Cached'
  <2>1. Blocks' = Blocks
    BY <1>1 DEF Blocks, caches
  <2> QED
    BY <1>1, <1>13, <2>1 DEF IInv, Cached, Placed, Unique, BlocksAgree, caches
<1>27. EventsAgree'
  BY <1>1, <1>13 DEF IInv, EventsAgree
<1>28. Stored'
  <2>1. /\ Sndbufs' = Sndbufs /\ Rcvbufs' = Rcvbufs /\ Rcvvars' = Rcvvars
        /\ Sndvars' = Sndvars
    BY <1>1 DEF Sndbufs, Rcvbufs, Rcvvars, Sndvars
  <2>2. Held(sndbuf_cache, Sndbufs, tcb_cache, Peers')
    BY <1>13, HeldGrow DEF IInv, Stored, SndbufsHeld
  <2>3. Held(ringbuf_cache, Rcvbufs, tcb_cache, Peers')
    BY <1>13, HeldGrow DEF IInv, Stored, RcvbufsHeld
  <2> QED
    BY <1>1, <2>1, <2>2, <2>3 DEF IInv, Stored, SndbufsHeld, RcvbufsHeld, RcvvarsTaken,
       SndvarsTaken, pools, caches
<1>29. WriteLands'
  BY <1>1 DEF IInv, WriteLands, caches
<1> QED
  BY <1>14, <1>15, <1>16, <1>19, <1>25, <1>26, <1>27, <1>28, <1>29 DEF IInv

LEMMA AcceptStep ==
  ASSUME IInv, Accept
  PROVE  IInv'
<1> DEFINE head == backlog.head
           tail == backlog.tail
           connq == backlog.connq
           fd == connq[head]
           h == head + 1
           h2 == IF h >= BacklogSize THEN h - BacklogSize ELSE h
           ev == [fd |-> fd, key |-> so[fd]]
<1>1. /\ head # tail /\ backlog' = [backlog EXCEPT !.head = h2]
      /\ app2net' = app2net \/ app2net' = Enqueue(app2net, ev)
      /\ again' = (again \/ fd \in returned) /\ returned' = returned \cup {fd}
      /\ UNCHANGED <<up, caches, tcb, pools, socket_cache, so, g_fd, net2app, writer, moved>>
  BY DEF Accept
<1>2. /\ head \in 0..(BacklogSize - 1) /\ tail \in 0..BacklogSize
      /\ connq \in [0..BacklogSize -> Nat]
      /\ backlog = [connq |-> connq, head |-> head, tail |-> tail]
  BY DEF IInv, SocketsTyped
<1>3. BacklogSize \in Nat \ {0} /\ g_fd \in Nat \ {0}
  BY CacheTypes, KeyAssumption
<1>4. /\ \A j \in 0..BacklogSize : connq[j] # 0 => connq[j] \in Fds /\ so[connq[j]] \in Keys
      /\ \/ \A j \in 0..(BacklogSize - 1) : connq[j] # 0
         \/ head <= tail /\ \A j \in 0..(tail - 1) : connq[j] # 0
  BY DEF IInv, Socketed, BacklogAgrees, Written
<1>5. backlog' = [connq |-> connq, head |-> h2, tail |-> tail]
  <2>1. backlog \in [connq : [0..BacklogSize -> Nat], head : 0..(BacklogSize - 1),
                     tail : 0..BacklogSize]
    BY <1>2
  <2> HIDE DEF h2
  <2> QED
    BY <1>1, <2>1, BacklogUpdate
<1>6. h2 = (IF head = BacklogSize - 1 THEN 0 ELSE head + 1) /\ h2 \in 0..(BacklogSize - 1)
  BY <1>2, <1>3
<1> HIDE DEF head, tail, connq, h2
<1>7. backlog'.connq = connq /\ backlog'.head = h2 /\ backlog'.tail = tail
  BY <1>5
<1>8. fd # 0
  <2>1. head \in 0..(BacklogSize - 1) /\ (head <= tail => head \in 0..(tail - 1))
    BY <1>1, <1>2, <1>3
  <2> QED
    BY <1>4, <2>1
<1>9. fd \in Fds /\ so[fd] \in Keys /\ fd \in Nat
  <2>1. head \in 0..BacklogSize
    BY <1>2, <1>3
  <2> QED
    BY <1>2, <1>4, <1>8, <2>1
<1>10. <<fd, so[fd]>> \in Peers
  BY <1>9 DEF Peers
<1> HIDE DEF fd
<1>11. Fds' = Fds /\ Peers' = Peers
  BY <1>1 DEF Fds, Peers
<1>12. BlocksTyped'
  BY <1>1 DEF IInv, BlocksTyped, caches
<1>13. SocketsTyped'
  <2>1. again' \in BOOLEAN /\ returned' \subseteq Fds'
    BY <1>1, <1>9, <1>11 DEF IInv, SocketsTyped
  <2>2. /\ backlog'.head \in 0..(BacklogSize - 1) /\ backlog'.tail \in 0..BacklogSize
        /\ backlog'.connq \in [0..BacklogSize -> Nat]
        /\ backlog' = [connq |-> backlog'.connq, head |-> backlog'.head,
                       tail |-> backlog'.tail]
    BY <1>2, <1>5, <1>6, <1>7
  <2> QED
    BY <1>1, <2>1, <2>2 DEF IInv, SocketsTyped
<1>14. /\ ev \in [fd : Nat, key : Keys] /\ ev.fd = fd /\ ev.key = so[fd]
       /\ app2net \in Seq([fd : Nat, key : Keys])
  BY <1>9 DEF IInv, EventsTyped
<1> HIDE DEF ev
<1>15. EventsTyped'
  <2> DEFINE R == [fd : Nat, key : Keys]
  <2>1. app2net' \in Seq(R)
    <3>1. ev \in R /\ app2net \in Seq(R)
      BY <1>14
    <3> HIDE DEF R
    <3> QED
      BY <1>1, <3>1, EnqueueType
  <2> QED
    BY <1>1, <2>1 DEF IInv, EventsTyped
<1>16. EventsAgree'
  <2>1. \A i \in DOMAIN app2net' : (i \in DOMAIN app2net /\ app2net'[i] = app2net[i])
                                   \/ app2net'[i] = ev
    <3> DEFINE R == [fd : Nat, key : Keys]
    <3>1. ev \in R /\ app2net \in Seq(R)
      BY <1>14
    <3> HIDE DEF R
    <3>2. \A i \in DOMAIN Enqueue(app2net, ev) :
            (i \in DOMAIN app2net /\ Enqueue(app2net, ev)[i] = app2net[i])
            \/ Enqueue(app2net, ev)[i] = ev
      BY <3>1, EnqueueType
    <3> QED
      BY <1>1, <3>2
  <2> QED
    BY <1>10, <1>11, <1>14, <2>1 DEF IInv, EventsAgree
<1>17. Quiet'
  BY <1>1 DEF IInv, Quiet, caches
<1>18. Cached'
  <2>1. Blocks' = Blocks
    BY <1>1 DEF Blocks, caches
  <2> QED
    BY <1>1, <1>11, <2>1 DEF IInv, Cached, Placed, Unique, BlocksAgree, caches
<1>19. Ordered'
  <2> SUFFICES ASSUME g_fd - 2 < BacklogSize
               PROVE  /\ ~again' /\ h2 <= tail /\ tail <= (IF g_fd = 1 THEN 0 ELSE g_fd - 2)
                      /\ \A i, j \in 0..(tail - 1) : i < j => connq[i] < connq[j]
                      /\ \A x \in returned' : \E i \in 0..(h2 - 1) : connq[i] = x
                      /\ \A i \in 0..(h2 - 1) : connq[i] \in returned'
                      /\ \A x \in 2..(g_fd - 1) :
                           so[x] # 0 => \E i \in 0..(tail - 1) : connq[i] = x
    BY <1>1, <1>7 DEF Ordered
  <2>1. /\ ~again /\ head <= tail /\ tail <= (IF g_fd = 1 THEN 0 ELSE g_fd - 2)
        /\ \A i, j \in 0..(tail - 1) : i < j => connq[i] < connq[j]
        /\ \A x \in returned : \E i \in 0..(head - 1) : connq[i] = x
        /\ \A i \in 0..(head - 1) : connq[i] \in returned
        /\ \A x \in 2..(g_fd - 1) : so[x] # 0 => \E i \in 0..(tail - 1) : connq[i] = x
    BY DEF IInv, Socketed, Ordered, head, tail, connq
  <2>2. head < tail /\ tail < BacklogSize /\ h2 = head + 1
    BY <1>1, <1>2, <1>3, <1>6, <2>1
  <2>3. fd \notin returned
    <3> SUFFICES ASSUME fd \in returned PROVE FALSE
      OBVIOUS
    <3>1. PICK i \in 0..(head - 1) : connq[i] = fd
      BY <2>1
    <3>2. i \in 0..(tail - 1) /\ head \in 0..(tail - 1) /\ i < head
      BY <1>2, <2>2
    <3>3. connq[i] < connq[head] /\ connq[i] = connq[head]
      BY <2>1, <3>1, <3>2 DEF fd
    <3>4. head \in 0..BacklogSize
      BY <1>2, <1>3
    <3>5. connq[head] \in Nat
      BY <1>2, <3>4
    <3> QED
      BY <3>3, <3>5
  <2>4. ~again'
    BY <1>1, <2>1, <2>3
  <2>5. h2 <= tail
    BY <1>2, <2>2
  <2>6. head \in 0..(h2 - 1) /\ \A i \in 0..(head - 1) : i \in 0..(h2 - 1)
    BY <1>2, <2>2
  <2>7. \A x \in returned' : \E i \in 0..(h2 - 1) : connq[i] = x
    BY <1>1, <2>1, <2>6 DEF fd
  <2>8. \A i \in 0..(h2 - 1) : i = head \/ i \in 0..(head - 1)
    BY <1>2, <2>2
  <2>9. \A i \in 0..(h2 - 1) : connq[i] \in returned'
    BY <1>1, <2>1, <2>8 DEF fd
  <2> QED
    BY <2>1, <2>4, <2>5, <2>7, <2>9
<1>20. Written'
  <2>1. CASE \A j \in 0..(BacklogSize - 1) : connq[j] # 0
    BY <1>7, <2>1 DEF Written
  <2>2. CASE head <= tail /\ \A j \in 0..(tail - 1) : connq[j] # 0
    <3>1. CASE head = BacklogSize - 1
      <4>1. tail = BacklogSize
        BY <1>1, <1>2, <1>3, <2>2, <3>1
      <4> QED
        BY <1>7, <2>2, <4>1 DEF Written
    <3>2. CASE head # BacklogSize - 1
      <4>1. h2 <= tail
        BY <1>1, <1>2, <1>3, <1>6, <2>2, <3>2
      <4> QED
        BY <1>7, <2>2, <4>1 DEF Written
    <3> QED
      BY <3>1, <3>2
  <2> QED
    BY <1>4, <2>1, <2>2
<1>21. Socketed'
  <2>1. BacklogAgrees'
    BY <1>1, <1>4, <1>7, <1>11 DEF BacklogAgrees
  <2> QED
    BY <1>1, <1>19, <1>20, <2>1 DEF IInv, Socketed, Unique, SocketsPlaced
<1>22. Stored'
  BY <1>1, <1>11 DEF IInv, Stored, SndbufsHeld, RcvbufsHeld, RcvvarsTaken,
     SndvarsTaken, Sndbufs, Rcvbufs, Rcvvars, Sndvars, pools, caches
<1>23. WriteLands'
  BY <1>1 DEF IInv, WriteLands, caches
<1> QED
  BY <1>12, <1>13, <1>15, <1>16, <1>17, <1>18, <1>21, <1>22, <1>23 DEF IInv

-----------------------------------------------------------------------------
(* The invariant holds. *)

LEMMA InitIInv == Init => IInv
<1> SUFFICES ASSUME Init PROVE IInv
  OBVIOUS
<1>1. /\ up = {} /\ tcb_cache = Empty /\ socket_cache = Empty /\ sndbuf_cache = Empty
      /\ ringbuf_cache = Empty /\ tcb = [c \in Cells |-> NoTcb] /\ so = << >> /\ g_fd = 1
      /\ backlog = [connq |-> [i \in 0..BacklogSize |-> 0], head |-> 0, tail |-> 0]
      /\ net2app = << >> /\ app2net = << >> /\ writer = NoWriter /\ moved = FALSE
      /\ again = FALSE /\ returned = {}
  BY DEF Init
<1>2. /\ Keys \subseteq Nat \ {0} /\ ListenKey \in Nat \ {0} /\ BacklogSize \in Nat \ {0}
      /\ MaxFd \in Nat \ {0} /\ 0 \in 0..MaxFd /\ 1 \in 0..MaxFd /\ 0 \notin Keys
  BY KeyAssumption
<1>3. \A c \in Cells : Empty[c] = 0
  BY DEF Empty
<1>4. Blocks = {} /\ Used(tcb_cache) = {}
  BY <1>1, <1>2, <1>3 DEF Blocks, Used
<1>5. BlocksTyped
  <2>1. Empty \in [Cells -> Keys \cup {0, ListenKey}] /\ Empty \in [Cells -> 0..MaxFd]
    BY <1>2 DEF Empty
  <2>2. NoTcb \in [fd : 0..MaxFd, rcvvar : Nat, sndvar : Nat,
                   sndbuf : Cells \cup {Null}, rcvbuf : Cells \cup {Null}]
    BY <1>2 DEF NoTcb
  <2> QED
    BY <1>1, <2>1, <2>2 DEF BlocksTyped
<1>6. /\ backlog.head = 0 /\ backlog.tail = 0
      /\ backlog.connq = [i \in 0..BacklogSize |-> 0]
  BY <1>1
<1>7. SocketsTyped
  <2>1. Empty \in [Cells -> 0..MaxFd]
    BY <1>2 DEF Empty
  <2>2. g_fd \in 1..(MaxFd + 1) /\ Len(so) = g_fd - 1 /\ so \in Seq(Keys \cup {0, ListenKey})
    BY <1>1, <1>2
  <2>3. /\ backlog.head \in 0..(BacklogSize - 1) /\ backlog.tail \in 0..BacklogSize
        /\ backlog.connq \in [0..BacklogSize -> Nat]
    BY <1>2, <1>6
  <2>4. backlog = [connq |-> backlog.connq, head |-> backlog.head, tail |-> backlog.tail]
    BY <1>1
  <2> QED
    BY <1>1, <2>1, <2>2, <2>3, <2>4 DEF SocketsTyped
<1>8. EventsTyped
  <2>1. net2app \in Seq(Keys) /\ app2net \in Seq([fd : Nat, key : Keys])
    BY <1>1
  <2> QED
    BY <1>1, <2>1 DEF EventsTyped
<1>9. Quiet
  BY <1>1 DEF Quiet
<1>10. Cached
  <2>1. \A c \in Cells : tcb[c] = NoTcb
    BY <1>1
  <2> QED
    BY <1>1, <1>2, <1>3, <1>4, <2>1 DEF Cached, Placed, Unique, BlocksAgree
<1>11. Socketed
  <2>1. 1..(g_fd - 1) = {} /\ \A j \in 0..BacklogSize : backlog.connq[j] = 0
    BY <1>1, <1>6
  <2>2. Unique(socket_cache) /\ SocketsPlaced /\ BacklogAgrees
    BY <1>1, <1>3, <2>1 DEF Unique, SocketsPlaced, BacklogAgrees
  <2>3. Ordered /\ Written
    BY <1>1, <1>2, <1>6 DEF Ordered, Written
  <2> QED
    BY <2>2, <2>3 DEF Socketed
<1>12. EventsAgree
  BY <1>1 DEF EventsAgree
<1>13. Stored
  <2>1. SndbufsHeld /\ RcvbufsHeld
    BY <1>1, <1>3, <1>4 DEF SndbufsHeld, RcvbufsHeld, Held, ListenFd
  <2>2. ASSUME NEW n \in Nat \ {0}, NEW held
        PROVE  Taken(NewPool(n), held, tcb_cache)
    BY <1>4, NewPoolOK DEF Taken
  <2>3. RcvvarsTaken
    BY <2>2, KeyAssumption DEF Init, RcvvarsTaken
  <2>4. SndvarsTaken
    BY <2>2, KeyAssumption DEF Init, SndvarsTaken
  <2> QED
    BY <2>1, <2>3, <2>4 DEF Stored
<1>14. WriteLands
  BY <1>1 DEF WriteLands
<1> QED
  BY <1>5, <1>7, <1>8, <1>9, <1>10, <1>11, <1>12, <1>13, <1>14 DEF IInv

LEMMA StutterStep ==
  ASSUME IInv, UNCHANGED vars
  PROVE  IInv'
<1> USE DEF vars, caches, pools, sockets
<1>1. SocketsTyped' /\ Socketed' /\ Fds' = Fds /\ Peers' = Peers
  BY SocketsKept
<1>2. BlocksTyped' /\ EventsTyped' /\ Quiet' /\ WriteLands'
  BY DEF IInv, BlocksTyped, EventsTyped, Quiet, WriteLands
<1>3. Cached' /\ EventsAgree'
  BY <1>1 DEF IInv, Cached, Placed, Unique, BlocksAgree, Blocks, EventsAgree
<1>4. Stored'
  BY <1>1 DEF IInv, Stored, SndbufsHeld, RcvbufsHeld, RcvvarsTaken, SndvarsTaken,
         Sndbufs, Rcvbufs, Rcvvars, Sndvars
<1> QED
  BY <1>1, <1>2, <1>3, <1>4 DEF IInv

\* Nothing of the invariant is lost by a step of either process, in any order.
THEOREM Invariance == Spec => []IInv
<1>1. Init => IInv
  BY InitIInv
<1>2. IInv /\ [Next]_vars => IInv'
  <2> SUFFICES ASSUME IInv, [Next]_vars PROVE IInv'
    OBVIOUS
  <2>1. CASE NetSetup \/ WorkerSetup
    BY <2>1, SetupStep
  <2>2. CASE Socket
    BY <2>2, SocketStep
  <2>3. CASE Listen
    BY <2>3, ListenStep
  <2>4. ASSUME NEW k \in Keys, Syn(k) PROVE IInv'
    BY <2>4, SynStep
  <2>5. ASSUME NEW k \in Keys, Payload(k) PROVE IInv'
    BY <2>5, PayloadStep
  <2>6. ASSUME NEW k \in Keys, Release(k) PROVE IInv'
    BY <2>6, ReleaseStep
  <2>7. CASE ConnectHandler
    BY <2>7, ConnectStep
  <2>8. CASE AcceptNewconn
    BY <2>8, NewconnStep
  <2>9. CASE Accept
    BY <2>9, AcceptStep
  <2>10. CASE WriteData \/ \E fd \in WriteFds \cap returned : WriteLookup(fd)
    BY <2>10, WriteStep
  <2>11. CASE UNCHANGED vars
    BY <2>11, StutterStep
  <2> QED
    BY <2>1, <2>2, <2>3, <2>4, <2>5, <2>6, <2>7, <2>8, <2>9, <2>10, <2>11
       DEF Next, Setup, Net, App
<1> QED
  BY <1>1, <1>2, PTL DEF Spec

-----------------------------------------------------------------------------
(* What follows from it. *)

\* The types and bounds of Store: the runs of a pool and the chunks that the
\* blocks hold are within the pool, whatever was allocated and freed.
THEOREM StoreTyped == Spec => []TypeOK
<1>1. IInv => TypeOK
  <2> SUFFICES ASSUME IInv PROVE TypeOK
    OBVIOUS
  <2>1. ASSUME NEW mp, PoolOK(mp) PROVE IsPool(mp)
    <3> DEFINE n == mp.total
    <3>1. n \in Nat /\ FreeSet(mp) \subseteq 1..n
      BY <2>1 DEF PoolOK
    <3>2. ASSUME NEW i \in DOMAIN mp.list
          PROVE  mp.list[i] \in [at : 1..mp.total, n : 1..mp.total]
      <4> DEFINE r == mp.list[i]
                 lst == mp.list
                 R == [at : Nat \ {0}, n : Nat \ {0}]
      <4>1. r \in R
        <5>1. lst \in Seq(R)
          BY <2>1 DEF PoolOK
        <5> HIDE DEF R
        <5> QED
          BY <5>1
      <4>2. Run(r) \subseteq 1..n
        BY <3>1 DEF FreeSet
      <4> HIDE DEF r, n
      <4>3. r.at \in Run(r) /\ (r.at + r.n - 1) \in Run(r)
        BY <4>1 DEF Run
      <4>4. r.at \in 1..n /\ r.n \in 1..n
        BY <3>1, <4>1, <4>2, <4>3
      <4>5. r \in [at : 1..n, n : 1..n]
        BY <4>1, <4>4
      <4> QED
        BY <4>5 DEF r, n
    <3> QED
      BY <2>1, <3>2, FreeSetFinite DEF IsPool
  <2>2. PoolOK(rcvvars_mp) /\ PoolOK(sndvars_mp)
    BY DEF IInv, Stored, RcvvarsTaken, SndvarsTaken, Taken
  <2>3. rcvvars_mp.total \in Nat /\ sndvars_mp.total \in Nat
    BY <2>2 DEF PoolOK
  <2>4. ASSUME NEW c \in Cells
        PROVE  /\ tcb[c].rcvvar \in 0..rcvvars_mp.total
               /\ tcb[c].sndvar \in 0..sndvars_mp.total
    <3>1. CASE tcb_cache[c] \in Keys
      <4>1. c \in Used(tcb_cache)
        BY <3>1 DEF Used
      <4>2. Rcvvars[c] \in 1..rcvvars_mp.total /\ Sndvars[c] \in 1..sndvars_mp.total
        BY <4>1 DEF IInv, Stored, RcvvarsTaken, SndvarsTaken, Taken
      <4>3. tcb[c].rcvvar \in 1..rcvvars_mp.total /\ tcb[c].sndvar \in 1..sndvars_mp.total
        BY <4>2, BlockType
      <4> QED
        BY <2>3, <4>3
    <3>2. CASE tcb_cache[c] \notin Keys
      <4>1. tcb[c] = NoTcb \/ tcb[c] = [NoTcb EXCEPT !.fd = ListenFd]
        BY <3>2 DEF IInv, Cached, BlocksAgree, BlocksTyped
      <4>2. tcb[c].rcvvar = 0 /\ tcb[c].sndvar = 0
        BY <4>1 DEF NoTcb
      <4> QED
        BY <2>3, <4>2
    <3> QED
      BY <3>1, <3>2
  <2>5. tcb \in [Cells -> [fd : 0..MaxFd, rcvvar : 0..rcvvars_mp.total,
                           sndvar : 0..sndvars_mp.total,
                           sndbuf : Cells \cup {Null}, rcvbuf : Cells \cup {Null}]]
    <3>1. tcb \in [Cells -> [fd : 0..MaxFd, rcvvar : Nat, sndvar : Nat,
                             sndbuf : Cells \cup {Null}, rcvbuf : Cells \cup {Null}]]
      BY DEF IInv, BlocksTyped
    <3> QED
      BY <2>4, <3>1
  <2> QED
    BY <2>1, <2>2, <2>5 DEF IInv, BlocksTyped, SocketsTyped, TypeOK
<1> QED
  BY <1>1, Invariance, PTL

\* A buffer cache has a descriptor once: its block is the one block of the
\* peer, and that holds one buffer.
LEMMA OneBuffer ==
  ASSUME IInv, NEW cache, NEW held, Held(cache, held, tcb_cache, Peers),
         NEW c \in Cells, NEW d \in Cells, c # d, cache[c] = cache[d]
  PROVE  cache[c] \in {0, ListenFd}
<1> SUFFICES ASSUME cache[c] # 0, cache[c] # ListenFd PROVE FALSE
  OBVIOUS
<1>1. PICK x \in Used(tcb_cache) : held[x] = c /\ <<cache[c], tcb_cache[x]>> \in Peers
  BY DEF Held
<1>2. PICK y \in Used(tcb_cache) : held[y] = d /\ <<cache[d], tcb_cache[y]>> \in Peers
  BY DEF Held
<1>3. tcb_cache[x] = tcb_cache[y]
  BY <1>1, <1>2, PeerFd
<1>4. x = y
  BY <1>3, CacheTypes DEF IInv, Cached, Unique, Used
<1> QED
  BY <1>1, <1>2, <1>4

\* No cache holds a key twice, for any number of rows, of cells and of
\* connections, whatever was removed in between.
THEOREM KeysUnique == Spec => []KeyUnique
<1>1. IInv => KeyUnique
  <2> SUFFICES ASSUME IInv, NEW c \in Cells, NEW d \in Cells, c # d
               PROVE  /\ tcb_cache[c] = tcb_cache[d] => tcb_cache[c] = 0
                      /\ socket_cache[c] = socket_cache[d] => socket_cache[c] = 0
                      /\ sndbuf_cache[c] = sndbuf_cache[d] => sndbuf_cache[c] = 0
                      /\ ringbuf_cache[c] = ringbuf_cache[d]
                           => ringbuf_cache[c] \in {0, ListenFd}
    BY DEF KeyUnique
  <2>1. /\ tcb_cache[c] = tcb_cache[d] => tcb_cache[c] = 0
        /\ socket_cache[c] = socket_cache[d] => socket_cache[c] = 0
    BY DEF IInv, Cached, Socketed, Unique
  <2>2. sndbuf_cache[c] = sndbuf_cache[d] => sndbuf_cache[c] = 0
    BY OneBuffer DEF IInv, Stored, SndbufsHeld
  <2>3. ringbuf_cache[c] = ringbuf_cache[d] => ringbuf_cache[c] \in {0, ListenFd}
    BY OneBuffer DEF IInv, Stored, RcvbufsHeld
  <2> QED
    BY <2>1, <2>2, <2>3
<1> QED
  BY <1>1, Invariance, PTL

LEMMA BlocksFinite == Blocks = Used(tcb_cache) /\ IsFiniteSet(Blocks)
<1>1. Blocks = Used(tcb_cache) /\ Blocks \subseteq Cells
  BY DEF Blocks, Used
<1>2. HbTime \in Nat /\ HbLen \in Nat
  BY HashAssumption
<1>3. IsFiniteSet(Rows) /\ IsFiniteSet(0..(HbLen - 1))
  BY <1>2, FS_Interval DEF Rows
<1>4. IsFiniteSet(Cells)
  BY <1>3, FS_Product DEF Cells
<1> QED
  BY <1>1, <1>4, FS_Subset

\* Chunks are conserved: every one is in the free list once or held by one
\* block, for pools of any size.
THEOREM ChunksKept == Spec => []ChunksConserved
<1>1. ASSUME NEW mp, NEW held, Taken(mp, held, tcb_cache)
      PROVE  Conserved(mp, held)
  <2> DEFINE free == UNION {Run(mp.list[i]) : i \in DOMAIN mp.list}
             used == {held[c] : c \in Blocks}
  <2>1. free = FreeSet(mp)
    BY DEF FreeSet
  <2>2. /\ \A i, j \in DOMAIN mp.list : i # j => Run(mp.list[i]) \cap Run(mp.list[j]) = {}
        /\ mp.free = Cardinality(free) /\ free \subseteq 1..mp.total
    BY <1>1, <2>1 DEF Taken, PoolOK
  <2>3. used = (1..mp.total) \ free
    BY <1>1, <2>1, BlocksFinite DEF Taken
  <2>4. free \cap used = {} /\ free \cup used = 1..mp.total
    BY <2>2, <2>3
  <2>5. Cardinality(used) = Cardinality(Blocks)
    <3> DEFINE f == [c \in Blocks |-> held[c]]
    <3>1. f \in [Blocks -> used] /\ \A u \in used : \E c \in Blocks : f[c] = u
      OBVIOUS
    <3>2. \A c, d \in Blocks : f[c] = f[d] => c = d
      BY <1>1, BlocksFinite DEF Taken
    <3> HIDE DEF f, used
    <3>3. f \in Injection(Blocks, used) /\ f \in Surjection(Blocks, used)
      BY <3>1, <3>2 DEF Injection, IsInjective, Surjection
    <3>4. ExistsBijection(Blocks, used)
      BY <3>3 DEF ExistsBijection, Bijection
    <3> QED
      BY <3>4, BlocksFinite, FS_Bijection
  <2> QED
    BY <2>2, <2>4, <2>5 DEF Conserved
<1>2. IInv => ChunksConserved
  BY <1>1 DEF IInv, Stored, RcvvarsTaken, SndvarsTaken, Rcvvars, Sndvars, ChunksConserved
<1> QED
  BY <1>2, Invariance, PTL

\* A cell of a buffer cache is taken as long as exactly one block holds it.
THEOREM BuffersHeld == Spec => []BuffersOwned
<1>1. ASSUME NEW cache, NEW held, Held(cache, held, tcb_cache, Peers)
      PROVE  Owned(cache, held)
  <2> SUFFICES ASSUME NEW b \in Cells
               PROVE  Cardinality({c \in Blocks : held[c] = b})
                        = (IF cache[b] = 0 THEN 0 ELSE 1)
    BY DEF Owned
  <2> DEFINE owners == {c \in Blocks : held[c] = b}
  <2>1. CASE cache[b] = 0
    <3>1. owners = {}
      BY <1>1, <2>1, BlocksFinite DEF Held
    <3> QED
      BY <2>1, <3>1, FS_EmptySet
  <2>2. CASE cache[b] # 0
    <3>1. PICK x \in Blocks : held[x] = b
      BY <1>1, <2>2, BlocksFinite DEF Held
    <3>2. owners = {x}
      BY <1>1, <3>1, BlocksFinite, NullIsNoCell DEF Held
    <3> QED
      BY <2>2, <3>2, FS_Singleton
  <2> QED
    BY <2>1, <2>2
<1>2. IInv => BuffersOwned
  BY <1>1 DEF IInv, Stored, SndbufsHeld, RcvbufsHeld, Sndbufs, Rcvbufs, BuffersOwned
<1> QED
  BY <1>2, Invariance, PTL

\* usnet_write writes where its descriptor's bytes belong, unless the buffer was
\* released after the look-up.
THEOREM WritesLand == Spec => []WriteLands
<1>1. IInv => WriteLands
  BY DEF IInv
<1> QED
  BY <1>1, Invariance, PTL

\* Until the backlog goes around, usnet_accept returns every descriptor once and
\* in the order in which the connections came.
THEOREM AcceptsInOrder == Spec => []AcceptInOrder
<1>1. IInv => AcceptInOrder
  <2> SUFFICES ASSUME IInv, g_fd - 2 < BacklogSize
               PROVE  /\ ~again
                      /\ \A fd \in returned : \A e \in 2..fd : so[e] # 0 => e \in returned
    BY DEF AcceptInOrder
  <2>1. /\ ~again /\ backlog.head <= backlog.tail
        /\ \A i, j \in 0..(backlog.tail - 1) : i < j => backlog.connq[i] < backlog.connq[j]
        /\ \A fd \in returned : \E i \in 0..(backlog.head - 1) : backlog.connq[i] = fd
        /\ \A i \in 0..(backlog.head - 1) : backlog.connq[i] \in returned
        /\ \A fd \in 2..(g_fd - 1) :
             so[fd] # 0 => \E i \in 0..(backlog.tail - 1) : backlog.connq[i] = fd
    BY DEF IInv, Socketed, Ordered
  <2>2. /\ g_fd \in Nat /\ backlog.head \in Nat /\ backlog.tail \in Nat
        /\ \A fd \in returned : fd \in Nat /\ fd <= g_fd - 1
    BY CacheTypes, KeyAssumption DEF IInv, SocketsTyped, Fds
  <2>3. ASSUME NEW fd \in returned, NEW e \in 2..fd, so[e] # 0
        PROVE  e \in returned
    <3>1. e \in 2..(g_fd - 1) /\ e <= fd /\ e \in Nat /\ fd \in Nat
      BY <2>2
    <3>2. PICK i \in 0..(backlog.head - 1) : backlog.connq[i] = fd
      BY <2>1
    <3>3. PICK j \in 0..(backlog.tail - 1) : backlog.connq[j] = e
      BY <2>1, <2>3, <3>1
    <3>4. i \in 0..(backlog.tail - 1)
      BY <2>1, <2>2
    <3>5. ~(i < j)
      BY <2>1, <3>1, <3>2, <3>3, <3>4
    <3>6. j \in 0..(backlog.head - 1)
      BY <2>2, <3>5
    <3> QED
      BY <2>1, <3>3, <3>6
  <2> QED
    BY <2>1, <2>3
<1> QED
  BY <1>1, Invariance, PTL

\* When the application waits long enough for the net process, every socket
\* stays where it was put.
THEOREM SocketsStay ==
  ASSUME NetFirst
  PROVE  Spec => []SocketFound
<1>1. IInv => SocketFound
  <2> SUFFICES ASSUME IInv, NEW fd \in 1..(g_fd - 1), so[fd] # 0
               PROVE  CacheSearch(socket_cache, fd) # Null
    BY DEF SocketFound
  <2>1. \E i \in Rows : socket_cache[Cell(fd, i)] = fd
    BY DEF IInv, Socketed, SocketsPlaced
  <2>2. fd \in Nat /\ socket_cache \in [Cells -> Nat]
    BY CacheTypes
  <2> QED
    BY <2>1, <2>2, SearchResult
<1> QED
  BY <1>1, Invariance, PTL

=============================================================================
