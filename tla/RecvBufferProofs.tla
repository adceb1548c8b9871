-------------------------- MODULE RecvBufferProofs --------------------------
(***************************************************************************)
(* The list of fragments describes what was received, exactly, for every   *)
(* size of the ring and every order of the segments; and as long as the    *)
(* segments arrive in order the ring holds the unread part of the stream.  *)
(*                                                                         *)
(* The loop of usnet_insert_fragment is the recursive function Walk; what  *)
(* holds after each of its turns is Turned, by induction over the turns.   *)
(***************************************************************************)
EXTENDS RecvBuffer, SequenceTheorems, WellFoundedInduction, TLAPS

End(f) == f.seq + f.len
In(x, f) == f.seq <= x /\ x < End(f)
Covered(s, x) == \E i \in DOMAIN s : In(x, s[i])

\* Fragments that are not empty, sorted, with a hole between any two.
Holes(s) ==
  \A i \in DOMAIN s :
    /\ s[i].len > 0
    /\ \A j \in DOMAIN s : i < j => End(s[i]) < s[j].seq

Beyond(s, h) == \A i \in DOMAIN s : s[i].seq > h

Exact(r, h, s) == \A x \in Nat : x \in r <=> (x < h \/ Covered(s, x))

Listed == Holes(frags) /\ Beyond(frags, head_seq) /\ Exact(received, head_seq, frags)

\* The bytes between two indices of the ring, the place of the k-th of them,
\* and an index that has moved on by k bytes.
Taken(d, h) == IF h >= d THEN h - d ELSE Size + h - d
Place(d, k) == IF d + k < Size THEN d + k ELSE d + k - Size
MoveOn(d, k) == IF d + k <= Size THEN d + k ELSE d + k - Size

Indices(d, h) == Size \in Nat /\ 1 < Size /\ Size < Word /\ d \in 0..Size /\ h \in 0..Size

\* The window the peer was told of leaves a byte free, once there was a segment.
WindowFits ==
  \/ rcv_wnd <= Size - Taken(data, head) - 1
  \/ nread = 0 /\ head = 0 /\ data = 0

\* The read in progress: what it tested stays so, except that head may have gone
\* around the end of the ring, and the bytes it copied are still there.
Reading ==
  /\ rpc \in {"tested", "upper"} => head # data
  /\ rpc = "wrapped" => head < data
  /\ rpc = "copied" => rlen <= Taken(data, head) /\ rdata = MoveOn(data, rlen)

Content(r, d, h, n) == \A k \in Nat : k < Taken(d, h) => r[Place(d, k)] = n + k

\* What holds as long as the segments arrive in order and reads stay in the ring.
InOrder ==
  /\ frags = << >> /\ rcv_nxt = head_seq /\ Indices(data, head)
  /\ nread + Taken(data, head) = head_seq
  /\ win <= Size - Taken(data, head) - 1
  /\ WindowFits /\ Reading
  /\ Content(ring, data, head, nread)

IInv == TypeOK /\ Listed /\ (~reordered /\ ~overread => InOrder)

LEMMA FragmentTyped ==
  ASSUME NEW f \in Fragment
  PROVE  f.seq \in Nat /\ f.len \in Nat /\ End(f) \in Nat /\ End(f) = f.seq + f.len
BY DEF Fragment, End

\* Fragments that cannot be merged have a hole between them.
LEMMA NotMerged ==
  ASSUME NEW f \in Fragment, NEW g \in Fragment, ~CanMerge(f, g)
  PROVE  End(f) < g.seq \/ End(g) < f.seq
<1>1. /\ f.seq \in Nat /\ f.len \in Nat /\ End(f) = f.seq + f.len
      /\ g.seq \in Nat /\ g.len \in Nat /\ End(g) = g.seq + g.len
  BY FragmentTyped
<1> QED
  BY <1>1 DEF CanMerge

-----------------------------------------------------------------------------
(* Induction over the naturals, by least elements. *)

\* A set of naturals that is not empty has a least element.
LEMMA Least ==
  ASSUME NEW T \in SUBSET Nat, T # {}
  PROVE  \E x \in T : \A y \in T : x <= y
<1> DEFINE R == {p \in Nat \X Nat : p[1] < p[2]}
<1>1. OpToRel(<, Nat) = R
  BY Zenon DEF OpToRel
<1>2. IsWellFoundedOn(R, Nat)
  BY <1>1, NatLessThanWellFounded, Zenon
<1>3. \E x \in T : \A y \in T : <<y, x>> \notin R
  <2> HIDE DEF R
  <2> QED
    BY <1>2, WFMin, Zenon
<1>4. PICK x \in T : \A y \in T : <<y, x>> \notin R
  BY <1>3
<1>5. ASSUME NEW y \in T PROVE x <= y
  <2>1. x \in Nat /\ y \in Nat
    OBVIOUS
  <2>2. <<y, x>> \notin R
    BY <1>4
  <2>3. ~(y < x)
    BY <2>1, <2>2
  <2> QED
    BY <2>1, <2>3
<1> QED
  BY <1>5

\* A set of naturals with 0 and every successor has them all.
LEMMA SetInduction ==
  ASSUME NEW S \in SUBSET Nat, 0 \in S, \A n \in S : n + 1 \in S
  PROVE  S = Nat
<1> DEFINE T == Nat \ S
<1> SUFFICES ASSUME T # {} PROVE FALSE
  OBVIOUS
<1>1. T \in SUBSET Nat
  OBVIOUS
<1> HIDE DEF T
<1>2. PICK x \in T : \A y \in T : x <= y
  BY <1>1, Least
<1>3. x \in Nat /\ x \notin S
  BY DEF T
<1>4. x - 1 \in Nat
  BY <1>3
<1>5. x - 1 \in S
  BY <1>2, <1>3, <1>4 DEF T
<1> QED
  BY <1>3, <1>4, <1>5

-----------------------------------------------------------------------------
(* The loop over the list. *)

Acc == [cur : Fragment, merged : BOOLEAN, stop : BOOLEAN, out : Seq(Fragment)]

First(new) == [cur |-> new, merged |-> FALSE, stop |-> FALSE, out |-> << >>]

Turn(new, w, n) == IF n = 0 THEN First(new) ELSE Traverse(new, w[n - 1], frags[n])

\* w is the loop for the first m fragments.
IsWalk(new, w, m) == w = [n \in 0..m |-> Turn(new, w, n)]

\* The loop is a function, for every number of turns.
LEMMA WalkExists ==
  ASSUME NEW new
  PROVE  \A m \in Nat : \E w : IsWalk(new, w, m)
<1> DEFINE S == {m \in Nat : \E w : IsWalk(new, w, m)}
<1>1. 0 \in S
  <2> DEFINE w == [n \in 0..0 |-> First(new)]
  <2>1. \A n \in 0..0 : Turn(new, w, n) = First(new)
    BY DEF Turn
  <2>2. IsWalk(new, w, 0)
    BY <2>1, Zenon DEF IsWalk
  <2> QED
    BY <2>2
<1>2. ASSUME NEW m \in S PROVE m + 1 \in S
  <2>1. PICK w : IsWalk(new, w, m)
    OBVIOUS
  <2> DEFINE v == [n \in 0..(m + 1) |-> IF n <= m THEN w[n] ELSE Turn(new, w, n)]
  <2>2. m \in Nat
    OBVIOUS
  <2>3. \A n \in 0..m : v[n] = w[n] /\ w[n] = Turn(new, w, n)
    <3>1. \A n \in 0..m : w[n] = Turn(new, w, n)
      BY <2>1, Zenon DEF IsWalk
    <3>2. \A n \in 0..m : n \in 0..(m + 1) /\ n <= m
      BY <2>2
    <3> QED
      BY <3>1, <3>2, Zenon
  <2>4. ASSUME NEW n \in 0..(m + 1)
        PROVE  v[n] = Turn(new, v, n)
    <3>1. v[n] = Turn(new, w, n)
      <4>1. n <= m => n \in 0..m
        BY <2>2
      <4> QED
        BY <4>1, <2>3, Zenon
    <3>2. n = 0 \/ n - 1 \in 0..m
      BY <2>2
    <3>3. n # 0 => v[n - 1] = w[n - 1]
      BY <2>3, <3>2
    <3> QED
      BY <3>1, <3>3, Zenon DEF Turn
  <2>5. IsWalk(new, v, m + 1)
    BY <2>4, Zenon DEF IsWalk
  <2> QED
    BY <2>2, <2>5
<1> HIDE DEF S
<1>3. S = Nat
  <2>1. S \in SUBSET Nat
    BY DEF S
  <2> QED
    BY <1>1, <1>2, <2>1, SetInduction
<1> QED
  BY <1>3 DEF S

LEMMA WalkTurns ==
  ASSUME NEW new, frags \in Seq(Fragment)
  PROVE  \A n \in 0..Len(frags) : Walk(new)[n] = Turn(new, Walk(new), n)
<1>1. Len(frags) \in Nat
  OBVIOUS
<1>2. PICK v : IsWalk(new, v, Len(frags))
  BY <1>1, WalkExists
<1>3. Walk(new) = CHOOSE w : IsWalk(new, w, Len(frags))
  BY Zenon DEF Walk, IsWalk, Turn, First
<1>4. IsWalk(new, Walk(new), Len(frags))
  BY <1>2, <1>3, Zenon
<1> QED
  BY <1>4, Zenon DEF IsWalk

\* What one turn does: the loop has ended; cur and f are merged; cur has its
\* place before f; f stays before cur.
Ended(a, b, f) == b = [cur |-> a.cur, merged |-> a.merged, stop |-> a.stop, out |-> Append(a.out, f)]
Merged(a, b, f) == b = [cur |-> Merge(a.cur, f), merged |-> TRUE, stop |-> FALSE, out |-> a.out]
PlacedIn(a, b, f) ==
  b = [cur |-> a.cur, merged |-> a.merged, stop |-> TRUE, out |-> Append(Append(a.out, a.cur), f)]

LEMMA TraverseCases ==
  ASSUME NEW new \in Fragment, NEW a \in Acc, NEW f \in Fragment
  PROVE  LET b == Traverse(new, a, f)
         IN  \/ a.stop /\ Ended(a, b, f)
             \/ ~a.stop /\ CanMerge(a.cur, f) /\ Merged(a, b, f)
             \/ /\ ~a.stop /\ ~CanMerge(a.cur, f) /\ PlacedIn(a, b, f)
                /\ a.merged \/ f.seq >= End(new)
             \/ /\ ~a.stop /\ ~CanMerge(a.cur, f) /\ Ended(a, b, f)
                /\ ~a.merged /\ ~(f.seq >= End(new))
<1> DEFINE b == Traverse(new, a, f)
<1>1. a = [cur |-> a.cur, merged |-> a.merged, stop |-> a.stop, out |-> a.out]
  BY DEF Acc
<1>2. a.out \in Seq(Fragment) /\ a.cur \in Fragment
  BY DEF Acc
<1>3. [a EXCEPT !.out = Append(@, f)]
        = [cur |-> a.cur, merged |-> a.merged, stop |-> a.stop, out |-> Append(a.out, f)]
  BY SMTT(30) DEF Acc
<1>5. a.out \o <<a.cur, f>> = Append(Append(a.out, a.cur), f)
  BY <1>2
<1>7. CASE a.stop
  BY <1>7, <1>3, Zenon DEF Traverse, Ended
<1>8. CASE ~a.stop /\ CanMerge(a.cur, f)
  BY <1>8, Zenon DEF Traverse, Merged
<1>9. CASE ~a.stop /\ ~CanMerge(a.cur, f) /\ (a.merged \/ f.seq >= End(new))
  BY <1>5, <1>9, Zenon DEF Traverse, PlacedIn, End
<1>10. CASE ~a.stop /\ ~CanMerge(a.cur, f) /\ ~(a.merged \/ f.seq >= End(new))
  <2>1. b = [a EXCEPT !.out = Append(@, f)]
    BY <1>10, Zenon DEF Traverse, End
  <2>2. Ended(a, b, f)
    BY <2>1, <1>3, Zenon DEF Ended
  <2> QED
    BY <1>10, <2>2
<1> QED
  BY <1>7, <1>8, <1>9, <1>10

-----------------------------------------------------------------------------
(* Lists of fragments. *)

Before(s, y) == \A i \in DOMAIN s : End(s[i]) < y

LEMMA AppendFacts ==
  ASSUME NEW s \in Seq(Fragment), NEW f \in Fragment
  PROVE  /\ Append(s, f) \in Seq(Fragment) /\ Append(s, f) # << >>
         /\ DOMAIN Append(s, f) = 1..(Len(s) + 1) /\ DOMAIN s = 1..Len(s)
         /\ \A i \in DOMAIN s : Append(s, f)[i] = s[i]
         /\ Append(s, f)[Len(s) + 1] = f
         /\ Len(s) \in Nat
         /\ \A i \in DOMAIN s : s[i] \in Fragment
  OBVIOUS

LEMMA CoveredAppend ==
  ASSUME NEW s \in Seq(Fragment), NEW f \in Fragment, NEW x
  PROVE  Covered(Append(s, f), x) <=> Covered(s, x) \/ In(x, f)
<1> DEFINE t == Append(s, f)
<1>1. /\ DOMAIN t = DOMAIN s \cup {Len(s) + 1}
      /\ \A i \in DOMAIN s : t[i] = s[i]
      /\ t[Len(s) + 1] = f
  BY AppendFacts
<1> HIDE DEF t
<1> QED
  BY <1>1, Zenon DEF Covered, t

LEMMA BeforeAppend ==
  ASSUME NEW s \in Seq(Fragment), NEW f \in Fragment, NEW y, Before(s, y), End(f) < y
  PROVE  Before(Append(s, f), y)
<1> DEFINE t == Append(s, f)
<1>1. /\ DOMAIN t = DOMAIN s \cup {Len(s) + 1}
      /\ \A i \in DOMAIN s : t[i] = s[i]
      /\ t[Len(s) + 1] = f
  BY AppendFacts
<1> HIDE DEF t
<1> QED
  BY <1>1, Zenon DEF Before, t

LEMMA HolesAppend ==
  ASSUME NEW s \in Seq(Fragment), NEW f \in Fragment, Holes(s), f.len > 0, Before(s, f.seq)
  PROVE  Holes(Append(s, f))
<1> DEFINE t == Append(s, f)
<1>1. /\ DOMAIN t = 1..(Len(s) + 1) /\ DOMAIN s = 1..Len(s) /\ Len(s) \in Nat
      /\ \A i \in DOMAIN s : t[i] = s[i]
      /\ t[Len(s) + 1] = f
  BY AppendFacts
<1> HIDE DEF t
<1> SUFFICES ASSUME NEW i \in DOMAIN t
             PROVE  t[i].len > 0 /\ \A j \in DOMAIN t : i < j => End(t[i]) < t[j].seq
  BY Zenon DEF Holes, t
<1>2. CASE i = Len(s) + 1
  BY <1>1, <1>2
<1>3. CASE i \in DOMAIN s
  <2>1. t[i] = s[i] /\ s[i].len > 0
    BY <1>1, <1>3 DEF Holes
  <2>2. ASSUME NEW j \in DOMAIN t, i < j PROVE End(t[i]) < t[j].seq
    <3>1. CASE j \in DOMAIN s
      BY <1>1, <1>3, <2>1, <2>2, <3>1, Zenon DEF Holes
    <3>2. CASE j = Len(s) + 1
      BY <1>1, <1>3, <2>1, <3>2, Zenon DEF Before
    <3> QED
      BY <1>1, <3>1, <3>2
  <2> QED
    BY <2>1, <2>2
<1> QED
  BY <1>1, <1>2, <1>3

-----------------------------------------------------------------------------
(* The invariant of the loop. *)

\* y is below the fragments that the loop has not seen after n turns.
BelowRest(n, y) == \A j \in DOMAIN frags : n < j => y < frags[j].seq

\* The bytes of the new fragment and of the first n of the list.
Given(new, n, x) == In(x, new) \/ \E j \in 1..n : In(x, frags[j])

Kept(a, x) == Covered(a.out, x) \/ (~a.stop /\ In(x, a.cur))

\* cur, not yet placed, lies after what was passed, and below the rest once it
\* was merged.
Moving(new, n, a) ==
  ~a.stop =>
    /\ Before(a.out, a.cur.seq)
    /\ ~a.merged => a.cur = new
    /\ a.merged => BelowRest(n, a.cur.seq)

Turned(new, n, a) ==
  /\ a \in Acc /\ a.cur.len > 0 /\ Holes(a.out)
  /\ \A j \in DOMAIN frags : n < j => Before(a.out, frags[j].seq)
  /\ Moving(new, n, a)
  /\ \A x \in Nat : Kept(a, x) <=> Given(new, n, x)

LEMMA GivenNext ==
  ASSUME NEW new, NEW n \in Nat, NEW x
  PROVE  Given(new, n + 1, x) <=> Given(new, n, x) \/ In(x, frags[n + 1])
<1>1. 1..(n + 1) = (1..n) \cup {n + 1}
  OBVIOUS
<1> QED
  BY <1>1, Zenon DEF Given

LEMMA MergeFacts ==
  ASSUME NEW a \in Fragment, NEW f \in Fragment, a.len > 0, f.len > 0
  PROVE  /\ Merge(a, f) \in Fragment /\ Merge(a, f).len > 0
         /\ Merge(a, f).seq = (IF a.seq <= f.seq THEN a.seq ELSE f.seq)
         /\ CanMerge(a, f) => \A x \in Nat : In(x, Merge(a, f)) <=> In(x, a) \/ In(x, f)
<1> DEFINE first == IF a.seq <= f.seq THEN a.seq ELSE f.seq
           last == IF a.seq + a.len >= f.seq + f.len THEN a.seq + a.len ELSE f.seq + f.len
<1>1. Merge(a, f) = [seq |-> first, len |-> last - first]
  BY Zenon DEF Merge
<1>2. a.seq \in Nat /\ a.len \in Nat /\ f.seq \in Nat /\ f.len \in Nat
  BY DEF Fragment
<1>3. first \in Nat /\ last \in Nat /\ last - first \in Nat /\ last - first > 0
  BY <1>2
<1>4. Merge(a, f).seq = first /\ Merge(a, f).len = last - first /\ Merge(a, f) \in Fragment
  BY <1>1, <1>3 DEF Fragment
<1>5. ASSUME CanMerge(a, f), NEW x \in Nat PROVE In(x, Merge(a, f)) <=> In(x, a) \/ In(x, f)
  <2>1. a.seq + a.len + 1 > f.seq /\ f.seq + f.len + 1 > a.seq
    BY <1>5 DEF CanMerge
  <2>2. In(x, Merge(a, f)) <=> first <= x /\ x < first + (last - first)
    BY <1>4, Zenon DEF In, End
  <2> QED
    BY <1>2, <2>1, <2>2 DEF In, End
<1> QED
  BY <1>3, <1>4, <1>5

LEMMA ListFacts ==
  ASSUME frags \in Seq(Fragment), Holes(frags), NEW n \in Nat, n < Len(frags)
  PROVE  /\ n + 1 \in DOMAIN frags /\ frags[n + 1] \in Fragment /\ frags[n + 1].len > 0
         /\ BelowRest(n + 1, End(frags[n + 1]))
         /\ BelowRest(n + 1, frags[n + 1].seq)
         /\ \A j \in DOMAIN frags : j \in Nat /\ frags[j] \in Fragment /\ frags[j].seq \in Nat
         /\ \A j \in DOMAIN frags : n + 1 < j => n < j
<1> DEFINE f == frags[n + 1]
<1>1. n + 1 \in DOMAIN frags /\ f \in Fragment
  OBVIOUS
<1>2. f.len > 0 /\ \A j \in DOMAIN frags : n + 1 < j => End(f) < frags[j].seq
  BY <1>1, Zenon DEF Holes
<1>3. \A j \in DOMAIN frags : j \in Nat /\ frags[j] \in Fragment /\ frags[j].seq \in Nat
  <2>1. DOMAIN frags = 1..Len(frags) /\ \A j \in 1..Len(frags) : frags[j] \in Fragment
    OBVIOUS
  <2>2. \A g \in Fragment : g.seq \in Nat
    BY DEF Fragment
  <2> QED
    BY <2>1, <2>2
<1>4. f.seq \in Nat /\ f.len \in Nat
  BY <1>1 DEF Fragment
<1>5. BelowRest(n + 1, f.seq)
  BY <1>2, <1>3, <1>4 DEF BelowRest, End
<1> QED
  BY <1>1, <1>2, <1>3, <1>5 DEF BelowRest

\* A turn after the loop has ended: the rest of the list is kept.
LEMMA EndedTurn ==
  ASSUME frags \in Seq(Fragment), Holes(frags), NEW new \in Fragment, NEW n \in Nat,
         n < Len(frags), NEW a, Turned(new, n, a), NEW b, Ended(a, b, frags[n + 1]),
         ~a.stop => /\ ~a.merged
                    /\ End(frags[n + 1]) < a.cur.seq
  PROVE  Turned(new, n + 1, b)
<1> DEFINE f == frags[n + 1]
<1>1. /\ a \in Acc /\ a.cur.len > 0 /\ Holes(a.out) /\ Moving(new, n, a)
      /\ a.out \in Seq(Fragment) /\ a.cur \in Fragment
  BY DEF Turned, Acc
<1>2. /\ f \in Fragment /\ f.len > 0 /\ BelowRest(n + 1, End(f))
      /\ \A j \in DOMAIN frags : n + 1 < j => n < j
      /\ n + 1 \in DOMAIN frags /\ n < n + 1
  BY ListFacts
<1>3. b = [cur |-> a.cur, merged |-> a.merged, stop |-> a.stop, out |-> Append(a.out, f)]
  BY Zenon DEF Ended
<1>4. b.cur = a.cur /\ b.merged = a.merged /\ b.stop = a.stop /\ b.out = Append(a.out, f)
  BY <1>3
<1>5. Before(a.out, f.seq)
  BY <1>2, Zenon DEF Turned
<1> HIDE DEF f
<1>6. b \in Acc
  <2>1. Append(a.out, f) \in Seq(Fragment)
    BY <1>1, <1>2, AppendFacts
  <2> QED
    BY <1>1, <1>3, <2>1 DEF Acc
<1>7. Holes(b.out)
  BY <1>1, <1>2, <1>4, <1>5, HolesAppend
<1>8. ASSUME NEW j \in DOMAIN frags, n + 1 < j PROVE Before(b.out, frags[j].seq)
  <2>1. Before(a.out, frags[j].seq)
    BY <1>2, <1>8, Zenon DEF Turned
  <2>2. End(f) < frags[j].seq
    BY <1>2, <1>8, Zenon DEF BelowRest
  <2> QED
    BY <1>1, <1>2, <1>4, <2>1, <2>2, BeforeAppend
<1>9. Moving(new, n + 1, b)
  <2> SUFFICES ASSUME ~b.stop
               PROVE  Before(b.out, b.cur.seq) /\ (~b.merged => b.cur = new) /\ ~b.merged
    BY Zenon DEF Moving
  <2>1. ~a.stop /\ ~a.merged /\ a.cur = new /\ Before(a.out, a.cur.seq)
    BY <1>1, <1>4, Zenon DEF Moving
  <2>2. End(f) < a.cur.seq
    BY <2>1 DEF f
  <2>3. Before(b.out, b.cur.seq)
    BY <1>1, <1>2, <1>4, <2>1, <2>2, BeforeAppend
  <2> QED
    BY <1>4, <2>1, <2>3, Zenon
<1>10. ASSUME NEW x \in Nat PROVE Kept(b, x) <=> Given(new, n + 1, x)
  <2>1. Given(new, n + 1, x) <=> Given(new, n, x) \/ In(x, f)
    BY GivenNext DEF f
  <2>2. Covered(b.out, x) <=> Covered(a.out, x) \/ In(x, f)
    BY <1>1, <1>2, <1>4, CoveredAppend
  <2>3. Kept(a, x) <=> Given(new, n, x)
    BY Zenon DEF Turned
  <2> QED
    BY <1>4, <2>1, <2>2, <2>3, Zenon DEF Kept
<1> QED
  BY <1>1, <1>4, <1>6, <1>7, <1>8, <1>9, <1>10, Zenon DEF Turned

\* A turn that merges: the merged fragment takes the place of both.
LEMMA MergedTurn ==
  ASSUME frags \in Seq(Fragment), Holes(frags), NEW new \in Fragment, NEW n \in Nat,
         n < Len(frags), NEW a, Turned(new, n, a), ~a.stop, CanMerge(a.cur, frags[n + 1]),
         NEW b, Merged(a, b, frags[n + 1])
  PROVE  Turned(new, n + 1, b)
<1> DEFINE f == frags[n + 1]
           m == Merge(a.cur, f)
<1>1. /\ a \in Acc /\ a.cur.len > 0 /\ Holes(a.out) /\ Moving(new, n, a)
      /\ a.out \in Seq(Fragment) /\ a.cur \in Fragment
  BY DEF Turned, Acc
<1>2. /\ f \in Fragment /\ f.len > 0 /\ BelowRest(n + 1, f.seq)
      /\ \A j \in DOMAIN frags : n + 1 < j => n < j
      /\ \A j \in DOMAIN frags : frags[j].seq \in Nat
      /\ n + 1 \in DOMAIN frags /\ n < n + 1
  BY ListFacts
<1>3. b = [cur |-> m, merged |-> TRUE, stop |-> FALSE, out |-> a.out]
  BY Zenon DEF Merged
<1>4. Before(a.out, f.seq) /\ Before(a.out, a.cur.seq)
  BY <1>1, <1>2, Zenon DEF Turned, Moving
<1>5. /\ m \in Fragment /\ m.len > 0
      /\ m.seq = (IF a.cur.seq <= f.seq THEN a.cur.seq ELSE f.seq)
      /\ \A x \in Nat : In(x, m) <=> In(x, a.cur) \/ In(x, f)
  BY <1>1, <1>2, MergeFacts
<1> HIDE DEF m
<1>6. b.cur = m /\ b.merged = TRUE /\ b.stop = FALSE /\ b.out = a.out
  BY <1>3
<1> HIDE DEF f
<1>7. b \in Acc
  BY <1>1, <1>3, <1>5 DEF Acc
<1>8. Before(b.out, b.cur.seq)
  <2>1. m.seq = a.cur.seq \/ m.seq = f.seq
    BY <1>5
  <2> QED
    BY <1>4, <1>6, <2>1, Zenon
<1>9. BelowRest(n + 1, b.cur.seq)
  <2>1. m.seq <= f.seq /\ m.seq \in Nat /\ f.seq \in Nat
    BY <1>1, <1>2, <1>5, SMTT(30) DEF Fragment
  <2>2. ASSUME NEW j \in DOMAIN frags, n + 1 < j PROVE m.seq < frags[j].seq
    <3>1. f.seq < frags[j].seq /\ frags[j].seq \in Nat
      BY <1>2, <2>2, Zenon DEF BelowRest
    <3> QED
      BY <2>1, <3>1
  <2> QED
    BY <1>6, <2>2, Zenon DEF BelowRest
<1>10. Moving(new, n + 1, b)
  BY <1>6, <1>8, <1>9, Zenon DEF Moving
<1>11. ASSUME NEW j \in DOMAIN frags, n + 1 < j PROVE Before(b.out, frags[j].seq)
  BY <1>2, <1>6, <1>11, Zenon DEF Turned
<1>12. ASSUME NEW x \in Nat PROVE Kept(b, x) <=> Given(new, n + 1, x)
  <2>1. Given(new, n + 1, x) <=> Given(new, n, x) \/ In(x, f)
    BY GivenNext DEF f
  <2>2. Kept(a, x) <=> Given(new, n, x)
    BY Zenon DEF Turned
  <2> QED
    BY <1>5, <1>6, <2>1, <2>2, Zenon DEF Kept
<1> QED
  BY <1>1, <1>5, <1>6, <1>7, <1>10, <1>11, <1>12, Zenon DEF Turned

\* The turn that ends the loop: cur is placed before the fragment it met.
LEMMA PlacedTurn ==
  ASSUME frags \in Seq(Fragment), Holes(frags), NEW new \in Fragment, NEW n \in Nat,
         n < Len(frags), NEW a, Turned(new, n, a), ~a.stop, End(a.cur) < frags[n + 1].seq,
         NEW b, PlacedIn(a, b, frags[n + 1])
  PROVE  Turned(new, n + 1, b)
<1> DEFINE f == frags[n + 1]
           o == Append(a.out, a.cur)
<1>1. /\ a \in Acc /\ a.cur.len > 0 /\ Holes(a.out) /\ Moving(new, n, a)
      /\ a.out \in Seq(Fragment) /\ a.cur \in Fragment
  BY DEF Turned, Acc
<1>2. /\ f \in Fragment /\ f.len > 0 /\ BelowRest(n + 1, End(f)) /\ BelowRest(n + 1, f.seq)
      /\ \A j \in DOMAIN frags : n + 1 < j => n < j
      /\ \A j \in DOMAIN frags : frags[j].seq \in Nat
      /\ n + 1 \in DOMAIN frags /\ n < n + 1
  BY ListFacts
<1>3. b = [cur |-> a.cur, merged |-> a.merged, stop |-> TRUE, out |-> Append(o, f)]
  BY Zenon DEF PlacedIn
<1>4. Before(a.out, f.seq) /\ Before(a.out, a.cur.seq) /\ End(a.cur) < f.seq
  BY <1>1, <1>2, Zenon DEF Turned, Moving
<1> HIDE DEF f
<1>5. o \in Seq(Fragment) /\ Holes(o) /\ Before(o, f.seq)
  BY <1>1, <1>4, AppendFacts, HolesAppend, BeforeAppend
<1>6. ASSUME NEW x PROVE Covered(o, x) <=> Covered(a.out, x) \/ In(x, a.cur)
  BY <1>1, CoveredAppend
<1>7. ASSUME NEW j \in DOMAIN frags, n + 1 < j PROVE Before(o, frags[j].seq)
  <2>1. Before(a.out, frags[j].seq)
    BY <1>2, <1>7, Zenon DEF Turned
  <2>2. f.seq < frags[j].seq
    BY <1>2, <1>7, Zenon DEF BelowRest
  <2>3. End(a.cur) < frags[j].seq
    <3>1. End(a.cur) \in Nat /\ f.seq \in Nat
      BY <1>1, <1>2, FragmentTyped
    <3>2. frags[j].seq \in Nat
      BY <1>2
    <3> QED
      BY <1>4, <2>2, <3>1, <3>2
  <2> QED
    BY <1>1, <2>1, <2>3, BeforeAppend
<1> HIDE DEF o
<1>8. b.cur = a.cur /\ b.merged = a.merged /\ b.stop = TRUE /\ b.out = Append(o, f)
  BY <1>3
<1>9. b \in Acc /\ Holes(b.out)
  <2>1. Append(o, f) \in Seq(Fragment)
    BY <1>2, <1>5, AppendFacts
  <2>2. b \in Acc
    BY <1>1, <1>3, <2>1 DEF Acc
  <2>3. Holes(b.out)
    BY <1>2, <1>5, <1>8, HolesAppend
  <2> QED
    BY <2>2, <2>3
<1>10. ASSUME NEW j \in DOMAIN frags, n + 1 < j PROVE Before(b.out, frags[j].seq)
  <2>1. End(f) < frags[j].seq
    BY <1>2, <1>10, Zenon DEF BelowRest
  <2> QED
    BY <1>2, <1>5, <1>7, <1>8, <1>10, <2>1, BeforeAppend
<1>11. Moving(new, n + 1, b)
  BY <1>8, Zenon DEF Moving
<1>12. ASSUME NEW x \in Nat PROVE Kept(b, x) <=> Given(new, n + 1, x)
  <2>1. Given(new, n + 1, x) <=> Given(new, n, x) \/ In(x, f)
    BY GivenNext DEF f
  <2>2. Kept(a, x) <=> Given(new, n, x)
    BY Zenon DEF Turned
  <2>3. Covered(b.out, x) <=> Covered(o, x) \/ In(x, f)
    BY <1>2, <1>5, <1>8, CoveredAppend
  <2> QED
    BY <1>6, <1>8, <2>1, <2>2, <2>3, Zenon DEF Kept
<1> QED
  BY <1>1, <1>8, <1>9, <1>10, <1>11, <1>12, Zenon DEF Turned

LEMMA TurnStep ==
  ASSUME frags \in Seq(Fragment), Holes(frags), NEW new \in Fragment, new.len > 0,
         NEW n \in Nat, n < Len(frags), NEW a, Turned(new, n, a)
  PROVE  Turned(new, n + 1, Traverse(new, a, frags[n + 1]))
<1> DEFINE f == frags[n + 1]
           b == Traverse(new, a, f)
<1>1. a \in Acc /\ a.cur \in Fragment /\ a.cur.len > 0 /\ Moving(new, n, a)
  BY DEF Turned, Acc
<1>2. f \in Fragment /\ f.len > 0 /\ n + 1 \in DOMAIN frags /\ n < n + 1
  BY ListFacts
<1>3. \/ a.stop /\ Ended(a, b, f)
      \/ ~a.stop /\ CanMerge(a.cur, f) /\ Merged(a, b, f)
      \/ /\ ~a.stop /\ ~CanMerge(a.cur, f) /\ PlacedIn(a, b, f)
         /\ a.merged \/ f.seq >= End(new)
      \/ /\ ~a.stop /\ ~CanMerge(a.cur, f) /\ Ended(a, b, f)
         /\ ~a.merged /\ ~(f.seq >= End(new))
  BY <1>1, <1>2, TraverseCases
<1> HIDE DEF b
<1>4. ASSUME ~CanMerge(a.cur, f) PROVE End(a.cur) < f.seq \/ End(f) < a.cur.seq
  BY <1>1, <1>2, <1>4, NotMerged
<1>5. a.cur.seq \in Nat /\ a.cur.len \in Nat /\ f.seq \in Nat /\ f.len \in Nat
  BY <1>1, <1>2 DEF Fragment
<1>6. CASE a.stop /\ Ended(a, b, f)
  BY <1>6, EndedTurn DEF b
<1>7. CASE ~a.stop /\ CanMerge(a.cur, f) /\ Merged(a, b, f)
  BY <1>7, MergedTurn DEF b
<1>8. CASE /\ ~a.stop /\ ~CanMerge(a.cur, f) /\ PlacedIn(a, b, f)
           /\ a.merged \/ f.seq >= End(new)
  <2>1. a.merged => a.cur.seq < f.seq
    BY <1>1, <1>2, <1>8, Zenon DEF Moving, BelowRest
  <2>2. ~a.merged => a.cur = new
    BY <1>1, <1>8, Zenon DEF Moving
  <2>3. End(a.cur) < f.seq
    <3>1. ~CanMerge(a.cur, f) /\ (a.merged \/ f.seq >= End(new))
      BY <1>8
    <3>2. End(a.cur) < f.seq \/ End(f) < a.cur.seq
      BY <1>4, <3>1
    <3>3. End(a.cur) = a.cur.seq + a.cur.len /\ End(f) = f.seq + f.len
      BY DEF End
    <3>4. CASE a.merged
      BY <1>5, <2>1, <3>2, <3>3, <3>4
    <3>5. CASE ~a.merged
      <4>1. f.seq >= End(a.cur)
        BY <2>2, <3>1, <3>5
      <4> QED
        BY <1>5, <3>2, <3>3, <4>1
    <3> QED
      BY <3>4, <3>5
  <2> QED
    BY <1>8, <2>3, PlacedTurn DEF b
<1>9. CASE /\ ~a.stop /\ ~CanMerge(a.cur, f) /\ Ended(a, b, f)
           /\ ~a.merged /\ ~(f.seq >= End(new))
  <2>1. a.cur = new
    BY <1>1, <1>9, Zenon DEF Moving
  <2>2. End(f) < a.cur.seq
    BY <1>4, <1>5, <1>9, <2>1 DEF End
  <2> QED
    BY <1>9, <2>2, EndedTurn DEF b
<1> QED
  BY <1>3, <1>6, <1>7, <1>8, <1>9 DEF b

LEMMA FirstTurned ==
  ASSUME frags \in Seq(Fragment), NEW new \in Fragment, new.len > 0
  PROVE  Turned(new, 0, First(new))
<1> DEFINE a == First(new)
<1>1. a.cur = new /\ a.merged = FALSE /\ a.stop = FALSE /\ a.out = << >> /\ a \in Acc
  BY DEF First, Acc
<1>2. DOMAIN a.out = {} /\ 1..0 = {}
  BY <1>1
<1> HIDE DEF a
<1> QED
  BY <1>1, <1>2, Zenon
     DEF Turned, Moving, Holes, Before, Kept, Covered, Given, a

LEMMA LoopTurns ==
  ASSUME frags \in Seq(Fragment), Holes(frags), NEW new \in Fragment, new.len > 0
  PROVE  Turned(new, Len(frags), Walk(new)[Len(frags)])
<1> DEFINE W == Walk(new)
           S == {n \in Nat : n <= Len(frags) => Turned(new, n, W[n])}
<1>1. \A n \in 0..Len(frags) : W[n] = Turn(new, W, n)
  BY WalkTurns
<1>2. Len(frags) \in Nat
  OBVIOUS
<1> HIDE DEF W
<1>3. 0 \in S
  <2>1. W[0] = First(new)
    BY <1>1, <1>2 DEF Turn
  <2> QED
    BY <2>1, FirstTurned
<1>4. ASSUME NEW n \in S PROVE n + 1 \in S
  <2> SUFFICES ASSUME n + 1 <= Len(frags) PROVE Turned(new, n + 1, W[n + 1])
    OBVIOUS
  <2>1. n \in Nat /\ n < Len(frags) /\ n + 1 \in 0..Len(frags) /\ n + 1 # 0 /\ (n + 1) - 1 = n
    BY <1>2
  <2>2. Turned(new, n, W[n])
    BY <1>2, <2>1
  <2>3. W[n + 1] = Traverse(new, W[n], frags[n + 1])
    BY <1>1, <2>1, Zenon DEF Turn
  <2> QED
    BY <2>1, <2>2, <2>3, TurnStep
<1>5. S = Nat
  <2> HIDE DEF S
  <2>1. S \in SUBSET Nat
    BY DEF S
  <2> QED
    BY <1>3, <1>4, <2>1, SetInduction
<1> QED
  BY <1>2, <1>5 DEF W

\* The list after usnet_insert_fragment: sorted with holes, and it covers what
\* the old one and the new fragment cover.
LEMMA InsertedList ==
  ASSUME frags \in Seq(Fragment), Holes(frags), NEW new \in Fragment, new.len > 0
  PROVE  /\ InsertFragment(new) \in Seq(Fragment) /\ Holes(InsertFragment(new))
         /\ \A x \in Nat : Covered(InsertFragment(new), x) <=> In(x, new) \/ Covered(frags, x)
<1> DEFINE n == Len(frags)
           a == Walk(new)[n]
           r == IF a.stop THEN a.out ELSE Append(a.out, a.cur)
<1>1. Turned(new, n, a)
  BY LoopTurns
<1>2. InsertFragment(new) = r
  BY Zenon DEF InsertFragment
<1> HIDE DEF a
<1>3. /\ a \in Acc /\ a.out \in Seq(Fragment) /\ a.cur \in Fragment /\ a.cur.len > 0
      /\ Holes(a.out) /\ Moving(new, n, a)
  BY <1>1 DEF Turned, Acc
<1>4. ASSUME NEW x \in Nat PROVE Kept(a, x) <=> In(x, new) \/ Covered(frags, x)
  <2>1. DOMAIN frags = 1..n
    OBVIOUS
  <2>2. Kept(a, x) <=> Given(new, n, x)
    BY <1>1, Zenon DEF Turned
  <2> HIDE DEF n
  <2> QED
    BY <2>1, <2>2, Zenon DEF Given, Covered
<1>5. CASE a.stop
  <2>1. r = a.out
    BY <1>5
  <2>2. ASSUME NEW x \in Nat PROVE Covered(a.out, x) <=> Kept(a, x)
    BY <1>5, Zenon DEF Kept
  <2> QED
    BY <1>2, <1>3, <1>4, <2>1, <2>2
<1>6. CASE ~a.stop
  <2>1. r = Append(a.out, a.cur)
    BY <1>6
  <2>2. ASSUME NEW x \in Nat PROVE Covered(Append(a.out, a.cur), x) <=> Kept(a, x)
    BY <1>3, <1>6, CoveredAppend DEF Kept
  <2>3. Before(a.out, a.cur.seq)
    BY <1>3, <1>6, Zenon DEF Moving
  <2>4. Append(a.out, a.cur) \in Seq(Fragment) /\ Holes(Append(a.out, a.cur))
    BY <1>3, <2>3, AppendFacts, HolesAppend
  <2> QED
    BY <1>2, <1>4, <2>1, <2>2, <2>4
<1> QED
  BY <1>5, <1>6

\* The bytes that are not missing, counted from head_seq = h with the list s.
Known(h, s, x) == x < h \/ Covered(s, x)

\* A first fragment at head_seq leaves the list, and nothing is lost by it.
LEMMA Advanced ==
  ASSUME head_seq \in Nat, NEW s \in Seq(Fragment), Holes(s), s # << >>,
         \A i \in DOMAIN s : head_seq <= s[i].seq
  PROVE  /\ Advance(s).seq \in Nat /\ Advance(s).frags \in Seq(Fragment)
         /\ Holes(Advance(s).frags) /\ Beyond(Advance(s).frags, Advance(s).seq)
         /\ \A x \in Nat : Known(Advance(s).seq, Advance(s).frags, x) <=> Known(head_seq, s, x)
<1>1. /\ DOMAIN s = 1..Len(s) /\ Len(s) \in Nat /\ 1 \in DOMAIN s
      /\ \A i \in DOMAIN s : s[i] \in Fragment
  OBVIOUS
<1>2. \A i \in DOMAIN s : s[i].seq \in Nat /\ s[i].len \in Nat
  BY <1>1 DEF Fragment
<1>3. \A i \in DOMAIN s : s[i].len > 0 /\ \A j \in DOMAIN s : i < j => End(s[i]) < s[j].seq
  BY Zenon DEF Holes
<1>4. CASE s[1].seq = head_seq
  <2> DEFINE t == Tail(s)
             h == head_seq + s[1].len
  <2>1. Advance(s) = [seq |-> h, frags |-> t]
    BY <1>4 DEF Advance
  <2>2. Advance(s).seq = h /\ Advance(s).frags = t
    BY <2>1
  <2>3. t \in Seq(Fragment) /\ DOMAIN t = 1..(Len(s) - 1)
    OBVIOUS
  <2>4. ASSUME NEW i \in DOMAIN t PROVE t[i] = s[i + 1] /\ i + 1 \in DOMAIN s /\ i + 1 > 1
    BY <1>1, <2>3
  <2>5. h = End(s[1]) /\ h \in Nat
    BY <1>1, <1>2, <1>4 DEF End
  <2> HIDE DEF t, h
  <2>6. Holes(t)
    <3> SUFFICES ASSUME NEW i \in DOMAIN t
                 PROVE  t[i].len > 0 /\ \A j \in DOMAIN t : i < j => End(t[i]) < t[j].seq
      BY Zenon DEF Holes
    <3>1. t[i].len > 0
      BY <1>3, <2>4
    <3>2. ASSUME NEW j \in DOMAIN t, i < j PROVE End(t[i]) < t[j].seq
      <4>1. i + 1 < j + 1
        BY <2>3, <3>2, <1>1
      <4> QED
        BY <1>3, <2>4, <4>1
    <3> QED
      BY <3>1, <3>2
  <2>7. Beyond(t, h)
    <3> SUFFICES ASSUME NEW i \in DOMAIN t PROVE t[i].seq > h
      BY Zenon DEF Beyond
    <3>1. i + 1 \in DOMAIN s /\ 1 < i + 1 /\ t[i] = s[i + 1]
      BY <1>1, <2>4
    <3>2. End(s[1]) < s[i + 1].seq
      BY <1>1, <1>3, <3>1
    <3> QED
      BY <1>2, <2>5, <3>1, <3>2
  <2>8. ASSUME NEW x \in Nat PROVE Known(h, t, x) <=> Known(head_seq, s, x)
    <3>1. ASSUME Covered(t, x) PROVE Covered(s, x)
      <4>1. PICK i \in DOMAIN t : In(x, t[i])
        BY <3>1, Zenon DEF Covered
      <4> QED
        BY <2>4, <4>1, Zenon DEF Covered
    <3>2. ASSUME Covered(s, x), ~(x < h) PROVE Covered(t, x)
      <4>1. PICK i \in DOMAIN s : In(x, s[i])
        BY <3>2, Zenon DEF Covered
      <4>2. i # 1
        BY <2>5, <3>2, <4>1 DEF In
      <4>3. i - 1 \in DOMAIN t /\ (i - 1) + 1 = i
        BY <1>1, <2>3, <4>2
      <4>4. In(x, t[i - 1])
        BY <2>4, <4>1, <4>3
      <4> QED
        BY <4>3, <4>4, Zenon DEF Covered
    <3>3. ASSUME x < h PROVE x < head_seq \/ Covered(s, x)
      <4>1. x < head_seq \/ In(x, s[1])
        BY <1>4, <2>5, <3>3 DEF In
      <4> QED
        BY <1>1, <4>1, Zenon DEF Covered
    <3>4. ASSUME x < head_seq PROVE x < h
      BY <1>1, <1>2, <3>4, <2>5, <1>4 DEF End
    <3> QED
      BY <3>1, <3>2, <3>3, <3>4, Zenon DEF Known
  <2> QED
    BY <2>2, <2>3, <2>5, <2>6, <2>7, <2>8
<1>5. CASE s[1].seq # head_seq
  <2>1. Advance(s) = [seq |-> head_seq, frags |-> s]
    BY <1>5 DEF Advance
  <2>2. Advance(s).seq = head_seq /\ Advance(s).frags = s
    BY <2>1
  <2>3. Beyond(s, head_seq)
    <3> SUFFICES ASSUME NEW i \in DOMAIN s PROVE s[i].seq > head_seq
      BY Zenon DEF Beyond
    <3>1. s[1].seq > head_seq
      BY <1>1, <1>2, <1>5
    <3>2. i # 1 => End(s[1]) < s[i].seq
      BY <1>1, <1>3
    <3> QED
      BY <1>1, <1>2, <3>1, <3>2 DEF End
  <2> QED
    BY <2>2, <2>3
<1> QED
  BY <1>4, <1>5

\* What usnet_insert_fragment leaves behind says exactly which bytes were
\* received, if it did before.
LEMMA InsertListed ==
  ASSUME head_seq \in Nat, frags \in Seq(Fragment), Listed,
         NEW new \in Fragment, new.len > 0, head_seq <= new.seq,
         NEW next, next = Advance(InsertFragment(new)), NEW rcvd,
         \A x \in Nat : x \in rcvd <=> (x \in received \/ In(x, new))
  PROVE  /\ next.seq \in Nat /\ next.frags \in Seq(Fragment)
         /\ Holes(next.frags) /\ Beyond(next.frags, next.seq)
         /\ Exact(rcvd, next.seq, next.frags)
<1> DEFINE s == InsertFragment(new)
<1>1. Holes(frags) /\ Beyond(frags, head_seq) /\ Exact(received, head_seq, frags)
  BY Zenon DEF Listed
<1>2. /\ s \in Seq(Fragment) /\ Holes(s)
      /\ \A x \in Nat : Covered(s, x) <=> In(x, new) \/ Covered(frags, x)
  BY <1>1, InsertedList
<1> HIDE DEF s
<1>3. new.seq \in Nat /\ In(new.seq, new)
  BY DEF Fragment, In, End
<1>4. s # << >>
  <2>1. Covered(s, new.seq)
    BY <1>2, <1>3
  <2>2. PICK i \in DOMAIN s : In(new.seq, s[i])
    BY <2>1, Zenon DEF Covered
  <2> QED
    BY <2>2
<1>5. ASSUME NEW i \in DOMAIN s PROVE head_seq <= s[i].seq
  <2>1. s[i] \in Fragment
    BY <1>2
  <2>2. s[i].len > 0
    BY <1>2, Zenon DEF Holes
  <2>3. s[i].seq \in Nat /\ In(s[i].seq, s[i])
    BY <2>1, <2>2 DEF In, End, Fragment
  <2>4. In(s[i].seq, new) \/ Covered(frags, s[i].seq)
    BY <1>2, <2>3, Zenon DEF Covered
  <2>5. CASE In(s[i].seq, new)
    BY <1>3, <2>3, <2>5 DEF In
  <2>6. CASE Covered(frags, s[i].seq)
    <3>1. PICK j \in DOMAIN frags : In(s[i].seq, frags[j])
      BY <2>6, Zenon DEF Covered
    <3>2. frags[j].seq > head_seq /\ frags[j].seq <= s[i].seq
      BY <1>1, <3>1, Zenon DEF Beyond, In
    <3>3. frags[j] \in Fragment
      OBVIOUS
    <3>4. frags[j].seq \in Nat
      BY <3>3 DEF Fragment
    <3> QED
      BY <2>3, <3>2, <3>4
  <2> QED
    BY <2>4, <2>5, <2>6
<1>6. next = Advance(s)
  BY DEF s
<1>7. /\ next.seq \in Nat /\ next.frags \in Seq(Fragment)
      /\ Holes(next.frags) /\ Beyond(next.frags, next.seq)
      /\ \A x \in Nat : Known(next.seq, next.frags, x) <=> Known(head_seq, s, x)
  BY <1>2, <1>4, <1>5, <1>6, Advanced
<1>8. ASSUME NEW x \in Nat PROVE x \in rcvd <=> Known(next.seq, next.frags, x)
  <2>1. x \in received <=> x < head_seq \/ Covered(frags, x)
    BY <1>1, Zenon DEF Exact
  <2> QED
    BY <1>2, <1>7, <2>1, Zenon DEF Known
<1> QED
  BY <1>7, <1>8, Zenon DEF Exact, Known

-----------------------------------------------------------------------------
(* Segments in order. *)

\* In order, the new fragment is the list, and leaves it at once.
LEMMA AdvancedInOrder ==
  ASSUME head_seq \in Nat, frags = << >>, NEW len \in Nat, NEW new,
         new = [seq |-> head_seq, len |-> len]
  PROVE  /\ Advance(InsertFragment(new)).seq = head_seq + len
         /\ Advance(InsertFragment(new)).frags = << >>
<1>1. frags \in Seq(Fragment) /\ Len(frags) = 0 /\ 0 \in 0..Len(frags)
  OBVIOUS
<1>2. Walk(new)[0] = First(new)
  BY <1>1, WalkTurns, Zenon DEF Turn
<1>3. First(new).stop = FALSE /\ First(new).out = << >> /\ First(new).cur = new
  BY DEF First
<1>4. InsertFragment(new) = Append(<< >>, new)
  BY <1>1, <1>2, <1>3, Zenon DEF InsertFragment
<1>5. InsertFragment(new) = <<new>>
  BY <1>4
<1>6. <<new>>[1].seq = head_seq /\ <<new>>[1].len = len /\ Tail(<<new>>) = << >>
  OBVIOUS
<1>7. Advance(InsertFragment(new)) = [seq |-> head_seq + len, frags |-> << >>]
  BY <1>5, <1>6, Zenon DEF Advance
<1> QED
  BY <1>7

LEMMA Below ==
  ASSUME NEW n \in Nat, NEW x \in Nat, x < n
  PROVE  x % n = x
  OBVIOUS

LEMMA Once ==
  ASSUME NEW n \in Nat, NEW x \in Nat, n <= x, x < 2 * n
  PROVE  x % n = x - n
  OBVIOUS

LEMMA Words == Word \in Nat /\ Word > 1
  BY DEF Word

LEMMA Word16 ==
  ASSUME NEW x \in Int
  PROVE  x % Word \in 0..(Word - 1) /\ (0 <= x /\ x < Word => x % Word = x)
<1>1. x % Word \in 0..(Word - 1)
  BY Words
<1>2. ASSUME 0 <= x, x < Word PROVE x % Word = x
  BY <1>2, Below, Words
<1> QED
  BY <1>1, <1>2, Zenon

LEMMA FreeTaken ==
  ASSUME NEW d, NEW h, Indices(d, h)
  PROVE  Free(d, h) = Size - Taken(d, h) /\ Taken(d, h) \in 0..Size
  BY DEF Free, Taken, Indices

\* Bytes put in at head, fewer than are free: with all of them head meets data
\* and the full ring is taken for an empty one, unless data is still 0.
LEMMA PutTaken ==
  ASSUME NEW d, NEW h, Indices(d, h), NEW len \in Nat, len > 0,
         \/ len < Size - Taken(d, h)
         \/ d = 0 /\ len <= Size - Taken(d, h)
  PROVE  /\ Indices(d, MoveOn(h, len))
         /\ Taken(d, MoveOn(h, len)) = Taken(d, h) + len
  BY DEF Taken, Indices, MoveOn

\* Bytes taken out at data, no more than there are.
LEMMA GetTaken ==
  ASSUME NEW d, NEW h, Indices(d, h), NEW len \in Nat, len <= Taken(d, h)
  PROVE  /\ Indices(MoveOn(d, len), h)
         /\ Taken(MoveOn(d, len), h) = Taken(d, h) - len
         /\ \A k \in Nat : k < Taken(d, h) - len => Place(MoveOn(d, len), k) = Place(d, len + k)
<1>1. Indices(MoveOn(d, len), h) /\ Taken(MoveOn(d, len), h) = Taken(d, h) - len
  BY DEF Taken, Indices, MoveOn
<1>2. ASSUME NEW k \in Nat, k < Taken(d, h) - len
      PROVE  Place(MoveOn(d, len), k) = Place(d, len + k)
  BY <1>2 DEF Taken, Indices, MoveOn, Place
<1> QED
  BY <1>1, <1>2

-----------------------------------------------------------------------------
(* Types. *)

LEMMA Constants ==
  /\ Size \in Nat /\ 1 < Size /\ Size < Word
  /\ InitWindow \in Nat /\ Scale \in Nat /\ Scale > 0
  /\ Counts \subseteq Nat /\ MaxDepleted \in Nat
  /\ Word \in Nat /\ Word > 1
  BY Words, SizeAssumption, WindowAssumption, BoundAssumption

LEMMA UpdateTyped ==
  ASSUME TypeOK, NEW nxt \in Nat, NEW w \in Int, Update(nxt, w)
  PROVE  rcv_nxt' = nxt /\ rcv_wnd' = w /\ rcv_nxt' \in Nat /\ rcv_wnd' \in Int /\ edge' \in Nat
<1> DEFINE q == w \div Scale
           e == nxt + q * Scale
<1>1. edge \in Nat
  BY DEF TypeOK
<1>2. q \in Int
  BY Constants
<1>3. e \in Int
  <2> HIDE DEF q
  <2> QED
    BY <1>2, Constants
<1>4. edge' = IF e > edge THEN e ELSE edge
  BY Zenon DEF Update
<1> HIDE DEF e
<1>5. edge' \in Nat
  BY <1>1, <1>3, <1>4
<1> QED
  BY <1>5 DEF Update

LEMMA StoredTyped ==
  ASSUME TypeOK, NEW seq \in Nat, NEW len \in Nat
  PROVE  Stored(seq, len) \in [Index -> Int] /\ Start(seq) \in Int
<1>1. ring \in [Index -> Int] /\ head \in Nat /\ head_seq \in Nat
  BY DEF TypeOK
<1>2. Start(seq) \in Int
  BY <1>1, Constants DEF Start
<1> DEFINE off(i) == IF i >= Start(seq) THEN i - Start(seq) ELSE i + (Size - Start(seq))
<1>3. ASSUME NEW i \in Index PROVE off(i) \in Int
  BY <1>2, Constants DEF Index
<1>4. Stored(seq, len) = [i \in Index |-> IF off(i) < len THEN seq + off(i) ELSE ring[i]]
  BY Zenon DEF Stored
<1> HIDE DEF off
<1>5. \A i \in Index : (IF off(i) < len THEN seq + off(i) ELSE ring[i]) \in Int
  BY <1>1, <1>3
<1> QED
  BY <1>2, <1>4, <1>5

LEMMA HeadTyped ==
  ASSUME TypeOK, NEW seq \in Nat, NEW len \in Nat
  PROVE  HeadAfter(seq, len) \in 0..(Word - 1)
<1> DEFINE h == IF Size - Start(seq) >= len THEN head + len ELSE head + len - Size
<1>1. head \in Nat
  BY DEF TypeOK
<1>2. h \in Int
  BY <1>1, Constants
<1>3. HeadAfter(seq, len) = h % Word
  BY Zenon DEF HeadAfter
<1> HIDE DEF h
<1> QED
  BY <1>2, <1>3, Word16

LEMMA FreeTyped ==
  ASSUME NEW d \in 0..(Word - 1), NEW h \in 0..(Word - 1)
  PROVE  Free(d, h) \in Int
  BY Constants DEF Free

LEMMA WindowsTyped ==
  ASSUME NEW h \in 0..(Word - 1), data \in 0..(Word - 1), NEW w \in Windows(h)
  PROVE  w \in Int /\ w <= Free(data, h) - 1
<1>1. CASE w = Free(data, h) - 1
  BY <1>1, FreeTyped
<1>2. CASE w # Free(data, h) - 1
  <2>1. PICK e \in (IF data > h THEN 0..h ELSE {}) : w = e - h - 1
    BY <1>2 DEF Windows
  <2>2. data > h /\ e \in 0..h
    BY <2>1
  <2> QED
    BY <2>1, <2>2, Constants DEF Free
<1> QED
  BY <1>1, <1>2

LEMMA InitTyped == Init => TypeOK
<1> SUFFICES ASSUME Init PROVE TypeOK
  OBVIOUS
<1>1. ring \in [Index -> Int]
  BY DEF Init, Junk
<1>2. frags \in Seq(Fragment) /\ received \subseteq Nat
      /\ reordered \in BOOLEAN /\ overread \in BOOLEAN
  <2>1. << >> \in Seq(Fragment)
    OBVIOUS
  <2> QED
    BY <2>1 DEF Init
<1>3. data \in 0..(Word - 1) /\ head \in 0..(Word - 1) /\ rdata \in 0..(Word - 1)
  BY Words DEF Init
<1>4. /\ head_seq \in Nat /\ win \in Int /\ rcv_nxt \in Nat /\ rcv_wnd \in Int
      /\ edge \in Nat /\ rlen \in Nat /\ nread \in Nat /\ depleted \in 0..MaxDepleted
  BY Constants DEF Init
<1> QED
  BY <1>1, <1>2, <1>3, <1>4, Zenon DEF Init, TypeOK

LEMMA ReadTestTyped ==
  ASSUME TypeOK, ReadTest \/ ReadBranch
  PROVE  TypeOK'
<1>1. CASE ReadTest
  BY <1>1 DEF ReadTest, TypeOK, buf
<1>2. CASE ReadBranch
  <2>1. rpc' \in {"upper", "wrapped"}
    BY <1>2 DEF ReadBranch
  <2> QED
    BY <1>2, <2>1 DEF ReadBranch, TypeOK, buf
<1> QED
  BY <1>1, <1>2

LEMMA ReadCopyTyped ==
  ASSUME TypeOK, NEW count \in Counts, ReadCopy(count)
  PROVE  TypeOK'
<1>1. data \in Nat /\ head \in Nat /\ count \in Nat
  BY Constants DEF TypeOK
<1>2. Readable \in Int
  BY <1>1, Constants DEF Readable
<1>3. rlen' \in Nat
  BY <1>1, <1>2 DEF ReadCopy
<1>4. DataAfter(rlen') \in Int
  BY <1>1, <1>3, Constants DEF DataAfter
<1>5. rdata' \in 0..(Word - 1)
  BY <1>4, Word16 DEF ReadCopy
<1>6. overread' \in BOOLEAN
  BY DEF ReadCopy, TypeOK
<1> QED
  BY <1>3, <1>5, <1>6 DEF ReadCopy, TypeOK, buf

LEMMA ReadDoneTyped ==
  ASSUME TypeOK, ReadDone
  PROVE  TypeOK'
<1>1. data' \in 0..(Word - 1) /\ rdata' \in 0..(Word - 1)
  BY Words DEF TypeOK, ReadDone
<1>2. nread' \in Nat /\ rlen' \in Nat /\ rpc' = "idle"
  BY DEF TypeOK, ReadDone
<1> QED
  BY <1>1, <1>2 DEF TypeOK, ReadDone

LEMMA InsertFailsTyped ==
  ASSUME TypeOK, NEW seq \in Nat, NEW len \in Nat, InsertFails(seq, len)
  PROVE  TypeOK'
<1>1. Update(head_seq, win) /\ head_seq \in Nat /\ win \in Int
  BY DEF InsertFails, TypeOK
<1>2. rcv_nxt' \in Nat /\ rcv_wnd' \in Int /\ edge' \in Nat
  BY <1>1, UpdateTyped
<1> QED
  BY <1>2 DEF InsertFails, TypeOK, buf

LEMMA InsertNoFragmentTyped ==
  ASSUME TypeOK, NEW seq \in Nat, NEW len \in Nat, InsertNoFragment(seq, len)
  PROVE  TypeOK'
<1>1. Update(head_seq, win) /\ head_seq \in Nat /\ win \in Int
  BY DEF InsertNoFragment, TypeOK
<1>2. rcv_nxt' \in Nat /\ rcv_wnd' \in Int /\ edge' \in Nat
  BY <1>1, UpdateTyped
<1>3. ring' \in [Index -> Int] /\ head' \in 0..(Word - 1)
  BY StoredTyped, HeadTyped DEF InsertNoFragment
<1>4. depleted' \in 0..MaxDepleted
  BY Constants DEF InsertNoFragment, TypeOK
<1> QED
  BY <1>2, <1>3, <1>4 DEF InsertNoFragment, TypeOK

-----------------------------------------------------------------------------
(* A segment that is inserted. *)

LEMMA InsertTyped ==
  ASSUME TypeOK, Listed, NEW seq \in Nat, NEW len \in Nat, len > 0, Insert(seq, len)
  PROVE  TypeOK' /\ Listed'
<1> DEFINE new == [seq |-> seq, len |-> len]
           next == Advance(InsertFragment(new))
<1>1. /\ seq >= head_seq /\ frags' = next.frags /\ head_seq' = next.seq
      /\ ring' = Stored(seq, len) /\ head' = HeadAfter(seq, len)
      /\ win' \in Windows(head') /\ Update(head_seq', win')
      /\ received' = received \cup seq..(seq + len - 1)
  BY DEF Insert, Fits
<1>2. /\ head_seq \in Nat /\ frags \in Seq(Fragment) /\ received \subseteq Nat
      /\ data \in 0..(Word - 1)
  BY DEF TypeOK
<1>3. new \in Fragment /\ new.len > 0 /\ new.seq = seq /\ new.len = len
  BY DEF Fragment
<1> HIDE DEF new
<1>4. \A x \in Nat : x \in received' <=> (x \in received \/ In(x, new))
  <2>1. \A x \in Nat : In(x, new) <=> x \in seq..(seq + len - 1)
    BY <1>3 DEF In, End
  <2> HIDE DEF next
  <2> QED
    BY <1>1, <2>1, Zenon
<1>5. head_seq <= new.seq
  BY <1>1, <1>2, <1>3
<1> HIDE DEF next
<1>6. next = Advance(InsertFragment(new))
  BY DEF next
<1>7. /\ next.seq \in Nat /\ next.frags \in Seq(Fragment)
      /\ Holes(next.frags) /\ Beyond(next.frags, next.seq)
      /\ Exact(received', next.seq, next.frags)
  BY <1>2, <1>3, <1>4, <1>5, <1>6, InsertListed
<1>8. head_seq' \in Nat /\ frags' \in Seq(Fragment)
  BY <1>1, <1>7
<1>9. ring' \in [Index -> Int] /\ head' \in 0..(Word - 1)
  BY <1>1, StoredTyped, HeadTyped
<1>10. win' \in Int
  BY <1>1, <1>2, <1>9, WindowsTyped
<1>11. rcv_nxt' \in Nat /\ rcv_wnd' \in Int /\ edge' \in Nat
  BY <1>1, <1>8, <1>10, UpdateTyped
<1>12. received' \subseteq Nat
  BY <1>1, <1>2
<1>13. TypeOK'
  BY <1>8, <1>9, <1>10, <1>11, <1>12 DEF TypeOK, Insert
<1>14. Listed'
  BY <1>1, <1>7, Zenon DEF Listed
<1> QED
  BY <1>13, <1>14

\* Where the bytes put in at h lie: after those between d and h.
Offset(h, i) == IF i >= h THEN i - h ELSE i + (Size - h)

LEMMA PutPlace ==
  ASSUME NEW d, NEW h, Indices(d, h), NEW len \in Nat, Taken(d, h) + len <= Size,
         NEW k \in Nat, k < Taken(d, h) + len
  PROVE  /\ Place(d, k) \in Index
         /\ Offset(h, Place(d, k)) = IF k < Taken(d, h) THEN k + (Size - Taken(d, h))
                                     ELSE k - Taken(d, h)
<1> DEFINE t == Taken(d, h)
           p == Place(d, k)
<1>1. p \in Index
  BY DEF Indices, Taken, Place, Index
<1>2. /\ Size \in Nat /\ d \in Nat /\ h \in Nat /\ d <= Size /\ h <= Size
      /\ t = (IF h >= d THEN h - d ELSE Size + h - d)
      /\ p = (IF d + k < Size THEN d + k ELSE d + k - Size)
      /\ t + len <= Size /\ k < t + len
  BY DEF Indices, Taken, Place
<1> HIDE DEF t, p
<1>3. t \in Nat /\ p \in Int
  BY <1>2
<1>4. CASE k < t
  <2>1. Offset(h, p) = k + (Size - t)
    BY <1>2, <1>3, <1>4 DEF Offset
  <2> QED
    BY <1>1, <1>4, <2>1 DEF t, p
<1>5. CASE ~(k < t)
  <2>1. Offset(h, p) = k - t
    BY <1>2, <1>3, <1>5 DEF Offset
  <2> QED
    BY <1>1, <1>5, <2>1 DEF t, p
<1> QED
  BY <1>4, <1>5

\* A segment at head_seq is stored at head.
LEMMA StoredInOrder ==
  ASSUME TypeOK, Indices(data, head), NEW len \in Nat
  PROVE  /\ \A i \in Index : Stored(head_seq, len)[i] =
                               IF Offset(head, i) < len THEN head_seq + Offset(head, i) ELSE ring[i]
         /\ len <= Size => HeadAfter(head_seq, len) = MoveOn(head, len)
<1>1. /\ head_seq \in Nat /\ head \in Nat /\ head <= Size /\ Size \in Nat /\ Size < Word
      /\ Word \in Nat
  BY Words DEF TypeOK, Indices
<1>2. Start(head_seq) = head
  BY <1>1 DEF Start
<1>3. \A i \in Index : Stored(head_seq, len)[i] =
        IF Offset(head, i) < len THEN head_seq + Offset(head, i) ELSE ring[i]
  BY <1>2, Zenon DEF Stored, Offset
<1>4. ASSUME len <= Size PROVE HeadAfter(head_seq, len) = MoveOn(head, len)
  <2> DEFINE x == IF Size - head >= len THEN head + len ELSE head + len - Size
  <2>1. HeadAfter(head_seq, len) = x % Word
    BY <1>2, Zenon DEF HeadAfter
  <2>2. x = MoveOn(head, len)
    BY <1>1 DEF MoveOn
  <2>3. x \in Int /\ 0 <= x /\ x < Word
    BY <1>1, <1>4
  <2> HIDE DEF x
  <2>4. x % Word = x
    BY <2>3, Word16
  <2> QED
    BY <2>1, <2>2, <2>4
<1> QED
  BY <1>3, <1>4

\* The bytes already there stay, and the new ones follow them.
LEMMA PutContent ==
  ASSUME TypeOK, Indices(data, head), NEW len \in Nat, NEW h, Indices(data, h),
         Taken(data, head) + len <= Size, Taken(data, h) = Taken(data, head) + len,
         nread + Taken(data, head) = head_seq,
         Content(ring, data, head, nread), NEW r, r = Stored(head_seq, len)
  PROVE  Content(r, data, h, nread)
<1> SUFFICES ASSUME NEW k \in Nat, k < Taken(data, h)
             PROVE  r[Place(data, k)] = nread + k
  BY Zenon DEF Content
<1> DEFINE t == Taken(data, head)
           p == Place(data, k)
<1>1. /\ p \in Index
      /\ Offset(head, p) = IF k < t THEN k + (Size - t) ELSE k - t
  BY PutPlace
<1>2. r[p] = IF Offset(head, p) < len THEN head_seq + Offset(head, p) ELSE ring[p]
  BY <1>1, StoredInOrder
<1>3. /\ nread \in Nat /\ head_seq \in Nat /\ Size \in Nat /\ t \in 0..Size
      /\ t + len <= Size /\ nread + t = head_seq
  BY FreeTaken DEF TypeOK, Indices
<1>4. k < t => ring[p] = nread + k
  BY Zenon DEF Content
<1> HIDE DEF t, p
<1>5. CASE k < t
  <2>1. ~(Offset(head, p) < len)
    BY <1>1, <1>3, <1>5
  <2> QED
    BY <1>2, <1>4, <1>5, <2>1 DEF p
<1>6. CASE ~(k < t)
  <2>1. k - t < len
    <3>1. k < t + len
      BY DEF t
    <3> QED
      BY <1>3, <3>1
  <2>2. r[p] = head_seq + (k - t)
    BY <1>1, <1>2, <1>6, <2>1
  <2> QED
    BY <1>3, <2>2 DEF p
<1> QED
  BY <1>5, <1>6 DEF p

LEMMA InsertInOrder ==
  ASSUME TypeOK, InOrder, NEW len \in Nat, len > 0, Insert(head_seq, len), TypeOK'
  PROVE  InOrder'
<1> DEFINE new == [seq |-> head_seq, len |-> len]
           next == Advance(InsertFragment(new))
           t == Taken(data, head)
<1>1. /\ frags' = next.frags /\ head_seq' = next.seq
      /\ ring' = Stored(head_seq, len) /\ head' = HeadAfter(head_seq, len)
      /\ win' \in Windows(head') /\ Update(head_seq', win')
      /\ Arrives(head_seq, len) /\ Fits(head_seq, len)
      /\ UNCHANGED <<data, rpc, rlen, rdata, nread>>
  BY Zenon DEF Insert
<1>2. /\ head_seq \in Nat /\ nread \in Nat /\ rcv_wnd \in Int /\ Size \in Nat
      /\ Indices(data, head) /\ frags = << >> /\ rcv_nxt = head_seq
      /\ nread + t = head_seq /\ WindowFits /\ Reading
      /\ Content(ring, data, head, nread)
  BY DEF TypeOK, InOrder, Indices
<1>3. next.seq = head_seq + len /\ next.frags = << >>
  BY <1>2, AdvancedInOrder
<1> HIDE DEF next
<1>4. Free(data, head) = Size - t /\ t \in 0..Size
  BY <1>2, FreeTaken
<1>5. len <= Size /\ len <= Size - t
  BY <1>1, <1>2, <1>4 DEF Fits
<1>6. len < Size - t \/ (data = 0 /\ len <= Size - t)
  <2>1. head_seq + len <= head_seq + rcv_wnd - 1
    BY <1>1, <1>2 DEF Arrives
  <2>2. rcv_wnd <= Size - t - 1 \/ data = 0
    BY <1>2 DEF WindowFits
  <2> HIDE DEF t
  <2> QED
    BY <1>2, <1>4, <1>5, <2>1, <2>2
<1>7. head' = MoveOn(head, len)
  BY <1>1, <1>2, <1>5, StoredInOrder
<1>8. Indices(data, head') /\ Taken(data, head') = t + len
  BY <1>2, <1>6, <1>7, PutTaken
<1>9. Content(ring', data, head', nread)
  BY <1>1, <1>2, <1>4, <1>5, <1>8, PutContent
<1>10. win' <= Size - Taken(data, head') - 1
  <2>1. head' \in 0..(Word - 1) /\ data \in 0..(Word - 1)
    BY DEF TypeOK
  <2>2. win' <= Free(data, head') - 1
    BY <1>1, <2>1, WindowsTyped
  <2> QED
    BY <1>8, <2>2, FreeTaken
<1>11. rcv_nxt' = head_seq' /\ rcv_wnd' = win'
  BY <1>1, Zenon DEF Update
<1>12. head_seq' = head_seq + len /\ frags' = << >>
  BY <1>1, <1>3
<1>13. data' = data /\ nread' = nread /\ rpc' = rpc /\ rlen' = rlen /\ rdata' = rdata
  BY <1>1
<1> HIDE DEF t
<1>14. nread + Taken(data, head') = head_seq'
  BY <1>2, <1>4, <1>8, <1>12
<1>15. rpc = "copied" => rlen <= Taken(data, head') /\ rdata = MoveOn(data, rlen)
  <2>1. rlen \in Nat
    BY DEF TypeOK
  <2> QED
    BY <1>2, <1>4, <1>8, <2>1 DEF Reading, t
<1>16. head' # data
  <2>1. Taken(data, head') > 0
    BY <1>4, <1>8
  <2> QED
    BY <1>2, <2>1 DEF Taken, Indices
<1>17. head < data => head' < data
  BY <1>2, <1>4, <1>5, <1>6, <1>7 DEF Taken, Indices, MoveOn, t
<1>18. Reading'
  BY <1>2, <1>13, <1>15, <1>16, <1>17 DEF Reading, Taken, MoveOn
<1>19. win' \in Int
  BY DEF TypeOK
<1>20. WindowFits' /\ win' <= Size - Taken(data', head') - 1
  BY <1>4, <1>8, <1>10, <1>11, <1>13, <1>19 DEF WindowFits
<1> QED
  BY <1>8, <1>9, <1>11, <1>12, <1>13, <1>14, <1>18, <1>20 DEF InOrder

-----------------------------------------------------------------------------
(* The other steps. *)

LEMMA Unlisted ==
  ASSUME Listed, UNCHANGED <<frags, head_seq, received>>
  PROVE  Listed'
  BY DEF Listed, Holes, Beyond, Exact, Covered

LEMMA InsertFailsInOrder ==
  ASSUME TypeOK, InOrder, NEW seq \in Nat, NEW len \in Nat, InsertFails(seq, len)
  PROVE  InOrder'
<1>1. /\ Update(head_seq, win)
      /\ UNCHANGED <<ring, data, head, head_seq, win, frags, rpc, rlen, rdata, nread>>
  BY DEF InsertFails, buf
<1>2. rcv_nxt' = head_seq /\ rcv_wnd' = win
  BY <1>1, Zenon DEF Update
<1>3. win <= Size - Taken(data, head) - 1
  BY DEF InOrder
<1>4. Taken(data, head)' = Taken(data, head)
  BY <1>1 DEF Taken
<1>5. WindowFits' /\ win' <= (Size - Taken(data, head) - 1)'
  BY <1>1, <1>2, <1>3, <1>4 DEF WindowFits
<1>6. Reading' /\ Indices(data, head)' /\ Content(ring, data, head, nread)'
  BY <1>1, <1>4 DEF InOrder, Reading, Indices, Content, Place, MoveOn
<1> QED
  BY <1>1, <1>2, <1>4, <1>5, <1>6 DEF InOrder

\* The first two loads of head.
LEMMA ReadTestInOrder ==
  ASSUME TypeOK, InOrder, ReadTest \/ ReadBranch
  PROVE  InOrder'
<1>1. UNCHANGED <<ring, data, head, head_seq, win, frags, rcv_nxt, rcv_wnd, nread>>
  BY DEF ReadTest, ReadBranch, buf
<1>2. \/ rpc' = "tested" /\ head # data
      \/ rpc' = "upper" /\ head # data
      \/ rpc' = "wrapped" /\ head < data
  <2>1. CASE ReadTest
    BY <2>1 DEF ReadTest
  <2>2. CASE ReadBranch
    <3>1. head # data /\ data \in Nat /\ head \in Nat
      BY <2>2 DEF ReadBranch, InOrder, Reading, TypeOK
    <3> QED
      BY <2>2, <3>1 DEF ReadBranch
  <2> QED
    BY <2>1, <2>2
<1>3. Reading'
  BY <1>1, <1>2 DEF Reading
<1>4. Taken(data, head)' = Taken(data, head)
  BY <1>1 DEF Taken
<1>5. WindowFits' /\ Indices(data, head)' /\ Content(ring, data, head, nread)'
  BY <1>1, <1>4 DEF InOrder, WindowFits, Indices, Content, Place
<1> QED
  BY <1>1, <1>3, <1>4, <1>5 DEF InOrder

\* usnet_read takes no more than there is, and its new data is in the ring, also
\* when head went around since the branch was chosen, unless the read leaves the
\* ring.
LEMMA ReadCopyInOrder ==
  ASSUME TypeOK, InOrder, NEW count \in Counts, ReadCopy(count), ~overread'
  PROVE  InOrder'
<1> DEFINE t == Taken(data, head)
           l == rlen'
<1>1. /\ rpc \in {"upper", "wrapped"} /\ rpc' = "copied"
      /\ l = IF 0 <= Readable /\ Readable <= count THEN Readable ELSE count
      /\ rdata' = DataAfter(l) % Word
      /\ ~(rpc = "upper" /\ data + l > Size)
      /\ UNCHANGED <<ring, data, head, head_seq, win, frags, rcv_nxt, rcv_wnd, nread>>
  BY DEF ReadCopy, buf
<1>2. Indices(data, head) /\ count \in Nat /\ Size \in Nat
  BY Constants DEF InOrder
<1>3. /\ rpc = "upper" => head # data
      /\ rpc = "wrapped" => head < data
  BY DEF InOrder, Reading
<1> HIDE DEF l
<1>4. l \in Nat /\ l <= t
  <2>1. CASE rpc = "upper" /\ head > data
    BY <1>1, <1>2, <2>1 DEF Readable, Taken, Indices
  <2>2. CASE rpc = "upper" /\ head < data
    <3>1. l = count
      BY <1>1, <1>2, <2>2 DEF Readable, Indices
    <3> QED
      BY <1>1, <1>2, <2>2, <3>1 DEF Taken, Indices
  <2>3. CASE rpc = "wrapped"
    BY <1>1, <1>2, <1>3, <2>3 DEF Readable, Taken, Indices
  <2> QED
    BY <1>1, <1>2, <1>3, <2>1, <2>2, <2>3 DEF Indices
<1>5. DataAfter(l) = MoveOn(data, l)
  BY <1>1, <1>2, <1>3, <1>4 DEF DataAfter, MoveOn, Indices
<1>6. MoveOn(data, l) \in 0..Size
  BY <1>2, <1>4, GetTaken DEF Indices
<1>7. rdata' = MoveOn(data, l)
  <2>1. MoveOn(data, l) % Word = MoveOn(data, l)
    BY <1>2, <1>6, Words, Word16 DEF Indices
  <2> QED
    BY <1>1, <1>5, <2>1, Zenon
<1>8. Taken(data, head)' = t
  BY <1>1 DEF Taken
<1>9. Reading'
  BY <1>1, <1>4, <1>7, <1>8 DEF Reading, MoveOn, l
<1>10. WindowFits' /\ Indices(data, head)' /\ Content(ring, data, head, nread)'
  BY <1>1, <1>8 DEF InOrder, WindowFits, Indices, Content, Place
<1> QED
  BY <1>1, <1>8, <1>9, <1>10 DEF InOrder

\* The end of usnet_read: the rest of the bytes, from the new data on.
LEMMA ReadDoneInOrder ==
  ASSUME TypeOK, InOrder, ReadDone
  PROVE  InOrder'
<1> DEFINE t == Taken(data, head)
<1>1. /\ rpc = "copied" /\ rpc' = "idle" /\ data' = rdata /\ nread' = nread + rlen
      /\ UNCHANGED <<ring, head, head_seq, win, frags, rcv_nxt, rcv_wnd>>
  BY DEF ReadDone
<1>2. /\ Indices(data, head) /\ rlen \in Nat /\ rlen <= t /\ rdata = MoveOn(data, rlen)
      /\ nread \in Nat /\ head_seq \in Nat /\ win \in Int /\ rcv_wnd \in Int /\ Size \in Nat
      /\ nread + t = head_seq /\ win <= Size - t - 1 /\ WindowFits
      /\ Content(ring, data, head, nread)
  BY <1>1 DEF TypeOK, InOrder, Reading, Indices
<1>3. t \in 0..Size
  BY <1>2, FreeTaken
<1> HIDE DEF t
<1>4. /\ Indices(data', head) /\ Taken(data', head) = t - rlen
      /\ \A k \in Nat : k < t - rlen => Place(data', k) = Place(data, rlen + k)
  BY <1>1, <1>2, GetTaken DEF t
<1>5. Content(ring, data', head, nread + rlen)
  <2> SUFFICES ASSUME NEW k \in Nat, k < Taken(data', head)
               PROVE  ring[Place(data', k)] = (nread + rlen) + k
    BY Zenon DEF Content
  <2>1. k < t - rlen /\ rlen + k \in Nat /\ rlen + k < t
    BY <1>2, <1>3, <1>4
  <2>2. ring[Place(data, rlen + k)] = nread + (rlen + k)
    BY <1>2, <2>1, Zenon DEF Content, t
  <2>3. Place(data', k) = Place(data, rlen + k)
    BY <1>4, <2>1
  <2> QED
    BY <1>2, <2>2, <2>3
<1>6. (nread + rlen) + Taken(data', head) = head_seq
  BY <1>2, <1>3, <1>4
<1>7. win <= Size - Taken(data', head) - 1
  BY <1>2, <1>3, <1>4
<1>8. \/ rcv_wnd <= Size - Taken(data', head) - 1
      \/ nread + rlen = 0 /\ head = 0 /\ data' = 0
  <2>1. CASE rcv_wnd <= Size - t - 1
    BY <1>2, <1>3, <1>4, <2>1
  <2>2. CASE nread = 0 /\ head = 0 /\ data = 0
    <3>1. t = 0
      BY <2>2 DEF t, Taken
    <3>2. rlen = 0 /\ data' = 0
      BY <1>1, <1>2, <2>2, <3>1 DEF MoveOn
    <3> QED
      BY <2>2, <3>2
  <2> QED
    BY <1>2, <2>1, <2>2 DEF WindowFits, t
<1>9. /\ head' = head /\ win' = win /\ rcv_wnd' = rcv_wnd /\ ring' = ring
      /\ head_seq' = head_seq /\ rcv_nxt' = rcv_nxt /\ frags' = frags
  BY <1>1
<1>10. Taken(data, head)' = Taken(data', head)
  BY <1>9 DEF Taken
<1>11. WindowFits'
  BY <1>1, <1>8, <1>9, <1>10 DEF WindowFits
<1>12. Reading' /\ Indices(data, head)'
  BY <1>1, <1>4, <1>9 DEF Reading, Indices
<1>13. Content(ring, data, head, nread)'
  BY <1>1, <1>5, <1>9, <1>10 DEF Content, Place
<1> QED
  BY <1>1, <1>6, <1>7, <1>9, <1>10, <1>11, <1>12, <1>13 DEF InOrder

-----------------------------------------------------------------------------
(* The invariant. *)

LEMMA InitHolds == Init => IInv
<1> SUFFICES ASSUME Init PROVE IInv
  OBVIOUS
<1>1. TypeOK
  BY InitTyped
<1>2. /\ frags = << >> /\ DOMAIN frags = {} /\ head_seq = 0 /\ received = {}
      /\ nread = 0 /\ data = 0 /\ head = 0 /\ win = 0 /\ rcv_nxt = 0 /\ rpc = "idle"
  BY DEF Init
<1>3. Holes(frags) /\ Beyond(frags, head_seq)
  BY <1>2, Zenon DEF Holes, Beyond
<1>4. Exact(received, head_seq, frags)
  BY <1>2 DEF Exact, Covered
<1>5. Taken(data, head) = 0 /\ Indices(data, head)
  BY <1>2, Constants DEF Taken, Indices
<1>6. InOrder
  BY <1>2, <1>5, Constants DEF InOrder, WindowFits, Reading, Content
<1> QED
  BY <1>1, <1>3, <1>4, <1>6, Zenon DEF IInv, Listed

LEMMA SegmentHolds ==
  ASSUME IInv, NEW seq \in Nat, NEW len \in Nat, len > 0,
         Insert(seq, len) \/ InsertNoFragment(seq, len) \/ InsertFails(seq, len)
  PROVE  IInv'
<1>1. /\ TypeOK /\ Listed /\ (~reordered /\ ~overread => InOrder)
      /\ reordered \in BOOLEAN /\ overread \in BOOLEAN
  BY DEF IInv, TypeOK
<1>2. CASE Insert(seq, len)
  <2>1. TypeOK' /\ Listed'
    BY <1>1, <1>2, InsertTyped
  <2>2. ASSUME ~reordered', ~overread' PROVE InOrder'
    <3>1. ~reordered /\ ~overread /\ seq = head_seq
      BY <1>2, <2>2, Zenon DEF Insert
    <3>2. Insert(head_seq, len)
      BY <1>2, <3>1, Zenon
    <3> QED
      BY <1>1, <2>1, <3>1, <3>2, InsertInOrder
  <2> QED
    BY <2>1, <2>2, Zenon DEF IInv
<1>3. CASE InsertNoFragment(seq, len)
  <2>1. TypeOK'
    BY <1>1, <1>3, InsertNoFragmentTyped
  <2>2. reordered' = TRUE /\ UNCHANGED <<frags, head_seq, received>>
    BY <1>3 DEF InsertNoFragment
  <2> QED
    BY <1>1, <2>1, <2>2, Unlisted, Zenon DEF IInv
<1>4. CASE InsertFails(seq, len)
  <2>1. TypeOK'
    BY <1>1, <1>4, InsertFailsTyped
  <2>2. UNCHANGED <<reordered, overread, frags, head_seq, received>>
    BY <1>4 DEF InsertFails, buf
  <2>3. ~reordered /\ ~overread => InOrder'
    BY <1>1, <1>4, InsertFailsInOrder
  <2> QED
    BY <1>1, <2>1, <2>2, <2>3, Unlisted, Zenon DEF IInv
<1> QED
  BY <1>2, <1>3, <1>4

LEMMA ReadHolds ==
  ASSUME IInv, Reads
  PROVE  IInv'
<1>1. TypeOK /\ Listed /\ (~reordered /\ ~overread => InOrder)
  BY DEF IInv
<1>2. ASSUME ReadTest \/ ReadBranch PROVE IInv'
  <2>1. TypeOK'
    BY <1>1, <1>2, ReadTestTyped
  <2>2. UNCHANGED <<reordered, overread, frags, head_seq, received>>
    BY <1>2 DEF ReadTest, ReadBranch, buf
  <2>3. ~reordered /\ ~overread => InOrder'
    BY <1>1, <1>2, ReadTestInOrder
  <2> QED
    BY <1>1, <2>1, <2>2, <2>3, Unlisted, Zenon DEF IInv
<1>3. ASSUME NEW count \in Counts, ReadCopy(count) PROVE IInv'
  <2>1. TypeOK'
    BY <1>1, <1>3, ReadCopyTyped
  <2>2. reordered' = reordered /\ UNCHANGED <<frags, head_seq, received>>
    BY <1>3 DEF ReadCopy, buf
  <2>3. ~overread' => ~overread
    BY <1>3, Zenon DEF ReadCopy
  <2>4. ~reordered /\ ~overread' => InOrder'
    BY <1>1, <1>3, <2>3, ReadCopyInOrder
  <2> QED
    BY <1>1, <2>1, <2>2, <2>4, Unlisted, Zenon DEF IInv
<1>4. ASSUME ReadDone PROVE IInv'
  <2>1. TypeOK'
    BY <1>1, <1>4, ReadDoneTyped
  <2>2. UNCHANGED <<reordered, overread, frags, head_seq, received>>
    BY <1>4 DEF ReadDone
  <2>3. ~reordered /\ ~overread => InOrder'
    BY <1>1, <1>4, ReadDoneInOrder
  <2> QED
    BY <1>1, <2>1, <2>2, <2>3, Unlisted, Zenon DEF IInv
<1> QED
  BY <1>2, <1>3, <1>4, Zenon DEF Reads

LEMMA StutterHolds ==
  ASSUME IInv, UNCHANGED vars
  PROVE  IInv'
<1>1. /\ UNCHANGED <<ring, data, head, head_seq, win, frags, rcv_nxt, rcv_wnd, rpc, rlen>>
      /\ UNCHANGED <<rdata, edge, nread, received, reordered, overread, depleted>>
  BY DEF vars, buf
<1>2. TypeOK'
  BY <1>1 DEF IInv, TypeOK
<1>3. Listed'
  BY <1>1, Unlisted DEF IInv
<1>4. ~reordered /\ ~overread => InOrder'
  BY <1>1 DEF IInv, InOrder, Indices, Taken, WindowFits, Reading, Content, Place, MoveOn
<1> QED
  BY <1>1, <1>2, <1>3, <1>4, Zenon DEF IInv

\* Every segment that usnet_process_tcp_payload takes or refuses and every read
\* of usnet_read keeps IInv: the list of fragments and, while nothing was
\* reordered and no read left the ring, the ring.
THEOREM Invariance == Spec => []IInv
<1>1. ASSUME IInv, Next PROVE IInv'
  <2>1. ASSUME Segments PROVE IInv'
    <3>1. PICK seq \in 0..(MaxSeq - 1), len \in 1..MaxSegment :
            Insert(seq, len) \/ InsertNoFragment(seq, len) \/ InsertFails(seq, len)
      BY <2>1, Zenon DEF Segments
    <3>2. seq \in Nat /\ len \in Nat /\ len > 0
      BY BoundAssumption
    <3> QED
      BY <1>1, <3>1, <3>2, SegmentHolds
  <2> QED
    BY <1>1, <2>1, ReadHolds, Zenon DEF Next
<1>2. IInv /\ [Next]_vars => IInv'
  BY <1>1, StutterHolds
<1> QED
  BY InitHolds, <1>2, PTL DEF Spec

\* The indices of usn_ringbuf_t keep their 16 bits, also when reordered segments
\* have moved them out of the ring, and the list holds fragments.
THEOREM RecvTyped == Spec => []TypeOK
<1>1. IInv => TypeOK
  BY DEF IInv
<1> QED
  BY Invariance, <1>1, PTL

LEMMA ListedExact ==
  ASSUME TypeOK, Listed
  PROVE  ReassemblyExact
<1>1. /\ frags \in Seq(Fragment) /\ head_seq \in Nat /\ received \subseteq Nat
      /\ Holes(frags) /\ Beyond(frags, head_seq) /\ Exact(received, head_seq, frags)
  BY DEF TypeOK, Listed
<1>2. ASSUME NEW i \in DOMAIN frags
      PROVE  frags[i].seq > IF i = 1 THEN head_seq ELSE frags[i - 1].seq + frags[i - 1].len
  <2>1. CASE i = 1
    BY <1>1, <2>1 DEF Beyond
  <2>2. CASE i # 1
    <3>1. /\ i - 1 \in DOMAIN frags /\ i - 1 < i
          /\ frags[i] \in Fragment /\ frags[i - 1] \in Fragment
      BY <1>1, <2>2
    <3>2. End(frags[i - 1]) < frags[i].seq
      BY <1>1, <3>1, Zenon DEF Holes
    <3> QED
      BY <2>2, <3>1, <3>2 DEF End, Fragment
  <2> QED
    BY <2>1, <2>2
<1> DEFINE U == UNION {Bytes(frags[i]) : i \in DOMAIN frags}
<1>3. ASSUME NEW i \in DOMAIN frags, NEW x
      PROVE  x \in Bytes(frags[i]) <=> x \in Nat /\ In(x, frags[i])
  <2>1. frags[i] \in Fragment
    BY <1>1
  <2>2. frags[i].seq \in Nat /\ frags[i].len \in Nat
    BY <2>1 DEF Fragment
  <2> QED
    BY <2>2 DEF Bytes, In, End
<1>4. ASSUME NEW x PROVE x \in U <=> x \in Nat /\ Covered(frags, x)
  BY <1>3, Zenon DEF Covered
<1> HIDE DEF U
<1>5. ASSUME NEW x PROVE x \in received <=> x \in 0..(head_seq - 1) \cup U
  <2>1. x \in 0..(head_seq - 1) <=> x \in Nat /\ x < head_seq
    BY <1>1
  <2>2. x \in received => x \in Nat
    BY <1>1
  <2> QED
    BY <1>1, <1>4, <2>1, <2>2, Zenon DEF Exact
<1>6. received = 0..(head_seq - 1) \cup U
  BY <1>5, Zenon
<1> QED
  BY <1>2, <1>6 DEF ReassemblyExact, U

\* For every order, overlap and repetition of the segments, what
\* usnet_insert_fragment keeps are the received bytes beyond head_seq, sorted with a
\* hole before each fragment: no ack covers a missing byte.
THEOREM Reassembly == Spec => []ReassemblyExact
<1>1. IInv => ReassemblyExact
  BY ListedExact DEF IInv
<1> QED
  BY Invariance, <1>1, PTL

LEMMA InOrderReads ==
  ASSUME TypeOK, InOrder
  PROVE  /\ nread + Unread = head_seq
         /\ \A k \in nread..(head_seq - 1) : ring[(data + (k - nread)) % Size] = k
<1>1. /\ Indices(data, head) /\ nread + Taken(data, head) = head_seq
      /\ Content(ring, data, head, nread) /\ nread \in Nat /\ head_seq \in Nat
  BY DEF TypeOK, InOrder
<1>2. Unread = Taken(data, head)
  BY Zenon DEF Unread, Taken
<1>3. Taken(data, head) \in 0..Size
  BY <1>1, FreeTaken
<1>4. ASSUME NEW k \in nread..(head_seq - 1)
      PROVE  ring[(data + (k - nread)) % Size] = k
  <2> DEFINE d == k - nread
  <2>1. d \in Nat /\ d < Taken(data, head) /\ nread + d = k
    BY <1>1, <1>3
  <2> HIDE DEF d
  <2>2. /\ data + d \in Nat /\ Size \in Nat /\ data + d < 2 * Size
    BY <1>1, <1>3, <2>1 DEF Indices
  <2>3. CASE data + d < Size
    <3>1. (data + d) % Size = data + d
      BY <2>2, <2>3, Below
    <3>2. Place(data, d) = data + d
      BY <2>3 DEF Place
    <3> QED
      BY <1>1, <2>1, <3>1, <3>2, Zenon DEF Content, d
  <2>4. CASE ~(data + d < Size)
    <3>1. (data + d) % Size = (data + d) - Size
      <4>1. data + d \in Nat /\ Size \in Nat /\ Size <= data + d /\ data + d < 2 * Size
        BY <2>2, <2>4
      <4> QED
        BY <4>1, Once, Zenon
    <3>2. Place(data, d) = (data + d) - Size
      BY <1>1, <2>1, <2>4 DEF Place, Indices
    <3> QED
      BY <1>1, <2>1, <3>1, <3>2, Zenon DEF Content, d
  <2> QED
    BY <2>3, <2>4
<1> QED
  BY <1>1, <1>2, <1>4

\* As long as the segments arrive in order, usnet_read returns the stream: the
\* readable part of the ring is what was received and not read, around the end of
\* the ring and with head moving between the loads of a read, for every size up to
\* the 16 bits of the indices; up to a read that head overtakes around the end, which
\* copies beyond the ring.
THEOREM StreamRead == Spec => []ReadsStream
<1>1. IInv => ReadsStream
  BY InOrderReads DEF IInv, ReadsStream
<1> QED
  BY Invariance, <1>1, PTL

=============================================================================
