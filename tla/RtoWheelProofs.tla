--------------------------- MODULE RtoWheelProofs ---------------------------
(***************************************************************************)
(* Proofs about RtoWheel, for every set of blocks, size of the wheel and   *)
(* of the word, and every length of the timeouts.                          *)
(***************************************************************************)
EXTENDS RtoWheel, FiniteSetTheorems, TLAPS

\* What the wheel keeps: the types, the agreement of lists and indices, and
\* the count.
IInv == TypeOK /\ ListMatchesIndex /\ CountOfListed

-----------------------------------------------------------------------------
(* Arithmetic of words and slots. *)

LEMMA Sizes == Hash \in Nat \ {0} /\ Word \in Nat \ {0} /\ Hash < Word
BY HashAssumption, WordAssumption

\* A remainder is below its modulus.
LEMMA Remainder ==
  ASSUME NEW a \in Int, NEW n \in Nat \ {0}
  PROVE  a % n \in 0..(n - 1)
OBVIOUS

LEMMA SignedType == ASSUME NEW a \in Int PROVE Signed(a) \in Int
<1>1. a % Word \in 0..(Word - 1)
  BY Sizes, Remainder
<1> QED
  BY <1>1, Sizes DEF Signed

\* A timer that is not too far ahead has a list of the wheel, also when its
\* difference is negative.
LEMMA OffsetType ==
  ASSUME NEW diff \in Int, NEW idx \in Int
  PROVE  Offset(diff, idx) \in 0..(Hash - 1)
<1>1. (diff + idx) % Word \in Int
  BY Sizes, Remainder
<1> QED
  BY <1>1, Sizes, Remainder DEF Offset

LEMMA SlotType ==
  ASSUME NEW diff \in Int, NEW idx \in Int
  PROVE  Slot(diff, idx) \in 0..Hash
BY OffsetType, Sizes DEF Slot

-----------------------------------------------------------------------------
(* Counting the blocks on the lists. *)

LEMMA ListedFinite ==
  IsFiniteSet(Listed) /\ Cardinality(Listed) \in Nat
<1>1. Listed \subseteq Tcbs
  BY DEF Listed
<1> QED
  BY <1>1, TcbsAssumption, FS_Subset, FS_CardinalityType

\* One block leaves its list.
LEMMA OneLess ==
  ASSUME TypeOK, NEW t \in Listed,
         on_rto_idx' = [on_rto_idx EXCEPT ![t] = -1]
  PROVE  Cardinality(Listed') = Cardinality(Listed) - 1
<1>1. Listed' = Listed \ {t}
  BY DEF TypeOK, Listed
<1> QED
  BY <1>1, ListedFinite, FS_RemoveElement

\* One block gets a list.
LEMMA OneMore ==
  ASSUME TypeOK, NEW t \in Tcbs \ Listed, NEW i \in 0..Hash,
         on_rto_idx' = [on_rto_idx EXCEPT ![t] = i]
  PROVE  Cardinality(Listed') = Cardinality(Listed) + 1
<1>1. Listed' = Listed \cup {t}
  BY DEF TypeOK, Listed
<1>2. t \notin Listed
  OBVIOUS
<1> QED
  BY <1>1, <1>2, ListedFinite, FS_AddElement

-----------------------------------------------------------------------------
(* The list operations. *)

\* The part of the types that a list operation writes.
StoreType ==
  /\ rto_now_ts \in Stamp /\ rto_now_idx \in 0..(Hash - 1)
  /\ rto_list \in [0..Hash -> SUBSET Tcbs] /\ rto_list_cnt \in Int
  /\ on_rto_idx \in [Tcbs -> -1..Hash] /\ ts_rto \in [Tcbs -> Stamp]
  /\ age \in [Tcbs -> 0..MaxAge]

\* The part of ListMatchesIndex that a list operation writes.
ListsMatch == \A i \in 0..Hash : rto_list[i] = {t \in Tcbs : on_rto_idx[t] = i}

\* usnet_remove_rto_list leaves the block on no list and counts it down if it
\* was on one.
LEMMA RemoveRtoKeeps ==
  ASSUME IInv, NEW t \in Tcbs, RemoveRto(t), UNCHANGED drift
  PROVE  /\ StoreType' /\ ListsMatch' /\ CountOfListed'
         /\ Listed' = Listed \ {t}
<1> USE DEF IInv
<1>1. Listed' = Listed \ {t}
  BY DEF RemoveRto, TypeOK, Listed
<1>2. StoreType'
  BY Sizes, BoundAssumption DEF RemoveRto, TypeOK, StoreType, Stamp
<1>3. ListsMatch'
  <2> SUFFICES ASSUME NEW i \in 0..Hash
               PROVE  rto_list'[i] = {u \in Tcbs : on_rto_idx'[u] = i}
    BY DEF ListsMatch
  <2>1. rto_list'[i] = IF i = on_rto_idx[t] THEN rto_list[i] \ {t} ELSE rto_list[i]
    BY DEF RemoveRto
  <2>2. \A u \in Tcbs : on_rto_idx'[u] = IF u = t THEN -1 ELSE on_rto_idx[u]
    BY DEF RemoveRto, TypeOK
  <2>3. rto_list[i] = {u \in Tcbs : on_rto_idx[u] = i}
    BY DEF ListMatchesIndex
  <2>4. i # -1
    OBVIOUS
  <2> QED
    BY <2>1, <2>2, <2>3, <2>4
<1>4. CountOfListed'
  <2>1. CASE t \in Listed
    <3>1. rto_list_cnt' = rto_list_cnt - 1
      BY <2>1 DEF RemoveRto, Listed
    <3>2. Cardinality(Listed') = Cardinality(Listed) - 1
      BY <2>1, OneLess DEF RemoveRto
    <3> QED
      BY <3>1, <3>2, ListedFinite DEF CountOfListed, TypeOK
  <2>2. CASE t \notin Listed
    <3>1. rto_list_cnt' = rto_list_cnt
      BY <2>2 DEF RemoveRto, Listed, TypeOK
    <3>2. Listed' = Listed
      BY <2>2, <1>1
    <3> QED
      BY <3>1, <3>2 DEF CountOfListed
  <2> QED
    BY <2>1, <2>2
<1> QED
  BY <1>1, <1>2, <1>3, <1>4

\* usnet_add_rto_list leaves the block on one list and counts it up if it was
\* on none; an entry that is moved counts once.
LEMMA AddRtoKeeps ==
  ASSUME IInv, NEW t \in Tcbs, NEW ts \in Rtos, NEW moved \in BOOLEAN,
         moved => t \in Listed, AddRto(t, ts, moved), UNCHANGED drift
  PROVE  /\ StoreType' /\ ListsMatch' /\ CountOfListed'
         /\ Listed' = Listed \cup {t}
<1> USE DEF IInv
<1> DEFINE on   == on_rto_idx[t] >= 0 /\ ~moved
           n    == rto_list_cnt - (IF moved THEN 1 ELSE 0)
           idx  == IF n = 0 THEN 0 ELSE rto_now_idx
           nts  == IF n = 0 THEN ts ELSE rto_now_ts
           slot == Slot(Signed(ts - nts), idx)
<1>1. ts \in Stamp
  BY RtosAssumption DEF Stamp
<1>2. n \in Int /\ idx \in 0..(Hash - 1) /\ nts \in Stamp
  BY <1>1, Sizes DEF TypeOK
<1>3. slot \in 0..Hash
  <2>1. ts - nts \in Int /\ idx \in Int
    BY <1>1, <1>2, Sizes DEF Stamp
  <2> HIDE DEF nts, idx
  <2> QED
    BY <2>1, SignedType, SlotType
<1>4. /\ rto_now_idx' = idx /\ rto_now_ts' = nts
      /\ ts_rto' = [ts_rto EXCEPT ![t] = IF (IF on THEN on_rto_idx[t] ELSE slot) = Hash
                                         THEN ts ELSE 0]
  BY DEF AddRto
<1>5. CASE on
  <2>1. UNCHANGED <<rto_list, on_rto_idx, rto_list_cnt, age>>
    BY <1>5 DEF AddRto
  <2>2. t \in Listed /\ Listed' = Listed
    BY <1>5, <2>1 DEF Listed
  <2>3. StoreType'
    BY <1>1, <1>2, <1>4, <2>1, Sizes DEF StoreType, TypeOK, Stamp
  <2>4. ListsMatch' /\ CountOfListed'
    BY <2>1, <2>2 DEF ListsMatch, ListMatchesIndex, CountOfListed
  <2> QED
    BY <2>2, <2>3, <2>4
<1>6. CASE ~on
  <2>1. /\ rto_list' = [i \in 0..Hash |->
                          (rto_list[i] \ {t}) \cup (IF i = slot THEN {t} ELSE {})]
        /\ on_rto_idx' = [on_rto_idx EXCEPT ![t] = slot]
        /\ rto_list_cnt' = n + 1
        /\ age' = [age EXCEPT ![t] = 0]
    BY <1>6 DEF AddRto
  <2> HIDE DEF slot, n, nts, idx
  <2>2. StoreType'
    <3>1. rto_list' \in [0..Hash -> SUBSET Tcbs]
      BY <2>1 DEF TypeOK
    <3>2. on_rto_idx' \in [Tcbs -> -1..Hash]
      BY <1>3, <2>1, Sizes DEF TypeOK
    <3>3. ts_rto' \in [Tcbs -> Stamp] /\ age' \in [Tcbs -> 0..MaxAge]
      BY <1>1, <1>4, <2>1, Sizes, BoundAssumption DEF TypeOK, Stamp
    <3> QED
      BY <3>1, <3>2, <3>3, <1>2, <1>4, <2>1 DEF StoreType
  <2>3. Listed' = Listed \cup {t}
    BY <1>3, <2>1 DEF TypeOK, Listed
  <2>4. ListsMatch'
    <3> SUFFICES ASSUME NEW i \in 0..Hash
                 PROVE  rto_list'[i] = {u \in Tcbs : on_rto_idx'[u] = i}
      BY DEF ListsMatch
    <3>1. rto_list'[i] = (rto_list[i] \ {t}) \cup (IF i = slot THEN {t} ELSE {})
      BY <2>1
    <3>2. \A u \in Tcbs : on_rto_idx'[u] = IF u = t THEN slot ELSE on_rto_idx[u]
      BY <2>1 DEF TypeOK
    <3>3. rto_list[i] = {u \in Tcbs : on_rto_idx[u] = i}
      BY DEF ListMatchesIndex
    <3> QED
      BY <3>1, <3>2, <3>3
  <2>5. CountOfListed'
    <3>1. CASE t \in Listed
      <4>1. moved
        BY <1>6, <3>1 DEF Listed
      <4>2. rto_list_cnt' = rto_list_cnt
        BY <4>1, <2>1 DEF n, TypeOK
      <4>3. Listed' = Listed
        BY <3>1, <2>3
      <4> QED
        BY <4>2, <4>3 DEF CountOfListed
    <3>2. CASE t \notin Listed
      <4>1. rto_list_cnt' = rto_list_cnt + 1
        BY <3>2, <2>1 DEF n, TypeOK
      <4>2. Cardinality(Listed') = Cardinality(Listed) + 1
        BY <3>2, <1>3, <2>1, OneMore
      <4> QED
        BY <4>1, <4>2, ListedFinite DEF CountOfListed, TypeOK
    <3> QED
      BY <3>1, <3>2
  <2> QED
    BY <2>2, <2>3, <2>4, <2>5
<1> QED
  BY <1>5, <1>6
-----------------------------------------------------------------------------
(* The steps. *)

\* The rest of the types.
LoopType ==
  /\ state \in [Tcbs -> States] /\ nrtx \in [Tcbs -> 0..MaxRtx]
  /\ queued \in [Tcbs -> BOOLEAN]
  /\ pc \in Phases /\ busy \in BOOLEAN /\ cnt \in 0..Thresh /\ drift \in Nat

\* A released block is on no list.
FreeIsOff == \A t \in Listed : state[t] # "FREE"

LEMMA Parts == IInv <=> StoreType /\ LoopType /\ ListsMatch /\ FreeIsOff /\ CountOfListed
BY DEF IInv, TypeOK, StoreType, LoopType, ListMatchesIndex, ListsMatch, FreeIsOff

LEMMA PartsPrimed ==
  StoreType' /\ LoopType' /\ ListsMatch' /\ FreeIsOff' /\ CountOfListed' => IInv'
BY DEF IInv, TypeOK, StoreType, LoopType, ListMatchesIndex, ListsMatch, FreeIsOff

\* A step that changes neither the lists nor the state of a block.
LEMMA ListsUntouched ==
  ASSUME IInv, UNCHANGED <<wheel, ts_rto, age, drift>>, LoopType',
         \A t \in Tcbs : state[t] # "FREE" => state'[t] # "FREE"
  PROVE  IInv'
<1>1. Listed' = Listed
  BY DEF wheel, Listed
<1>2. StoreType' /\ ListsMatch' /\ CountOfListed'
  BY <1>1, Parts DEF wheel, StoreType, ListsMatch, CountOfListed
<1>3. FreeIsOff'
  BY <1>1, Parts DEF FreeIsOff, Listed
<1> QED
  BY <1>2, <1>3, PartsPrimed

LEMMA ReleaseKeeps ==
  ASSUME IInv, NEW t \in Tcbs, Release(t), UNCHANGED loop
  PROVE  IInv'
<1>1. /\ StoreType' /\ ListsMatch' /\ CountOfListed'
      /\ Listed' = Listed \ {t}
  BY RemoveRtoKeeps DEF Release
<1>2. LoopType'
  BY BoundAssumption DEF Release, IInv, TypeOK, LoopType, States, loop
<1>3. FreeIsOff'
  BY <1>1 DEF Release, IInv, TypeOK, ListMatchesIndex, FreeIsOff, Listed
<1> QED
  BY <1>1, <1>2, <1>3, PartsPrimed

LEMMA FramesKeeps ==
  ASSUME IInv, NEW t \in Tcbs, Frames(t)
  PROVE  IInv'
<1> USE DEF IInv
<1>1. CASE NewTcb(t)
  <2>1. LoopType'
    BY <1>1 DEF NewTcb, TypeOK, LoopType, States, loop
  <2>2. \A u \in Tcbs : state[u] # "FREE" => state'[u] # "FREE"
    BY <1>1 DEF NewTcb, TypeOK
  <2> QED
    BY <1>1, <2>1, <2>2, ListsUntouched DEF NewTcb
<1>2. CASE Establish(t)
  <2>1. /\ StoreType' /\ ListsMatch' /\ CountOfListed'
        /\ Listed' = Listed \ {t}
    BY <1>2, RemoveRtoKeeps DEF Establish
  <2>2. LoopType'
    BY <1>2, BoundAssumption DEF Establish, TypeOK, LoopType, States, loop
  <2>3. FreeIsOff'
    BY <1>2, <2>1 DEF Establish, TypeOK, ListMatchesIndex, FreeIsOff, Listed
  <2> QED
    BY <2>1, <2>2, <2>3, PartsPrimed
<1>3. CASE AckData(t)
  <2>1. PICK all \in BOOLEAN, rto \in Rtos : UpdateTimer(t, all, rto)
    BY <1>3 DEF AckData
  <2>2. /\ StoreType' /\ ListsMatch' /\ CountOfListed'
        /\ Listed' \in {Listed \ {t}, Listed \cup {t}}
    <3>1. CASE all
      BY <1>3, <2>1, <3>1, RemoveRtoKeeps DEF UpdateTimer, AckData
    <3>2. CASE ~all
      <4>1. AddRto(t, rto, on_rto_idx[t] >= 0) /\ UNCHANGED drift
        BY <1>3, <2>1, <3>2 DEF UpdateTimer, AckData
      <4>2. (on_rto_idx[t] >= 0) \in BOOLEAN /\ (on_rto_idx[t] >= 0 => t \in Listed)
        BY DEF Listed, TypeOK
      <4> DEFINE m == on_rto_idx[t] >= 0
      <4>3. AddRto(t, rto, m) /\ m \in BOOLEAN /\ (m => t \in Listed)
        BY <4>1, <4>2
      <4> HIDE DEF m
      <4> QED
        BY <4>1, <4>3, AddRtoKeeps
    <3> QED
      BY <3>1, <3>2
  <2>3. LoopType'
    BY <1>3, <2>1, BoundAssumption DEF AckData, UpdateTimer, TypeOK, LoopType, loop
  <2>4. FreeIsOff'
    BY <1>3, <2>2 DEF AckData, TypeOK, ListMatchesIndex, FreeIsOff, Listed
  <2> QED
    BY <2>2, <2>3, <2>4, PartsPrimed
<1>4. CASE Reset(t)
  BY <1>4, ReleaseKeeps DEF Reset
<1> QED
  BY <1>1, <1>2, <1>3, <1>4 DEF Frames

LEMMA OutputKeeps ==
  ASSUME IInv, NEW t \in Tcbs, Output(t)
  PROVE  IInv'
<1> USE DEF IInv
<1>1. CASE NetWrite(t) \/ SendNothing(t)
  <2>1. LoopType'
    BY <1>1 DEF NetWrite, SendNothing, TypeOK, LoopType, loop
  <2> QED
    BY <1>1, <2>1, ListsUntouched DEF NetWrite, SendNothing
<1>2. CASE Send(t)
  <2>1. PICK rto \in Rtos : AddRto(t, rto, FALSE)
    BY <1>2 DEF Send
  <2>2. /\ StoreType' /\ ListsMatch' /\ CountOfListed'
        /\ Listed' = Listed \cup {t}
    BY <1>2, <2>1, AddRtoKeeps DEF Send
  <2>3. LoopType'
    BY <1>2 DEF Send, TypeOK, LoopType, loop
  <2>4. FreeIsOff'
    BY <1>2, <2>2 DEF Send, ListMatchesIndex, FreeIsOff
  <2> QED
    BY <2>2, <2>3, <2>4, PartsPrimed
<1>3. CASE SendReset(t)
  BY <1>3, ReleaseKeeps DEF SendReset
<1> QED
  BY <1>1, <1>2, <1>3 DEF Output

LEMMA ConnTimeoutKeeps ==
  ASSUME IInv, NEW t \in Tcbs, ConnTimeout(t)
  PROVE  IInv'
<1>1. CASE Release(t)
  BY <1>1, ReleaseKeeps DEF ConnTimeout
<1>2. CASE ~Release(t)
  <2>1. /\ state' = [state EXCEPT ![t] = "CLOSED"]
        /\ UNCHANGED <<wheel, ts_rto, nrtx, queued, drift, age, loop>>
    BY <1>2 DEF ConnTimeout
  <2>2. LoopType'
    BY <2>1 DEF IInv, TypeOK, LoopType, States, loop
  <2>3. \A u \in Tcbs : state[u] # "FREE" => state'[u] # "FREE"
    BY <2>1 DEF IInv, TypeOK
  <2> QED
    BY <2>1, <2>2, <2>3, ListsUntouched
<1> QED
  BY <1>1, <1>2

\* A timeout takes the block off the list at hand; when usnet_handle_rto has
\* released it the count drops by two, and drift says so.
LEMMA HandleRtoKeeps ==
  ASSUME IInv, NEW t \in Tcbs, HandleRto(t)
  PROVE  IInv'
<1> USE DEF IInv
<1>1. t \in Listed /\ on_rto_idx[t] = rto_now_idx
  <2>1. rto_now_idx \in 0..Hash
    BY Sizes DEF TypeOK
  <2>2. rto_list[rto_now_idx] = {u \in Tcbs : on_rto_idx[u] = rto_now_idx}
    BY <2>1 DEF ListMatchesIndex
  <2> QED
    BY <2>2 DEF HandleRto, Listed
<1>2. Listed' = Listed \ {t}
  BY DEF HandleRto, TypeOK, Listed
<1>3. Cardinality(Listed') = Cardinality(Listed) - 1
  BY <1>1, OneLess DEF HandleRto
<1>4. ListsMatch'
  <2> SUFFICES ASSUME NEW i \in 0..Hash
               PROVE  rto_list'[i] = {u \in Tcbs : on_rto_idx'[u] = i}
    BY DEF ListsMatch
  <2>1. rto_list'[i] = IF i = rto_now_idx THEN rto_list[i] \ {t} ELSE rto_list[i]
    BY DEF HandleRto, TypeOK
  <2>2. \A u \in Tcbs : on_rto_idx'[u] = IF u = t THEN -1 ELSE on_rto_idx[u]
    BY DEF HandleRto, TypeOK
  <2>3. rto_list[i] = {u \in Tcbs : on_rto_idx[u] = i}
    BY DEF ListMatchesIndex
  <2>4. i # -1
    OBVIOUS
  <2> QED
    BY <1>1, <2>1, <2>2, <2>3, <2>4
<1>5. /\ rto_list' \in [0..Hash -> SUBSET Tcbs] /\ on_rto_idx' \in [Tcbs -> -1..Hash]
      /\ ts_rto' \in [Tcbs -> Stamp] /\ age' \in [Tcbs -> 0..MaxAge]
      /\ cnt' \in 0..Thresh /\ pc' \in Phases /\ busy' \in BOOLEAN
  BY Sizes, BoundAssumption DEF HandleRto, TypeOK, Stamp
<1>6. CASE Resend(t) /\ rto_list_cnt' = rto_list_cnt - 1
  <2>1. nrtx' \in [Tcbs -> 0..MaxRtx]
    BY <1>6, BoundAssumption DEF Resend, TypeOK
  <2>6. queued' \in [Tcbs -> BOOLEAN]
    BY <1>6 DEF Resend, TypeOK
  <2>2. rto_now_idx' \in 0..(Hash - 1) /\ rto_now_ts' \in Stamp
    BY <1>6, Sizes, RtosAssumption DEF Resend, TypeOK, Stamp
  <2>3. UNCHANGED <<state, drift>>
    BY <1>6 DEF Resend
  <2>4. CountOfListed'
    BY <1>3, <1>6, <2>3, ListedFinite DEF CountOfListed, TypeOK
  <2>5. FreeIsOff'
    BY <1>2, <2>3 DEF FreeIsOff, ListMatchesIndex
  <2>7. StoreType'
    BY <1>5, <1>6, <2>2 DEF StoreType, TypeOK
  <2>8. LoopType'
    BY <1>5, <2>1, <2>3, <2>6 DEF LoopType, TypeOK
  <2> QED
    BY <1>4, <2>4, <2>5, <2>7, <2>8, PartsPrimed
<1>7. CASE GiveUp(t) /\ rto_list_cnt' = rto_list_cnt - 1
  <2>1. state' = [state EXCEPT ![t] = "CLOSED"]
        /\ UNCHANGED <<rto_now_idx, rto_now_ts, nrtx, queued, drift>>
    BY <1>7 DEF GiveUp
  <2>2. CountOfListed'
    BY <1>3, <1>7, <2>1, ListedFinite DEF CountOfListed, TypeOK
  <2>3. FreeIsOff'
    BY <1>2, <2>1 DEF FreeIsOff, ListMatchesIndex, TypeOK
  <2>4. state' \in [Tcbs -> States]
    BY <2>1 DEF TypeOK, States
  <2>5. StoreType'
    BY <1>5, <1>7, <2>1 DEF StoreType, TypeOK
  <2>6. LoopType'
    BY <1>5, <2>1, <2>4 DEF LoopType, TypeOK
  <2> QED
    BY <1>4, <2>2, <2>3, <2>5, <2>6, PartsPrimed
<1>8. CASE ReleaseRto(t) /\ rto_list_cnt' = rto_list_cnt - 2
  <2>1. /\ state' = [state EXCEPT ![t] = "FREE"] /\ drift' = drift + 1
        /\ UNCHANGED <<rto_now_idx, rto_now_ts>>
    BY <1>8 DEF ReleaseRto
  <2>2. CountOfListed'
    BY <1>3, <1>8, <2>1, ListedFinite DEF CountOfListed, TypeOK
  <2>3. FreeIsOff'
    BY <1>2, <2>1 DEF FreeIsOff, ListMatchesIndex, TypeOK, Listed
  <2>4. /\ state' \in [Tcbs -> States] /\ nrtx' \in [Tcbs -> 0..MaxRtx]
        /\ queued' \in [Tcbs -> BOOLEAN] /\ drift' \in Nat
    BY <1>8, BoundAssumption DEF ReleaseRto, TypeOK, States
  <2>5. StoreType'
    BY <1>5, <1>8, <2>1 DEF StoreType, TypeOK
  <2>6. LoopType'
    BY <1>5, <2>4 DEF LoopType
  <2> QED
    BY <1>4, <2>2, <2>3, <2>5, <2>6, PartsPrimed
<1> QED
  BY <1>6, <1>7, <1>8 DEF HandleRto

\* Blocks of the far list that are moved get a list of the wheel; none is lost
\* or put on two lists.
LEMMA RearrangeKeeps ==
  ASSUME IInv, NEW idx \in Int, NEW ts \in Int, Rearrange(idx, ts)
  PROVE  /\ ListsMatch' /\ Listed' = Listed
         /\ rto_list' \in [0..Hash -> SUBSET Tcbs]
         /\ on_rto_idx' \in [Tcbs -> -1..Hash] /\ ts_rto' \in [Tcbs -> Stamp]
<1> USE DEF IInv
<1>1. \A t \in Moved(ts) : t \in Tcbs /\ on_rto_idx[t] = Hash
  BY Sizes DEF Moved, ListMatchesIndex
<1>2. \A t \in Tcbs : ts_rto[t] \in Int
  BY DEF TypeOK, Stamp
<1>3. \A t \in Moved(ts) : NewSlot(t, idx, ts) \in 0..(Hash - 1)
  <2> SUFFICES ASSUME NEW t \in Moved(ts)
               PROVE  NewSlot(t, idx, ts) \in 0..(Hash - 1)
    OBVIOUS
  <2>1. ts - ts_rto[t] \in Int
    BY <1>1, <1>2
  <2>2. Signed(ts - ts_rto[t]) \in Int
    BY <2>1, SignedType
  <2> QED
    BY <2>2, OffsetType DEF NewSlot
<1>4. \A t \in Tcbs \ Moved(ts) : NewSlot(t, idx, ts) = on_rto_idx[t]
  BY DEF NewSlot
<1>5. \A t \in Tcbs : on_rto_idx'[t] = NewSlot(t, idx, ts)
  BY DEF Rearrange
<1>6. \A t \in Tcbs : NewSlot(t, idx, ts) \in -1..Hash
  BY <1>3, <1>4, Sizes DEF TypeOK
<1>7. on_rto_idx' \in [Tcbs -> -1..Hash]
  BY <1>6 DEF Rearrange
<1>8. ts_rto' \in [Tcbs -> Stamp]
  BY Sizes DEF Rearrange, TypeOK, Stamp
<1>9. rto_list' \in [0..Hash -> SUBSET Tcbs]
  BY <1>1 DEF Rearrange, TypeOK
<1>10. Listed' = Listed
  BY <1>1, <1>3, <1>4, <1>5, Sizes DEF Listed
<1>11. ListsMatch'
  <2> SUFFICES ASSUME NEW i \in 0..Hash
               PROVE  rto_list'[i] = {u \in Tcbs : on_rto_idx'[u] = i}
    BY DEF ListsMatch
  <2>1. rto_list'[i] = (rto_list[i] \ (IF i = Hash THEN Moved(ts) ELSE {}))
                         \cup {t \in Moved(ts) : NewSlot(t, idx, ts) = i}
    BY DEF Rearrange
  <2>2. rto_list[i] = {u \in Tcbs : on_rto_idx[u] = i}
    BY DEF ListMatchesIndex
  <2>3. \A u \in Tcbs : u \in rto_list'[i] <=> on_rto_idx'[u] = i
    BY <2>1, <2>2, <1>1, <1>3, <1>4, <1>5, Sizes
  <2> QED
    BY <2>3, <1>9
<1> QED
  BY <1>7, <1>8, <1>9, <1>10, <1>11

LEMMA AdvanceKeeps == ASSUME IInv, Advance PROVE IInv'
<1> USE DEF IInv
<1> DEFINE idx == (rto_now_idx + 1) % Hash
           ts  == (rto_now_ts + 1) % Word
<1>1. idx \in 0..(Hash - 1) /\ ts \in Stamp
  <2>1. rto_now_idx + 1 \in Int /\ rto_now_ts + 1 \in Int
    BY Sizes DEF TypeOK, Stamp
  <2> QED
    BY <2>1, Sizes, Remainder DEF Stamp
<1>2. rto_now_idx' = idx /\ rto_now_ts' = ts
  BY DEF Advance
<1>3. Rearrange(idx, ts) \/ UNCHANGED <<rto_list, on_rto_idx, ts_rto>>
  BY DEF Advance
<1>4. idx \in Int /\ ts \in Int
  BY <1>1 DEF Stamp
<1> HIDE DEF idx, ts
<1>5. /\ ListsMatch' /\ Listed' = Listed
      /\ rto_list' \in [0..Hash -> SUBSET Tcbs]
      /\ on_rto_idx' \in [Tcbs -> -1..Hash] /\ ts_rto' \in [Tcbs -> Stamp]
  <2>1. CASE Rearrange(idx, ts)
    BY <2>1, <1>4, RearrangeKeeps
  <2>2. CASE UNCHANGED <<rto_list, on_rto_idx, ts_rto>>
    BY <2>2 DEF ListsMatch, ListMatchesIndex, Listed, TypeOK
  <2> QED
    BY <1>3, <2>1, <2>2
<1>6. UNCHANGED <<rto_list_cnt, state, nrtx, queued, pc, busy, cnt, drift, age>>
  BY DEF Advance, loop
<1>7. CountOfListed' /\ FreeIsOff'
  BY <1>5, <1>6 DEF CountOfListed, FreeIsOff, ListMatchesIndex
<1> QED
  BY <1>1, <1>2, <1>5, <1>6, <1>7, PartsPrimed DEF StoreType, LoopType, TypeOK

\* Time passes: only the stamps change.
LEMMA PollKeeps ==
  ASSUME IInv, NEW d \in 1..MaxStep, Poll(d)
  PROVE  IInv'
<1> USE DEF IInv
<1>1. d \in Nat
  BY BoundAssumption
<1>2. rto_now_ts' \in Stamp /\ rto_now_idx' \in 0..(Hash - 1)
  <2>1. rto_now_ts - d \in Int
    BY <1>1, Sizes DEF TypeOK, Stamp
  <2>2. (rto_now_ts - d) % Word \in Stamp
    BY <2>1, Sizes, Remainder DEF Stamp
  <2>3. 0 \in Stamp /\ 0 \in 0..(Hash - 1)
    BY Sizes DEF Stamp
  <2> QED
    BY <2>2, <2>3 DEF Poll, TypeOK
<1>3. ts_rto' \in [Tcbs -> Stamp]
  <2>1. ASSUME NEW t \in Tcbs PROVE (ts_rto[t] - d) % Word \in Stamp
    <3>1. ts_rto[t] - d \in Int
      BY <1>1, Sizes DEF TypeOK, Stamp
    <3> QED
      BY <3>1, Sizes, Remainder DEF Stamp
  <2>2. 0 \in Stamp
    BY Sizes DEF Stamp
  <2> QED
    BY <2>1, <2>2 DEF Poll
<1>4. age' \in [Tcbs -> 0..MaxAge]
  BY <1>1, BoundAssumption DEF Poll, TypeOK
<1>5. pc' \in Phases /\ busy' \in BOOLEAN
  BY DEF Poll, Phases, Entry
<1>6. UNCHANGED <<rto_list, rto_list_cnt, on_rto_idx, state, nrtx, queued, cnt, drift>>
  BY DEF Poll
<1>7. ListsMatch' /\ FreeIsOff' /\ CountOfListed'
  BY <1>6 DEF ListsMatch, FreeIsOff, CountOfListed, Listed, ListMatchesIndex
<1> QED
  BY <1>2, <1>3, <1>4, <1>5, <1>6, <1>7, PartsPrimed DEF StoreType, LoopType, TypeOK

LEMMA InitIInv == Init => IInv
<1> SUFFICES ASSUME Init PROVE IInv
  OBVIOUS
<1>1. TypeOK
  <2>1. /\ 0 \in Stamp /\ 0 \in 0..(Hash - 1) /\ 0 \in 0..MaxRtx /\ 0 \in 0..Thresh
        /\ 0 \in 0..MaxAge /\ -1 \in -1..Hash /\ "FREE" \in States /\ "poll" \in Phases
    BY Sizes, BoundAssumption DEF Stamp, States, Phases
  <2>2. /\ state \in [Tcbs -> States] /\ on_rto_idx \in [Tcbs -> -1..Hash]
        /\ ts_rto \in [Tcbs -> Stamp] /\ nrtx \in [Tcbs -> 0..MaxRtx]
        /\ age \in [Tcbs -> 0..MaxAge] /\ rto_list \in [0..Hash -> SUBSET Tcbs]
    BY <2>1 DEF Init
  <2>3. queued \in [Tcbs -> BOOLEAN] /\ busy \in BOOLEAN
    BY DEF Init
  <2>4. rto_list_cnt \in Int /\ drift \in Nat
    BY DEF Init
  <2> QED
    BY <2>1, <2>2, <2>3, <2>4 DEF Init, TypeOK
<1>2. Listed = {}
  BY DEF Init, Listed
<1>3. ListMatchesIndex
  BY <1>2 DEF Init, ListMatchesIndex
<1>4. CountOfListed
  BY <1>2, FS_EmptySet DEF Init, CountOfListed
<1> QED
  BY <1>1, <1>3, <1>4 DEF IInv

LEMMA NextIInv == IInv /\ [Next]_vars => IInv'
<1> SUFFICES ASSUME IInv, [Next]_vars PROVE IInv'
  OBVIOUS
<1>1. CASE Time
  BY <1>1, PollKeeps DEF Time
<1>2. CASE FramesDone \/ CheckDone \/ TimeoutsDone \/ OutputDone
  <2>5. pc' \in Phases
    BY <1>2 DEF FramesDone, CheckDone, TimeoutsDone, OutputDone, Phases, Entry
  <2>6. busy' \in BOOLEAN
    BY <1>2 DEF FramesDone, CheckDone, TimeoutsDone, OutputDone, IInv, TypeOK
  <2>7. cnt' \in 0..Thresh
    BY <1>2, BoundAssumption
    DEF FramesDone, CheckDone, TimeoutsDone, OutputDone, IInv, TypeOK
  <2>3. UNCHANGED <<state, nrtx, queued, drift>>
    BY <1>2 DEF FramesDone, CheckDone, TimeoutsDone, OutputDone, block
  <2>4. LoopType'
    BY <2>3, <2>5, <2>6, <2>7 DEF IInv, TypeOK, LoopType
  <2>2. UNCHANGED <<wheel, ts_rto, age, drift, state>>
    BY <1>2 DEF FramesDone, CheckDone, TimeoutsDone, OutputDone, block
  <2> QED
    BY <2>4, <2>2, ListsUntouched
<1>3. CASE \E t \in Tcbs : HandleRto(t)
  BY <1>3, HandleRtoKeeps
<1>4. CASE Advance
  BY <1>4, AdvanceKeeps
<1>5. CASE \E t \in Tcbs : Frames(t) \/ ConnTimeout(t) \/ Output(t)
  BY <1>5, FramesKeeps, ConnTimeoutKeeps, OutputKeeps
<1>6. CASE UNCHANGED vars
  <2>1. LoopType' /\ UNCHANGED <<wheel, ts_rto, age, drift, state>>
    BY <1>6 DEF vars, block, loop, IInv, TypeOK, LoopType
  <2> QED
    BY <2>1, ListsUntouched
<1> QED
  BY <1>1, <1>2, <1>3, <1>4, <1>5, <1>6 DEF Next, Check

LEMMA SpecIInv == Spec => []IInv
BY InitIInv, NextIInv, PTL DEF Spec

-----------------------------------------------------------------------------
\* The store and the blocks keep their types: in particular every slot computed
\* with the unsigned sum of usnet_add_rto_list and usnet_rearrange_rto_store is
\* a list of the wheel, for every size of the wheel and of the word.
THEOREM WheelTyped == Spec => []TypeOK
<1>1. IInv => TypeOK
  BY DEF IInv
<1> QED
  BY <1>1, SpecIInv, PTL

\* A block is on the list that its on_rto_idx names and on no other, and no
\* released block is on a list, whatever sends, acknowledgements, timeouts,
\* rearrangements and releases come in between.
THEOREM ListsAndIndicesAgree == Spec => []ListMatchesIndex
<1>1. IInv => ListMatchesIndex
  BY DEF IInv
<1> QED
  BY <1>1, SpecIInv, PTL

\* rto_list_cnt is off by exactly the number of blocks that usnet_handle_rto
\* released itself, for every number of blocks.
THEOREM CountDrift == Spec => []CountOfListed
<1>1. IInv => CountOfListed
  BY DEF IInv
<1> QED
  BY <1>1, SpecIInv, PTL
=============================================================================
