------------------------------ MODULE RtoWheel ------------------------------
(***************************************************************************)
(* The retransmission timers of the net process: a wheel of Hash lists and *)
(* one list for what lies further ahead (struct rto_hashstore), the count  *)
(* that starts and stops it, and the poll loop that turns it               *)
(* (usnet_dispatch_net).  A timer is armed when a block sends something,   *)
(* moved by acknowledgements, stopped by a release, and runs out in        *)
(* usnet_check_rtm_timeout, which may release the block itself.            *)
(*                                                                         *)
(* Time stamps are words of Word values and wrap, as those of the code do; *)
(* they are kept relative to cur_time, as the code only uses differences.  *)
(* A tick is one unit of cur_time, which is time(0).  A list is the set of *)
(* its blocks: the order within one list is left open, and so is what is   *)
(* in flight; the length of a timeout is any of Rtos.  A value that is     *)
(* overwritten before it is read (of a released block, ts_rto but on the   *)
(* far list, the hand of a stopped wheel) is kept at its initial value.    *)
(***************************************************************************)
EXTENDS Integers, FiniteSets

CONSTANTS
  Tcbs,      \* control blocks
  Hash,      \* RTO_HASH: lists of the wheel
  Stride,    \* 1000: ticks from one rearrangement to the next
  Word,      \* 2^32
  Rtos,      \* lengths of a timeout, in ticks
  MaxRtx,    \* TCP_MAX_RTX
  Thresh,    \* 512: timeouts handled in one call
  MaxStep,   \* bound: ticks from one poll to the next
  MaxDrift,  \* bound: no new connection after that many releases on the wheel
  MaxAge     \* bound: the age of a timer is counted up to it

ASSUME HashAssumption == Hash \in Nat /\ Stride \in Nat \ {0} /\ Stride < Hash
ASSUME WordAssumption == Word \in Nat /\ Word >= 2 * Hash
ASSUME RtosAssumption == Rtos \subseteq 0..(Word - 1)
ASSUME BoundAssumption ==
  /\ MaxRtx \in Nat /\ Thresh \in Nat /\ MaxStep \in Nat
  /\ MaxDrift \in Nat /\ MaxAge \in Nat \ {0}
ASSUME TcbsAssumption == IsFiniteSet(Tcbs)

VARIABLES
  rto_now_idx, rto_now_ts, rto_list,      \* the store; rto_now_ts less cur_time
  rto_list_cnt,                           \* ctx->rto_list_cnt
  state, on_rto_idx, nrtx,                \* of the blocks
  ts_rto,     \* of the blocks on the far list, less cur_time
  queued,     \* the block is on the control or the send list
  pc,         \* where in the loop of usnet_dispatch_net
  busy,       \* poll found something to read
  cnt,        \* cnt of usnet_check_rtm_timeout
  drift,      \* history: blocks released by usnet_handle_rto
  age         \* history: ticks since the timer was put on its list

wheel == <<rto_now_idx, rto_now_ts, rto_list, rto_list_cnt, on_rto_idx>>
block == <<state, ts_rto, nrtx, queued>>
loop == <<pc, busy, cnt>>
vars == <<wheel, block, loop, drift, age>>

Stamp == 0..(Word - 1)
States == {"FREE", "SYN_RECEIVED", "ESTABLISHED", "CLOSED"}
Phases == {"poll", "frames", "check", "timeouts", "output"}

\* The difference of two time stamps, as an int32_t.
Signed(n) == LET w == n % Word IN IF 2 * w < Word THEN w ELSE w - Word

Listed == {t \in Tcbs : on_rto_idx[t] >= 0}

\* usnet_rtohash_init; the blocks are unused.
Init ==
  /\ rto_now_idx = 0 /\ rto_now_ts = 0 /\ rto_list_cnt = 0
  /\ rto_list = [i \in 0..Hash |-> {}]
  /\ state = [t \in Tcbs |-> "FREE"]
  /\ on_rto_idx = [t \in Tcbs |-> -1]
  /\ ts_rto = [t \in Tcbs |-> 0]
  /\ nrtx = [t \in Tcbs |-> 0]
  /\ queued = [t \in Tcbs |-> FALSE]
  /\ pc = "poll" /\ busy = FALSE /\ cnt = 0
  /\ drift = 0
  /\ age = [t \in Tcbs |-> 0]

-----------------------------------------------------------------------------
(* The lists. *)

\* Mutant: the sum is signed, and so is its remainder.
OffsetSigned(diff, idx) ==
  IF diff + idx < 0 THEN 0 - ((0 - diff - idx) % Hash) ELSE (diff + idx) % Hash

\* diff and rto_now_idx are added as unsigned numbers: a negative diff is
\* taken modulo the word first, and then modulo the wheel.
Offset(diff, idx) == ((diff + idx) % Word) % Hash

\* The list for a timer that runs out diff ticks after slot idx.
Slot(diff, idx) == IF diff < Hash THEN Offset(diff, idx) ELSE Hash

\* Mutant: the block keeps its index.
RemoveRtoKeepIndex(t) ==
  /\ rto_list' = [i \in 0..Hash |->
                    IF i = on_rto_idx[t] THEN rto_list[i] \ {t} ELSE rto_list[i]]
  /\ rto_list_cnt' = rto_list_cnt - (IF on_rto_idx[t] >= 0 THEN 1 ELSE 0)
  /\ ts_rto' = [ts_rto EXCEPT ![t] = 0]
  /\ age' = [age EXCEPT ![t] = 0]
  /\ UNCHANGED <<rto_now_idx, rto_now_ts, on_rto_idx>>

\* Mutant: the early return for a block that is on no list is dropped.
RemoveRtoAlways(t) ==
  /\ rto_list' = [i \in 0..Hash |-> rto_list[i] \ {t}]
  /\ on_rto_idx' = [on_rto_idx EXCEPT ![t] = -1]
  /\ rto_list_cnt' = rto_list_cnt - 1
  /\ ts_rto' = [ts_rto EXCEPT ![t] = 0]
  /\ age' = [age EXCEPT ![t] = 0]
  /\ UNCHANGED <<rto_now_idx, rto_now_ts>>

\* usnet_remove_rto_list of a block that may or may not be on a list.
RemoveRto(t) ==
  /\ rto_list' = [i \in 0..Hash |->
                    IF i = on_rto_idx[t] THEN rto_list[i] \ {t} ELSE rto_list[i]]
  /\ on_rto_idx' = [on_rto_idx EXCEPT ![t] = -1]
  /\ rto_list_cnt' = rto_list_cnt - (IF on_rto_idx[t] >= 0 THEN 1 ELSE 0)
  /\ ts_rto' = [ts_rto EXCEPT ![t] = 0]
  /\ age' = [age EXCEPT ![t] = 0]
  /\ UNCHANGED <<rto_now_idx, rto_now_ts>>

\* usnet_add_rto_list with ts_rto = ts, of a block whose entry was removed
\* before (moved) or that may be on a list, where it then stays.
AddRto(t, ts, moved) ==
  LET on   == on_rto_idx[t] >= 0 /\ ~moved
      n    == rto_list_cnt - (IF moved THEN 1 ELSE 0)
      idx  == IF n = 0 THEN 0 ELSE rto_now_idx
      nts  == IF n = 0 THEN ts ELSE rto_now_ts
      slot == Slot(Signed(ts - nts), idx)
  IN /\ rto_now_idx' = idx
     /\ rto_now_ts' = nts
     /\ ts_rto' = [ts_rto EXCEPT ![t] = IF (IF on THEN on_rto_idx[t] ELSE slot) = Hash
                                        THEN ts ELSE 0]
     /\ IF on
        THEN UNCHANGED <<rto_list, on_rto_idx, rto_list_cnt, age>>
        ELSE /\ rto_list' = [i \in 0..Hash |->
                               (rto_list[i] \ {t}) \cup (IF i = slot THEN {t} ELSE {})]
             /\ on_rto_idx' = [on_rto_idx EXCEPT ![t] = slot]
             /\ rto_list_cnt' = n + 1
             /\ age' = [age EXCEPT ![t] = 0]

-----------------------------------------------------------------------------
(* The loop: poll, frames, timers, output. *)

\* The phase that usnet_check_rtm_timeout leads to when it is called.
Entry == IF rto_list_cnt = 0 THEN "timeouts" ELSE "check"

\* time(0), then poll.  Time has passed since the last round.
Poll(d) ==
  /\ pc = "poll"
  /\ rto_now_ts' = IF rto_list_cnt = 0 THEN 0 ELSE (rto_now_ts - d) % Word
  /\ rto_now_idx' = IF rto_list_cnt = 0 THEN 0 ELSE rto_now_idx
  /\ ts_rto' = [t \in Tcbs |-> IF on_rto_idx[t] = Hash THEN (ts_rto[t] - d) % Word ELSE 0]
  /\ age' = [t \in Tcbs |-> IF t \in Listed /\ age[t] + d < MaxAge
                            THEN age[t] + d
                            ELSE IF t \in Listed THEN MaxAge ELSE 0]
  /\ busy' \in BOOLEAN
  /\ pc' = IF busy' THEN "frames" ELSE Entry
  /\ UNCHANGED <<rto_list, rto_list_cnt, on_rto_idx, state, nrtx, queued,
                 cnt, drift>>

\* A SYN makes a block and queues the SYN/ACK once the application accepts.
NewTcb(t) ==
  /\ pc = "frames" /\ state[t] = "FREE" /\ drift < MaxDrift
  /\ state' = [state EXCEPT ![t] = "SYN_RECEIVED"]
  /\ queued' = [queued EXCEPT ![t] = TRUE]
  /\ UNCHANGED <<wheel, ts_rto, nrtx, loop, drift, age>>

\* The ACK of the SYN: the timer is stopped.
Establish(t) ==
  /\ pc = "frames" /\ state[t] = "SYN_RECEIVED"
  /\ state' = [state EXCEPT ![t] = "ESTABLISHED"]
  /\ nrtx' = [nrtx EXCEPT ![t] = 0]
  /\ RemoveRto(t)
  /\ UNCHANGED <<queued, loop, drift>>

\* An acknowledgement of new data: usnet_update_retransmission_timer.  all:
\* nothing is left unacknowledged.
UpdateTimer(t, all, rto) ==
  /\ nrtx' = [nrtx EXCEPT ![t] = 0]
  /\ IF all
     THEN RemoveRto(t)
     ELSE AddRto(t, rto, on_rto_idx[t] >= 0)

AckData(t) ==
  /\ pc = "frames" /\ state[t] = "ESTABLISHED"
  /\ \E all \in BOOLEAN, rto \in Rtos : UpdateTimer(t, all, rto)
  /\ UNCHANGED <<state, queued, loop, drift>>

\* usnet_release_tcb, outside usnet_handle_rto.
Release(t) ==
  /\ state' = [state EXCEPT ![t] = "FREE"]
  /\ queued' = [queued EXCEPT ![t] = FALSE]
  /\ nrtx' = [nrtx EXCEPT ![t] = 0]
  /\ RemoveRto(t)
  /\ UNCHANGED drift

\* usnet_handle_rst during the handshake.
Reset(t) ==
  /\ pc = "frames" /\ state[t] = "SYN_RECEIVED"
  /\ Release(t)
  /\ UNCHANGED loop

FramesDone ==
  /\ pc = "frames"
  /\ pc' = Entry
  /\ UNCHANGED <<wheel, block, busy, cnt, drift, age>>

-----------------------------------------------------------------------------
(* usnet_check_rtm_timeout: in phase "check" the loop is running. *)

\* The slot at hand has been reached.
Due == Signed(0 - rto_now_ts) >= 0

\* usnet_handle_rto below the threshold.  A SYN/ACK is sent at once, when the
\* block is still on its list, or waits on the control list; data goes to the
\* send list, as if it had not been sent.
Resend(t) ==
  /\ nrtx[t] < MaxRtx /\ state[t] # "CLOSED"
  /\ nrtx' = [nrtx EXCEPT ![t] = @ + 1]
  /\ \/ /\ state[t] = "SYN_RECEIVED"
        /\ \E rto \in Rtos :
             /\ rto_now_idx' = IF rto_list_cnt = 0 THEN 0 ELSE rto_now_idx
             /\ rto_now_ts' = IF rto_list_cnt = 0 THEN rto ELSE rto_now_ts
        /\ queued' = [queued EXCEPT ![t] = FALSE]
     \/ /\ queued' = [queued EXCEPT ![t] = TRUE]
        /\ UNCHANGED <<rto_now_idx, rto_now_ts>>
  /\ UNCHANGED <<state, drift>>

\* At the threshold a block with a socket is closed and the error raised.
GiveUp(t) ==
  /\ nrtx[t] >= MaxRtx /\ state[t] = "ESTABLISHED"
  /\ state' = [state EXCEPT ![t] = "CLOSED"]
  /\ UNCHANGED <<rto_now_idx, rto_now_ts, nrtx, queued, drift>>

\* The threshold without a socket or before the handshake is over, or the
\* timer of a closed block: usnet_handle_rto releases it.
ReleaseRto(t) ==
  /\ nrtx[t] >= MaxRtx \/ state[t] = "CLOSED"
  /\ state' = [state EXCEPT ![t] = "FREE"]
  /\ queued' = [queued EXCEPT ![t] = FALSE]
  /\ nrtx' = [nrtx EXCEPT ![t] = 0]
  /\ drift' = drift + 1
  /\ UNCHANGED <<rto_now_idx, rto_now_ts>>

\* One turn of the inner loop.  Whatever usnet_handle_rto did, the block is
\* taken off the list and counted down; a release has done both before.
HandleRto(t) ==
  /\ pc = "check" /\ Due
  /\ t \in rto_list[rto_now_idx] /\ on_rto_idx[t] >= 0 /\ cnt < Thresh
  /\ cnt' = cnt + 1
  /\ \/ Resend(t) /\ rto_list_cnt' = rto_list_cnt - 1
     \/ GiveUp(t) /\ rto_list_cnt' = rto_list_cnt - 1
     \/ ReleaseRto(t) /\ rto_list_cnt' = rto_list_cnt - 2
  /\ rto_list' = [rto_list EXCEPT ![rto_now_idx] = @ \ {t}]
  /\ on_rto_idx' = [on_rto_idx EXCEPT ![t] = -1]
  /\ ts_rto' = [ts_rto EXCEPT ![t] = 0]
  /\ age' = [age EXCEPT ![t] = 0]
  /\ UNCHANGED <<pc, busy>>

\* Mutant: a block is moved only once its time has passed.
MovedTurned(ts) == {t \in rto_list[Hash] : Signed(ts_rto[t] - ts) < 0}

\* usnet_rearrange_rto_store at slot idx and time ts: the blocks of the far
\* list whose diff, taken the other way round here, is below Hash.
Moved(ts) == {t \in rto_list[Hash] : Signed(ts - ts_rto[t]) < Hash}

NewSlot(t, idx, ts) ==
  IF t \in Moved(ts) THEN Offset(Signed(ts - ts_rto[t]), idx) ELSE on_rto_idx[t]

Rearrange(idx, ts) ==
  /\ on_rto_idx' = [t \in Tcbs |-> NewSlot(t, idx, ts)]
  /\ ts_rto' = [t \in Tcbs |-> IF t \in Moved(ts) THEN 0 ELSE ts_rto[t]]
  /\ rto_list' = [i \in 0..Hash |->
                    (rto_list[i] \ (IF i = Hash THEN Moved(ts) ELSE {}))
                      \cup {t \in Moved(ts) : NewSlot(t, idx, ts) = i}]

\* The slot is done: on to the next one, every Stride ticks with a look at the
\* far list.
Advance ==
  /\ pc = "check" /\ Due
  /\ rto_list[rto_now_idx] = {}
  /\ LET idx == (rto_now_idx + 1) % Hash
         ts  == (rto_now_ts + 1) % Word
     IN /\ rto_now_idx' = idx
        /\ rto_now_ts' = ts
        /\ IF idx % Stride = 0
           THEN Rearrange(idx, ts)
           ELSE UNCHANGED <<rto_list, on_rto_idx, ts_rto>>
  /\ UNCHANGED <<rto_list_cnt, state, nrtx, queued, loop, drift, age>>

\* The loop ends at a slot that is not reached yet, or after Thresh timeouts.
CheckDone ==
  /\ pc = "check"
  /\ ~Due \/ (rto_list[rto_now_idx] # {} /\ cnt >= Thresh)
  /\ pc' = "timeouts"
  /\ cnt' = 0
  /\ UNCHANGED <<wheel, block, busy, drift, age>>

-----------------------------------------------------------------------------
(* The connection timeout and the output lists. *)

\* usnet_check_connection_timeout: a block without a socket is released.
ConnTimeout(t) ==
  /\ pc = "timeouts" /\ state[t] = "ESTABLISHED"
  /\ \/ Release(t)
     \/ /\ state' = [state EXCEPT ![t] = "CLOSED"]
        /\ UNCHANGED <<wheel, ts_rto, nrtx, queued, drift, age>>
  /\ UNCHANGED loop

\* Mutant: the loop starts over whether or not poll found something.
TimeoutsDoneAlways ==
  /\ pc = "timeouts"
  /\ pc' = "poll"
  /\ UNCHANGED <<wheel, block, busy, cnt, drift, age>>

\* When poll found nothing the loop starts over here.
TimeoutsDone ==
  /\ pc = "timeouts"
  /\ pc' = IF busy THEN "output" ELSE "poll"
  /\ UNCHANGED <<wheel, block, busy, cnt, drift, age>>

\* A WRITE event puts the block on the send list.
NetWrite(t) ==
  /\ pc = "output" /\ state[t] = "ESTABLISHED"
  /\ queued' = [queued EXCEPT ![t] = TRUE]
  /\ UNCHANGED <<wheel, state, ts_rto, nrtx, loop, drift, age>>

\* usnet_send_tcp_packet with something to acknowledge: a SYN/ACK, which a
\* repeated SYN also sends, or data of the send list.
Send(t) ==
  /\ \/ pc = "output" /\ queued[t] /\ state[t] \in {"SYN_RECEIVED", "ESTABLISHED"}
     \/ pc = "frames" /\ state[t] = "SYN_RECEIVED"
  /\ queued' = [queued EXCEPT ![t] = FALSE]
  /\ \E rto \in Rtos : AddRto(t, rto, FALSE)
  /\ UNCHANGED <<state, nrtx, loop, drift>>

\* A block leaves the send list with nothing sent: it is closed, or the flush
\* finds sent_head at the tail.
SendNothing(t) ==
  /\ pc = "output" /\ queued[t] /\ state[t] \in {"ESTABLISHED", "CLOSED"}
  /\ queued' = [queued EXCEPT ![t] = FALSE]
  /\ UNCHANGED <<wheel, state, ts_rto, nrtx, loop, drift, age>>

\* A closed block on the control list sends its RST and is released.
SendReset(t) ==
  /\ pc = "output" /\ state[t] = "CLOSED"
  /\ Release(t)
  /\ UNCHANGED loop

OutputDone ==
  /\ pc = "output"
  /\ pc' = "poll" /\ busy' = FALSE
  /\ UNCHANGED <<wheel, block, cnt, drift, age>>

-----------------------------------------------------------------------------
Frames(t) == NewTcb(t) \/ Establish(t) \/ AckData(t) \/ Reset(t)
Output(t) == NetWrite(t) \/ Send(t) \/ SendNothing(t) \/ SendReset(t)
Check == (\E t \in Tcbs : HandleRto(t)) \/ Advance \/ CheckDone
Time == \E d \in 1..MaxStep : Poll(d)

Next ==
  \/ Time \/ FramesDone \/ Check \/ TimeoutsDone \/ OutputDone
  \/ \E t \in Tcbs : Frames(t) \/ ConnTimeout(t) \/ Output(t)

Spec == Init /\ [][Next]_vars

\* The net process runs: it leaves every phase, and what is on an output list
\* has its turn if the loop keeps coming by.
Served(t) == pc = "output" /\ queued[t] /\ (Send(t) \/ SendNothing(t))

Fairness ==
  /\ WF_vars(Time \/ Check) /\ SF_vars(FramesDone)
  /\ SF_vars(TimeoutsDone) /\ SF_vars(OutputDone)
  /\ \A t \in Tcbs : SF_vars(Served(t))

FairSpec == Spec /\ Fairness

-----------------------------------------------------------------------------
(* Properties. *)

\* The state of the store and of the blocks; a count below zero is possible.
TypeOK ==
  /\ rto_now_ts \in Stamp
  /\ rto_now_idx \in 0..(Hash - 1)
  /\ rto_list \in [0..Hash -> SUBSET Tcbs]
  /\ rto_list_cnt \in Int
  /\ state \in [Tcbs -> States]
  /\ on_rto_idx \in [Tcbs -> -1..Hash]
  /\ ts_rto \in [Tcbs -> Stamp]
  /\ nrtx \in [Tcbs -> 0..MaxRtx]
  /\ queued \in [Tcbs -> BOOLEAN]
  /\ pc \in Phases /\ busy \in BOOLEAN /\ cnt \in 0..Thresh
  /\ drift \in Nat /\ age \in [Tcbs -> 0..MaxAge]

\* A block is on the list that its on_rto_idx names and on no other, and a
\* released block is on none: TAILQ_REMOVE always finds it where it looks,
\* and the wheel never reaches a freed block.
ListMatchesIndex ==
  /\ \A i \in 0..Hash : rto_list[i] = {t \in Tcbs : on_rto_idx[t] = i}
  /\ \A t \in Listed : state[t] # "FREE"

\* rto_list_cnt, which starts and stops the wheel, is the number of blocks on
\* the lists less one for every block that usnet_handle_rto released: those
\* are counted down twice.
CountOfListed == rto_list_cnt = Cardinality(Listed) - drift

\* While no block has been released by usnet_handle_rto, a timer put on a list
\* is taken off again: it runs out, or the block is acknowledged or released.
\* Neither the far list nor an offset that wrapped keeps it for ever.
TimerIsServed == \A t \in Tcbs : (age[t] > 0) ~> (age[t] = 0 \/ drift > 0)

\* What a timeout puts back on an output list (timer.c: "retransmit data at
\* ESTABLISHED state") has its turn there, unless the connection ends first.
ResendIsSent ==
  \A t \in Tcbs : (queued[t] /\ nrtx[t] > 0) ~> ~(queued[t] /\ nrtx[t] > 0)

\* While poll keeps finding something to read, what a timeout put back on an
\* output list has its turn: however often timers, acknowledgements and
\* timeouts of the connection come in between, the lists are not starved.
ResendUnderTraffic == []<>busy => ResendIsSent
=============================================================================
