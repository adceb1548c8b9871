---------------------------- MODULE MCEventWakeup ----------------------------
(* The fifo holds more bytes than one read takes and fewer than the messages *)
(* that can pass through the ring; a call is cut short by maxevents (1 or 2) *)
(* or, with 9, only by the pass limit.                                       *)
EXTENDS EventWakeup

MCMaxEvents == {1, 2, 9}
=============================================================================
