----------------------------- MODULE MCRtoWheel -----------------------------
(* Two blocks on a wheel of three lists.  The word is no multiple of the     *)
(* wheel, as 2^32 is none of 3000; one timeout lies on the wheel, one beyond. *)
EXTENDS RtoWheel

CONSTANTS t1, t2

Blocks == {t1, t2}
=============================================================================
