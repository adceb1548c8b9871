------------------------------- MODULE MCShmMQ -------------------------------
(* A ring of seven bytes with two-byte headers: messages of one and two     *)
(* bytes start at every offset, so data and headers wrap at every place and *)
(* messages also end exactly at the end of the block; a message of three    *)
(* bytes does not fit the reader's buffer.                                  *)
EXTENDS ShmMQ

MCLens == 1..3
=============================================================================
