---------------------------- MODULE MCSendBuffer ----------------------------
(* Small instances of the send path: two segments fit in the buffer, and     *)
(* enough is written to go around it.                                        *)
EXTENDS SendBuffer
=============================================================================
