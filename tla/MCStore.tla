------------------------------ MODULE MCStore -------------------------------
(***************************************************************************)
(* Instances of Store for TLC.  With HbLen = 3 and HbTime = 2 the rows have *)
(* 3 and 2 cells: keys 1 and 7 collide in both rows, descriptors 1 and 4   *)
(* in the first.                                                           *)
(***************************************************************************)
EXTENDS Store

=============================================================================
