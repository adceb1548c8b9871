---------------------------- MODULE MCLinkLayer -----------------------------
(***************************************************************************)
(* Instances of LinkLayer for TLC: two peers that wait on the control list *)
(* and may claim two hardware addresses, or one peer that sends echo       *)
(* requests.  With Byte = 4 a word is 0..15, and 8..15 are negative as     *)
(* shorts.                                                                 *)
(***************************************************************************)
EXTENDS LinkLayer

CONSTANTS p1, p2, h1, h2

OnePeer == {p1}
TwoPeers == {p1, p2}
TwoHosts == {h1, h2}
OneRing == {0}
OneWord == {1}
EdgeWords == {1, 9}
SomeOdds == {3}
NoOdds == {}

=============================================================================
