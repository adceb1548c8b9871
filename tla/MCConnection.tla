---------------------------- MODULE MCConnection ----------------------------
(* One listening socket and one or two peers; MaxIds lets a peer come back  *)
(* after its first control block was released.                             *)
EXTENDS Connection, TLC

CONSTANTS c1, c2

Peers == {c1, c2}
Peer == {c1}
Symmetry == Permutations(Peers)
=============================================================================
