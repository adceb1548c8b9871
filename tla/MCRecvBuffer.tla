---------------------------- MODULE MCRecvBuffer ----------------------------
(* Small instances of the receive path: the stream goes around the ring, and *)
(* the initial window is larger than the ring, as in the code.               *)
EXTENDS RecvBuffer

\* No guard and, once segments were reordered or a read left the ring, no
\* property looks at the bytes in the ring: states that differ only there are
\* the same.
View == <<IF reordered \/ overread THEN << >> ELSE ring, data, head, head_seq, win, frags,
          rcv_nxt, rcv_wnd, rpc, rlen, rdata, edge, nread, received, reordered,
          overread, depleted>>
=============================================================================
