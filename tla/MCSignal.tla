------------------------------ MODULE MCSignal -----------------------------
(* Instances of Signal for TLC. *)
EXTENDS Signal, TLC

\* Two registers of each peer, one of them ahead of the server's clock.
MCFrame == {[peer |-> p, timestamp |-> t, nonce |-> <<p, t>>] : p \in Peer, t \in 0..1}

Symmetry == Permutations(Conn) \cup Permutations(Peer)
============================================================================
