--------------------------- MODULE MCRelayQueue ---------------------------
(* Instances of RelayQueue for TLC. *)
EXTENDS RelayQueue, TLC

\* No separator occurs in the ids of the instance: keys are as good as pairs.
MCKey == Peer \X Id
MCEnvelopeKey == [p \in Peer \X Id |-> p]

Symmetry == Permutations(Peer) \cup Permutations(Id)
============================================================================
