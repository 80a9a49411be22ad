-------------------------- MODULE MCRelayDelivery -------------------------
(* Instances of RelayDelivery for TLC. *)
EXTENDS RelayDelivery

MCKey == Peer \X Id
MCEnvelopeKey == [p \in Peer \X Id |-> p]
MCLimits == {-1, 0, 1, 3}
============================================================================
