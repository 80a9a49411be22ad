---------------------------- MODULE MCRelayBlob ----------------------------
(* Instances of RelayBlob for TLC. *)
EXTENDS RelayBlob

CONSTANTS b1, s1, x, y

\* Each sender signs the same content, chunk by chunk different.
MCBlobOf == [s \in Session |-> b1]
MCSigned == [s \in Session |-> [i \in Index |-> IF i = 0 THEN x ELSE y]]
============================================================================
