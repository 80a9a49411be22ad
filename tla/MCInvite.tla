------------------------------ MODULE MCInvite -----------------------------
(* Instances of Invite for TLC. *)
EXTENDS Invite, TLC

Symmetry == Permutations(Token)
============================================================================
