--------------------------- MODULE MCRelayGroup ---------------------------
(* Instances of RelayGroup for TLC. *)
EXTENDS RelayGroup

CONSTANTS p1, p2, p3

MCKey == Peer \X Id
MCEnvelopeKey == [p \in Peer \X Id |-> p]
MCSorted == <<p1, p2, p3>>

\* p1 has appointed p2, with one token and later with another that also
\* protects p3.
MCToken ==
  {[owner |-> p1, admin |-> p2, permissions |-> {"add", "remove"},
    expires |-> 9, version |-> 0, protected |-> {p1}],
   [owner |-> p1, admin |-> p2, permissions |-> {"remove"},
    expires |-> 1, version |-> 1, protected |-> {p1, p3}]}
MCNoToken == {}

MCList == SUBSET Peer
MCNoList == {}

\* Bound: p1 only sends, the saves of the membership succeed, and those of
\* the queues fail only until the crash.
RunBound ==
  /\ mem.store[p1] = {}
  /\ \A id \in Id : refused[EnvelopeKey[<<p1, id>>]] = None
  /\ mem.groups = disk.groups
  /\ crashes > 0 => unsettled = {}
============================================================================
