--------------------------- MODULE MCModeration ----------------------------
(* An instance of Moderation for TLC.  A status request is left out: it does *)
(* what a report whose id is there does after its insert.                    *)
EXTENDS Moderation

CONSTANTS p1, p2, r1, a1

Ask(op, row, action) == [op |-> op, row |-> row, peer |-> p1, action |-> action]

MCRequest ==
  {Ask("report", r1, "none"),
   Ask("decide", r1, "ban"), Ask("decide", r1, "dismiss"),
   Ask("policy", Nobody, "unban"),
   Ask("appeal", a1, "none"), Ask("resolve", a1, "unban"), Ask("resolve", a1, "reject"),
   \* the id of another report, about another peer
   [Ask("report", r1, "none") EXCEPT !.peer = p2]}
============================================================================
