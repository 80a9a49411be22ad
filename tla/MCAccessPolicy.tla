--------------------------- MODULE MCAccessPolicy --------------------------
(* An instance of AccessPolicy for TLC. *)
EXTENDS AccessPolicy

\* A client that alternates between two ways of keeping the sender out, then
\* lets it in, mutes it, or makes it a contact.
MCAlternating ==
  [version : {1, 3}, onlyContacts : {FALSE}, contact : {FALSE}, blocked : {TRUE}, muted : {FALSE}]
    \cup
  [version : {2, 4}, onlyContacts : {TRUE}, contact : {FALSE}, blocked : {FALSE}, muted : {FALSE}]

\* Four versions of four kinds.
MCVaried ==
  MCAlternating \cup
  {[version |-> 2, onlyContacts |-> TRUE, contact |-> TRUE, blocked |-> FALSE, muted |-> FALSE],
   [version |-> 3, onlyContacts |-> FALSE, contact |-> FALSE, blocked |-> FALSE, muted |-> TRUE],
   [version |-> 4, onlyContacts |-> FALSE, contact |-> FALSE, blocked |-> FALSE, muted |-> FALSE]}
============================================================================
