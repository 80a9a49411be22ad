---------------------------- MODULE AccessPolicy ---------------------------
(***************************************************************************)
(* The access-policy snapshot of one recipient and the pushes of one       *)
(* sender to it.  POST /devices/access-policy reads the stored version,    *)
(* then writes the four tables in one transaction, then the copy in        *)
(* memory; POST /events/push reads the four tables with four selects, once *)
(* to filter the recipients and once more for a standard target.  Anything *)
(* else runs between two of these steps.                                   *)
(***************************************************************************)
EXTENDS Integers, FiniteSets

CONSTANTS
  Snapshot,    \* snapshots a client may send, by what they say of the sender
  NoPolicy,
  AllowMissing, \* PUSH_ACCESS_POLICY_MISSING_SNAPSHOT_MODE is not drop
  MaxRequests, \* bound: snapshots being stored at the same time
  MaxSyncs     \* bound: snapshots sent

ASSUME PolicyAssumption ==
  /\ Snapshot \subseteq [version : Nat, onlyContacts : BOOLEAN, contact : BOOLEAN,
                         blocked : BOOLEAN, muted : BOOLEAN]
  /\ NoPolicy \notin Snapshot
  /\ AllowMissing \in BOOLEAN
  /\ MaxRequests \in Nat /\ MaxSyncs \in Nat

VARIABLES
  dbReady, \* is there a database, or only the copy in memory?
  table,   \* what the four tables hold; one transaction writes them all
  cache,   \* pushUserPolicies, pushUserContacts, ...: the copy in memory
  syncs,   \* requests between the version check and the answer
  sent,    \* snapshots sent so far
  push     \* the push under way, and what it has read

vars == <<dbReady, table, cache, syncs, sent, push>>

---------------------------------------------------------------------------
\* What is authoritative.
Stored == IF dbReady THEN table ELSE cache

Stale(snapshot, current) == current # NoPolicy /\ snapshot.version < current.version

\* decideAccessPolicy, from what was read of the recipient.
Allows(read) ==
  IF read.policy = NoPolicy THEN AllowMissing
  ELSE /\ ~read.blocked
       /\ ~read.muted
       /\ read.policy.onlyContacts => read.contact

\* A snapshot read at once.
Whole(snapshot) ==
  IF snapshot = NoPolicy THEN [policy |-> NoPolicy, contact |-> FALSE, blocked |-> FALSE, muted |-> FALSE]
  ELSE [policy |-> snapshot, contact |-> snapshot.contact, blocked |-> snapshot.blocked,
        muted |-> snapshot.muted]

---------------------------------------------------------------------------
(* POST /devices/access-policy *)

\* Mutant: the version is not compared.
FreshAlways(snapshot, current) == TRUE

Accepts(snapshot, current) == ~Stale(snapshot, current)

\* A sync, numbered n, goes on to the transaction.  alone is an observation: no
\* other sync has been under way at the same time.
Enters(s) ==
  {[q EXCEPT !.alone = FALSE] : q \in syncs}
    \cup {[n |-> sent, snapshot |-> s, at |-> "checked", alone |-> syncs = {}]}

\* The version is read and compared: a stale snapshot is answered at once.
CheckVersion(s) ==
  /\ sent < MaxSyncs
  /\ sent' = sent + 1
  /\ Cardinality(syncs) < MaxRequests
  /\ IF ~dbReady
     THEN \* no await: the copy in memory is written at once
       /\ cache' = IF Accepts(s, cache) THEN s ELSE cache
       /\ UNCHANGED syncs
     ELSE
       /\ syncs' = IF Accepts(s, table) THEN Enters(s) ELSE syncs
       /\ UNCHANGED cache
  /\ UNCHANGED <<dbReady, table, push>>

\* A push that is between two selects may read the new snapshot.
SeenBy(value) ==
  [push EXCEPT !.seen = IF push.at \in {"contacts", "blocked", "mutes"} THEN @ \cup {value} ELSE @]

\* The transaction commits, whatever the tables hold by now.
Commit(q) ==
  /\ q.at = "checked"
  /\ table' = q.snapshot
  /\ syncs' = (syncs \ {q}) \cup {[q EXCEPT !.at = "committed"]}
  /\ push' = SeenBy(q.snapshot)
  /\ UNCHANGED <<dbReady, cache, sent>>

\* It is rolled back: 500.
Rollback(q) ==
  /\ q.at = "checked"
  /\ syncs' = syncs \ {q}
  /\ UNCHANGED <<dbReady, table, cache, sent, push>>

\* The handler continues after the commit: the copy in memory, the answer.
Finish(q) ==
  /\ q.at = "committed"
  /\ cache' = q.snapshot
  /\ syncs' = syncs \ {q}
  /\ UNCHANGED <<dbReady, table, sent, push>>

---------------------------------------------------------------------------
(* POST /events/push *)

NoRead == Whole(NoPolicy)

\* The first select of a pass; the push starts with its first pass.  Without a
\* database, or without a row, the pass ends here.
ReadPolicy ==
  /\ push.at \in {"idle", "recheck"}
  /\ LET begun == IF push.at = "idle" THEN [push EXCEPT !.pass = 1] ELSE [push EXCEPT !.pass = 2]
         whole == ~dbReady \/ table = NoPolicy
     IN  push' = [begun EXCEPT !.at = IF whole THEN "decide" ELSE "contacts",
                               !.read = IF whole THEN Whole(Stored) ELSE [NoRead EXCEPT !.policy = table],
                               !.seen = {Stored}]
  /\ UNCHANGED <<dbReady, table, cache, syncs, sent>>

\* The other three selects, in their order.
ReadContacts ==
  /\ push.at = "contacts"
  /\ push' = [push EXCEPT !.at = "blocked", !.read.contact = table.contact]
  /\ UNCHANGED <<dbReady, table, cache, syncs, sent>>

\* Mutant: the blocked list is not read.
ReadNoBlocked ==
  /\ push.at = "blocked"
  /\ push' = [push EXCEPT !.at = "mutes"]
  /\ UNCHANGED <<dbReady, table, cache, syncs, sent>>

ReadBlocked ==
  /\ push.at = "blocked"
  /\ push' = [push EXCEPT !.at = "mutes", !.read.blocked = table.blocked]
  /\ UNCHANGED <<dbReady, table, cache, syncs, sent>>

ReadMutes ==
  /\ push.at = "mutes"
  /\ push' = [push EXCEPT !.at = "decide", !.read.muted = table.muted]
  /\ UNCHANGED <<dbReady, table, cache, syncs, sent>>

\* The decision of a pass.  After the first one the policy is read again for a
\* standard target, while a VoIP target gets its push at once.
Decide ==
  /\ push.at = "decide"
  /\ \E next \in IF ~Allows(push.read) THEN {"dropped"}
                 ELSE IF push.pass = 1 THEN {"recheck", "delivered"} ELSE {"delivered"} :
       push' = [push EXCEPT !.at = next]
  /\ UNCHANGED <<dbReady, table, cache, syncs, sent>>

\* The push is answered and the next one may begin.
Idle == [at |-> "idle", pass |-> 0, read |-> NoRead, seen |-> {}]

Answer ==
  /\ push.at \in {"dropped", "delivered"}
  /\ push' = Idle
  /\ UNCHANGED <<dbReady, table, cache, syncs, sent>>

\* The service restarts: the copy in memory and the requests are gone.  It
\* goes on without a database when it cannot reach it.
Restart ==
  /\ dbReady' \in BOOLEAN
  /\ cache' = NoPolicy
  /\ syncs' = {}
  /\ push' = Idle
  /\ UNCHANGED <<table, sent>>

---------------------------------------------------------------------------
Init ==
  /\ dbReady \in BOOLEAN
  /\ table = NoPolicy
  /\ cache = NoPolicy
  /\ syncs = {}
  /\ sent = 0
  /\ push = Idle

Next ==
  \/ \E s \in Snapshot : CheckVersion(s)
  \/ \E q \in syncs : Commit(q) \/ Rollback(q) \/ Finish(q)
  \/ ReadPolicy \/ ReadContacts \/ ReadBlocked \/ ReadMutes
  \/ Decide
  \/ Answer
  \/ Restart

Spec == Init /\ [][Next]_vars

---------------------------------------------------------------------------
(* Properties. *)

\* The version of the stored policy never goes back (PUSH.md:160:
\* "policyVersion (integer, monotonic per user)") while syncs come one after
\* the other, whichever of them fail and whenever the service restarts.  Two
\* that have both passed the version check may commit in the other order.
VersionsAdvance ==
  [][/\ dbReady' = dbReady /\ Stored # NoPolicy /\ Stored' # NoPolicy
     /\ \A q \in syncs : q.alone
     => Stored'.version >= Stored.version]_vars

\* What was true of every snapshot stored during the last reading of the policy
\* is respected: a push that is delivered goes to a recipient that had not
\* blocked or muted the sender, and had it among its contacts or was open to
\* all, in at least one of these snapshots each.
ThroughoutIsRespected ==
  push.at = "delivered" =>
    /\ \E s \in push.seen : s = NoPolicy \/ ~s.blocked
    /\ \E s \in push.seen : s = NoPolicy \/ ~s.muted
    /\ \E s \in push.seen : s = NoPolicy \/ ~s.onlyContacts \/ \E t \in push.seen : t # NoPolicy /\ t.contact
============================================================================
