------------------------ MODULE AccessPolicyProofs ------------------------
(***************************************************************************)
(* Proofs about AccessPolicy, for any snapshots, any number of syncs under *)
(* way and any restarts.  VersionsAdvance rests on the version check of a  *)
(* sync that is alone still being true when it commits (AloneIsCurrent);   *)
(* ThroughoutIsRespected on each part of what a pass has read being part   *)
(* of a snapshot that was stored during the pass (ReadFromSeen).           *)
(***************************************************************************)
EXTENDS AccessPolicy, TLAPS

Value == Snapshot \cup {NoPolicy}
Sync == [n : Nat, snapshot : Snapshot, at : {"checked", "committed"}, alone : BOOLEAN]
Read == [policy : Value, contact : BOOLEAN, blocked : BOOLEAN, muted : BOOLEAN]
Reading == {"contacts", "blocked", "mutes"}
Push == [at : Reading \cup {"idle", "recheck", "decide", "dropped", "delivered"},
         pass : 0..2, read : Read, seen : SUBSET Value]

Types ==
  /\ dbReady \in BOOLEAN
  /\ table \in Value /\ cache \in Value
  /\ syncs \subseteq Sync
  /\ sent \in Nat
  /\ push \in Push

AloneIsCurrent ==
  /\ ~dbReady => syncs = {}
  /\ \A q \in syncs :
       q.alone => syncs = {q} /\ (q.at = "checked" => Accepts(q.snapshot, table))

\* Some snapshot of the pass, not necessarily one for all parts, says so.
From(field, value) ==
  \E t \in push.seen : t # NoPolicy /\ t[field] = value

ReadAll ==
  \/ push.read.policy = NoPolicy /\ NoPolicy \in push.seen
  \/ /\ push.read.policy \in push.seen \ {NoPolicy}
     /\ From("contact", push.read.contact)
     /\ From("blocked", push.read.blocked)
     /\ From("muted", push.read.muted)

ReadFromSeen ==
  /\ push.at \in Reading =>
       /\ dbReady /\ table # NoPolicy /\ table \in push.seen
       /\ push.read.policy \in push.seen \ {NoPolicy}
  /\ push.at \in {"blocked", "mutes"} => From("contact", push.read.contact)
  /\ push.at = "mutes" => From("blocked", push.read.blocked)
  /\ push.at \in {"decide", "delivered"} => ReadAll
  /\ push.at = "delivered" => Allows(push.read)

PolicyInv == Types /\ AloneIsCurrent /\ ReadFromSeen

---------------------------------------------------------------------------
\* A snapshot read at once is a reading.
LEMMA WholeIsRead ==
  ASSUME NEW s \in Value
  PROVE  /\ Whole(s) \in Read
         /\ Whole(s).policy = s
         /\ s # NoPolicy => /\ Whole(s).contact = s.contact
                            /\ Whole(s).blocked = s.blocked
                            /\ Whole(s).muted = s.muted
BY PolicyAssumption DEF Whole, Read, Value

\* The policy that is authoritative is one that was stored, or none.
LEMMA StoredIsValue == Types => Stored \in Value
BY DEF Types, Stored

\* Nothing is being read or stored when the service starts.
LEMMA InitPolicy == Init => PolicyInv
<1> SUFFICES ASSUME Init PROVE PolicyInv
  OBVIOUS
<1>1. Idle \in Push
  BY WholeIsRead DEF Idle, NoRead, Push, Value, Reading
<1>2. Types
  BY <1>1 DEF Init, Types, Value
<1>3. AloneIsCurrent
  BY DEF Init, AloneIsCurrent
<1>4. ReadFromSeen
  BY DEF Init, Idle, ReadFromSeen, Reading
<1> QED BY <1>2, <1>3, <1>4 DEF PolicyInv

---------------------------------------------------------------------------
(* Types. *)

\* Every step of a sync keeps the types, and leaves the push as it is or adds
\* what it stores to what the push has seen.
LEMMA SyncTypes ==
  ASSUME Types, \/ \E s \in Snapshot : CheckVersion(s)
                \/ \E q \in syncs : Commit(q) \/ Rollback(q) \/ Finish(q)
  PROVE  Types'
<1>1. CASE \E s \in Snapshot : CheckVersion(s)
  <2> PICK s \in Snapshot : CheckVersion(s)
    BY <1>1
  <2>1. \A q \in syncs : [q EXCEPT !.alone = FALSE] \in Sync
    BY DEF Types, Sync
  <2>2. [n |-> sent, snapshot |-> s, at |-> "checked", alone |-> syncs = {}] \in Sync
    BY DEF Types, Sync
  <2>3. Enters(s) \subseteq Sync
    BY <2>1, <2>2 DEF Enters
  <2>4. syncs' \subseteq Sync
    BY <2>3 DEF CheckVersion, Types
  <2>5. cache' \in Value
    BY DEF CheckVersion, Types, Value
  <2> QED BY <2>4, <2>5 DEF CheckVersion, Types
<1>2. CASE \E q \in syncs : Commit(q)
  <2> PICK q \in syncs : Commit(q)
    BY <1>2
  <2>1. q \in Sync /\ [q EXCEPT !.at = "committed"] \in Sync
    BY DEF Types, Sync
  <2>2. syncs' \subseteq Sync
    BY <2>1 DEF Commit, Types
  <2>3. table' \in Value
    BY <2>1 DEF Commit, Sync, Value
  <2>4. q.snapshot \in Value
    BY <2>1 DEF Sync, Value
  <2>5. push' \in Push
    BY <2>4 DEF Commit, SeenBy, Types, Push
  <2> QED BY <2>2, <2>3, <2>5 DEF Commit, Types
<1>3. CASE \E q \in syncs : Rollback(q)
  BY <1>3 DEF Rollback, Types
<1>4. CASE \E q \in syncs : Finish(q)
  BY <1>4 DEF Finish, Types, Sync, Value
<1> QED BY <1>1, <1>2, <1>3, <1>4

\* So does every step of a push.
LEMMA PushTypes ==
  ASSUME Types, ReadFromSeen,
         \/ ReadPolicy \/ ReadContacts \/ ReadBlocked \/ ReadMutes
         \/ Decide \/ Answer \/ Restart
  PROVE  Types'
<1>1. CASE ReadPolicy
  <2>1. Stored \in Value /\ table \in Value
    BY StoredIsValue DEF Types
  <2>2. Whole(Stored) \in Read /\ [NoRead EXCEPT !.policy = table] \in Read
    BY <2>1, WholeIsRead DEF NoRead, Read, Value
  <2>3. /\ push'.at \in {"decide", "contacts"} /\ push'.pass \in {1, 2}
        /\ push'.read \in {Whole(Stored), [NoRead EXCEPT !.policy = table]}
        /\ push'.seen = {Stored}
        /\ push' = [at |-> push'.at, pass |-> push'.pass, read |-> push'.read, seen |-> push'.seen]
    BY <1>1 DEF ReadPolicy, Types, Push
  <2>4. push' \in Push
    <3>1. push'.pass \in 0..2 /\ push'.at \in Reading \cup {"decide"}
      BY <2>3 DEF Reading
    <3>2. push'.read \in Read /\ push'.seen \in SUBSET Value
      BY <2>1, <2>2, <2>3
    <3> QED BY <2>3, <3>1, <3>2 DEF Push
  <2> QED BY <1>1, <2>4 DEF ReadPolicy, Types
<1>2. CASE ReadContacts \/ ReadBlocked \/ ReadMutes
  <2>1. table \in Snapshot
    BY <1>2 DEF ReadContacts, ReadBlocked, ReadMutes, ReadFromSeen, Reading, Types, Value
  <2>2. table.contact \in BOOLEAN /\ table.blocked \in BOOLEAN /\ table.muted \in BOOLEAN
    BY <2>1, PolicyAssumption
  <2>3. /\ [push.read EXCEPT !.contact = table.contact] \in Read
        /\ [push.read EXCEPT !.blocked = table.blocked] \in Read
        /\ [push.read EXCEPT !.muted = table.muted] \in Read
    BY <2>2 DEF Types, Push, Read
  <2>4. /\ push'.at \in {"blocked", "mutes", "decide"}
        /\ push'.read \in {[push.read EXCEPT !.contact = table.contact],
                          [push.read EXCEPT !.blocked = table.blocked],
                          [push.read EXCEPT !.muted = table.muted]}
        /\ push' = [at |-> push'.at, pass |-> push.pass, read |-> push'.read, seen |-> push.seen]
    BY <1>2 DEF ReadContacts, ReadBlocked, ReadMutes, Types, Push
  <2>5. push' \in Push
    <3>1. push'.read \in Read /\ push'.at \in Reading \cup {"decide"}
      BY <2>3, <2>4 DEF Reading
    <3>2. push.pass \in 0..2 /\ push.seen \in SUBSET Value
      BY DEF Types, Push
    <3> QED BY <2>4, <3>1, <3>2 DEF Push
  <2> QED BY <1>2, <2>5 DEF ReadContacts, ReadBlocked, ReadMutes, Types
<1>3. CASE Decide
  <2>1. push' \in Push
    BY <1>3 DEF Decide, Types, Push
  <2> QED BY <1>3, <2>1 DEF Decide, Types
<1>4. Idle \in Push
  BY WholeIsRead DEF Idle, NoRead, Push, Value, Reading
<1>5. CASE Answer
  BY <1>4, <1>5 DEF Answer, Types
<1>6. CASE Restart
  BY <1>4, <1>6 DEF Restart, Types, Value
<1> QED BY <1>1, <1>2, <1>3, <1>5, <1>6

---------------------------------------------------------------------------
(* A sync that is alone. *)

\* The version check of a sync that meets no other stays true until it commits.
LEMMA AloneKept ==
  ASSUME Types, AloneIsCurrent, Next
  PROVE  AloneIsCurrent'
<1>1. CASE \E s \in Snapshot : CheckVersion(s)
  <2> PICK s \in Snapshot : CheckVersion(s)
    BY <1>1
  <2>1. CASE ~dbReady
    BY <2>1 DEF CheckVersion, AloneIsCurrent
  <2>2. CASE dbReady /\ syncs' = syncs
    BY <2>2 DEF CheckVersion, AloneIsCurrent, Accepts, Stale
  <2>3. CASE dbReady /\ Accepts(s, table) /\ syncs' = Enters(s)
    <3> DEFINE new == [n |-> sent, snapshot |-> s, at |-> "checked", alone |-> syncs = {}]
    <3>1. ASSUME NEW q \in syncs', q.alone PROVE q = new /\ syncs = {}
      <4>1. \A r \in syncs : ~[r EXCEPT !.alone = FALSE].alone
        BY DEF Types, Sync
      <4>2. q = new
        BY <2>3, <3>1, <4>1 DEF Enters
      <4> QED BY <3>1, <4>2
    <3>2. syncs = {} => syncs' = {new}
      BY <2>3 DEF Enters
    <3>3. table' = table /\ dbReady' = dbReady
      BY DEF CheckVersion
    <3>4. new.snapshot = s
      OBVIOUS
    <3> HIDE DEF new
    <3> QED BY <2>3, <3>1, <3>2, <3>3, <3>4 DEF AloneIsCurrent, Accepts, Stale
  <2> QED BY <2>1, <2>2, <2>3 DEF CheckVersion
<1>2. CASE \E q \in syncs : Commit(q)
  <2> PICK q \in syncs : Commit(q)
    BY <1>2
  <2> DEFINE moved == [q EXCEPT !.at = "committed"]
  <2>1. q \in Sync /\ moved.at = "committed" /\ moved.alone = q.alone
    BY DEF Types, Sync
  <2>2. dbReady /\ dbReady' = dbReady /\ syncs' = (syncs \ {q}) \cup {moved}
    BY DEF Commit, AloneIsCurrent
  <2>3. ASSUME NEW r \in syncs', r.alone PROVE r = moved /\ syncs' = {moved}
    <3> HIDE DEF moved
    <3>1. CASE r \in syncs \ {q}
      BY <3>1, <2>3 DEF AloneIsCurrent
    <3>2. CASE r = moved
      <4>1. syncs = {q}
        BY <2>1, <2>3, <3>2 DEF AloneIsCurrent
      <4> QED BY <2>2, <3>2, <4>1
    <3> QED BY <2>2, <3>1, <3>2
  <2> HIDE DEF moved
  <2> QED BY <2>1, <2>2, <2>3 DEF AloneIsCurrent
<1>3. CASE \E q \in syncs : Rollback(q) \/ Finish(q)
  <2> PICK q \in syncs : Rollback(q) \/ Finish(q)
    BY <1>3
  <2>1. syncs' = syncs \ {q} /\ table' = table /\ dbReady' = dbReady
    BY DEF Rollback, Finish
  <2>2. ASSUME NEW r \in syncs', r.alone PROVE FALSE
    BY <2>1, <2>2 DEF AloneIsCurrent
  <2> QED BY <2>1, <2>2 DEF AloneIsCurrent
<1>4. CASE ReadPolicy \/ ReadContacts \/ ReadBlocked \/ ReadMutes \/ Decide \/ Answer
  BY <1>4 DEF ReadPolicy, ReadContacts, ReadBlocked, ReadMutes, Decide, Answer,
              AloneIsCurrent, Accepts, Stale
<1>5. CASE Restart
  BY <1>5 DEF Restart, AloneIsCurrent
<1> QED BY <1>1, <1>2, <1>3, <1>4, <1>5 DEF Next

---------------------------------------------------------------------------
(* What a pass has read. *)

\* What has been read stays among what the pass has seen when a snapshot is
\* stored in between.
LEMMA SeenGrows ==
  ASSUME Types, ReadFromSeen, NEW q \in syncs, Commit(q)
  PROVE  ReadFromSeen'
<1>1. q.snapshot \in Snapshot /\ table' = q.snapshot /\ dbReady' = dbReady
  BY DEF Commit, Types, Sync
<1>2. q.snapshot # NoPolicy
  BY <1>1, PolicyAssumption
<1>3. /\ push'.at = push.at /\ push'.read = push.read
      /\ push.seen \subseteq push'.seen
      /\ push.at \in Reading => q.snapshot \in push'.seen
  BY DEF Commit, SeenBy, Types, Push, Reading
<1>4. \A f, v : From(f, v) => From(f, v)'
  BY <1>3 DEF From
<1> HIDE DEF From
<1>5. ReadAll => ReadAll'
  BY <1>3, <1>4 DEF ReadAll
<1> QED BY <1>1, <1>2, <1>3, <1>4, <1>5 DEF ReadFromSeen, Allows

\* Each select reads from the snapshot that is stored at that moment, which the
\* pass has seen.
LEMMA ReadKept ==
  ASSUME Types, ReadFromSeen, AloneIsCurrent, Next
  PROVE  ReadFromSeen'
<1>1. CASE \E s \in Snapshot : CheckVersion(s)
  BY <1>1 DEF CheckVersion, ReadFromSeen, ReadAll, From, Allows
<1>2. CASE \E q \in syncs : Commit(q)
  BY <1>2, SeenGrows
<1>3. CASE \E q \in syncs : Rollback(q) \/ Finish(q)
  BY <1>3 DEF Rollback, Finish, ReadFromSeen, ReadAll, From, Allows
<1>4. CASE ReadPolicy
  <2>1. Stored \in Value /\ push'.seen = {Stored} /\ dbReady' = dbReady /\ table' = table
    BY <1>4, StoredIsValue DEF ReadPolicy, Types, Push
  <2>2. CASE ~dbReady \/ table = NoPolicy
    <3>1. push'.at = "decide" /\ push'.read = Whole(Stored)
      BY <1>4, <2>2 DEF ReadPolicy, Types, Push
    <3>2. ReadAll'
      <4>1. CASE Stored = NoPolicy
        BY <2>1, <3>1, <4>1, WholeIsRead DEF ReadAll
      <4>2. CASE Stored # NoPolicy
        <5>1. /\ Whole(Stored).contact = Stored["contact"]
              /\ Whole(Stored).blocked = Stored["blocked"]
              /\ Whole(Stored).muted = Stored["muted"]
          BY <2>1, <4>2, WholeIsRead
        <5>2. /\ From("contact", push.read.contact)'
              /\ From("blocked", push.read.blocked)'
              /\ From("muted", push.read.muted)'
          BY <2>1, <3>1, <4>2, <5>1 DEF From
        <5>3. (push.read.policy \in push.seen \ {NoPolicy})'
          BY <2>1, <3>1, <4>2, WholeIsRead
        <5> QED BY <5>2, <5>3 DEF ReadAll
      <4> QED BY <4>1, <4>2
    <3> QED BY <3>1, <3>2 DEF ReadFromSeen, Reading
  <2>3. CASE dbReady /\ table # NoPolicy
    <3>1. push'.at = "contacts" /\ push'.read.policy = table /\ Stored = table
      BY <1>4, <2>3 DEF ReadPolicy, Types, Push, NoRead, Whole, Stored
    <3> QED BY <2>1, <2>3, <3>1 DEF ReadFromSeen, Reading
  <2> QED BY <2>2, <2>3
<1>5. CASE ReadContacts
  <2>1. /\ push.at = "contacts" /\ push'.at = "blocked" /\ push'.seen = push.seen
        /\ push'.read.policy = push.read.policy /\ push'.read.contact = table["contact"]
        /\ dbReady' = dbReady /\ table' = table
    BY <1>5 DEF ReadContacts, Types, Push, Read
  <2>2. From("contact", push.read.contact)'
    BY <2>1 DEF From, ReadFromSeen, Reading
  <2> QED BY <2>1, <2>2 DEF ReadFromSeen, Reading
<1>6. CASE ReadBlocked
  <2>1. /\ push.at = "blocked" /\ push'.at = "mutes" /\ push'.seen = push.seen
        /\ push'.read.policy = push.read.policy /\ push'.read.contact = push.read.contact
        /\ push'.read.blocked = table["blocked"]
        /\ dbReady' = dbReady /\ table' = table
    BY <1>6 DEF ReadBlocked, Types, Push, Read
  <2>2. From("contact", push.read.contact)' /\ From("blocked", push.read.blocked)'
    BY <2>1 DEF From, ReadFromSeen, Reading
  <2> QED BY <2>1, <2>2 DEF ReadFromSeen, Reading
<1>7. CASE ReadMutes
  <2>1. /\ push.at = "mutes" /\ push'.at = "decide" /\ push'.seen = push.seen
        /\ push'.read.policy = push.read.policy /\ push'.read.contact = push.read.contact
        /\ push'.read.blocked = push.read.blocked
        /\ push'.read.muted = table["muted"]
    BY <1>7 DEF ReadMutes, Types, Push, Read
  <2>2. /\ From("contact", push.read.contact)'
        /\ From("blocked", push.read.blocked)'
        /\ From("muted", push.read.muted)'
    BY <2>1 DEF From, ReadFromSeen, Reading
  <2>3. ReadAll'
    BY <2>1, <2>2 DEF ReadAll, ReadFromSeen, Reading
  <2> QED BY <2>1, <2>3 DEF ReadFromSeen, Reading
<1>8. CASE Decide
  <2>1. /\ push.at = "decide" /\ push'.read = push.read /\ push'.seen = push.seen
        /\ push'.at \in {"dropped", "recheck", "delivered"}
        /\ push'.at = "delivered" => Allows(push.read)
    BY <1>8 DEF Decide, Types, Push
  <2>2. ReadAll'
    BY <2>1 DEF ReadFromSeen, ReadAll, From
  <2> QED BY <2>1, <2>2 DEF ReadFromSeen, Reading, Allows
<1>9. CASE Answer \/ Restart
  BY <1>9 DEF Answer, Restart, Idle, ReadFromSeen, Reading
<1> QED BY <1>1, <1>2, <1>3, <1>4, <1>5, <1>6, <1>7, <1>8, <1>9 DEF Next

---------------------------------------------------------------------------
(* The theorems. *)

LEMMA PolicyNext == PolicyInv /\ [Next]_vars => PolicyInv'
<1> SUFFICES ASSUME PolicyInv, [Next]_vars PROVE PolicyInv'
  OBVIOUS
<1>1. CASE Next
  <2>1. Types'
    BY <1>1, SyncTypes, PushTypes DEF Next, PolicyInv
  <2> QED BY <1>1, <2>1, AloneKept, ReadKept DEF PolicyInv
<1>2. CASE UNCHANGED vars
  BY <1>2 DEF vars, PolicyInv, Types, AloneIsCurrent, Accepts, Stale,
              ReadFromSeen, ReadAll, From, Allows
<1> QED BY <1>1, <1>2

LEMMA PolicyInvariant == Spec => []PolicyInv
BY InitPolicy, PolicyNext, PTL DEF Spec

\* A delivered push had, for the block list, the mute list and the contacts
\* each, a snapshot stored during its last reading that allowed it: what held in
\* all of them is respected.
THEOREM BlocksAreRespected == Spec => []ThroughoutIsRespected
<1>1. PolicyInv => ThroughoutIsRespected
  <2> SUFFICES ASSUME PolicyInv, push.at = "delivered" PROVE ThroughoutIsRespected
    BY DEF ThroughoutIsRespected
  <2>1. ReadAll /\ Allows(push.read)
    BY DEF PolicyInv, ReadFromSeen
  <2>2. CASE push.read.policy = NoPolicy
    BY <2>1, <2>2 DEF ReadAll, ThroughoutIsRespected
  <2>3. CASE push.read.policy # NoPolicy
    <3>1. /\ ~push.read.blocked /\ ~push.read.muted
          /\ push.read.policy.onlyContacts => push.read.contact
      BY <2>1, <2>3 DEF Allows
    <3>2. /\ push.read.policy \in push.seen
          /\ \E t \in push.seen : t # NoPolicy /\ t.contact = push.read.contact
          /\ \E t \in push.seen : t # NoPolicy /\ t.blocked = push.read.blocked
          /\ \E t \in push.seen : t # NoPolicy /\ t.muted = push.read.muted
      BY <2>1, <2>3 DEF ReadAll, From
    <3> QED BY <3>1, <3>2 DEF ThroughoutIsRespected
  <2> QED BY <2>2, <2>3
<1> QED BY <1>1, PolicyInvariant, PTL

\* The stored version goes back in no step that meets only syncs that have
\* overlapped no other.
THEOREM VersionsGoOn == Spec => VersionsAdvance
<1> DEFINE Step == /\ dbReady' = dbReady /\ Stored # NoPolicy /\ Stored' # NoPolicy
                   /\ \A q \in syncs : q.alone
                   => Stored'.version >= Stored.version
<1>1. PolicyInv /\ [Next]_vars => [Step]_vars
  <2> SUFFICES ASSUME PolicyInv, Next, dbReady' = dbReady, Stored # NoPolicy,
                      Stored' # NoPolicy, \A q \in syncs : q.alone
               PROVE  Stored'.version >= Stored.version
    OBVIOUS
  <2>1. Stored \in Snapshot /\ Stored.version \in Nat
    BY StoredIsValue, PolicyAssumption DEF PolicyInv, Value
  <2>2. CASE Stored' = Stored
    BY <2>1, <2>2
  <2>3. CASE \E s \in Snapshot : CheckVersion(s)
    <3> PICK s \in Snapshot : CheckVersion(s)
      BY <2>3
    <3>1. CASE ~dbReady /\ Accepts(s, cache)
      <4>1. Stored = cache /\ Stored' = s
        BY <3>1 DEF CheckVersion, Stored
      <4> QED BY <2>1, <3>1, <4>1, PolicyAssumption DEF Accepts, Stale
    <3>2. CASE dbReady \/ ~Accepts(s, cache)
      BY <2>2, <3>2 DEF CheckVersion, Stored
    <3> QED BY <3>1, <3>2
  <2>4. CASE \E q \in syncs : Commit(q)
    <3> PICK q \in syncs : Commit(q)
      BY <2>4
    <3>1. dbReady /\ Stored = table /\ Stored' = q.snapshot
      BY DEF Commit, Stored, PolicyInv, AloneIsCurrent
    <3>2. Accepts(q.snapshot, table) /\ q.snapshot.version \in Nat
      BY PolicyAssumption DEF Commit, PolicyInv, AloneIsCurrent, Types, Sync
    <3> QED BY <2>1, <3>1, <3>2 DEF Accepts, Stale
  <2>5. CASE \E q \in syncs : Rollback(q) \/ Finish(q)
    BY <2>2, <2>5 DEF Rollback, Finish, Stored, PolicyInv, AloneIsCurrent
  <2>6. CASE ReadPolicy \/ ReadContacts \/ ReadBlocked \/ ReadMutes \/ Decide \/ Answer
    BY <2>2, <2>6 DEF ReadPolicy, ReadContacts, ReadBlocked, ReadMutes, Decide, Answer, Stored
  <2>7. CASE Restart
    BY <2>2, <2>7 DEF Restart, Stored
  <2> QED BY <2>3, <2>4, <2>5, <2>6, <2>7 DEF Next
<1> QED BY <1>1, PolicyInvariant, PTL DEF Spec, VersionsAdvance
===========================================================================
