---------------------------- MODULE InviteProofs --------------------------
(***************************************************************************)
(* Proofs about Invite, for any tokens, clients, times and limits, any     *)
(* number of requests inside persist() and any crashes.  What is on file   *)
(* and what is on its way there is known to the process (ContentKnown); an *)
(* invite whose persist() met no other is in every content that may still  *)
(* be renamed (StaysOnFile); the buckets hold the window of what was       *)
(* created (BucketsExact).                                                 *)
(***************************************************************************)
EXTENDS Invite, FiniteSetTheorems, TLAPS

Entry(i) == [token |-> i.token, expires |-> i.expires]

\* A request as a record; its slot is of no importance here.
IsRequest(r) ==
  /\ r = [slot |-> r.slot, token |-> r.token, kind |-> r.kind, at |-> r.at,
          content |-> r.content, expires |-> r.expires, alone |-> r.alone]
  /\ r.token \in Token /\ r.expires \in Nat
  /\ r.at \in {"mkdir", "write", "rename"}
  /\ r.content \subseteq Invite
  /\ r.alone \in BOOLEAN

InviteTypes ==
  /\ invites \subseteq Invite /\ file \subseteq Invite
  /\ \A r \in requests : IsRequest(r)
  /\ now \in Nat
  /\ up \in BOOLEAN
  /\ ~up => requests = {}
  /\ \A i \in promised : Entry(i) \in Invite

\* What a request has serialised is known to the process, or has expired.
ContentKnown ==
  /\ up => \A i \in file : i \in invites \/ i.expires <= now
  /\ \A r \in requests : \A i \in r.content : i \in invites \/ i.expires <= now

\* A create that is alone carries its own invite.
AloneCarries ==
  \A r \in requests : r.alone =>
    /\ requests = {r}
    /\ r.kind = "create" => \/ r.expires <= now
                            \/ r.at = "mkdir" /\ Entry(r) \in invites
                            \/ r.at # "mkdir" /\ Entry(r) \in r.content

StaysOnFile ==
  \A i \in promised : i.alone /\ i.expires > now =>
    /\ Entry(i) \in file
    /\ \A r \in requests : r.at # "mkdir" => Entry(i) \in r.content

FileInv == InviteTypes /\ ContentKnown /\ AloneCarries /\ StaysOnFile

---------------------------------------------------------------------------
\* Entering persist() leaves what the requests carry, and ends the solitude of
\* those that are there.
LEMMA EntersRequests ==
  ASSUME InviteTypes, NEW token \in Token, NEW kind, NEW expires \in Nat,
         Enters(token, kind, expires), NEW r \in requests'
  PROVE  /\ IsRequest(r)
         /\ \/ \E q \in requests : /\ ~r.alone /\ r.at = q.at /\ r.content = q.content
            \/ /\ r.at = "mkdir" /\ r.content = {} /\ r.kind = kind
               /\ Entry(r) = [token |-> token, expires |-> expires] /\ r.expires = expires
               /\ r.alone => requests = {} /\ requests' = {r}
<1> DEFINE new == [slot |-> CHOOSE n \in 1..MaxRequests : \A q \in requests : q.slot # n,
                   token |-> token, kind |-> kind, at |-> "mkdir", content |-> {},
                   expires |-> expires, alone |-> requests = {}]
<1>1. requests' = {[q EXCEPT !.alone = FALSE] : q \in requests} \cup {new}
  BY DEF Enters
<1>2. CASE \E q \in requests : r = [q EXCEPT !.alone = FALSE]
  <2> PICK q \in requests : r = [q EXCEPT !.alone = FALSE]
    BY <1>2
  <2>1. IsRequest(q)
    BY DEF InviteTypes
  <2>2. r = [slot |-> q.slot, token |-> q.token, kind |-> q.kind, at |-> q.at,
             content |-> q.content, expires |-> q.expires, alone |-> FALSE]
    BY <2>1 DEF IsRequest
  <2> QED BY <2>1, <2>2 DEF IsRequest
<1>3. CASE r = new
  <2>1. /\ r.at = "mkdir" /\ r.content = {} /\ r.kind = kind /\ r.token = token
        /\ r.expires = expires /\ r.alone = (requests = {})
        /\ IsRequest(r)
    BY <1>3 DEF IsRequest
  <2>2. requests = {} => requests' = {r}
    BY <1>1, <1>3
  <2> QED BY <2>1, <2>2 DEF Entry
<1> QED BY <1>1, <1>2, <1>3

\* The service starts without invites.
LEMMA InitFile == Init => FileInv
BY DEF Init, FileInv, InviteTypes, ContentKnown, AloneCarries, StaysOnFile

\* A request that enters persist() disturbs no invite: the map loses what has
\* expired only.
LEMMA EntersKeeps ==
  ASSUME FileInv, up, NEW token \in Token, NEW kind, NEW expires \in Nat,
         Enters(token, kind, expires),
         invites' \subseteq Invite,
         \A i \in invites : i.expires > now => i \in invites',
         kind = "create" => [token |-> token, expires |-> expires] \in invites',
         UNCHANGED <<file, up, now, promised>>
  PROVE  FileInv'
<1> USE DEF FileInv
<1>1. \A r \in requests' : IsRequest(r)
  BY EntersRequests
<1>2. InviteTypes'
  BY <1>1 DEF InviteTypes, Invite, IsRequest, Entry
<1>3. ContentKnown'
  <2>1. ASSUME NEW r \in requests', NEW i \in r.content
        PROVE  i \in invites' \/ i.expires <= now
    <3>1. \E q \in requests : i \in q.content
      BY EntersRequests
    <3>2. i \in Invite /\ (i \in invites \/ i.expires <= now)
      BY <3>1 DEF ContentKnown, InviteTypes, IsRequest
    <3> QED BY <3>2 DEF Invite, InviteTypes
  <2>2. ASSUME NEW i \in file PROVE i \in invites' \/ i.expires <= now
    BY DEF ContentKnown, InviteTypes, Invite
  <2> QED BY <2>1, <2>2 DEF ContentKnown
<1>4. AloneCarries'
  <2> SUFFICES ASSUME NEW r \in requests', r.alone
               PROVE  /\ requests' = {r}
                      /\ r.kind = "create" => r.at = "mkdir" /\ Entry(r) \in invites'
    BY DEF AloneCarries, Entry
  <2> QED BY EntersRequests
<1>5. StaysOnFile'
  <2>1. ASSUME NEW r \in requests', r.at # "mkdir"
        PROVE  \E q \in requests : q.at # "mkdir" /\ q.content = r.content
    BY <2>1, EntersRequests
  <2> QED BY <2>1 DEF StaysOnFile, Entry
<1> QED BY <1>2, <1>3, <1>4, <1>5

\* What prune() leaves of a map.
LEMMA PruneKeeps ==
  ASSUME InviteTypes, NEW map \in SUBSET Invite
  PROVE  /\ Prune(map) \subseteq Invite
         /\ \A i \in map : i.expires > now => i \in Prune(map)
BY DEF Prune, InviteTypes, Invite

\* A step of persist(), with what it serialises.
LEMMA MoveKeeps ==
  ASSUME FileInv, up, NEW q \in requests, NEW r, IsRequest(r),
         r.at # "mkdir", Entry(r) = Entry(q),
         r.alone = q.alone, r.kind = q.kind, r.expires = q.expires,
         q.at = "mkdir" => r.content = invites,
         q.at # "mkdir" => r.content = q.content,
         requests' = (requests \ {q}) \cup {r},
         UNCHANGED <<invites, file, up, now, promised>>
  PROVE  FileInv'
<1> USE DEF FileInv
<1>3. InviteTypes'
  BY DEF InviteTypes, IsRequest, Entry
<1>4. ContentKnown'
  BY DEF ContentKnown
<1>5. AloneCarries'
  <2> SUFFICES ASSUME NEW x \in requests', x.alone
               PROVE  /\ requests' = {x}
                      /\ x.kind = "create" =>
                           x.expires <= now \/ (x.at # "mkdir" /\ Entry(x) \in x.content)
    BY DEF AloneCarries, Entry
  <2>1. CASE x # r
    BY <2>1 DEF AloneCarries
  <2>2. CASE x = r
    BY <2>2 DEF AloneCarries
  <2> QED BY <2>1, <2>2
<1>6. StaysOnFile'
  <2> SUFFICES ASSUME NEW i \in promised, i.alone, i.expires > now
               PROVE  /\ Entry(i) \in file
                      /\ \A x \in requests' : x.at # "mkdir" => Entry(i) \in x.content
    BY DEF StaysOnFile, Entry
  <2>1. Entry(i) \in file /\ (q.at # "mkdir" => Entry(i) \in q.content)
    BY DEF StaysOnFile
  <2>2. Entry(i) \in invites
    BY <2>1 DEF ContentKnown, InviteTypes, Invite, Entry
  <2> QED BY <2>1, <2>2 DEF StaysOnFile
<1> QED BY <1>3, <1>4, <1>5, <1>6

---------------------------------------------------------------------------
\* Every step keeps what is on file.
LEMMA FileNext ==
  ASSUME FileInv, Next
  PROVE  FileInv'
<1>1. CASE \E client \in Client, token \in Token : Create(client, token)
  <2> PICK client \in Client, token \in Token : Create(client, token)
    BY <1>1
  <2>1. now + TTL \in Nat /\ [token |-> token, expires |-> now + TTL] \in Invite
    BY InviteAssumption DEF FileInv, InviteTypes, Invite
  <2>2. invites' \subseteq Invite /\ \A i \in invites : i.expires > now => i \in invites'
    BY <2>1, PruneKeeps DEF Create, FileInv, InviteTypes
  <2>3. Enters(token, "create", now + TTL)
    BY DEF Create
  <2>4. [token |-> token, expires |-> now + TTL] \in invites' /\ up
        /\ UNCHANGED <<file, up, now, promised>>
    BY DEF Create
  <2> QED BY <2>1, <2>2, <2>3, <2>4, EntersKeeps
<1>2. CASE \E token \in Token : Resolve(token)
  <2> PICK token \in Token : Resolve(token)
    BY <1>2
  <2>1. /\ invites' \subseteq Invite
        /\ \A i \in invites : i.expires > now => i \in invites'
        /\ up /\ UNCHANGED <<file, up, now, promised>>
    BY PruneKeeps DEF Resolve, FileInv, InviteTypes
  <2>2. CASE \E i \in Prune(invites) : Enters(token, "resolve", i.expires)
    <3> PICK i \in Prune(invites) : Enters(token, "resolve", i.expires)
      BY <2>2
    <3>1. i.expires \in Nat
      BY PruneKeeps DEF FileInv, InviteTypes, Invite
    <3> QED BY <2>1, <3>1, EntersKeeps
  <2>3. CASE UNCHANGED requests
    <3>1. \A i \in file \cup UNION {r.content : r \in requests} :
            i \in Invite /\ (i \in invites \/ i.expires <= now)
      BY <2>1 DEF FileInv, InviteTypes, IsRequest, ContentKnown
    <3>2. ContentKnown'
      BY <2>1, <2>3, <3>1 DEF ContentKnown, Invite, FileInv, InviteTypes
    <3>3. InviteTypes'
      BY <2>1, <2>3 DEF FileInv, InviteTypes, IsRequest, Entry
    <3>4. AloneCarries'
      <4>1. ASSUME NEW r \in requests, Entry(r) \in invites
            PROVE  r.expires <= now \/ Entry(r) \in invites'
        BY <2>1, <4>1 DEF FileInv, InviteTypes, IsRequest, Entry
      <4> QED BY <2>1, <2>3, <4>1 DEF FileInv, AloneCarries, Entry
    <3>5. StaysOnFile'
      BY <2>1, <2>3 DEF FileInv, StaysOnFile, Entry
    <3> QED BY <3>2, <3>3, <3>4, <3>5 DEF FileInv
  <2> QED BY <2>2, <2>3 DEF Resolve
<1>3. CASE \E r \in requests : Serialise(r)
  <2> PICK r \in requests : Serialise(r)
    BY <1>3
  <2> DEFINE x == [r EXCEPT !.at = "write", !.content = invites]
  <2>1. IsRequest(r) /\ invites \in SUBSET Invite
    BY DEF FileInv, InviteTypes
  <2>2. requests' = (requests \ {r}) \cup {x} /\ r.at = "mkdir" /\ up
        /\ UNCHANGED <<invites, file, up, now, promised>>
    BY DEF Serialise
  <2>3. /\ IsRequest(x) /\ x.at = "write" /\ x.content = invites /\ Entry(x) = Entry(r)
        /\ x.alone = r.alone /\ x.kind = r.kind /\ x.expires = r.expires
    <3>1. DOMAIN r = {"slot", "token", "kind", "at", "content", "expires", "alone"}
      BY <2>1 DEF IsRequest
    <3>2. x = [slot |-> r.slot, token |-> r.token, kind |-> r.kind, at |-> "write",
               content |-> invites, expires |-> r.expires, alone |-> r.alone]
      <4> DEFINE y == [r EXCEPT !.at = "write"]
      <4>1. y = [slot |-> r.slot, token |-> r.token, kind |-> r.kind, at |-> "write",
                 content |-> r.content, expires |-> r.expires, alone |-> r.alone]
        BY <3>1
      <4>2. x = [y EXCEPT !.content = invites]
        BY <3>1
      <4> HIDE DEF x, y
      <4> QED BY <4>1, <4>2
    <3> HIDE DEF x
    <3> QED BY <2>1, <3>2 DEF IsRequest, Entry
  <2> HIDE DEF x
  <2> QED BY <2>2, <2>3, MoveKeeps
<1>4. CASE \E r \in requests : Written(r)
  <2> PICK r \in requests : Written(r)
    BY <1>4
  <2> DEFINE x == [r EXCEPT !.at = "rename"]
  <2>1. IsRequest(r)
    BY DEF FileInv, InviteTypes
  <2>3. requests' = (requests \ {r}) \cup {x} /\ r.at = "write" /\ up
        /\ UNCHANGED <<invites, file, up, now, promised>>
    BY DEF Written
  <2>4. /\ IsRequest(x) /\ x.at = "rename" /\ x.content = r.content /\ Entry(x) = Entry(r)
        /\ x.alone = r.alone /\ x.kind = r.kind /\ x.expires = r.expires
    <3>1. DOMAIN r = {"slot", "token", "kind", "at", "content", "expires", "alone"}
      BY <2>1 DEF IsRequest
    <3>2. x = [slot |-> r.slot, token |-> r.token, kind |-> r.kind, at |-> "rename",
               content |-> r.content, expires |-> r.expires, alone |-> r.alone]
      BY <3>1
    <3> HIDE DEF x
    <3> QED BY <2>1, <3>2 DEF IsRequest, Entry
  <2> HIDE DEF x
  <2> QED BY <2>3, <2>4, MoveKeeps
<1>5. CASE \E r \in requests : Rename(r)
  <2> PICK r \in requests : Rename(r)
    BY <1>5
  <2> DEFINE p == [token |-> r.token, expires |-> r.expires, alone |-> r.alone]
  <2>1. /\ IsRequest(r) /\ r.at = "rename" /\ up /\ file' = r.content
        /\ requests' = requests \ {r}
        /\ promised' = IF r.kind = "create" THEN promised \cup {p} ELSE promised
        /\ UNCHANGED <<invites, up, now>>
    BY DEF Rename, Published, FileInv, InviteTypes
  <2>2. p.alone = r.alone /\ p.expires = r.expires /\ Entry(p) = Entry(r)
    BY DEF Entry
  <2> HIDE DEF p
  <2>3. InviteTypes'
    <3>1. Entry(p) \in Invite
      BY <2>1, <2>2 DEF IsRequest, Invite, Entry
    <3> QED BY <2>1, <3>1 DEF FileInv, InviteTypes, IsRequest, Entry
  <2>4. ContentKnown'
    BY <2>1 DEF FileInv, ContentKnown
  <2>5. AloneCarries'
    BY <2>1 DEF FileInv, AloneCarries, Entry
  <2>6. StaysOnFile'
    <3>1. ASSUME NEW i \in promised, i.alone, i.expires > now
          PROVE  /\ Entry(i) \in r.content
                 /\ \A x \in requests \ {r} : x.at # "mkdir" => Entry(i) \in x.content
      BY <2>1, <3>1 DEF FileInv, StaysOnFile
    <3>2. ASSUME r.kind = "create", p.alone, p.expires > now
          PROVE  Entry(p) \in r.content /\ requests \ {r} = {}
      BY <2>1, <2>2, <3>2 DEF FileInv, AloneCarries, IsRequest, InviteTypes
    <3> QED BY <2>1, <3>1, <3>2 DEF StaysOnFile, Entry
  <2> QED BY <2>3, <2>4, <2>5, <2>6 DEF FileInv
<1>6. CASE \E r \in requests : PersistError(r)
  BY <1>6 DEF PersistError, FileInv, InviteTypes, IsRequest, ContentKnown, AloneCarries,
              StaysOnFile, Entry
<1>7. CASE Crash
  <2>1. InviteTypes'
    BY <1>7 DEF Crash, FileInv, InviteTypes, Entry
  <2> QED BY <1>7, <2>1 DEF Crash, FileInv, ContentKnown, AloneCarries, StaysOnFile, Entry
<1>8. CASE Restart
  <2>1. invites' = Prune(file) /\ Prune(file) \subseteq Invite /\ requests' = requests
        /\ requests = {} /\ up' = TRUE /\ UNCHANGED <<file, now, promised>>
    BY <1>8, PruneKeeps DEF Restart, FileInv, InviteTypes
  <2>2. InviteTypes'
    BY <2>1 DEF FileInv, InviteTypes, Entry
  <2>3. ContentKnown'
    BY <2>1, PruneKeeps DEF FileInv, InviteTypes, ContentKnown, Invite
  <2> QED BY <2>1, <2>2, <2>3 DEF FileInv, AloneCarries, StaysOnFile, Entry
<1>9. CASE Tick
  <2>1. now' = now + 1 /\ UNCHANGED <<invites, file, requests, up, promised>>
    BY <1>9 DEF Tick
  <2>2. InviteTypes'
    BY <2>1 DEF FileInv, InviteTypes, IsRequest, Entry
  <2>3. \A i \in Invite : (i.expires <= now => i.expires <= now') /\ (i.expires > now' => i.expires > now)
    BY <2>1 DEF FileInv, InviteTypes, Invite
  <2>4. ContentKnown'
    BY <2>1, <2>3 DEF FileInv, InviteTypes, IsRequest, ContentKnown
  <2>5. AloneCarries'
    <3>1. ASSUME NEW r \in requests, r.expires <= now PROVE r.expires <= now'
      BY <2>1, <3>1 DEF FileInv, InviteTypes, IsRequest
    <3> QED BY <2>1, <3>1 DEF FileInv, AloneCarries, Entry
  <2>6. StaysOnFile'
    <3>1. ASSUME NEW i \in promised, i.expires > now' PROVE i.expires > now
      BY <2>1, <3>1 DEF FileInv, InviteTypes, Entry, Invite
    <3> QED BY <2>1, <3>1 DEF FileInv, StaysOnFile, Entry
  <2> QED BY <2>2, <2>4, <2>5, <2>6 DEF FileInv
<1> QED BY <1>1, <1>2, <1>3, <1>4, <1>5, <1>6, <1>7, <1>8, <1>9 DEF Next

LEMMA FileInvariant == Spec => []FileInv
<1>1. FileInv /\ UNCHANGED vars => FileInv'
  BY DEF vars, FileInv, InviteTypes, IsRequest, ContentKnown, AloneCarries, StaysOnFile, Entry
<1> QED BY InitFile, FileNext, <1>1, PTL DEF Spec

\* Every invite of the file is in the map of the serving process, or its time
\* is over, whatever order the renames come in.
THEOREM FileNeverAhead == Spec => []FileIsKnown
<1>1. FileInv => FileIsKnown
  BY DEF FileInv, ContentKnown, FileIsKnown
<1> QED BY <1>1, FileInvariant, PTL

\* An invite that was answered 201 by a persist() that overlapped no other is on
\* file until it expires.
THEOREM UndisturbedStays == Spec => []UndisturbedStaysOnFile
<1>1. FileInv => UndisturbedStaysOnFile
  <2> SUFFICES ASSUME FileInv, NEW i \in promised, i.alone, i.expires > now
               PROVE  Entry(i) \in file
    BY DEF UndisturbedStaysOnFile, Kept, Entry, FileInv, InviteTypes, Invite
  <2> QED BY DEF FileInv, StaysOnFile
<1> QED BY <1>1, FileInvariant, PTL

---------------------------------------------------------------------------
(* The rate limit. *)

Stamp == Nat \X Token

\* Creation times that count at time s.
InWindow(times, s) == {t \in times : s - Window < t[1] /\ t[1] <= s}

\* A bucket keeps of a client's creations those of the last window at least.
BucketsExact ==
  /\ now \in Nat
  /\ buckets \in [Client -> SUBSET Stamp] /\ created \in [Client -> SUBSET Stamp]
  /\ \A c \in Client :
       /\ IsFiniteSet(created[c])
       /\ buckets[c] \subseteq created[c]
       /\ \A t \in created[c] : t[1] <= now /\ (now - t[1] < Window => t \in buckets[c])

RateInv == BucketsExact /\ RateLimited

\* A create that finds its bucket not full leaves every window within the limit.
LEMMA CreateWithinLimit ==
  ASSUME RateInv, NEW client \in Client, NEW token \in Token, Create(client, token)
  PROVE  RateInv'
<1> DEFINE new == <<now, token>>
<1>1. /\ now' = now /\ new \in Stamp /\ new[1] = now
      /\ created' = [created EXCEPT ![client] = @ \cup {new}]
      /\ buckets' = [buckets EXCEPT ![client] = {t \in @ : now - t[1] < Window} \cup {new}]
      /\ ~BucketFull(buckets[client])
  BY DEF Create, RateInv, BucketsExact, Stamp
<1> HIDE DEF new
<1>2. /\ created'[client] = created[client] \cup {new}
      /\ buckets'[client] = {t \in buckets[client] : now - t[1] < Window} \cup {new}
      /\ \A c \in Client \ {client} : created'[c] = created[c] /\ buckets'[c] = buckets[c]
  BY <1>1 DEF RateInv, BucketsExact
<1>3. BucketsExact'
  <2>1. ASSUME NEW c \in Client PROVE IsFiniteSet(created'[c])
    <3>1. IsFiniteSet(created[c])
      BY DEF RateInv, BucketsExact
    <3>2. IsFiniteSet(created[c] \cup {new})
      BY <3>1, FS_AddElement
    <3>3. created'[c] = created[c] \/ created'[c] = created[c] \cup {new}
      BY <1>2
    <3> QED BY <3>1, <3>2, <3>3
  <2>2. buckets' \in [Client -> SUBSET Stamp] /\ created' \in [Client -> SUBSET Stamp]
    BY <1>1 DEF RateInv, BucketsExact
  <2>3. \A c \in Client :
          /\ buckets'[c] \subseteq created'[c]
          /\ \A t \in created'[c] : t[1] <= now /\ (now - t[1] < Window => t \in buckets'[c])
    BY <1>1, <1>2 DEF RateInv, BucketsExact
  <2> QED BY <1>1, <2>1, <2>2, <2>3 DEF RateInv, BucketsExact
<1>4. ASSUME NEW c \in Client, NEW s \in created'[c]
      PROVE  Cardinality(InWindow(created'[c], s[1])) <= RateLimit
  <2>1. CASE c # client
    BY <1>2, <2>1 DEF RateInv, RateLimited, InWindow
  <2>2. CASE c = client /\ s[1] # now
    <3>1. s \in created[c] /\ s[1] \in Nat /\ s[1] < now
      BY <1>1, <1>2, <2>2 DEF RateInv, BucketsExact, Stamp
    <3>2. InWindow(created'[c], s[1]) = InWindow(created[c], s[1])
      BY <1>1, <1>2, <2>2, <3>1 DEF InWindow, RateInv, BucketsExact
    <3> QED BY <3>1, <3>2 DEF RateInv, RateLimited, InWindow
  <2>3. CASE c = client /\ s[1] = now
    <3> DEFINE recent == {t \in buckets[client] : now - t[1] < Window}
    <3>1. \A t \in created[client] : t[1] \in Nat /\ t[1] <= now
      BY DEF RateInv, BucketsExact, Stamp
    <3>2. InWindow(created'[client], now) = recent \cup {new}
      BY <1>1, <1>2, <3>1, InviteAssumption DEF InWindow, RateInv, BucketsExact
    <3>3. IsFiniteSet(recent)
      BY FS_Subset DEF RateInv, BucketsExact
    <3>4. Cardinality(recent) \in Nat /\ ~(Cardinality(recent) >= RateLimit)
      BY <1>1, <3>3, FS_CardinalityType DEF BucketFull
    <3> HIDE DEF recent
    <3>c. Cardinality(recent \cup {new}) =
            IF new \in recent THEN Cardinality(recent) ELSE Cardinality(recent) + 1
      BY <3>3, FS_AddElement
    <3>5. Cardinality(recent \cup {new}) <= Cardinality(recent) + 1
      BY <3>4, <3>c
    <3>6. Cardinality(recent \cup {new}) \in Nat
      BY <3>3, FS_AddElement, FS_CardinalityType
    <3> QED BY <2>3, <3>2, <3>4, <3>5, <3>6, InviteAssumption
  <2> QED BY <2>1, <2>2, <2>3
<1>5. RateLimited'
  BY <1>4 DEF RateLimited, InWindow
<1> QED BY <1>3, <1>5 DEF RateInv

LEMMA RateNext ==
  ASSUME RateInv, [Next]_vars
  PROVE  RateInv'
<1>1. CASE \E client \in Client, token \in Token : Create(client, token)
  BY <1>1, CreateWithinLimit
<1>2. CASE UNCHANGED <<buckets, created, now>>
  BY <1>2 DEF RateInv, BucketsExact, RateLimited
<1>3. CASE Crash
  <2>1. /\ created' = [c \in Client |-> {}] /\ buckets' = [c \in Client |-> {}]
        /\ now' = now
    BY <1>3 DEF Crash
  <2> QED BY <2>1, FS_EmptySet DEF RateInv, BucketsExact, RateLimited, Stamp
<1>4. CASE Tick
  <2>1. now' = now + 1 /\ created' = created /\ buckets' = buckets
    BY <1>4 DEF Tick
  <2>2. BucketsExact'
    BY <2>1, InviteAssumption DEF RateInv, BucketsExact, Stamp
  <2> QED BY <2>1, <2>2 DEF RateInv, RateLimited
<1>5. CASE \E token \in Token : Resolve(token)
  BY <1>2, <1>5 DEF Resolve
<1>6. CASE \E r \in requests : Serialise(r) \/ Written(r) \/ Rename(r) \/ PersistError(r)
  BY <1>2, <1>6 DEF Serialise, Written, Rename, PersistError
<1>7. CASE Restart
  BY <1>2, <1>7 DEF Restart
<1> QED BY <1>1, <1>2, <1>3, <1>4, <1>5, <1>6, <1>7 DEF Next, vars

\* No window holds more creations of a client than the limit, with any number
\* of requests inside persist().
THEOREM LimitHolds == Spec => []RateLimited
<1>1. Init => RateInv
  <2> SUFFICES ASSUME Init PROVE RateInv
    OBVIOUS
  <2> QED BY FS_EmptySet DEF Init, RateInv, BucketsExact, RateLimited, Stamp
<1>2. RateInv => RateLimited
  BY DEF RateInv
<1> QED BY <1>1, <1>2, RateNext, PTL DEF Spec
===========================================================================
