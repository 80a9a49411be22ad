------------------------------- MODULE Invite ------------------------------
(***************************************************************************)
(* The invite service: POST /invites, GET /invites/:token and the snapshot *)
(* file they rewrite.  A request changes the map and the rate buckets at   *)
(* once; its persist() then awaits mkdir, the write of a temporary file    *)
(* and the rename, and other requests run at each of these awaits.         *)
(***************************************************************************)
EXTENDS Integers, FiniteSets

CONSTANTS
  Token,       \* random tokens, each drawn once
  Client,      \* what rate buckets are keyed by
  TTL,         \* INVITE_TTL_MS
  Window,      \* the hour of the rate limit
  RateLimit,   \* INVITE_CREATE_RATE_LIMIT
  MaxTime,     \* bound: the clock stops here
  MaxRequests, \* bound: requests being answered at the same time
  MaxCrashes   \* bound: number of crashes

ASSUME InviteAssumption ==
  /\ TTL \in Nat \ {0} /\ Window \in Nat \ {0} /\ RateLimit \in Nat
  /\ MaxTime \in Nat /\ MaxRequests \in Nat /\ MaxCrashes \in Nat

VARIABLES
  invites,   \* the map in memory: token -> expiresAtMs
  file,      \* the snapshot file
  requests,  \* requests inside persist()
  buckets,   \* creation times of each client
  drawn,     \* tokens used so far
  up,        \* is the process serving?
  now,       \* Date.now()
  crashes,   \* crashes so far
  promised,  \* observation: invites answered 201 in any process so far
  created    \* observation: creation times of each client in this process

vars == <<invites, file, requests, buckets, drawn, up, now, crashes, promised, created>>

---------------------------------------------------------------------------
Invite == [token : Token, expires : Nat]

\* A request inside persist(), by the step it does next, with the content of
\* its temporary file once that is written.  slot tells apart requests that are
\* the same otherwise; alone is an observation: no other request has been
\* inside persist() at the same time.
Request ==
  [slot : 1..MaxRequests, token : Token, kind : {"create", "resolve"},
   at : {"mkdir", "write", "rename"}, content : SUBSET Invite, expires : Nat, alone : BOOLEAN]

\* A request enters persist().
Enters(token, kind, expires) ==
  requests' = {[r EXCEPT !.alone = FALSE] : r \in requests}
    \cup {[slot |-> CHOOSE n \in 1..MaxRequests : \A r \in requests : r.slot # n,
           token |-> token, kind |-> kind, at |-> "mkdir", content |-> {},
           expires |-> expires, alone |-> requests = {}]}

\* Mutant: an invite is dropped one tick before it expires.
PruneEarly(map) == {i \in map : i.expires > now + 1}

\* prune(): what has expired is deleted.
Prune(map) == {i \in map : i.expires > now}

\* Mutant: the bucket is filtered but the limit is compared too late.
BucketOverfull(times) == Cardinality({t \in times : now - t[1] < Window}) > RateLimit

\* Is the bucket of a client full?
BucketFull(times) == Cardinality({t \in times : now - t[1] < Window}) >= RateLimit

\* POST /invites with a verified manifest and a bucket that is not full.
Create(client, token) ==
  /\ up
  /\ Cardinality(requests) < MaxRequests
  /\ token \notin drawn
  /\ ~BucketFull(buckets[client])
  /\ buckets' = [buckets EXCEPT ![client] = {t \in @ : now - t[1] < Window} \cup {<<now, token>>}]
  /\ created' = [created EXCEPT ![client] = @ \cup {<<now, token>>}]
  /\ drawn' = drawn \cup {token}
  /\ invites' = Prune(invites) \cup {[token |-> token, expires |-> now + TTL]}
  /\ Enters(token, "create", now + TTL)
  /\ UNCHANGED <<file, up, now, crashes, promised>>

\* GET /invites/:token of a token that is there; of one that is not, 404 after
\* the prune.
Resolve(token) ==
  /\ up
  /\ Cardinality(requests) < MaxRequests
  /\ invites' = Prune(invites)
  /\ \/ \E i \in Prune(invites) :
           /\ i.token = token
           /\ Enters(token, "resolve", i.expires)
     \/ /\ \A i \in Prune(invites) : i.token # token
        /\ UNCHANGED requests
  /\ UNCHANGED <<file, buckets, drawn, up, now, crashes, promised, created>>

---------------------------------------------------------------------------
(* persist(), step by step. *)

\* fs.mkdir is done: the map is serialised now and its writing begins.
Serialise(r) ==
  /\ up /\ r \in requests /\ r.at = "mkdir"
  /\ requests' = (requests \ {r}) \cup {[r EXCEPT !.at = "write", !.content = invites]}
  /\ UNCHANGED <<invites, file, buckets, drawn, up, now, crashes, promised, created>>

\* fs.writeFile is done: the temporary file has its content.
Written(r) ==
  /\ up /\ r \in requests /\ r.at = "write"
  /\ requests' = (requests \ {r}) \cup {[r EXCEPT !.at = "rename"]}
  /\ UNCHANGED <<invites, file, buckets, drawn, up, now, crashes, promised, created>>

\* Mutant: the request answers without waiting for its file.
PublishedNot(content) == file

Published(content) == content

\* fs.rename is done and the request is answered.
Rename(r) ==
  /\ up /\ r \in requests /\ r.at = "rename"
  /\ file' = Published(r.content)
  /\ requests' = requests \ {r}
  /\ promised' = IF r.kind = "create"
                 THEN promised \cup {[token |-> r.token, expires |-> r.expires, alone |-> r.alone]}
                 ELSE promised
  /\ UNCHANGED <<invites, buckets, drawn, up, now, crashes, created>>

\* One of the three steps fails: 500, the map keeps what it has.
PersistError(r) ==
  /\ up /\ r \in requests
  /\ requests' = requests \ {r}
  /\ UNCHANGED <<invites, file, buckets, drawn, up, now, crashes, promised, created>>

---------------------------------------------------------------------------
Crash ==
  /\ up
  /\ crashes < MaxCrashes
  /\ crashes' = crashes + 1
  /\ up' = FALSE
  /\ invites' = {}
  /\ requests' = {}
  /\ buckets' = [c \in Client |-> {}]
  /\ created' = [c \in Client |-> {}]
  /\ UNCHANGED <<file, drawn, now, promised>>

\* The new process loads what has not expired.
Restart ==
  /\ ~up
  /\ up' = TRUE
  /\ invites' = Prune(file)
  /\ UNCHANGED <<file, requests, buckets, drawn, now, crashes, promised, created>>

Tick ==
  /\ now < MaxTime
  /\ now' = now + 1
  /\ UNCHANGED <<invites, file, requests, buckets, drawn, up, crashes, promised, created>>

Init ==
  /\ invites = {}
  /\ file = {}
  /\ requests = {}
  /\ buckets = [c \in Client |-> {}]
  /\ drawn = {}
  /\ up = TRUE
  /\ now = 0
  /\ crashes = 0
  /\ promised = {}
  /\ created = [c \in Client |-> {}]

Next ==
  \/ \E client \in Client, token \in Token : Create(client, token)
  \/ \E token \in Token : Resolve(token)
  \/ \E r \in requests : Serialise(r) \/ Written(r) \/ Rename(r) \/ PersistError(r)
  \/ Crash
  \/ Restart
  \/ Tick

Spec == Init /\ [][Next]_vars

---------------------------------------------------------------------------
(* Properties. *)

Kept(i) == i.expires <= now \/ [token |-> i.token, expires |-> i.expires] \in file

\* An invite answered 201 is in the snapshot file until it expires, so that a
\* restart at any point recovers it (README.md: "signed, durable short-token
\* contact invitations").
PromisedIsOnFile == \A i \in promised : Kept(i)

\* The same of an invite whose persist() overlapped no other: requests that
\* overlap later, fail or die cannot take it out of the file again.
UndisturbedStaysOnFile == \A i \in promised : i.alone => Kept(i)

\* No client has created more invites than the limit within any window, with
\* any number of its requests inside persist() at the same time.
RateLimited ==
  \A c \in Client : \A s \in created[c] :
    Cardinality({t \in created[c] : s[1] - Window < t[1] /\ t[1] <= s[1]}) <= RateLimit

\* Whatever order the renames come in, every invite in the file is in the
\* map of the serving process, or has expired: the file never holds an
\* invite the process does not know.
FileIsKnown ==
  up => \A i \in file : i \in invites \/ i.expires <= now
============================================================================
