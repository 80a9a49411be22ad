------------------------------ MODULE PushGate -----------------------------
(***************************************************************************)
(* What stands between a signed request and the push service's handlers:   *)
(* the timestamp and the replay cache of requireSignedRequest, the binding *)
(* of a peer id to its signing key, and the ban of the sender.  The first  *)
(* is one synchronous step, in memory and lost at a restart; the other two *)
(* are statements of the database, and between any two of them other       *)
(* requests, moderators and the clock go on.                               *)
(***************************************************************************)
EXTENDS Integers, FiniteSets

CONSTANTS
  Peer, Key, NoKey,
  DerivedKey,   \* the key each v2 peer id is derived from, NoKey for older ids
  RequestId,    \* values of the field id
  Frame,        \* the requests clients and the network may send
  Call,         \* bound: the arrivals of requests
  Skew,         \* seconds a timestamp may be off
  IdTTL,        \* seconds a request id is remembered
  MaxTime,      \* bound: the clock stops here
  MaxVerdicts,  \* bound: bans and unbans (and, for events, changes of policies)
  MaxRestarts   \* bound: restarts of the service

Route == {"register", "guarded", "appeal", "unregister"}

ASSUME GateAssumption ==
  /\ DerivedKey \in [Peer -> Key \cup {NoKey}] /\ NoKey \notin Key
  /\ Frame \subseteq [id : RequestId, from : Peer, key : Key, at : Nat, genuine : BOOLEAN,
                      bind : {"none", "proof", "bad"}, route : Route]
  /\ Skew \in Nat /\ IdTTL \in Nat
  /\ MaxTime \in Nat /\ MaxVerdicts \in Nat /\ MaxRestarts \in Nat

\* An id outlives every timestamp it can pass with, those ahead of the clock
\* included (120 and 300 seconds unless configured otherwise).
ASSUME WindowAssumption == IdTTL > 2 * Skew

VARIABLES
  now,       \* Date.now(), in half seconds
  used,      \* signedRequestIds: the expiry of each id
  bindings,  \* the table peer_identity_bindings
  banned,    \* the peers moderation_peer_scores has as banned
  call,      \* the requests that have arrived
  life,      \* restarts so far
  verdicts   \* how many so far of what MaxVerdicts bounds

gateVars == <<now, used, bindings, banned, call, life, verdicts>>

---------------------------------------------------------------------------
Second(t) == t \div 2

\* A request.  at is where its handler is; life, bound and barred are
\* observations: the life, the sender's binding and the bans at its arrival,
\* barred without the peers unbanned since.
Arrived == [at : {"bind", "store", "enforce", "touch", "ban", "accepted", "refused",
                  "rejected", "lost"},
            frame : Frame, life : Nat,
            bound : Key \cup {NoKey}, barred : SUBSET Peer]
Unborn == [at |-> "unborn"]

---------------------------------------------------------------------------
(* requireSignedRequest *)

\* Mutant: ids are forgotten half a second before their time.
CleanupEarly == [i \in RequestId |-> IF used[i] <= now + 1 THEN 0 ELSE used[i]]

CleanupSignedRequestIds == [i \in RequestId |-> IF used[i] <= now THEN 0 ELSE used[i]]

Skewed(f) == LET off == Second(now) - Second(f.at) IN off > Skew \/ -off > Skew

Free(f) == CleanupSignedRequestIds[f.id] = 0

\* Where the handler goes first.  The proof of a binding needs no state.
Entry(f) ==
  CASE f.route = "unregister" -> "accepted"
    [] f.route = "register" ->
         (CASE f.bind = "none" -> "ban"
            [] f.bind = "proof" /\ DerivedKey[f.from] = f.key -> "bind"
            [] OTHER -> "refused")
    [] OTHER -> "enforce"

Begins(c, f, at) ==
  call' = [call EXCEPT ![c] =
    [at |-> at, frame |-> f, life |-> life,
     bound |-> bindings[f.from], barred |-> banned]]

\* The timestamp, then the id, then the signature: a request that fails only
\* its signature has used up its id.
Arrive(c, f) ==
  /\ call[c] = Unborn
  /\ \/ /\ Skewed(f)
        /\ Begins(c, f, "rejected")
        /\ UNCHANGED used
     \/ /\ ~Skewed(f) /\ ~Free(f)
        /\ Begins(c, f, "rejected")
        /\ used' = CleanupSignedRequestIds
     \/ /\ ~Skewed(f) /\ Free(f)
        /\ used' = [CleanupSignedRequestIds EXCEPT ![f.id] = now + 2 * IdTTL]
        /\ Begins(c, f, IF f.genuine THEN Entry(f) ELSE "rejected")
  /\ UNCHANGED <<now, bindings, banned, life, verdicts>>

---------------------------------------------------------------------------
(* The statements of the handlers. *)

Goes(c, at) == call' = [call EXCEPT ![c].at = at]

\* Only /moderation/appeals does not ask whether the sender is banned.
BanOrPass(f) == IF f.route = "appeal" THEN "accepted" ELSE "ban"

\* verifyAndBindPeerIdentity: the select.
ReadForBinding(c) ==
  LET f == call[c].frame
  IN  /\ call[c].at = "bind"
      /\ Goes(c, IF bindings[f.from] \in {NoKey, f.key} THEN "store" ELSE "refused")
      /\ UNCHANGED <<now, used, bindings, banned, life, verdicts>>

\* The upsert changes a row only if it has the same key.
StoreBinding(c) ==
  LET f == call[c].frame
  IN  /\ call[c].at = "store"
      /\ IF bindings[f.from] \in {NoKey, f.key}
         THEN bindings' = [bindings EXCEPT ![f.from] = f.key] /\ Goes(c, "ban")
         ELSE UNCHANGED bindings /\ Goes(c, "refused")
      /\ UNCHANGED <<now, used, banned, life, verdicts>>

\* Mutant: an older peer id is let through whatever its binding.
EnforceOld(c) ==
  LET f == call[c].frame
  IN  /\ call[c].at = "enforce"
      /\ Goes(c, IF bindings[f.from] = NoKey \/ f.bind = "none" THEN BanOrPass(f)
                 ELSE IF bindings[f.from] = f.key THEN "touch" ELSE "refused")
      /\ UNCHANGED <<now, used, bindings, banned, life, verdicts>>

\* enforcePeerIdentityBinding: a peer without a binding passes.
Enforce(c) ==
  LET f == call[c].frame
  IN  /\ call[c].at = "enforce"
      /\ Goes(c, IF bindings[f.from] = NoKey THEN BanOrPass(f)
                 ELSE IF bindings[f.from] = f.key THEN "touch" ELSE "refused")
      /\ UNCHANGED <<now, used, bindings, banned, life, verdicts>>

\* The upsert of the same key, for last_seen_at; its result is not looked at.
Touch(c) ==
  LET f == call[c].frame
  IN  /\ call[c].at = "touch"
      /\ bindings' = [bindings EXCEPT ![f.from] = IF @ = NoKey THEN f.key ELSE @]
      /\ Goes(c, BanOrPass(f))
      /\ UNCHANGED <<now, used, banned, life, verdicts>>

CheckBan(c) ==
  /\ call[c].at = "ban"
  /\ Goes(c, IF call[c].frame.from \in banned THEN "refused" ELSE "accepted")
  /\ UNCHANGED <<now, used, bindings, banned, life, verdicts>>

\* A statement throws: 500, and the handler has done nothing.
GateFails(c) ==
  /\ call[c].at \in {"bind", "store", "enforce", "touch", "ban"}
  /\ Goes(c, "refused")
  /\ UNCHANGED <<now, used, bindings, banned, life, verdicts>>

---------------------------------------------------------------------------
(* What goes on around them. *)

\* A moderator's decision commits.
Ban(p) ==
  /\ verdicts < MaxVerdicts
  /\ verdicts' = verdicts + 1
  /\ p \notin banned
  /\ banned' = banned \cup {p}
  /\ UNCHANGED <<now, used, bindings, call, life>>

Unban(p) ==
  /\ verdicts < MaxVerdicts
  /\ verdicts' = verdicts + 1
  /\ p \in banned
  /\ banned' = banned \ {p}
  /\ call' = [c \in Call |-> IF call[c] = Unborn THEN Unborn
                             ELSE [call[c] EXCEPT !.barred = @ \ {p}]]
  /\ UNCHANGED <<now, used, bindings, life>>

Tick ==
  /\ now < MaxTime
  /\ now' = now + 1
  /\ UNCHANGED <<used, bindings, banned, call, life, verdicts>>

\* The process is replaced: the ids it remembered and the requests it was
\* handling are gone, the tables stay.
RestartGate ==
  /\ life < MaxRestarts
  /\ life' = life + 1
  /\ used' = [i \in RequestId |-> 0]
  /\ call' = [c \in Call |->
       IF call[c].at \in {"bind", "store", "enforce", "touch", "ban"}
       THEN [call[c] EXCEPT !.at = "lost"] ELSE call[c]]
  /\ UNCHANGED <<now, bindings, banned, verdicts>>

GateInit ==
  /\ now = 0
  /\ used = [i \in RequestId |-> 0]
  /\ bindings = [p \in Peer |-> NoKey]
  /\ banned = {}
  /\ call = [c \in Call |-> Unborn]
  /\ life = 0
  /\ verdicts = 0

Statement(c) ==
  ReadForBinding(c) \/ StoreBinding(c) \/ Enforce(c) \/ Touch(c) \/ CheckBan(c)

GateNext ==
  \/ \E c \in Call, f \in Frame : Arrive(c, f)
  \/ \E c \in Call : Statement(c) \/ GateFails(c)
  \/ \E p \in Peer : Ban(p) \/ Unban(p)
  \/ Tick
  \/ RestartGate

GateSpec == GateInit /\ [][GateNext]_gateVars

---------------------------------------------------------------------------
(* Properties. *)

\* The signature of the request was accepted.
Admitted(c) == call[c].at \notin {"unborn", "rejected"}

\* One frame is admitted once in the life of a process, whenever the network
\* delivers its copies and however far its timestamp is ahead of the clock:
\* its id is remembered until its timestamp is too old.  A restart forgets it.
AdmittedOnce ==
  \A c, d \in Call :
    Admitted(c) /\ Admitted(d) /\ call[c].life = call[d].life /\ call[c].frame = call[d].frame
      => c = d

\* Once a peer has a binding, a push event, a report or an appeal that arrives
\* under another key is not accepted (PUSH.md:374), whatever registrations of
\* other clients are between their select and their upsert; and the key a peer
\* is bound to never changes.
BoundKeyOnly ==
  \A c \in Call :
    call[c].at = "accepted" /\ call[c].frame.route \in {"guarded", "appeal"} =>
      /\ call[c].bound \in {NoKey, call[c].frame.key}
      /\ call[c].bound # NoKey => bindings[call[c].frame.from] = call[c].bound
============================================================================
