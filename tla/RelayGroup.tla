----------------------------- MODULE RelayGroup ----------------------------
(***************************************************************************)
(* Groups on one relay: POST /relay/group/store fans one envelope out to   *)
(* the queues of its recipients, one save per queue; POST                  *)
(* /relay/group/members/update replaces the membership, either by the      *)
(* owner or by an administrator holding a token of the owner; memberships  *)
(* age into a tombstone and are then forgotten.                            *)
(*                                                                         *)
(* The module extends RelayQueue: mem and disk get a third map, groups,    *)
(* and the handlers of the queues work on them unchanged, so GroupNext has *)
(* all the message routes of a relay and its properties hold between them. *)
(***************************************************************************)
EXTENDS RelayQueue, Sequences

CONSTANTS
  Group,        \* group ids
  List,         \* the member lists owners publish
  Token,        \* the administrator tokens owners have signed
  Sorted,       \* the peers in the order of Array.sort
  GroupTTL,     \* RELAY_GROUP_MEMBERSHIP_TTL_SECONDS
  TombstoneTTL  \* RELAY_GROUP_MEMBERSHIP_EXPIRED_TOMBSTONE_TTL_SECONDS

ASSUME GroupAssumption ==
  /\ GroupTTL \in Nat /\ TombstoneTTL \in Nat
  /\ List \subseteq SUBSET Peer
  /\ Sorted \in Seq(Peer) /\ \A p \in Peer : \E i \in 1..Len(Sorted) : Sorted[i] = p
  /\ Token \subseteq [owner : Peer, admin : Peer, permissions : SUBSET {"add", "remove"},
                      expires : Nat, version : Nat, protected : SUBSET Peer]

---------------------------------------------------------------------------
(* Membership records. *)

Absent == [kind |-> "absent"]
Expired(at) == [kind |-> "expired", at |-> at]

\* listed is an observation: the members as the owner last published them.
Membership(owner, members, delegations, listed, provisional) ==
  [kind |-> "live", owner |-> owner, members |-> members, delegations |-> delegations,
   listed |-> listed, at |-> now, provisional |-> provisional]

\* RelayGroupMembershipStore.set and delete
SetGroups(run, g) == Saved(run, [run.mem EXCEPT !.groups = g], [run.disk EXCEPT !.groups = g])

\* The owner of a record counts once an owner update has been accepted.
Governed(group) == group.kind = "live" /\ ~group.provisional

\* What pruneGroupMemberships makes of one record.
Aged(group) ==
  CASE group.kind = "expired" /\ group.at < now - TombstoneTTL -> Absent
    [] group.kind = "live" /\ group.at < now - GroupTTL -> Expired(now)
    [] OTHER -> group

\* One save per record, in the order of the map.
PruneGroupMemberships(run) ==
  LET groups == run.mem.groups
      due == {g \in Group : Aged(groups[g]) # groups[g]}
      After(done) == [g \in Group |-> IF g \in done THEN Aged(groups[g]) ELSE groups[g]]
      Memory(done) == [run.mem EXCEPT !.groups = After(done)]
      Snapshots(done) == IF done = {} THEN run.disk ELSE [run.disk EXCEPT !.groups = After(done)]
  IN  IF ~run.ok \/ due = {} THEN {run}
      ELSE {[mem |-> Memory(due), disk |-> Snapshots(due), ok |-> TRUE]}
             \cup UNION {Stopped(Memory(done),
                                 {Snapshots(done)} \cup {Snapshots(done \ {last}) : last \in done})
                          : done \in (SUBSET due) \ {{}}}

---------------------------------------------------------------------------
(* POST /relay/group/store *)

\* One recipient of the fan-out.
Deliver(run, to, id) ==
  IF ~run.ok \/ Tombstoned(run, to, id) THEN {run}
  ELSE UNION {Push(pruned, to, id) : pruned \in PruneRecipient(run, to)}

\* Mutant: a recipient that has the message already ends the request.
FanOutStopping(run, recipients, id) ==
  LET runs[k \in 0..Len(Sorted)] ==
        IF k = 0 THEN {run}
        ELSE UNION {IF Sorted[k] \notin recipients \/ \E p \in recipients : Queued(run, p, id)
                    THEN {r} ELSE Deliver(r, Sorted[k], id) : r \in runs[k - 1]}
  IN  runs[Len(Sorted)]

\* Mutant: the tombstones of the recipients are not looked at.
FanOutForgetful(run, recipients, id) ==
  LET runs[k \in 0..Len(Sorted)] ==
        IF k = 0 THEN {run}
        ELSE UNION {IF Sorted[k] \in recipients THEN Push(r, Sorted[k], id) ELSE {r}
                     : r \in runs[k - 1]}
  IN  runs[Len(Sorted)]

\* runs[k] are the runs once the first k peers have had their turn.
FanOut(run, recipients, id) ==
  LET runs[k \in 0..Len(Sorted)] ==
        IF k = 0 THEN {run}
        ELSE UNION {IF Sorted[k] \in recipients THEN Deliver(r, Sorted[k], id) ELSE {r}
                     : r \in runs[k - 1]}
  IN  runs[Len(Sorted)]

\* An unknown group gets a provisional membership of the request's peers.
Bootstrap(run, g, from, recipients) ==
  IF run.mem.groups[g].kind # "absent" THEN {run}
  ELSE LET members == {from} \cup recipients
       IN  SetGroups(run, [run.mem.groups EXCEPT
                             ![g] = Membership(from, members, {}, members, TRUE)])

Admits(run, g, from, recipients) ==
  LET group == run.mem.groups[g]
  IN  group.kind = "live" /\ from \in group.members /\ recipients \subseteq group.members

GroupStoreRuns(g, from, recipients, id) ==
  LET pruned == UNION {PruneGroupMemberships(run) : run \in PruneAckTombstones(Begin(mem, disk))}
      members == UNION {Bootstrap(run, g, from, recipients) : run \in pruned}
  IN  UNION {IF run.ok /\ Admits(run, g, from, recipients) THEN FanOut(run, recipients, id)
             ELSE {run}
              : run \in members}

\* A validly signed group envelope: 200, or 409 for an expired membership,
\* 403 for a sender or a recipient that is no member.
GroupStore(g, from, recipients, id) ==
  LET Keys == {EnvelopeKey[<<to, id>>] : to \in recipients}
      told == {to \in recipients : EnvelopeKey[<<to, id>>] \notin unsettled}
  IN  /\ up
      /\ arrivals < MaxArrivals
      /\ recipients # {} /\ from \notin recipients
      /\ arrivals' = arrivals + 1
      /\ \E run \in GroupStoreRuns(g, from, recipients, id) :
            /\ Serves(run, Keys)
            /\ owed' = IF run.ok /\ Admits(run, g, from, recipients)
                       THEN owed \cup UNION {{[to |-> to, item |-> x] : x \in Owing(run, to, id)}
                                              : to \in told}
                       ELSE owed
      /\ UNCHANGED <<now, confirmed, refused>>

---------------------------------------------------------------------------
(* POST /relay/group/members/update *)

\* Mutant: the owner of an accepted membership is not compared.
OwnerAcceptsAny(group, owner) == TRUE

OwnerAccepts(group, owner) == Governed(group) => group.owner = owner

\* An owner update that publishes delegationVersion replaces the tokens, one
\* without keeps those of the record.  The handler does not prune first.
OwnerUpdate(g, owner, members, versioned, tokens) ==
  LET group == mem.groups[g]
      kept == IF Governed(group) THEN group.delegations ELSE {}
  IN  /\ up
      /\ owner \in members
      /\ OwnerAccepts(group, owner)
      /\ \A t \in tokens : t.owner = owner /\ now <= t.expires
      /\ \A t, u \in tokens : t.version = u.version /\ (t.admin = u.admin => t = u)
      /\ ~versioned => tokens = {}
      /\ \E run \in SetGroups(Begin(mem, disk), [mem.groups EXCEPT
              ![g] = Membership(owner, members, IF versioned THEN tokens ELSE kept,
                                members, FALSE)]) :
            Serves(run, {})
      /\ UNCHANGED <<now, arrivals, owed, confirmed, refused>>

\* Mutant: protected peers are not spared.
MayChangeAnyone(token, group, action, changed) ==
  /\ now <= token.expires
  /\ action \in token.permissions
  /\ Governed(group) /\ token \in group.delegations
  /\ group.owner \in token.protected

\* What the token of an administrator allows.
MayChange(token, group, action, changed) ==
  /\ now <= token.expires
  /\ action \in token.permissions
  /\ Governed(group) /\ token \in group.delegations
  /\ group.owner \in token.protected /\ changed \cap token.protected = {}

\* An administrator's request carries the members it expects as the result;
\* it is refused when they are not, so one made for an older list fails.
AdminUpdate(g, token, action, changed, members) ==
  LET group == mem.groups[g]
      expected == IF action = "add" THEN group.members \cup changed ELSE group.members \ changed
  IN  /\ up
      /\ changed # {}
      /\ MayChange(token, group, action, changed)
      /\ group.owner \in expected /\ members = expected
      /\ \E run \in SetGroups(Begin(mem, disk), [mem.groups EXCEPT
              ![g] = Membership(group.owner, members, group.delegations, group.listed, FALSE)]) :
            Serves(run, {})
      /\ UNCHANGED <<now, arrivals, owed, confirmed, refused>>

---------------------------------------------------------------------------
(* The retention timer and startup, with the memberships last. *)

PruneState(run) == UNION {PruneGroupMemberships(r) : r \in PrunePersistentState(run)}

GroupPruneTimer ==
  /\ up
  /\ \E run \in PruneState(Begin(mem, disk)) :
        \/ /\ run.ok
           /\ mem' = run.mem
           /\ disk' = run.disk
           /\ UNCHANGED <<up, crashes, unsettled>>
        \/ /\ ~run.ok
           /\ Dies(run.disk)
  /\ UNCHANGED <<now, arrivals, owed, confirmed, refused>>

GroupRestart ==
  /\ ~up
  /\ \E run \in PruneState(Begin(disk, disk)) :
        \/ /\ run.ok
           /\ up' = TRUE
           /\ mem' = run.mem
           /\ disk' = run.disk
           /\ UNCHANGED <<crashes, unsettled>>
        \/ /\ ~run.ok
           /\ Dies(run.disk)
  /\ UNCHANGED <<now, arrivals, owed, confirmed, refused>>

GroupInit ==
  /\ mem = [store |-> EmptyMaps.store, acked |-> EmptyMaps.acked,
            groups |-> [g \in Group |-> Absent]]
  /\ disk = mem
  /\ up = TRUE
  /\ now = 0
  /\ arrivals = 0
  /\ crashes = 0
  /\ owed = {}
  /\ confirmed = [k \in Key |-> None]
  /\ refused = [k \in Key |-> None]
  /\ unsettled = {}

GroupNext ==
  \/ \E g \in Group, from \in Peer, recipients \in SUBSET Peer, id \in Id :
        GroupStore(g, from, recipients, id)
  \/ \E g \in Group, owner \in Peer, members \in List, versioned \in BOOLEAN,
        tokens \in SUBSET Token : OwnerUpdate(g, owner, members, versioned, tokens)
  \/ \E g \in Group, token \in Token, action \in {"add", "remove"},
        changed \in SUBSET Peer, members \in SUBSET Peer :
          AdminUpdate(g, token, action, changed, members)
  \/ \E to \in Peer, id \in Id : Store(to, id) \/ Ack(to, id)
  \/ GroupPruneTimer
  \/ GroupRestart
  \/ \E to \in Peer : Fetch(to)
  \/ Crash
  \/ Tick

\* A group message is promised to each of its recipients: KeepsPromise and
\* the other properties of the queues are meant of this specification too.
GroupSpec == GroupInit /\ [][GroupNext]_vars

---------------------------------------------------------------------------
(* Properties. *)

\* The members differ from the list the owner last published only by what the
\* tokens published with it allow: everyone who has left could be removed by
\* one of them and everyone who has joined could be added by one.
WithinDelegation ==
  \A g \in Group : \A maps \in {mem, disk} :
    LET group == maps.groups[g]
        Allowed(p, action) ==
          \E t \in group.delegations : action \in t.permissions /\ p \notin t.protected
    IN  Governed(group) =>
          /\ group.owner \in group.members
          /\ \A p \in group.listed \ group.members : Allowed(p, "remove")
          /\ \A p \in group.members \ group.listed : Allowed(p, "add")

\* While a membership an owner update has established is alive, its owner
\* stays, in memory and on disk, across administrator updates, group stores,
\* failed saves, crashes and restarts.  Memory and disk may differ for a while
\* after a failed save: then both must know the owner, for the next crash
\* makes the older record the current one.
OwnerStays ==
  [][\A g \in Group :
       LET before == {mem.groups[g], disk.groups[g]}
           after == {mem'.groups[g], disk'.groups[g]}
       IN  \A owner \in Peer :
             (\A group \in before : Governed(group) /\ group.owner = owner) =>
               \A group \in after :
                 group.kind = "live" => Governed(group) /\ group.owner = owner]_vars
============================================================================
