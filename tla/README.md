# PeerLink servers: TLA+ models, model checking and proofs

This directory holds TLA+ models of the servers in `src/`, the TLC runs that
check them on small instances, and TLAPS proofs of what matters most for every
value of the constants. `PROJECT.json` lists components, runs, mutants, the
source lines each definition stands for, findings, hazards and theorems; this
file says how they fit together.

Contents: 1 the system, 2 the modules and the code, 3 the runs, 4 bounds and
fairness, 5 proofs, 6 findings and known divergences, 7 what is not modelled,
8 what is left.

## 1. The system

Four Node.js processes, each single-threaded. Within a process everything
between two `await`s is atomic; what interleaves are requests at their awaits,
WebSocket events, timers, and the death of the process. Behind the push service
a PostgreSQL database runs the statements of its pooled connections in any order.

| component | source | state | operations | hard part |
|---|---|---|---|---|
| relay queues | `relay-data-routes.js` | map recipient → array of envelopes, map of ack tombstones, one snapshot file each | store, fetch, ack, prune timer, start | several saves in one handler, crash between them, failed save with memory already changed, retries, cursors into an array that shrinks |
| relay groups | same | map group → membership or tombstone | group store (fan-out over queues), owner update, administrator update, ageing | fan-out dies half way and is repeated; tokens that are replaced, expire, protect peers |
| relay blobs | same, `relay-storage.js` | blobs, unfinished uploads, one file per chunk | upload, chunk, complete, download, prune | an upload is on disk in several pieces |
| signaling | `signal.js` | peer → connection, connection → peer, last-seen times, nonces | register, peers_request, connection and close events | takeover, late close events, frames after `close()`, replayed frames |
| invites | `invite.js` | map token → invite, rate buckets, snapshot file | create, resolve, restore | three awaits inside `persist()` |
| push device registry | `devices/registry.js`, `devices/routes.js`, `observability.js` | devices and token owners in memory, table `push_devices` | register (message, then VoIP token), unregister, invalidation, load | memory at once, database later; statements of several calls in any order |
| push access policy | `observability.js`, `push.js` | four tables, a copy in memory | policy sync, decision for a push | version check before the transaction, four selects outside one |
| signed requests | `security/signed-requests.js` | ids of recent requests | check of timestamp, id, signature | copies around the end of two windows, restart forgets |
| identity bindings, bans | `security/identity-bindings.js`, `observability.js` | table peer → key, banned peers | first binding, enforcement, ban check | select, then conditional upsert |
| push fan-out, dedup | `push.js`, `delivery/dedup-cache.js` | dedup keys, what a request has collected | event | filters and targets read before the sends, key taken before the sends, devices that change meanwhile |
| moderation | `observability.js`, `observability/moderation-helpers.js`, `moderation/` | reports, appeals, scores and policies of peers | report, decision, direct policy, appeal, resolution, status | overlapping transactions, row and advisory locks, a pool of connections |

The relay's clients send signed envelopes; the recipient polls with a cursor and
acknowledges. The group fan-out writes into the same queues, and the same
tombstones block it. A request to the push service passes its signature check,
the binding of its sender and the ban list (the *gate*); an event then checks the
recipients, claims its dedup key, takes the recipients' devices from the registry,
sends, and gives back tokens the providers refuse, while registrations pass the
same gate and change the registry. Moderation decides who is banned. The relay,
the signaling server, the invite service and the push service do not call each
other.

What makes each component correct:

* queues: an answered store is a promise the disk keeps until ack or expiry; an
  answered ack is final while its tombstone lasts; one envelope per id; a cursor
  skips nothing; what expires leaves the disk; who keeps polling gets everything.
* groups: a group message is a promise to each of its recipients, whether the
  fan-out dies half way, is repeated, or meets a direct store; members change
  only as the owner's tokens allow; a live owner is never replaced.
* blobs: an answered chunk, and then the blob, is on disk.
* signaling: a live session is the one signals go to; nobody is told that a
  connected peer is offline; a register frame counts once.
* invites: an answered invite is in the file; the limit holds.
* registry: a token belongs to one device; memory and table agree; what is
  unregistered stays so; a restart loses no token.
* policy: a delivered push is one the recipient's policy allowed; versions do not
  go back.
* gate: a frame is admitted once; who has a binding acts under its key only.
* fan-out: an event is fanned out once per dedup time, reaches every device it
  should and nobody who is banned or refuses the sender; a refused token costs
  nobody else theirs.
* moderation: counts are exact, a row is decided once and together with the
  policy that goes with it, and no request waits forever.

## 2. The modules and the code

**Mailbox** is the abstract specification of what a relay promises about messages:
a box per recipient, the messages that were promised, and until when a withdrawn
one stays away. It knows neither maps nor saves nor processes. One post goes to
one or several recipients; whoever is told ok has the message in the box of each,
unless that recipient has turned it away (`refused`). A request that fails leaves
its messages `loose`: they may come or go with a later request, and nothing is
promised of them until the process ends. RelayQueue and RelayGroup implement it
(`KeepsPromise`): the box is the queue *on disk*, a promise is an answered store
(`owed`), a withdrawal an answered ack (`confirmed`), and loose are the messages
the process has answered 500 for (`unsettled`).

**RelayStorage** is the storage discipline of `PersistentRelayMap`: a write
changes the map in memory and then saves the whole snapshot (temporary file,
fsync, rename). A handler is followed as a *run*: memory, disk, and whether every
save has succeeded. `Saved` turns a run into the set of runs one write can lead
to: it goes on with both changed, or it stops with memory changed and the old or
the new snapshot on disk. A stopped run is either a 500 of a process that goes
on (`SaveErrors`) or the death of the process, which loses the memory. In this
way an action is a whole handler and still ends at each of its saves.

**RelayQueue** models `/relay/store`, `/relay/fetch`, `/relay/ack`, the 60-second
timer, crash and restart. An array that is only appended to and filtered is the
set of its entries, ordered by the number `n` of the request that stored them.
`mem` and `disk` are the maps and the snapshots. Observations: `owed` and
`confirmed` say what was answered ok, `refused` when each message was last
acknowledged, however that was answered, and `unsettled` which messages this
process has answered 500 for. An error in the timer or at startup is
uncaught and is modelled as the end of the process.

**RelayDelivery** extends it with the clients: `Page` is the slice of
`/relay/fetch` with its negative ends, `Poll` a poll whose answer arrives,
`Fetch` one whose answer is lost, `Forget` a client that has lost its cursor.
`AckReceived` restricts acks to what the client has received.

**RelayGroup** extends RelayQueue with a third map. `FanOut` gives the
peers their turn in the order of the sort (`runs[k]`, a recursive function); the
handlers of the queues (`Fetch`, `Ack`, `Crash`) work
on the extended records unchanged, direct stores included: `GroupNext` has all
message routes of one relay, and the properties of RelayQueue are checked and
proved of it too. `List` are the member lists owners publish. A token stands for
a signed delegation the owner has published; `MayChange` is what the code demands
of it.

**RelayBlob** models blobs, unfinished uploads and chunk files. The snapshot of
the uploads lists indexes only (`Encoded`, `Decoded`), so memory after a start is
put together from the snapshot and the files (`Loaded`). A prune deletes one
blob or upload after the other, in any order, and may stop after any set of them.
The map has the chunk of a known upload before its file is written, as in the
code. `failed` is an observation: a write has failed since the process started.

**Signal** models register with takeover, skew and nonces, `peers_request` with
its silent clean-up, hang-up and the later close event. `ws` is `readyState` with
who closed: `replaced` is a session the server has closed and whose frames are
still handled.

**Invite** models both routes with every await of `persist()` a step: `Serialise`
(after mkdir), `Written`, `Rename`. `promised` is what was answered 201.

**DeviceMaps** is the registry in memory, for both kinds of token: the devices of
each user and the owner of each token, with `RegisterIn` and `UnregisterIn`, and
what a fan-out reads of them. Two modules share it.

**DeviceRegistry** extends DeviceMaps with the table and its two unique indexes. A
call changes memory at once and then awaits its statements: the transaction of
`upsertPushDevice` is `Begin`, the update that takes the token from other rows
(`Search` finds them, `Clear` changes those it still matches once nobody else holds
them), `Insert`, which waits for rows and index entries of other transactions
(`Delayed`) or is refused by an index (`Refused`), the ranking (`Rank`), and its
update with the commit (`Commit`); `disablePushDeviceToken` is `StoreDisabled`. Each
statement sees what is committed and what its own transaction wrote (`View`), and
`now` is the start of the transaction. `Restart` loads the enabled rows in any
order, each with the eviction of `registerDeviceGeneric` (`Loaded`). Device ids are
the clients': two users may have the same. Observations: `calm` (since a start that
loaded every enabled row no two calls have overlapped and none has failed), `mixed`
(devices with overlapping or failed calls), `ranked` and `crowded` (upserts of one
user that ranked without each other), `orphaned` (tokens that lost their owner with
another device), `left` and `ringing` (unregistered devices, and those of them that
still had a VoIP entry).

**AccessPolicy** models one recipient and one sender: version check, transaction
and copy in memory of a sync; the four selects of a push, its two passes for a
standard target and the single one for a VoIP target. `dbReady` is decided at
each start, as in `init()`. `seen` collects the policies stored while a pass
reads.

**PushGate** is what stands before the handlers of the push service.
`requireSignedRequest` is one synchronous step (`Arrive`): timestamp, id,
signature, in this order. The bindings and the ban are statements, each an action
(`ReadForBinding`, `StoreBinding`, `Enforce`, `Touch`, `CheckBan`). The clock runs
in half seconds, because the timestamp is compared in whole seconds and the
expiry of an id in milliseconds.

**PushEvents** composes PushGate with DeviceMaps: an accepted request becomes a
*job*. For an event the job goes through the filters of its recipients, the claim
of its key with everything up to the first await of the fan-out (`Claim`), the
second look at the policy for each message target, the send, and the answer of
the provider; for a registration through the two maps. Other requests,
registrations, bans, policy changes and restarts go on between any two awaits. A
policy decision is one read here (AccessPolicy has its parts), the table is what a
restart loads (DeviceRegistry has its statements). `late`, `refusing`, `tried`,
`dropped` are observations.

**Moderation** follows each handler statement by statement: connection of the
pool, insert or `select for update`, update of the row, advisory lock of the peer,
aggregate, policy, commit; any statement may throw. A statement sees what is
committed and what its own transaction wrote (`View`).

`RelayProofs` (queues, their clients and groups), `RelayBlobProofs`,
`SignalProofs`, `DeviceRegistryProofs`, `AccessPolicyProofs`, `InviteProofs`,
`PushEventsProofs` (with the gate) and `ModerationProofs` hold the proofs. The `MC*` modules
give the constants their values. Operators with a
comment "Mutant:" are wrong on purpose: each takes the place of the definition
after it in a run that must then fail.

## 3. The runs

| run | shows |
|---|---|
| `relay_queue` | `OwedIsDurable`, `AckedStaysGone`, `UniqueIds`, `TypeOK` with a failing save or a crash at each save of each handler; `KeepsPromise`: every step is one of Mailbox |
| `relay_delivery` | `NoSkip`: following cursors skips nothing; under fairness `EventuallyReceived`: polling clients get every message or its time passes, and `ExpiredIsPruned`: what has expired leaves memory and disk even if nobody polls |
| `relay_group` | `KeepsPromise`: a fan-out is one post to all its recipients, when a save of it fails, it dies between recipients, is repeated, or direct stores and acks come in between; `AckedStaysGone`, `UniqueIds` |
| `relay_membership` | `WithinDelegation`, `OwnerStays` for all orders of owner and administrator updates, with failing saves, crashes and expiry |
| `relay_blob` | `ReceivedIsOnDisk` (also with failing writes), `BlobStays`, `NeverNeither` |
| `signal` | `Routable`, `NoFalseOffline`, `OnlineXorLastSeen`, `AcceptedOnce`, `TypeOK` |
| `invite` | `RateLimited`, `FileIsKnown`, `UndisturbedStaysOnFile` with two requests at their awaits, failing writes and a crash |
| `invite_lost_update` | *violation*: an invite answered 201 is not in the file |
| `device_registry` | `TokensStayUnique`, `LoadLosesNothing`, `UnregisteredStaysDisabled`, `CacheAgrees` with calls whose statements overlap, failing transactions, evictions, a device id of two users, a restart |
| `access_policy` | `ThroughoutIsRespected`, `VersionsAdvance`, with and without a database |
| `push_events` | `AdmittedOnce`, `BoundKeyOnly`, `ClaimedOnce`, `NothingForBarred`, `LeftOutOnlyIfLate`, `RefusalHitsItsToken`: a call and its retry from the signature check to the last target, among registrations, bans, policies, refusals, failures and a restart |
| `moderation` | `ScoresExact`, `DecidedOnce`, `TakesEffect`, and `EveryCallEnds` under fairness: three overlapping transactions, a pool of two, failures at every statement and a crash |

Properties with a condition in them say exactly where the code keeps the promise
and where it does not: `UndisturbedStaysOnFile` (a persist that overlapped no
other), `UnregisteredStaysDisabled` (a device none of whose calls had overlapped or
failed, and for calls only what rang before), `CacheAgrees` (`calm`, and a device
that memory knows), `TokensStayUnique` (tokens that are not `orphaned`),
`LoadLosesNothing` (users that are not `crowded`), `VersionsAdvance` (syncs that
overlapped no other),
`ThroughoutIsRespected` (what held in every policy stored during the reading),
`OwedIsDurable`, `AckedStaysGone` and `KeepsPromise` (a message is owed, or its ack
confirmed, only if the process had not answered 500 for it before: `unsettled`),
`BlobStays` and `NeverNeither` (`~failed`), `NoSkip` (`clean`: the cursor's
message was not stored again after its expiry), `AdmittedOnce` and `ClaimedOnce`
(one life of the process), `LeftOutOnlyIfLate` (no VoIP token registered during
the fan-out). Section 6 describes the other side of each.

## 4. Bounds and fairness

Every bound is a constant used in a guard: `MaxTime` stops the clock,
`MaxArrivals` the store requests, `MaxCrashes`, `MaxRestarts`, `MaxCalls`,
`MaxSyncs`, `MaxVerdicts`, the set `Call` the requests of the push service, and
`MaxRequests` the requests at an await at the same time.

* One recipient in `relay_queue` and `relay_delivery`: queues share nothing but
  the tombstone map, whose keys the assumption `KeyAssumption` makes distinct.
  Two ids and three stores give a retry, another message and a store after
  expiry; two time units pass retention and tombstone; the second crash may
  come while the restart after the first one prunes, and any save may fail in a
  process that goes on. `relay_delivery` has three ids, the shortest queue in which
  a page of one can skip a message, and retention 0, so that one tick is an expiry; the limits `{-1, 0, 1, 3}` are a
  negative one, a missing one, one page entry, and one above the maximum. It has
  `SaveErrors = FALSE`: failing saves would multiply the states its liveness is
  checked on, and that `NoSkip` holds with them is proved. For `ExpiredIsPruned` this
  is a condition: after a fetch whose save has failed, the expired entry is on disk
  only, where the timer does not see it, until the next write or start.
* `relay_group`: a sender and two recipients, two requests for one id (the
  attempt that fails or dies and its retry, or a fan-out and a direct store), one
  crash, a retention of 0 and one tick, so that a message expires while its
  tombstone is there; no owner updates (`List = {}`), so memberships are those the
  requests bring up. `RunBound` is a constraint: nobody sends to the first peer, the
  saves of the membership succeed, and those of the queues fail before the crash
  only; without it the run does not end in time, and the proofs do not have it.
* `relay_membership` has no messages (`Id = {}`), two tokens of different
  versions, failing saves, and five time units: two lives of a membership and its
  tombstone.
* `relay_blob`: one upload of two chunks with two possible contents, two crashes
  and failing writes. Two chunks are enough for a failed chunk to be listed by the
  snapshot of another.
* `signal`: two peers, three connections (a session, the one that replaces it and
  one of the other peer), two frames each, one with a timestamp ahead of the
  clock; `NonceTTL = MaxSkew = 1`, the tightest values the assumption allows, so
  that a nonce is dropped as soon as its frame cannot pass.
* `invite`: three tokens, limit two, two requests at their awaits.
* `device_registry`: one user with three devices and a limit of two, a second user
  on one of these devices, three tokens (one of them for messages and calls), three
  calls of which two at a time, one restart, and the rows of a user in every order.
  Two overlapping upserts rank without each other and leave three rows enabled, and
  the restart then evicts one; the third call is the one that takes a token over
  after two others have moved it, or evicts. An orphaned token needs four calls and
  is not reached in the run: that `TokensStayUnique` holds of every other token then
  is the theorem's.
* `access_policy`: seven snapshots of five kinds in four versions, four syncs of
  which two at a time.
* `push_events`: two requests, each any of a call, its retry under a new id, three
  of the recipient's device changes, a request under a foreign key and an appeal;
  `Skew = 0`, `IdTTL = 1`, `DedupTTL = 1` and two half seconds, so that an id and
  a key expire within the run and a copy meets the edge of both windows; two
  verdicts (a ban and its end, a block and its end, or one of each); one restart.
  Two requests are enough for every property: each is about one fan-out and one
  other request, or about a pair.
* `moderation`: one report, one appeal, two peers, any three of eight requests, a
  pool of two, one crash: a third transaction waits for a connection that the
  other two hold while they wait for a row or a peer. The status request, which
  refreshes a score, does what a report whose id is there does after its insert,
  and is left out of the instance only.

Symmetry is used where no temporal property of the run tells apart what it
permutes: peers and connections in `signal`, tokens in `invite` and
`invite_lost_update`, the requests in `push_events` (whose action property
quantifies over them); no constant of those runs breaks it.

Deadlock is checked except in `signal`, `invite`, `invite_lost_update`,
`device_registry`, `push_events` and `moderation`, where tokens, connections or
calls are used up in the end. That requests of moderation do not wait for each
other forever is `EveryCallEnds`.

Fairness. `FairDeliverySpec` has weak fairness of `PruneTimer` (`setInterval` keeps
firing while the process lives, `relay.js:70`) and of `Restart` (the compose file
restarts the container), and none of the clients. `EventuallyReceived` assumes more
of them, `ClientsKeepPolling`: strong fairness of the polls that get an answer and
of the acks, as clients poll again and again and some answers arrive. `Spec` of
Moderation has weak fairness of each request's `Statement`: the database answers a
statement that waits for no lock, and the pool hands out its connections. Weak is
enough because a row that is free, once the waiting starts, is not taken again
for ever by a bounded number of requests. Nothing is assumed of the clock, of
senders, of crashes, whose number is bounded, or of push providers, which may
never answer (`delivery/providers.js:249` has no timeout): PushEvents states no
liveness.

## 5. Proofs

| theorem | says | needs |
|---|---|---|
| `RelayProofs!TypeCorrect` | `Spec => []TypeOK` | constants' assumptions |
| `RelayProofs!IdsStayUnique` | `Spec => []UniqueIds` | same, also with failing saves, as all of the relay |
| `RelayProofs!StoredStays` | `Spec => []OwedIsDurable` | same |
| `RelayProofs!AcknowledgedStaysGone` | `Spec => []AckedStaysGone` | same |
| `RelayProofs!QueuesImplementMailbox` | `Spec => KeepsPromise` | same |
| `RelayProofs!FollowersSkipNothing` | `DeliverySpec => []NoSkip` | same, any page limits |
| `RelayProofs!DeliveryImplementsMailbox` | `DeliverySpec => KeepsPromise` | same |
| `RelayProofs!GroupIdsUnique` | `GroupSpec => []UniqueIds` | same |
| `RelayProofs!GroupAcksStay` | `GroupSpec => []AckedStaysGone` | same |
| `RelayProofs!GroupStoredStays` | `GroupSpec => []OwedIsDurable` | same |
| `RelayProofs!GroupsImplementMailbox` | `GroupSpec => KeepsPromise` | same |
| `RelayProofs!ChangesAreDelegated` | `GroupSpec => []WithinDelegation` | same |
| `RelayProofs!GovernorsStay` | `GroupSpec => OwnerStays` | same |
| `RelayBlobProofs!ChunksStay` | `Spec => []ReceivedIsOnDisk` | constants' assumptions, also with failing writes |
| `RelayBlobProofs!BlobsStay` | `Spec => []BlobStays` | same |
| `RelayBlobProofs!DataIsNotLost` | `Spec => NeverNeither` | same |
| `SignalProofs!SignalTypes` | `Spec => []TypeOK` | constants' assumptions |
| `SignalProofs!SessionsAreRoutable` | `Spec => []Routable` | same |
| `SignalProofs!NobodyFalselyOffline` | `Spec => []NoFalseOffline` | same |
| `SignalProofs!PresenceIsExclusive` | `Spec => []OnlineXorLastSeen` | same |
| `SignalProofs!RegisterAcceptedOnce` | `Spec => []AcceptedOnce` | `NonceTTL >= MaxSkew` |
| `InviteProofs!FileNeverAhead` | `Spec => []FileIsKnown` | constants' assumptions |
| `InviteProofs!UndisturbedStays` | `Spec => []UndisturbedStaysOnFile` | same |
| `InviteProofs!LimitHolds` | `Spec => []RateLimited` | same |
| `DeviceRegistryProofs!TokensHaveOneDevice` | `Spec => []TokensStayUnique` | constants' assumptions, any limit |
| `DeviceRegistryProofs!LeftStaysDisabled` | `Spec => []UnregisteredStaysDisabled` | same |
| `DeviceRegistryProofs!LoadKeepsTokens` | `Spec => LoadLosesNothing` | same |
| `DeviceRegistryProofs!CacheIsTable` | `Spec => []CacheAgrees` | same |
| `AccessPolicyProofs!BlocksAreRespected` | `Spec => []ThroughoutIsRespected` | same |
| `AccessPolicyProofs!VersionsGoOn` | `Spec => VersionsAdvance` | same |
| `PushEventsProofs!EventFramesOnce` | `EventSpec => []AdmittedOnce` | `IdTTL > 2 * Skew` |
| `PushEventsProofs!EventKeysBound` | `EventSpec => []BoundKeyOnly` | constants' assumptions |
| `PushEventsProofs!EventsAreClaimedOnce` | `EventSpec => []ClaimedOnce` | same |
| `PushEventsProofs!BarredGetNothing` | `EventSpec => []NothingForBarred` | same |
| `PushEventsProofs!OnlyTheLateAreLeftOut` | `EventSpec => []LeftOutOnlyIfLate` | same |
| `PushEventsProofs!RefusalsHitTheirToken` | `EventSpec => RefusalHitsItsToken` | same |
| `ModerationProofs!CountsAreExact` | `Spec => []ScoresExact` | same |
| `ModerationProofs!DecisionsAreSingle` | `Spec => []DecidedOnce` | same |
| `ModerationProofs!DecisionsTakeEffect` | `Spec => TakesEffect` | same |

They hold for any number of peers, ids, connections, devices, tokens and requests,
any retention times, any number of crashes and, in the relay, any number of failed
saves.

*Queues.* One relation follows a run: `From` says what a run that began with the
maps and snapshots of the relay may have made of them so far. The queues in
memory are those it found without what is past its time, and with this request's
entry for recipients whose tombstone is not in the way (`Grown`); the tombstones
are those it found without some that have expired (`Lapsed`); each snapshot is the
one it found or one saved since, and then it lacks nothing that memory has but
this entry (`Covers`). Every operator on runs (`PruneRecipient`, `Push`, the two
prunes) is shown to keep it once, as a lemma the handlers cite. The invariant
`Books` has types and unique ids (`Accounts`), tombstones that outlast the acks
answered ok (`Remembers`, in memory and on disk, and `Recent`), what is owed in
both places (`Holds`), nothing acknowledged in either (`Clear`, `AllClear`), and
`Agree`: memory and disk differ only in messages whose requests have failed, and in
what only the disk keeps past its time. None of the properties is inductive
alone, because a store is refused, or repeated without a save, on what memory
says, while the promise is about the disk; with saves that may fail, the two are
equal no more, and `Agree` is what is left. Each handler then gets one lemma with
two conclusions, the invariant after the step and the step of Mailbox it is: a
`Post`, a `Withdraw`, an `Expire`, a `Pass` or a stutter (`PostStep`, `AckStep`,
`PruneStep`).

`DeliveryInv` adds the clients: the entries of a queue, in memory and on disk
together, are `Numbered`, different and below the number of the next request, so
whatever is added comes after every cursor (`NothingInFront`), and a page, which is
cut by indices, leaves out no number between its cursor and its latest entry
(`IndexGrows`, `PageFollows`). A failed save can put the disk ahead of the memory a
client has read, and a crash makes the disk the memory: `Passed` is `NoSkip` for
both, and `Had` says that what is fresh on disk only was received before. That
holds because only an ack takes fresh entries out of memory (`Advances`), and a
client acknowledges what it has received.

*Groups.* The relation `From` is the one of the queues with a set of recipients, so
that a fan-out is one step of Mailbox: what a prune of memberships or a bootstrap
does is `Beside` it. The loop is followed one peer at a time (`FanOutSteps`): that
every set of runs `runs[k]` keeps `From` (`FanOutFrom`), and that whoever has had
his turn has the message or its tombstone (`Settled`), is shown by looking at the
least `k` for which it fails, because the induction theorem itself cannot be
instantiated. For the records, `Altered` says that a run spares the governed ones, which stay or
expire (`Spared`), in memory and where it has saved. `GroupInv` is `Books` with
`Ruled` of memory and disk: `Lawful`, the clauses of `WithinDelegation`, for
each record. `Obeys` says what a step does to the owners, and `OwnerStays` follows
from it (`ObeysOwners`): after a failed save the two copies of a record may have
different owners, so the property speaks of owners both copies agree on.

*Blobs.* `Kept` says what a run may do to the maps and snapshots it found: blobs
that are alive stay, memory and disk agree on the blobs if they did and no write
failed, an upload that is not deleted keeps its files, and its row is the old one
or that of the upload in memory. The last clause is why `BlobInv` must say of
every chunk answered ok that it is in memory, in the row and in the file
(`Listed`): the rows are written anew from memory for every chunk of any upload.
A prune stops after any set of deletes, which is shown in one step, without an
induction over them. `NeverNeither` follows for each handler from what `Kept`
says of files, and for the completion from the order of its two writes.

*Signaling.* The invariant of the sessions is `Routable` and `NoFalseOffline`
together with two facts about connections that have not registered
(`FreshConn`, `Unregistered`): the late close of a replaced session is harmless
exactly because the map no longer holds it, and a newly registered connection has
been told of nobody. `AcceptedOnce` needs `Remembered`: a frame that was accepted
is either too old to pass the skew check or its nonce is still known.

*Invites.* What is on file, and every content on its way there, is known to the
process (`ContentKnown`), so no rename puts the file ahead of the map. An invite
whose `persist()` met no other is in every content that may still be renamed
(`StaysOnFile`), which is what a later overlap cannot undo. `BucketsExact` ties a
bucket to the set of the creations it has counted.

*Registry.* `RegistryInv` says that no two transactions hold one row
(`RequestsInv`), that the unique indexes hold of the committed rows and of what each
transaction, and any two of them, would leave (`IndexInv`), and that an enabled
device in memory owns its token unless it is orphaned (`MemoryInv`); the indexes are
what a start puts memory together from. `LeftInv` with `TokensInv` follows an
unregistration: a device whose calls do not overlap has the message token of its
row, so the statement that disables the row compares the right token. For a start,
`SeenInv` gives the rows of a user, and its transactions, different times, and
`RankInv` says that a user's enabled rows are within the limit unless its upserts
ranked without each other; that a ranking by distinct times leaves at most the limit
is `FewStay`, from the least time of those that stay. `CacheAgrees` needs the state
at each await of a call that is alone: what its transaction has found is still so
(`Stages`), how far memory is ahead of the table (`MessageAgrees`, `VoipAgrees`,
`VoipCall`), and, because memory and table evict by different rules, that the
devices memory knows are in the order of their rows, and that those with later
enabled rows are known too (`OrderInv`): so a commit disables no device that memory
has (`RankedKnown`).

*Policy.* `ReadFromSeen`: each part of what a pass has read is a part of a policy
stored during the pass. `AloneIsCurrent`: the version check of a sync that
overlaps no other is still true when it commits.

*Gate and fan-out.* `Remembered` is the time argument: an
admitted frame is too old, or its id is remembered until the frame is too old; it
needs the id to outlive twice the skew, because a timestamp may be ahead by the
skew and stay valid for as long again. `Bound` and `Enforced` give the key
property, `StillBarred` the bans. The invariant of the fan-out, `JobInv`, has one
named part per question: `Routed` (a job does what its route says), `Screens` (no
recipient left in it is barred or refuses), `Aimed` (targets come from the
screened), `Timed` (a claim in the cache and a job's time of claim agree),
`VoipSeen` (a device that has a VoIP token was collected or is late), `Pending`
(each target is tried, dropped, left to VoIP or still to do). `QuietKeeps`,
`LoopKeeps` and `ClaimKeeps` carry the parts through the three kinds of steps.

*Moderation.* How far a transaction is (`HasRow`, `HasPeer`, `HasCounted`,
`HasPolicy`) says what it has locked, marked and counted (`Script`, `Holds`,
`Counted`): because it keeps the peer's lock from its count to its commit, no
other commit about the peer comes in between, and the count it stores is the one
that can then be read.

Only model-checked: liveness (`ExpiredIsPruned`, `EventuallyReceived`,
`EveryCallEnds`), which is out of the provers' reach. Every other property of a
passing run is a theorem.

## 6. Findings and known divergences

One run ends in a violation of what the documents say: `invite_lost_update`
(`invite.js:76`). Two overlapping `persist()` calls may rename in the other order;
an invite answered 201 is then not in the file.

Met while modelling, described by the models or left out by a property's
condition, and not kept as runs:

* a save that fails in a relay that goes on: the sender gets 500 and the message
  stays in memory; the retry is answered ok as a duplicate, without a save, and a
  crash loses the message (`relay-data-routes.js:52`, against `CHANGELOG.md:212`).
  The ack route has the same shape, and a fan-out has it for each recipient.
  Modelled with `SaveErrors = TRUE`: `unsettled` are the messages this can happen
  to, and the theorems say that it happens to no other. The blob upload has it too,
  where a completion may even delete the chunks of a blob that is in memory only
  (`failed` in `BlobStays` and `NeverNeither`);
* a decision that reads the flag of one policy and the lists of another delivers
  what neither allows (`observability.js:350`, against `PUSH.md:213`);
* a device that registers its VoIP token during a fan-out gets neither push: its
  message target is left to VoIP, whose targets were collected before
  (`push.js:1026`, against `CHANGELOG.md:412`);
* an event answered 500 or 502 keeps its dedup key, so that a retry within the
  dedup time is answered deduped and not sent (`push.js:966`);
* the dedup key has no recipients: of two events that differ only in these, the
  second is dropped (`delivery/dedup-cache.js:71`);
* a copy of a request with a bad signature uses up its id
  (`security/signed-requests.js:100`);
* a negative `limit` is not bounded by the maximum page (`relay-data-routes.js:607`);
* an owner update whose save fails is answered 500 and in force until the next
  restart, which brings the older record back (`relay-data-routes.js:322`);
* a membership that has expired into its tombstone can be taken over by another
  owner (`relay-data-routes.js:231`);
* chunk files of an upload the snapshot does not list, after a crash between the
  two writes, are never removed (`relay-data-routes.js:475`);
* `peers_request` drops closing sessions silently, and their close event then
  tells nobody that the peer went offline (`signal.js:194`);
* `/devices/unregister` disables the device's row and its message entry in memory;
  its VoIP entry stays enabled and gets call pushes until a restart
  (`devices/registry.js:200`, against `PUSH.md:121`). So does that of a device whose
  message token another device has taken, or whose message entry was evicted;
* two overlapping upserts of one user's devices rank without seeing each other's row
  and both commit: more than the limit stay enabled, and a restart evicts one of
  them (`observability.js:169`);
* memory evicts the device seen longest ago, enabled or not, the table ranks the
  enabled rows: with a disabled device at the limit, memory drops one whose row stays
  enabled (`devices/registry.js:168`), until a restart;
* with a device id that two users share, the eviction of one's device may forget the
  other's token, which is then enabled twice (`devices/registry.js:177`): `orphaned`;
* an upsert that commits after an unregister was answered enables the row again
  (`observability.js:162`);
* of two policy syncs that both passed the version check the older one may
  commit last (`observability.js:246`);
* of two overlapping decisions about a peer the older status may be signed and
  sent last (`moderation/routes.js:233`).

## 7. What is not modelled

* Signatures, field validation and canonical JSON: pure functions over one
  request. Requests in the models are those that pass them, or say in a field
  whether they do (`genuine`, `bind` of PushGate). The key strings `${to}|${id}`
  are assumed injective (`KeyAssumption`).
* The policy tables take a transaction as one step; transactions at read committed
  are modelled statement by statement in DeviceRegistry and Moderation.
* Of the registry: the service without a database, whose calls are synchronous; a
  commit whose answer is lost (the caller sees a failure and the rows have changed);
  two times of a user that are the same millisecond. A statement takes its row
  locks at once; a deadlock of two that take them one by one ends, in the database,
  as `Fails`.
* Malformed snapshots and the migration of snapshots of versions before 1.7.7;
  host crashes that lose data which was not fsynced (relevant for `invite.js`).
* Message forwarding of the signaling server and the relay's meta routes: they
  change no state.
* Moderation without a database, whose handlers are synchronous; its listings; the
  pushes it sends about decisions and new invites of contacts.
* `delivery/notification-policy.js`, which `push.js:11` imports, is not among the
  sources: whether it asks for the access policy is a field of an event
  (`filtered`). Push providers answer in PushEvents in any way, or never.
* Server discovery and checker, metrics, the routing authority descriptor,
  deployment scripts: I/O, idempotent upserts, read-only reports, or a value
  computed once.

## 8. What is left

All modules of the plan are there, and every safety and action property of a
passing run is a theorem. What would add most: the notification pushes of
moderation, once their delivery has a promise to state.

Runs stay one per question: a new module comes with one run that checks all of
its properties, and a conditional property replaces a violation run where the
condition says the same.
