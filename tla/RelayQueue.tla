---------------------------- MODULE RelayQueue ----------------------------
(***************************************************************************)
(* The direct-message queues of one relay: POST /relay/store, GET          *)
(* /relay/fetch, POST /relay/ack, the retention timer, crash and restart.  *)
(*                                                                         *)
(* A queue is an array that is only appended to and filtered, so it is     *)
(* modelled as the set of its entries, each with the number of the request *)
(* that stored it: the order of the array is the order of these numbers.   *)
(***************************************************************************)
EXTENDS Integers, FiniteSets, RelayStorage

CONSTANTS
  Peer,         \* recipients
  Id,           \* message ids
  Key,          \* values of the string `${to}|${id}`
  EnvelopeKey,  \* the key of each recipient and message id
  MsgTTL,       \* RELAY_TTL_SECONDS
  AckTTL,       \* RELAY_ACK_TOMBSTONE_TTL_SECONDS
  SaveErrors,   \* may a snapshot write fail in a process that goes on?
  MaxTime,      \* bound: the clock stops here
  MaxArrivals,  \* bound: number of store requests
  MaxCrashes    \* bound: number of crashes

ASSUME KeyAssumption ==
  /\ EnvelopeKey \in [Peer \X Id -> Key]
  \* Holds when no peer id and no message id contains the separator.
  /\ \A p, q \in Peer \X Id : EnvelopeKey[p] = EnvelopeKey[q] => p = q

ASSUME RetentionAssumption ==
  /\ MsgTTL \in Nat /\ AckTTL \in Nat /\ SaveErrors \in BOOLEAN
  /\ MaxTime \in Nat /\ MaxArrivals \in Nat /\ MaxCrashes \in Nat

VARIABLES
  mem,       \* the maps of the process: store and acked
  disk,      \* their snapshots
  up,        \* is the process serving?
  now,       \* Date.now()
  arrivals,  \* store requests so far
  crashes,   \* crashes so far
  owed,      \* observation: messages answered ok and not yet acknowledged
  confirmed, \* observation: expiry of the last ack of each key answered ok
  refused,   \* observation: expiry of the last ack of each key, however answered
  unsettled  \* observation: keys of the requests this process answered 500

vars == <<mem, disk, up, now, arrivals, crashes, owed, confirmed, refused, unsettled>>

---------------------------------------------------------------------------
None == -1          \* no tombstone

\* { envelope, insertedAtMs } and its place in the array
Item == [id : Id, at : Nat, n : Nat]

Maps == [store : [Peer -> SUBSET Item], acked : [Key -> Nat \cup {None}]]

EmptyMaps == [store |-> [to \in Peer |-> {}], acked |-> [k \in Key |-> None]]

\* RelayMessageStore.set and delete, RelayAckTombstoneStore.set
SetStore(run, s) == Saved(run, [run.mem EXCEPT !.store = s], [run.disk EXCEPT !.store = s])
SetAcked(run, a) == Saved(run, [run.mem EXCEPT !.acked = a], [run.disk EXCEPT !.acked = a])

Queued(run, to, id) == \E x \in run.mem.store[to] : x.id = id
Tombstoned(run, to, id) == run.mem.acked[EnvelopeKey[<<to, id>>]] # None

---------------------------------------------------------------------------
(* Retention. *)

Fresh(queue) == {x \in queue : x.at >= now - MsgTTL}

PruneRecipient(run, to) ==
  LET queue == run.mem.store[to]
  IN  IF Fresh(queue) = queue THEN {run}
      ELSE SetStore(run, [run.mem.store EXCEPT ![to] = Fresh(queue)])

\* Expired tombstones are deleted one by one, each delete with its save, so
\* an error leaves some of them (gone) deleted in memory and all but perhaps
\* the last of these deleted on disk.
PruneAckTombstones(run) ==
  LET acked == run.mem.acked
      expired == {k \in Key : acked[k] # None /\ now >= acked[k]}
      Without(gone) == [k \in Key |-> IF k \in gone THEN None ELSE acked[k]]
      Memory(gone) == [run.mem EXCEPT !.acked = Without(gone)]
      Snapshots(gone) == IF gone = {} THEN run.disk
                         ELSE [run.disk EXCEPT !.acked = Without(gone)]
  IN  IF ~run.ok \/ expired = {} THEN {run}
      ELSE {[mem |-> Memory(expired), disk |-> Snapshots(expired), ok |-> TRUE]}
             \cup UNION {Stopped(Memory(gone),
                                 {Snapshots(gone)} \cup {Snapshots(gone \ {last}) : last \in gone})
                          : gone \in (SUBSET expired) \ {{}}}

\* Mutant: only the tombstones are pruned, queues wait for a fetch.
PruneTombstonesOnly(run) == PruneAckTombstones(run)

\* prunePersistentState: every queue, then the tombstones.  Its errors are
\* not caught, neither in the timer nor at startup.
PrunePersistentState(run) ==
  LET store == run.mem.store
      stale == {to \in Peer : Fresh(store[to]) # store[to]}
      Pruned(done) == [to \in Peer |-> IF to \in done THEN Fresh(store[to]) ELSE store[to]]
      Memory(done) == [run.mem EXCEPT !.store = Pruned(done)]
      Snapshots(done) == IF done = {} THEN run.disk
                         ELSE [run.disk EXCEPT !.store = Pruned(done)]
  IN  PruneAckTombstones([mem |-> Memory(stale), disk |-> Snapshots(stale), ok |-> TRUE])
        \cup UNION {Stopped(Memory(done),
                            {Snapshots(done)} \cup {Snapshots(done \ {last}) : last \in done})
                     : done \in (SUBSET stale) \ {{}}}

---------------------------------------------------------------------------
(* What becomes of the process after a run. *)

\* The process dies; what it will load again is what the disk holds.
Dies(snapshots) ==
  /\ crashes < MaxCrashes
  /\ crashes' = crashes + 1
  /\ up' = FALSE
  /\ disk' = snapshots
  /\ mem' = snapshots
  /\ unsettled' = {}

\* An HTTP handler answers (200 when its run is ok, 500 when a save threw),
\* or the process dies during one of its saves.  keys are the messages the
\* request is about.
Serves(run, keys) ==
  \/ /\ run.ok \/ SaveErrors
     /\ mem' = run.mem
     /\ disk' = run.disk
     /\ unsettled' = IF run.ok THEN unsettled ELSE unsettled \cup keys
     /\ UNCHANGED <<up, crashes>>
  \/ /\ ~run.ok
     /\ Dies(run.disk)

---------------------------------------------------------------------------
(* The handlers. *)

\* The entry a store request adds.
NewItem(id) == [id |-> id, at |-> now, n |-> arrivals]

\* Mutant: the duplicate check is missing.
PushUnchecked(run, to, id) ==
  SetStore(run, [run.mem.store EXCEPT ![to] = @ \cup {NewItem(id)}])

\* Mutant: the entry is pushed onto the list and store.set is forgotten.
PushUnsaved(run, to, id) ==
  IF Queued(run, to, id) THEN {run}
  ELSE {[run EXCEPT !.mem.store[to] = @ \cup {NewItem(id)}]}

\* Mutant: the entry gets the start of its retention window as its time.
PushBackdated(run, to, id) ==
  LET item == [id |-> id, at |-> now - MsgTTL, n |-> arrivals]
  IN  IF Queued(run, to, id) THEN {run}
      ELSE SetStore(run, [run.mem.store EXCEPT ![to] = @ \cup {item}])

Push(run, to, id) ==
  IF Queued(run, to, id) THEN {run}
  ELSE SetStore(run, [run.mem.store EXCEPT ![to] = @ \cup {NewItem(id)}])

StoreRuns(to, id) ==
  UNION {IF Tombstoned(run, to, id) THEN {run}
         ELSE UNION {Push(pruned, to, id) : pruned \in PruneRecipient(run, to)}
          : run \in PruneAckTombstones(Begin(mem, disk))}

\* What a store answered ok promises: the entry it has found or added.  Only
\* an acknowledgement can be the reason that there is none.
Owing(run, to, id) ==
  LET found == {x \in Fresh(run.mem.store[to]) : x.id = id}
  IN  IF found = {} /\ now >= refused[EnvelopeKey[<<to, id>>]] THEN {NewItem(id)} ELSE found

\* POST /relay/store of a validly signed envelope.
Store(to, id) ==
  /\ up
  /\ arrivals < MaxArrivals
  /\ arrivals' = arrivals + 1
  /\ \E run \in StoreRuns(to, id) :
        /\ Serves(run, {EnvelopeKey[<<to, id>>]})
        /\ owed' = IF run.ok /\ EnvelopeKey[<<to, id>>] \notin unsettled
                   THEN owed \cup {[to |-> to, item |-> x] : x \in Owing(run, to, id)}
                   ELSE owed
  /\ UNCHANGED <<now, confirmed, refused>>

\* Mutant: the message is removed and no tombstone is left.
AckRunsForgetful(to, id) ==
  LET Remaining == [mem.store EXCEPT ![to] = {x \in @ : x.id # id}]
  IN  IF mem.store[to] = {} THEN {Begin(mem, disk)}
      ELSE SetStore(Begin(mem, disk), Remaining)

\* Mutant: the whole queue of the recipient is emptied.
AckRunsEmptying(to, id) ==
  LET Tombstones == [mem.acked EXCEPT ![EnvelopeKey[<<to, id>>]] = now + AckTTL]
  IN  UNION {IF run.mem.store[to] = {} THEN {run}
             ELSE SetStore(run, [mem.store EXCEPT ![to] = {}])
              : run \in SetAcked(Begin(mem, disk), Tombstones)}

AckRuns(to, id) ==
  LET Tombstones == [mem.acked EXCEPT ![EnvelopeKey[<<to, id>>]] = now + AckTTL]
      Remaining == [mem.store EXCEPT ![to] = {x \in @ : x.id # id}]
  IN  UNION {IF run.mem.store[to] = {} THEN {run} ELSE SetStore(run, Remaining)
              : run \in SetAcked(Begin(mem, disk), Tombstones)}

\* POST /relay/ack of a validly signed acknowledgement.
Ack(to, id) ==
  /\ up
  /\ \E run \in AckRuns(to, id) :
        /\ Serves(run, {EnvelopeKey[<<to, id>>]})
        /\ confirmed' = IF run.ok /\ EnvelopeKey[<<to, id>>] \notin unsettled
                        THEN [confirmed EXCEPT ![EnvelopeKey[<<to, id>>]] = now + AckTTL]
                        ELSE confirmed
  /\ refused' = [refused EXCEPT ![EnvelopeKey[<<to, id>>]] = now + AckTTL]
  /\ owed' = {o \in owed : ~(o.to = to /\ o.item.id = id)}
  /\ UNCHANGED <<now, arrivals>>

\* GET /relay/fetch: what it does to the relay is pruneRecipient.
Fetch(to) ==
  /\ up
  /\ \E run \in PruneRecipient(Begin(mem, disk), to) : Serves(run, {})
  /\ UNCHANGED <<now, arrivals, owed, confirmed, refused>>

\* The 60 second timer: an error in it is an uncaught exception.
PruneTimer ==
  /\ up
  /\ UNCHANGED <<now, arrivals, owed, confirmed, refused>>
  /\ \E run \in PrunePersistentState(Begin(mem, disk)) :
        \/ /\ run.ok
           /\ mem' = run.mem
           /\ disk' = run.disk
           /\ UNCHANGED <<up, crashes, unsettled>>
        \/ /\ ~run.ok
           /\ Dies(run.disk)

\* The process is killed between two handlers.
Crash ==
  /\ up
  /\ Dies(disk)
  /\ UNCHANGED <<now, arrivals, owed, confirmed, refused>>

\* The new process loads the snapshots, drops temporary files and prunes.
Restart ==
  /\ ~up
  /\ UNCHANGED <<now, arrivals, owed, confirmed, refused>>
  /\ \E run \in PrunePersistentState(Begin(disk, disk)) :
        \/ /\ run.ok
           /\ up' = TRUE
           /\ mem' = run.mem
           /\ disk' = run.disk
           /\ UNCHANGED <<crashes, unsettled>>
        \/ /\ ~run.ok
           /\ Dies(run.disk)

Tick ==
  /\ now < MaxTime
  /\ now' = now + 1
  /\ UNCHANGED <<mem, disk, up, arrivals, crashes, owed, confirmed, refused, unsettled>>

Init ==
  /\ mem = EmptyMaps
  /\ disk = EmptyMaps
  /\ up = TRUE
  /\ now = 0
  /\ arrivals = 0
  /\ crashes = 0
  /\ owed = {}
  /\ confirmed = [k \in Key |-> None]
  /\ refused = [k \in Key |-> None]
  /\ unsettled = {}

Next ==
  \/ \E to \in Peer, id \in Id : Store(to, id) \/ Ack(to, id)
  \/ \E to \in Peer : Fetch(to)
  \/ PruneTimer
  \/ Crash
  \/ Restart
  \/ Tick

Spec == Init /\ [][Next]_vars

---------------------------------------------------------------------------
(* Properties. *)

\* The maps in memory and the snapshots hold queue entries and tombstones with
\* times of the clock, for known recipients and keys only.
TypeOK ==
  /\ mem \in Maps
  /\ disk \in Maps
  /\ up \in BOOLEAN
  /\ now \in Nat
  /\ arrivals \in Nat
  /\ crashes \in Nat
  /\ owed \subseteq [to : Peer, item : Item]
  /\ confirmed \in [Key -> Nat \cup {None}]
  /\ refused \in [Key -> Nat \cup {None}]
  /\ unsettled \subseteq Key

\* One envelope per message id in every queue, in memory and on disk, whatever
\* the retries, the failed saves and the crashes: the duplicate check of
\* /relay/store reads the memory, which a failed save leaves ahead of the disk.
UniqueIds ==
  \A to \in Peer : \A maps \in {mem, disk} :
    \A x, y \in maps.store[to] : x.id = y.id => x = y

\* A message whose store was answered ok is on disk until its recipient
\* acknowledges it or its retention time has passed, through crashes at any
\* point of any handler and failing saves of other requests.  The exception
\* is a message this process has answered 500 for before: its retry is taken
\* for a duplicate and saves nothing (unsettled).
OwedIsDurable ==
  \A o \in owed : o.item \in disk.store[o.to] \/ o.item.at < now - MsgTTL

\* Once an acknowledgement has been answered ok, the message is not in the
\* queue again while the tombstone lasts, and not on the disk unless past its
\* time: neither a retry of the store nor a failed save nor a crash and a
\* restart brings it back.
AckedStaysGone ==
  \A to \in Peer, id \in Id :
    now < confirmed[EnvelopeKey[<<to, id>>]] =>
      \A x \in (IF up THEN mem.store[to] ELSE {}) \cup Fresh(disk.store[to]) : x.id # id

\* The queues on disk keep the promise of a mailbox: a message leaves one only
\* by its own acknowledgement or after its time, enters only by its own store
\* and not while it is withdrawn, and an answer is given only for what is on
\* disk.  A message the relay has answered 500 for may come or go late, with
\* the save of another request.  Every handler, with each of its saves failing
\* or the process dying in it, is one step of the promise or none.
Promise ==
  INSTANCE Mailbox WITH
    Lifetime <- MsgTTL, Grace <- AckTTL, box <- disk.store, promised <- owed, clock <- now,
    withdrawn <- [r \in Peer \X Id |-> confirmed[EnvelopeKey[r]]],
    refused <- [r \in Peer \X Id |-> refused[EnvelopeKey[r]]],
    loose <- {r \in Peer \X Id : EnvelopeKey[r] \in unsettled}

KeepsPromise == Promise!BoxSpec

\* Retention: what is past its time leaves memory and disk even if nobody
\* fetches, and however often the process dies in a prune.  (A save that
\* fails in a fetch may leave it on the disk until the next write.)
ExpiredIsPruned ==
  \A to \in Peer :
    LET Stale == \E x \in mem.store[to] \cup disk.store[to] : x.at < now - MsgTTL
    IN  ~SaveErrors => (Stale ~> ~Stale)
============================================================================
