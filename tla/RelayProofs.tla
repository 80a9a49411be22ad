---------------------------- MODULE RelayProofs ---------------------------
(***************************************************************************)
(* Proofs about RelayQueue, RelayDelivery and RelayGroup, whatever fails.  *)
(* A handler is a set of runs.  What a run may have done to the maps and   *)
(* the snapshots it began with is one relation (From), which every write   *)
(* of every handler keeps, for the maps of RelayQueue and for those of     *)
(* RelayGroup alike.  The invariant Books says how memory, disk and what   *)
(* was answered hang together; a step is proved to keep it from the        *)
(* relation alone, and the same way to be a step of Mailbox.               *)
(***************************************************************************)
EXTENDS RelayDelivery, RelayGroup, FiniteSetTheorems, WellFoundedInduction, TLAPS

---------------------------------------------------------------------------
(* Maps and the three writes. *)

\* The maps of RelayQueue, and those of RelayGroup.
Pair(m) == m = [store |-> m.store, acked |-> m.acked]
Triple(m) == m = [store |-> m.store, acked |-> m.acked, groups |-> m.groups]

Shaped(m) == Pair(m) \/ Triple(m)

\* Maps of the same kind, with the same memberships.
Like(m, n) ==
  \/ Pair(m) /\ Pair(n)
  \/ Triple(m) /\ Triple(n) /\ n.groups = m.groups

\* One envelope per message id in every queue.
Sound(s) ==
  /\ s \in [Peer -> SUBSET Item]
  /\ \A p \in Peer : \A x, y \in s[p] : x.id = y.id => x = y

Tombstones == [Key -> Nat \cup {None}]

Good(m) == Shaped(m) /\ Sound(m.store) /\ m.acked \in Tombstones

\* What replacing the queues does to the maps.
LEMMA StoreReplaced ==
  ASSUME NEW m, Shaped(m), NEW s
  PROVE  /\ [m EXCEPT !.store = s].store = s
         /\ [m EXCEPT !.store = s].acked = m.acked
         /\ Like(m, [m EXCEPT !.store = s])
<1>1. CASE Pair(m)
  <2> DEFINE a == m.store
             b == m.acked
  <2>1. m = [store |-> a, acked |-> b]
    BY <1>1 DEF Pair
  <2> HIDE DEF a, b
  <2>2. [m EXCEPT !.store = s] = [store |-> s, acked |-> b]
    BY <2>1
  <2> QED BY <1>1, <2>1, <2>2 DEF Like, Pair
<1>2. CASE Triple(m)
  <2> DEFINE a == m.store
             b == m.acked
             c == m.groups
  <2>1. m = [store |-> a, acked |-> b, groups |-> c]
    BY <1>2 DEF Triple
  <2> HIDE DEF a, b, c
  <2>2. [m EXCEPT !.store = s] = [store |-> s, acked |-> b, groups |-> c]
    BY <2>1
  <2> QED BY <1>2, <2>1, <2>2 DEF Like, Triple
<1> QED BY <1>1, <1>2 DEF Shaped

\* What replacing the tombstones does to the maps.
LEMMA AckedReplaced ==
  ASSUME NEW m, Shaped(m), NEW t
  PROVE  /\ [m EXCEPT !.acked = t].store = m.store
         /\ [m EXCEPT !.acked = t].acked = t
         /\ Like(m, [m EXCEPT !.acked = t])
<1>1. CASE Pair(m)
  <2> DEFINE a == m.store
             b == m.acked
  <2>1. m = [store |-> a, acked |-> b]
    BY <1>1 DEF Pair
  <2> HIDE DEF a, b
  <2>2. [m EXCEPT !.acked = t] = [store |-> a, acked |-> t]
    BY <2>1
  <2> QED BY <1>1, <2>1, <2>2 DEF Like, Pair
<1>2. CASE Triple(m)
  <2> DEFINE a == m.store
             b == m.acked
             c == m.groups
  <2>1. m = [store |-> a, acked |-> b, groups |-> c]
    BY <1>2 DEF Triple
  <2> HIDE DEF a, b, c
  <2>2. [m EXCEPT !.acked = t] = [store |-> a, acked |-> t, groups |-> c]
    BY <2>1
  <2> QED BY <1>2, <2>1, <2>2 DEF Like, Triple
<1> QED BY <1>1, <1>2 DEF Shaped

LEMMA LikeItself == ASSUME NEW m, Shaped(m) PROVE Like(m, m)
BY DEF Like, Shaped

LEMMA LikeShaped == ASSUME NEW m, NEW n, Like(m, n) PROVE Shaped(m) /\ Shaped(n)
BY DEF Like, Shaped

LEMMA NotBoth == ASSUME NEW m, Pair(m), Triple(m) PROVE FALSE
<1> DEFINE x == m.store
           y == m.acked
           z == m.groups
<1>1. m = [store |-> x, acked |-> y] /\ m = [store |-> x, acked |-> y, groups |-> z]
  BY DEF Pair, Triple
<1> HIDE DEF x, y, z
<1>2. DOMAIN [store |-> x, acked |-> y] = {"store", "acked"}
  OBVIOUS
<1>3. DOMAIN [store |-> x, acked |-> y, groups |-> z] = {"store", "acked", "groups"}
  OBVIOUS
<1> QED BY <1>1, <1>2, <1>3

LEMMA LikeThrough ==
  ASSUME NEW a, NEW b, NEW c, Like(a, b), Like(b, c)
  PROVE  Like(a, c)
BY NotBoth DEF Like

\* The runs of one save, field by field.
LEMMA SavedRuns ==
  ASSUME NEW run, run.ok \in BOOLEAN, NEW m, NEW d, NEW r \in Saved(run, m, d)
  PROVE  /\ ~run.ok => r = run
         /\ run.ok => /\ r.mem = m
                      /\ r.ok \in BOOLEAN
                      /\ r.disk = d \/ (~r.ok /\ r.disk = run.disk)
<1>1. CASE ~run.ok
  BY <1>1 DEF Saved
<1>2. CASE run.ok
  <2>1. \/ r = [mem |-> m, disk |-> d, ok |-> TRUE]
        \/ r = [mem |-> m, disk |-> run.disk, ok |-> FALSE]
        \/ r = [mem |-> m, disk |-> d, ok |-> FALSE]
    BY <1>2 DEF Saved, Stopped
  <2>2. /\ r.mem = m /\ r.ok \in BOOLEAN
        /\ r.disk = d \/ (~r.ok /\ r.disk = run.disk)
    <3>1. CASE r = [mem |-> m, disk |-> d, ok |-> TRUE]
      BY <3>1
    <3>2. CASE r = [mem |-> m, disk |-> run.disk, ok |-> FALSE]
      BY <3>2
    <3>3. CASE r = [mem |-> m, disk |-> d, ok |-> FALSE]
      BY <3>3
    <3> QED BY <2>1, <3>1, <3>2, <3>3
  <2> QED BY <1>2, <2>2
<1> QED BY <1>1, <1>2

LEMMA StoppedRuns ==
  ASSUME NEW m, NEW S, NEW r \in Stopped(m, S)
  PROVE  r.mem = m /\ r.disk \in S /\ r.ok = FALSE
<1>1. PICK s \in S : r = [mem |-> m, disk |-> s, ok |-> FALSE]
  BY Zenon DEF Stopped
<1> QED BY <1>1

\* RelayMessageStore.set and delete touch the queues and nothing else.
LEMMA SetStoreRuns ==
  ASSUME NEW run, Shaped(run.mem), Shaped(run.disk), run.ok \in BOOLEAN,
         NEW s, NEW r \in SetStore(run, s)
  PROVE  /\ r.ok \in BOOLEAN
         /\ Like(run.mem, r.mem) /\ Like(run.disk, r.disk)
         /\ r.mem.acked = run.mem.acked /\ r.disk.acked = run.disk.acked
         /\ ~run.ok => r = run
         /\ run.ok => /\ r.mem.store = s
                      /\ r.disk.store = s \/ (~r.ok /\ r.disk.store = run.disk.store)
<1> DEFINE m == [run.mem EXCEPT !.store = s]
           d == [run.disk EXCEPT !.store = s]
<1>1. /\ m.store = s /\ m.acked = run.mem.acked /\ Like(run.mem, m)
      /\ d.store = s /\ d.acked = run.disk.acked /\ Like(run.disk, d)
  BY StoreReplaced
<1>2. /\ ~run.ok => r = run
      /\ run.ok => r.mem = m /\ r.ok \in BOOLEAN /\ (r.disk = d \/ (~r.ok /\ r.disk = run.disk))
  <2>1. r \in Saved(run, m, d)
    BY DEF SetStore
  <2> HIDE DEF m, d
  <2> QED BY <2>1, SavedRuns
<1> HIDE DEF m, d
<1> QED BY <1>1, <1>2, LikeItself

\* RelayAckTombstoneStore.set touches the tombstones and nothing else.
AckedSaved(M, D, t, r) ==
  /\ r.ok \in BOOLEAN
  /\ Like(M, r.mem) /\ Like(D, r.disk)
  /\ r.mem.store = M.store /\ r.disk.store = D.store
  /\ r.mem.acked = t
  /\ r.disk.acked = t \/ (~r.ok /\ r.disk.acked = D.acked)

LEMMA SetAckedRuns ==
  ASSUME NEW run, Shaped(run.mem), Shaped(run.disk), run.ok \in BOOLEAN,
         NEW t, NEW r \in SetAcked(run, t)
  PROVE  run.ok => AckedSaved(run.mem, run.disk, t, r)
<1> DEFINE m == [run.mem EXCEPT !.acked = t]
           d == [run.disk EXCEPT !.acked = t]
<1>1. /\ m.store = run.mem.store /\ m.acked = t /\ Like(run.mem, m)
      /\ d.store = run.disk.store /\ d.acked = t /\ Like(run.disk, d)
  BY AckedReplaced
<1>2. /\ ~run.ok => r = run
      /\ run.ok => r.mem = m /\ r.ok \in BOOLEAN /\ (r.disk = d \/ (~r.ok /\ r.disk = run.disk))
  <2>1. r \in Saved(run, m, d)
    BY DEF SetAcked
  <2> HIDE DEF m, d
  <2> QED BY <2>1, SavedRuns
<1> HIDE DEF m, d
<1> QED BY <1>1, <1>2, LikeItself DEF AckedSaved

---------------------------------------------------------------------------
(* What a run may have done. *)

\* The queues s come from those of M by pruning and by adding the entry of
\* this request for some of the recipients whose tombstone is not in the way.
Grown(M, s, R, id) ==
  \A p \in Peer :
    /\ Fresh(M.store[p]) \subseteq s[p]
    /\ \A x \in s[p] : x \in M.store[p] \/ (/\ p \in R /\ x = NewItem(id)
                                            /\ now >= M.acked[EnvelopeKey[<<p, id>>]])

\* The queues s lack nothing of the queues t but the entry of this request,
\* and have nothing fresh that t lacks.
Covers(s, t, R, id) ==
  \A p \in Peer :
    /\ \A x \in t[p] : x \in s[p] \/ (p \in R /\ x = NewItem(id))
    /\ Fresh(s[p]) \subseteq t[p]

\* The tombstones b are those of a without some that have expired.
Lapsed(a, b) == \A k \in Key : b[k] = a[k] \/ (b[k] = None /\ now >= a[k])

\* r is a run that began with the maps M and the snapshots D and has so far
\* pruned, and stored the message id for some of the recipients R.  Each map
\* on disk is the one it found or one it has saved since.
From(M, D, r, R, id) ==
  /\ Good(r.mem) /\ Good(r.disk) /\ r.ok \in BOOLEAN
  /\ Grown(M, r.mem.store, R, id) /\ Lapsed(M.acked, r.mem.acked)
  /\ \/ r.disk.store = D.store
     \/ Grown(M, r.disk.store, R, id) /\ Covers(r.disk.store, r.mem.store, R, id)
  /\ r.disk.acked = D.acked \/ Lapsed(M.acked, r.disk.acked)
  /\ r.ok => \/ r.disk.store = r.mem.store
             \/ r.disk.store = D.store /\ r.mem.store = M.store

\* The clock and the counters the runs read.
Counts == now \in Nat /\ arrivals \in Nat

\* The entry of a request is one, and it is not past its time.
LEMMA NewItemFresh ==
  ASSUME Counts, NEW id \in Id
  PROVE  NewItem(id) \in Item /\ NewItem(id) \in Fresh({NewItem(id)}) /\ NewItem(id).id = id
BY RetentionAssumption DEF Counts, NewItem, Item, Fresh

LEMMA BeginFrom ==
  ASSUME NEW M, NEW D, Good(M), Good(D), NEW R, NEW id
  PROVE  From(M, D, Begin(M, D), R, id)
BY DEF From, Begin, Grown, Fresh, Lapsed

\* Writing queues that prune and add only this request's entry.
LEMMA SetStoreFrom ==
  ASSUME NEW M, NEW D, NEW R, NEW id, NEW run, From(M, D, run, R, id),
         NEW s, Sound(s), Grown(M, s, R, id), Covers(run.mem.store, s, R, id),
         NEW r \in SetStore(run, s)
  PROVE  /\ From(M, D, r, R, id)
         /\ Like(run.mem, r.mem) /\ Like(run.disk, r.disk)
         /\ r.mem.acked = run.mem.acked
         /\ r.ok => run.ok
         /\ r.mem.store = s \/ (~r.ok /\ r.mem.store = run.mem.store)
<1>1. /\ Good(run.mem) /\ Good(run.disk) /\ run.ok \in BOOLEAN
      /\ Shaped(run.mem) /\ Shaped(run.disk)
  BY DEF From, Good
<1>2. /\ r.ok \in BOOLEAN
      /\ Like(run.mem, r.mem) /\ Like(run.disk, r.disk)
      /\ r.mem.acked = run.mem.acked /\ r.disk.acked = run.disk.acked
      /\ ~run.ok => r = run
      /\ run.ok => /\ r.mem.store = s
                   /\ r.disk.store = s \/ (~r.ok /\ r.disk.store = run.disk.store)
  BY <1>1, SetStoreRuns
<1>3. CASE ~run.ok
  BY <1>2, <1>3
<1>4. CASE run.ok
  <2>1. Good(r.mem) /\ Good(r.disk)
    BY <1>1, <1>2, <1>4, LikeShaped DEF Good
  <2>2. \/ r.disk.store = D.store
        \/ Grown(M, r.disk.store, R, id) /\ Covers(r.disk.store, r.mem.store, R, id)
    <3>1. CASE r.disk.store = s
      BY <1>2, <1>4, <3>1 DEF Covers, Fresh
    <3>2. CASE r.disk.store = run.disk.store /\ run.disk.store # D.store
      <4>1. Grown(M, run.disk.store, R, id) /\ Covers(run.disk.store, run.mem.store, R, id)
        BY <3>2 DEF From
      <4>2. Covers(run.disk.store, s, R, id)
        BY <4>1 DEF Covers, Fresh
      <4> QED BY <1>2, <1>4, <3>2, <4>1, <4>2
    <3> QED BY <1>2, <1>4, <3>1, <3>2
  <2>3. /\ Lapsed(M.acked, r.mem.acked)
        /\ r.disk.acked = D.acked \/ Lapsed(M.acked, r.disk.acked)
    BY <1>2 DEF From
  <2> QED BY <1>2, <1>4, <2>1, <2>2, <2>3 DEF From
<1> QED BY <1>1, <1>3, <1>4

\* pruneRecipient, after which nothing in the queue is past its time.
LEMMA PruneRecipientFrom ==
  ASSUME NEW M, NEW D, NEW R, NEW id, NEW run, From(M, D, run, R, id),
         NEW to \in Peer, NEW r \in PruneRecipient(run, to)
  PROVE  /\ From(M, D, r, R, id)
         /\ Like(run.mem, r.mem) /\ Like(run.disk, r.disk)
         /\ r.mem.acked = run.mem.acked
         /\ r.ok => run.ok
         /\ r.ok => Fresh(r.mem.store[to]) = r.mem.store[to]
         /\ \A p \in Peer : Fresh(run.mem.store[p]) \subseteq r.mem.store[p]
<1> DEFINE s == [run.mem.store EXCEPT ![to] = Fresh(run.mem.store[to])]
<1>1. Good(run.mem) /\ Shaped(run.mem) /\ Shaped(run.disk) /\ Sound(run.mem.store)
  BY DEF From, Good
<1>2. CASE Fresh(run.mem.store[to]) = run.mem.store[to]
  <2>1. r = run
    BY <1>2 DEF PruneRecipient
  <2> QED BY <1>1, <1>2, <2>1, LikeItself DEF Fresh
<1>3. CASE Fresh(run.mem.store[to]) # run.mem.store[to]
  <2>1. r \in SetStore(run, s)
    BY <1>3 DEF PruneRecipient
  <2>2. Sound(s)
    BY <1>1 DEF Sound, Fresh
  <2>3. Grown(M, run.mem.store, R, id)
    BY DEF From
  <2>4. \A p \in Peer : s[p] = IF p = to THEN Fresh(run.mem.store[p]) ELSE run.mem.store[p]
    BY <1>1 DEF Sound
  <2>5. Grown(M, s, R, id)
    BY <2>3, <2>4 DEF Grown, Fresh
  <2>6. Covers(run.mem.store, s, R, id)
    BY <2>4 DEF Covers, Fresh
  <2>7. Fresh(s[to]) = s[to] /\ \A p \in Peer : Fresh(run.mem.store[p]) \subseteq s[p]
    BY <2>4 DEF Fresh
  <2>8. /\ From(M, D, r, R, id)
        /\ Like(run.mem, r.mem) /\ Like(run.disk, r.disk)
        /\ r.mem.acked = run.mem.acked
        /\ r.ok => run.ok
        /\ r.mem.store = s \/ (~r.ok /\ r.mem.store = run.mem.store)
    <3> HIDE DEF s
    <3> QED BY <2>1, <2>2, <2>5, <2>6, SetStoreFrom
  <2>9. \A p \in Peer : Fresh(run.mem.store[p]) \subseteq run.mem.store[p]
    BY DEF Fresh
  <2> HIDE DEF s
  <2> QED BY <2>7, <2>8, <2>9
<1> QED BY <1>2, <1>3

\* Appending the entry, unless the message is there already: afterwards it is
\* in the queue, and not past its time if the queue was pruned before.
Pushed(run, r, to, id) ==
  /\ Like(run.mem, r.mem) /\ Like(run.disk, r.disk)
  /\ r.mem.acked = run.mem.acked
  /\ r.ok => run.ok
  /\ \A p \in Peer : run.mem.store[p] \subseteq r.mem.store[p]
  /\ r.ok /\ Fresh(run.mem.store[to]) = run.mem.store[to] =>
       \E x \in Fresh(r.mem.store[to]) : x.id = id

LEMMA PushFrom ==
  ASSUME Counts, NEW M, NEW D, NEW R, NEW id \in Id, NEW run, From(M, D, run, R, id),
         NEW to \in Peer, to \in R, now >= M.acked[EnvelopeKey[<<to, id>>]],
         NEW r \in Push(run, to, id)
  PROVE  From(M, D, r, R, id) /\ Pushed(run, r, to, id)
<1> DEFINE s == [run.mem.store EXCEPT ![to] = @ \cup {NewItem(id)}]
<1>1. Good(run.mem) /\ Shaped(run.mem) /\ Shaped(run.disk) /\ Sound(run.mem.store)
  BY DEF From, Good
<1>2. CASE Queued(run, to, id)
  <2>1. r = run
    BY <1>2 DEF Push
  <2> QED BY <1>1, <1>2, <2>1, LikeItself DEF Queued, Pushed
<1>3. CASE ~Queued(run, to, id)
  <2>1. r \in SetStore(run, s)
    BY <1>3 DEF Push
  <2>2. \A p \in Peer : s[p] = IF p = to THEN run.mem.store[p] \cup {NewItem(id)}
                               ELSE run.mem.store[p]
    BY <1>1 DEF Sound
  <2>3. Sound(s)
    <3>1. s \in [Peer -> SUBSET Item]
      BY <1>1, NewItemFresh DEF Sound
    <3>2. ASSUME NEW p \in Peer, NEW x \in s[p], NEW y \in s[p], x.id = y.id
          PROVE  x = y
      BY <1>1, <1>3, <2>2, <3>2, NewItemFresh DEF Sound, Queued
    <3> QED BY <3>1, <3>2 DEF Sound
  <2>4. Grown(M, run.mem.store, R, id)
    BY DEF From
  <2>5. Grown(M, s, R, id)
    BY <2>2, <2>4 DEF Grown
  <2>6. Covers(run.mem.store, s, R, id)
    BY <2>2 DEF Covers, Fresh
  <2>7. \E x \in Fresh(s[to]) : x.id = id
    BY <2>2, NewItemFresh DEF Fresh
  <2>8. \A p \in Peer : run.mem.store[p] \subseteq s[p]
    BY <2>2
  <2> HIDE DEF s
  <2>9. /\ From(M, D, r, R, id) /\ r.mem.acked = run.mem.acked
        /\ Like(run.mem, r.mem) /\ Like(run.disk, r.disk)
        /\ r.ok => run.ok
        /\ r.mem.store = s \/ (~r.ok /\ r.mem.store = run.mem.store)
    BY <2>1, <2>3, <2>5, <2>6, SetStoreFrom
  <2> QED BY <2>7, <2>8, <2>9 DEF Pushed
<1> QED BY <1>2, <1>3

\* Deleting expired tombstones and nothing else.
LEMMA LapseFrom ==
  ASSUME NEW M, NEW D, NEW R, NEW id, NEW run, From(M, D, run, R, id),
         NEW r, Like(run.mem, r.mem), Like(run.disk, r.disk), r.ok \in BOOLEAN, r.ok => run.ok,
         r.mem.store = run.mem.store, r.disk.store = run.disk.store,
         r.mem.acked \in Tombstones, Lapsed(M.acked, r.mem.acked),
         \/ r.disk.acked = run.disk.acked
         \/ r.disk.acked \in Tombstones /\ Lapsed(M.acked, r.disk.acked)
  PROVE  From(M, D, r, R, id)
<1>1. Good(r.mem) /\ Good(r.disk)
  BY LikeShaped DEF From, Good
<1> QED BY <1>1 DEF From

\* pruneAckTombstones: one that goes through leaves no expired tombstone.
LEMMA PruneAckTombstonesFrom ==
  ASSUME Counts, NEW M, NEW D, NEW R, NEW id, NEW run, From(M, D, run, R, id),
         NEW r \in PruneAckTombstones(run)
  PROVE  /\ From(M, D, r, R, id)
         /\ Like(run.mem, r.mem) /\ Like(run.disk, r.disk)
         /\ r.mem.store = run.mem.store
         /\ r.ok => run.ok /\ \A k \in Key : r.mem.acked[k] = None \/ now < r.mem.acked[k]
<1> DEFINE acked == run.mem.acked
           expired == {k \in Key : acked[k] # None /\ now >= acked[k]}
           Without(gone) == [k \in Key |-> IF k \in gone THEN None ELSE acked[k]]
           Memory(gone) == [run.mem EXCEPT !.acked = Without(gone)]
           Snapshots(gone) == IF gone = {} THEN run.disk
                              ELSE [run.disk EXCEPT !.acked = Without(gone)]
<1>1. /\ Good(run.mem) /\ Good(run.disk) /\ run.ok \in BOOLEAN
      /\ Shaped(run.mem) /\ Shaped(run.disk) /\ acked \in Tombstones
      /\ Lapsed(M.acked, acked)
  BY DEF From, Good
<1>2. ASSUME NEW gone \in SUBSET expired
      PROVE  Without(gone) \in Tombstones /\ Lapsed(M.acked, Without(gone))
  BY <1>1 DEF Tombstones, Lapsed
<1>3. \A gone : /\ Memory(gone).store = run.mem.store /\ Memory(gone).acked = Without(gone)
                /\ Like(run.mem, Memory(gone))
  <2> HIDE DEF Without
  <2> QED BY <1>1, AckedReplaced
<1>4. \A gone : /\ Snapshots(gone).store = run.disk.store
                /\ Snapshots(gone).acked = IF gone = {} THEN run.disk.acked ELSE Without(gone)
                /\ Like(run.disk, Snapshots(gone))
  <2> HIDE DEF Without
  <2> QED BY <1>1, AckedReplaced, LikeItself
<1>5. CASE ~run.ok \/ expired = {}
  <2>1. r = run
    BY <1>5 DEF PruneAckTombstones
  <2>2. run.ok => \A k \in Key : acked[k] = None \/ now < acked[k]
    <3> SUFFICES ASSUME run.ok, NEW k \in Key
                 PROVE  acked[k] = None \/ now < acked[k]
      OBVIOUS
    <3>1. acked[k] \in Int /\ now \in Int
      BY <1>1 DEF Tombstones, None, Counts
    <3> QED BY <1>5, <3>1
  <2> QED BY <1>1, <2>1, <2>2, LikeItself
<1>6. CASE run.ok /\ expired # {}
  <2>1. \/ r = [mem |-> Memory(expired), disk |-> Snapshots(expired), ok |-> TRUE]
        \/ \E gone \in (SUBSET expired) \ {{}} :
             r \in Stopped(Memory(gone),
                           {Snapshots(gone)} \cup {Snapshots(gone \ {last}) : last \in gone})
    <3> HIDE DEF Memory, Snapshots
    <3> QED BY <1>6 DEF PruneAckTombstones, Memory, Snapshots
  <2>2. run.ok
    BY <1>6
  <2>3. PICK gone \in SUBSET expired, left \in SUBSET expired :
          /\ r.mem = Memory(gone) /\ r.disk = Snapshots(left)
          /\ r.ok \in BOOLEAN /\ (r.ok => gone = expired)
    <3> HIDE DEF Memory, Snapshots, expired
    <3>1. CASE r = [mem |-> Memory(expired), disk |-> Snapshots(expired), ok |-> TRUE]
      BY <3>1
    <3>2. CASE \E gone \in (SUBSET expired) \ {{}} :
                 r \in Stopped(Memory(gone),
                               {Snapshots(gone)} \cup {Snapshots(gone \ {last}) : last \in gone})
      <4>1. PICK gone \in SUBSET expired :
              r \in Stopped(Memory(gone),
                            {Snapshots(gone)} \cup {Snapshots(gone \ {last}) : last \in gone})
        BY <3>2
      <4> DEFINE S == {Snapshots(gone)} \cup {Snapshots(gone \ {last}) : last \in gone}
      <4>2. r.mem = Memory(gone) /\ r.ok = FALSE /\ r.disk \in S
        <5>1. r \in Stopped(Memory(gone), S)
          BY <4>1
        <5> HIDE DEF S
        <5> QED BY <5>1, StoppedRuns
      <4>3. PICK left \in SUBSET gone : r.disk = Snapshots(left)
        BY <4>2
      <4> QED BY <4>2, <4>3
    <3> QED BY <2>1, <3>1, <3>2
  <2>4. /\ r.mem.store = run.mem.store /\ r.mem.acked = Without(gone) /\ Like(run.mem, r.mem)
        /\ r.disk.store = run.disk.store /\ Like(run.disk, r.disk)
        /\ r.disk.acked = IF left = {} THEN run.disk.acked ELSE Without(left)
    <3> HIDE DEF Memory, Snapshots, Without
    <3> QED BY <1>3, <1>4, <2>3
  <2>5. From(M, D, r, R, id)
    <3> HIDE DEF Memory, Snapshots, Without
    <3> QED BY <1>2, <2>2, <2>3, <2>4, LapseFrom
  <2>6. r.ok => \A k \in Key : r.mem.acked[k] = None \/ now < r.mem.acked[k]
    <3> SUFFICES ASSUME r.ok, NEW k \in Key
                 PROVE  r.mem.acked[k] = None \/ now < r.mem.acked[k]
      OBVIOUS
    <3>1. r.mem.acked[k] = IF k \in expired THEN None ELSE acked[k]
      <4> HIDE DEF expired
      <4> QED BY <2>3, <2>4
    <3>2. acked[k] \in Int /\ now \in Int
      BY <1>1 DEF Tombstones, None, Counts
    <3> QED BY <3>1, <3>2
  <2> QED BY <2>2, <2>4, <2>5, <2>6
<1> QED BY <1>5, <1>6

\* prunePersistentState of a handler that begins: one that goes through
\* leaves nothing past its time in any queue.
LEMMA PrunePersistentStateFrom ==
  ASSUME Counts, NEW run, Good(run.mem), Good(run.disk), NEW R, NEW id,
         NEW r \in PrunePersistentState(run)
  PROVE  /\ From(run.mem, run.disk, r, R, id)
         /\ Like(run.mem, r.mem) /\ Like(run.disk, r.disk)
         /\ r.ok => \A p \in Peer : Fresh(r.mem.store[p]) = r.mem.store[p]
<1> DEFINE store == run.mem.store
           stale == {to \in Peer : Fresh(store[to]) # store[to]}
           Pruned(done) == [to \in Peer |-> IF to \in done THEN Fresh(store[to]) ELSE store[to]]
           Memory(done) == [run.mem EXCEPT !.store = Pruned(done)]
           Snapshots(done) == IF done = {} THEN run.disk ELSE [run.disk EXCEPT !.store = Pruned(done)]
           first == [mem |-> Memory(stale), disk |-> Snapshots(stale), ok |-> TRUE]
<1>1. Shaped(run.mem) /\ Shaped(run.disk) /\ Sound(store) /\ Sound(run.disk.store)
      /\ run.mem.acked \in Tombstones /\ run.disk.acked \in Tombstones
  BY DEF Good
<1>2. \A done : Sound(Pruned(done)) /\ Grown(run.mem, Pruned(done), R, id)
  BY <1>1 DEF Sound, Grown, Fresh
<1>3. \A done : \A left \in SUBSET done : Covers(Pruned(left), Pruned(done), R, id)
  BY <1>1 DEF Covers, Sound, Fresh
<1>4. \A done : /\ Memory(done).store = Pruned(done) /\ Memory(done).acked = run.mem.acked
                /\ Like(run.mem, Memory(done))
  <2> HIDE DEF Pruned
  <2> QED BY <1>1, StoreReplaced
<1>5. \A done : /\ Snapshots(done).store = IF done = {} THEN run.disk.store ELSE Pruned(done)
                /\ Snapshots(done).acked = run.disk.acked
                /\ Like(run.disk, Snapshots(done))
  <2> HIDE DEF Pruned
  <2> QED BY <1>1, StoreReplaced, LikeItself
<1>6. Pruned({}) = store
  BY <1>1 DEF Sound
<1>7. ASSUME NEW done, NEW left \in SUBSET done, NEW y,
             y.mem = Memory(done), y.disk = Snapshots(left), y.ok \in BOOLEAN, y.ok => left = done
      PROVE  From(run.mem, run.disk, y, R, id) /\ Like(run.mem, y.mem) /\ Like(run.disk, y.disk)
  <2> HIDE DEF Memory, Snapshots, Pruned
  <2>1. /\ y.mem.store = Pruned(done) /\ y.mem.acked = run.mem.acked /\ Like(run.mem, y.mem)
        /\ y.disk.store = IF left = {} THEN run.disk.store ELSE Pruned(left)
        /\ y.disk.acked = run.disk.acked /\ Like(run.disk, y.disk)
    BY <1>4, <1>5, <1>7
  <2>2. Good(y.mem) /\ Good(y.disk)
    BY <1>1, <1>2, <2>1, LikeShaped DEF Good
  <2>3. Lapsed(run.mem.acked, y.mem.acked)
    BY <2>1 DEF Lapsed
  <2>4. y.ok => \/ y.disk.store = y.mem.store
                \/ y.disk.store = run.disk.store /\ y.mem.store = run.mem.store
    BY <1>6, <1>7, <2>1
  <2>5. \/ y.disk.store = run.disk.store
        \/ Grown(run.mem, y.disk.store, R, id) /\ Covers(y.disk.store, y.mem.store, R, id)
    BY <1>2, <1>3, <2>1
  <2> QED BY <1>2, <1>7, <2>1, <2>2, <2>3, <2>4, <2>5 DEF From
<1>8. From(run.mem, run.disk, first, R, id) /\ Like(run.mem, first.mem) /\ Like(run.disk, first.disk)
  <2> HIDE DEF Memory, Snapshots, stale
  <2> QED BY <1>7
<1>9. r \in PruneAckTombstones(first) \/
      \E done \in (SUBSET stale) \ {{}} :
         r \in Stopped(Memory(done), {Snapshots(done)} \cup {Snapshots(done \ {last}) : last \in done})
  <2> HIDE DEF Memory, Snapshots
  <2> QED BY DEF PrunePersistentState, Memory, Snapshots
<1>10. CASE r \in PruneAckTombstones(first)
  <2>1. /\ From(run.mem, run.disk, r, R, id)
        /\ Like(first.mem, r.mem) /\ Like(first.disk, r.disk)
        /\ r.mem.store = first.mem.store
    <3> HIDE DEF first
    <3> QED BY <1>8, <1>10, PruneAckTombstonesFrom
  <2>2. Like(run.mem, r.mem) /\ Like(run.disk, r.disk)
    <3> HIDE DEF first
    <3> QED BY <1>8, <2>1, LikeThrough
  <2>3. r.mem.store = Pruned(stale)
    <3> HIDE DEF Memory, Snapshots, Pruned, stale
    <3> QED BY <1>4, <2>1
  <2>4. \A p \in Peer : Fresh(r.mem.store[p]) = r.mem.store[p]
    BY <2>3 DEF Fresh
  <2> QED BY <2>1, <2>2, <2>4
<1>11. CASE \E done \in (SUBSET stale) \ {{}} :
         r \in Stopped(Memory(done), {Snapshots(done)} \cup {Snapshots(done \ {last}) : last \in done})
  <2>1. PICK done \in SUBSET stale, left \in SUBSET stale :
          /\ left \subseteq done
          /\ r.mem = Memory(done) /\ r.disk = Snapshots(left) /\ r.ok = FALSE
    <3> HIDE DEF Memory, Snapshots, stale
    <3>1. PICK done \in SUBSET stale :
            r \in Stopped(Memory(done),
                          {Snapshots(done)} \cup {Snapshots(done \ {last}) : last \in done})
      BY <1>11
    <3> DEFINE S == {Snapshots(done)} \cup {Snapshots(done \ {last}) : last \in done}
    <3>2. r.mem = Memory(done) /\ r.ok = FALSE /\ r.disk \in S
      <4>1. r \in Stopped(Memory(done), S)
        BY <3>1
      <4> HIDE DEF S
      <4> QED BY <4>1, StoppedRuns
    <3>3. PICK left \in SUBSET done : r.disk = Snapshots(left)
      BY <3>2
    <3> QED BY <3>2, <3>3
  <2> HIDE DEF Memory, Snapshots, stale
  <2> QED BY <1>7, <2>1
<1> QED BY <1>9, <1>10, <1>11

---------------------------------------------------------------------------
(* The handlers of the queues. *)

\* The run r goes on from run, with the tombstones and what is not past its
\* time in memory as they are.
Follows(run, r) ==
  /\ Like(run.mem, r.mem) /\ Like(run.disk, r.disk)
  /\ r.mem.acked = run.mem.acked
  /\ r.ok => run.ok
  /\ \A p \in Peer : Fresh(run.mem.store[p]) \subseteq r.mem.store[p]

\* The body of a store for one recipient whose tombstone is not in the way:
\* the message is then in his queue, and the other queues keep what is fresh.
LEMMA DeliveredFrom ==
  ASSUME Counts, NEW M, NEW D, NEW R, NEW id \in Id, NEW run, From(M, D, run, R, id),
         NEW to \in Peer, to \in R, ~Tombstoned(run, to, id),
         EnvelopeKey[<<to, id>>] \in Key, M.acked \in Tombstones,
         NEW pruned \in PruneRecipient(run, to), NEW r \in Push(pruned, to, id)
  PROVE  /\ From(M, D, r, R, id)
         /\ Follows(run, r)
         /\ r.ok => \E x \in Fresh(r.mem.store[to]) : x.id = id
<1> DEFINE k == EnvelopeKey[<<to, id>>]
<1>1. now >= M.acked[k]
  <2>1. run.mem.acked[k] = None
    BY DEF Tombstoned
  <2>2. M.acked[k] = None \/ now >= M.acked[k]
    BY <2>1 DEF From, Lapsed
  <2> QED BY <2>2 DEF Counts, None
<1>3. /\ From(M, D, pruned, R, id)
      /\ Like(run.mem, pruned.mem) /\ Like(run.disk, pruned.disk)
      /\ pruned.mem.acked = run.mem.acked
      /\ pruned.ok => run.ok
      /\ pruned.ok => Fresh(pruned.mem.store[to]) = pruned.mem.store[to]
      /\ \A p \in Peer : Fresh(run.mem.store[p]) \subseteq pruned.mem.store[p]
  BY PruneRecipientFrom
<1>4. /\ From(M, D, r, R, id)
      /\ Like(pruned.mem, r.mem) /\ Like(pruned.disk, r.disk)
      /\ r.mem.acked = pruned.mem.acked
      /\ r.ok => pruned.ok
      /\ \A p \in Peer : pruned.mem.store[p] \subseteq r.mem.store[p]
      /\ r.ok /\ Fresh(pruned.mem.store[to]) = pruned.mem.store[to] =>
           \E x \in Fresh(r.mem.store[to]) : x.id = id
  <2>1. Pushed(pruned, r, to, id) /\ From(M, D, r, R, id)
    BY <1>1, <1>3, PushFrom
  <2> QED BY <2>1 DEF Pushed
<1>5. Like(run.mem, r.mem) /\ Like(run.disk, r.disk)
  BY <1>3, <1>4, LikeThrough
<1>6. \A p \in Peer : Fresh(run.mem.store[p]) \subseteq r.mem.store[p]
  BY <1>3, <1>4
<1>7. r.ok => run.ok
  BY <1>3, <1>4
<1>8. r.ok => \E x \in Fresh(r.mem.store[to]) : x.id = id
  BY <1>3, <1>4
<1>9. Follows(run, r)
  BY <1>3, <1>4, <1>5, <1>6, <1>7 DEF Follows
<1> QED BY <1>4, <1>8, <1>9

\* The runs of POST /relay/store.  One that goes through has the message in
\* the queue, unless a tombstone was still in force.
LEMMA StoreRunsFrom ==
  ASSUME Counts, Good(mem), Good(disk), NEW to \in Peer, NEW id \in Id,
         NEW r \in StoreRuns(to, id)
  PROVE  /\ From(mem, disk, r, {to}, id)
         /\ Like(mem, r.mem) /\ Like(disk, r.disk)
         /\ r.ok /\ now >= mem.acked[EnvelopeKey[<<to, id>>]] =>
              \E x \in Fresh(r.mem.store[to]) : x.id = id
<1> DEFINE k == EnvelopeKey[<<to, id>>]
<1>1. k \in Key /\ mem.acked \in Tombstones
  BY KeyAssumption DEF Good
<1>2. PICK run \in PruneAckTombstones(Begin(mem, disk)) :
        r \in IF Tombstoned(run, to, id) THEN {run}
              ELSE UNION {Push(pruned, to, id) : pruned \in PruneRecipient(run, to)}
  BY DEF StoreRuns
<1>3. /\ From(mem, disk, run, {to}, id)
      /\ Like(mem, run.mem) /\ Like(disk, run.disk)
      /\ run.ok => \A j \in Key : run.mem.acked[j] = None \/ now < run.mem.acked[j]
  <2>1. /\ From(mem, disk, Begin(mem, disk), {to}, id)
        /\ Begin(mem, disk).mem = mem /\ Begin(mem, disk).disk = disk
    BY BeginFrom DEF Begin
  <2> QED BY <1>2, <2>1, PruneAckTombstonesFrom
<1>4. CASE Tombstoned(run, to, id)
  <2>1. r = run
    BY <1>2, <1>4
  <2>2. run.ok => ~(now >= mem.acked[k])
    <3>1. run.mem.acked[k] # None
      BY <1>4 DEF Tombstoned
    <3>2. run.mem.acked[k] = mem.acked[k]
      BY <1>1, <1>3, <3>1 DEF From, Lapsed
    <3>3. mem.acked[k] \in Int
      BY <1>1 DEF Tombstones, None
    <3> QED BY <1>1, <1>3, <3>1, <3>2, <3>3 DEF Counts
  <2> QED BY <1>3, <2>1, <2>2
<1>5. CASE ~Tombstoned(run, to, id)
  <2>1. PICK pruned \in PruneRecipient(run, to) : r \in Push(pruned, to, id)
    BY <1>2, <1>5
  <2>2. /\ From(mem, disk, r, {to}, id)
        /\ Follows(run, r)
        /\ r.ok => \E x \in Fresh(r.mem.store[to]) : x.id = id
    BY <1>1, <1>3, <1>5, <2>1, DeliveredFrom
  <2>3. Like(run.mem, r.mem) /\ Like(run.disk, r.disk)
    BY <2>2 DEF Follows
  <2> QED BY <1>3, <2>2, <2>3, LikeThrough
<1> QED BY <1>4, <1>5

\* The queues s are those of M without the message id of to.
Without(M, s, to, id) ==
  \A p \in Peer : s[p] = {x \in M.store[p] : p = to => x.id # id}

\* The tombstones t are those of M with a new one for the key k.
Marked(M, t, k) == t \in Tombstones /\ \A j \in Key : t[j] = IF j = k THEN now + AckTTL ELSE M.acked[j]

\* The runs of POST /relay/ack, which began with the maps M and the
\* snapshots D: first the tombstone is saved, then the queue.
Acks(M, D, r, to, id) ==
  /\ Good(r.mem) /\ Good(r.disk) /\ r.ok \in BOOLEAN
  /\ Marked(M, r.mem.acked, EnvelopeKey[<<to, id>>])
  /\ r.disk.acked = D.acked \/ r.disk.acked = r.mem.acked
  /\ r.mem.store = M.store \/ Without(M, r.mem.store, to, id)
  /\ r.disk.store = D.store \/ (r.disk.store = r.mem.store /\ Without(M, r.mem.store, to, id))
  /\ r.ok => /\ r.disk.acked = r.mem.acked
             /\ Without(M, r.mem.store, to, id)
             /\ r.disk.store = r.mem.store \/ r.mem.store = M.store

LEMMA AckRunsAck ==
  ASSUME Counts, Good(mem), Good(disk), NEW to \in Peer, NEW id \in Id,
         NEW r \in AckRuns(to, id)
  PROVE  Acks(mem, disk, r, to, id) /\ Like(mem, r.mem) /\ Like(disk, r.disk)
<1> DEFINE k == EnvelopeKey[<<to, id>>]
           t == [mem.acked EXCEPT ![k] = now + AckTTL]
           s == [mem.store EXCEPT ![to] = {x \in @ : x.id # id}]
           first == Begin(mem, disk)
<1>1. /\ k \in Key /\ now + AckTTL \in Nat /\ mem.acked \in Tombstones
      /\ Sound(mem.store) /\ Shaped(mem) /\ Shaped(disk)
      /\ first.mem = mem /\ first.disk = disk /\ first.ok /\ first.ok \in BOOLEAN
  BY KeyAssumption, RetentionAssumption DEF Counts, Good, Begin
<1>2. Marked(mem, t, k)
  BY <1>1 DEF Marked, Tombstones
<1>3. Sound(s) /\ Without(mem, s, to, id)
  BY <1>1 DEF Sound, Without
<1>4. PICK run \in SetAcked(first, t) :
        r \in IF run.mem.store[to] = {} THEN {run} ELSE SetStore(run, s)
  BY DEF AckRuns
<1>5. /\ run.ok \in BOOLEAN
      /\ Like(mem, run.mem) /\ Like(disk, run.disk)
      /\ run.mem.store = mem.store /\ run.disk.store = disk.store
      /\ run.mem.acked = t
      /\ run.disk.acked = t \/ (~run.ok /\ run.disk.acked = disk.acked)
  <2> HIDE DEF t, first
  <2>1. AckedSaved(first.mem, first.disk, t, run)
    BY <1>1, <1>4, SetAckedRuns
  <2>2. AckedSaved(mem, disk, t, run)
    BY <1>1, <2>1
  <2> QED BY <2>2 DEF AckedSaved
<1>6. Good(run.mem) /\ Good(run.disk)
  <2> HIDE DEF t
  <2> QED BY <1>1, <1>2, <1>5, LikeShaped DEF Good, Marked
<1>7. CASE run.mem.store[to] = {}
  <2>1. r = run
    BY <1>4, <1>7
  <2>2. Without(mem, run.mem.store, to, id)
    BY <1>1, <1>5, <1>7 DEF Sound, Without
  <2> HIDE DEF t, s
  <2> QED BY <1>2, <1>5, <1>6, <2>1, <2>2 DEF Acks
<1>8. CASE run.mem.store[to] # {}
  <2>1. r \in SetStore(run, s)
    BY <1>4, <1>8
  <2>2. /\ r.ok \in BOOLEAN
        /\ Like(run.mem, r.mem) /\ Like(run.disk, r.disk)
        /\ r.mem.acked = run.mem.acked /\ r.disk.acked = run.disk.acked
        /\ ~run.ok => r = run
        /\ run.ok => /\ r.mem.store = s
                     /\ r.disk.store = s \/ (~r.ok /\ r.disk.store = run.disk.store)
    <3> HIDE DEF s
    <3> QED BY <1>5, <1>6, <2>1, SetStoreRuns DEF Good
  <2>3. Good(r.mem) /\ Good(r.disk)
    <3> HIDE DEF s, t
    <3> QED BY <1>3, <1>5, <1>6, <2>2, LikeShaped DEF Good
  <2>4. Like(mem, r.mem) /\ Like(disk, r.disk)
    BY <1>5, <2>2, LikeThrough
  <2> HIDE DEF t, s
  <2>5. CASE run.ok
    BY <1>2, <1>3, <1>5, <2>2, <2>3, <2>4, <2>5 DEF Acks
  <2>6. CASE ~run.ok
    BY <1>2, <1>5, <2>2, <2>3, <2>4, <2>6 DEF Acks
  <2> QED BY <1>5, <2>5, <2>6
<1> QED BY <1>7, <1>8

---------------------------------------------------------------------------
(* The invariant. *)

Accounts ==
  /\ Good(mem) /\ Good(disk) /\ up \in BOOLEAN /\ Counts /\ crashes \in Nat
  /\ owed \subseteq [to : Peer, item : Item]
  /\ confirmed \in Tombstones /\ refused \in Tombstones /\ unsettled \subseteq Key

\* The tombstones t are no younger than the last acknowledgement, and those
\* of the answered acknowledgements are there.
Remembers(t) ==
  \A k \in Key : t[k] <= refused[k] /\ (now < confirmed[k] => t[k] >= confirmed[k])

Recent == \A k \in Key : confirmed[k] <= refused[k] /\ refused[k] <= now + AckTTL

\* What is owed is in the queues s, or past its time.
Holds(s) == \A o \in owed : o.item \in s[o.to] \/ o.item.at < now - MsgTTL

\* No fresh entry, or no entry at all, of s is of a message acknowledged ok.
Clear(s) ==
  \A to \in Peer, id \in Id :
    now < confirmed[EnvelopeKey[<<to, id>>]] => \A x \in Fresh(s[to]) : x.id # id
AllClear(s) ==
  \A to \in Peer, id \in Id :
    now < confirmed[EnvelopeKey[<<to, id>>]] => \A x \in s[to] : x.id # id

\* The queues s in memory and d on disk differ only in messages whose
\* requests have failed (K), and in what only the disk keeps past its time.
Agree(s, d, K) ==
  \A p \in Peer :
    /\ \A x \in s[p] : x \in d[p] \/ EnvelopeKey[<<p, x.id>>] \in K
    /\ \A x \in Fresh(d[p]) : x \in s[p] \/ EnvelopeKey[<<p, x.id>>] \in K

Books ==
  /\ Accounts
  /\ Remembers(mem.acked) /\ Remembers(disk.acked) /\ Recent
  /\ Holds(mem.store) /\ Holds(disk.store)
  /\ Clear(disk.store) /\ (up => AllClear(mem.store))
  /\ Agree(mem.store, disk.store, unsettled)
  /\ ~up => mem = disk /\ unsettled = {}

LEMMA BooksAcked == Books => AckedStaysGone
<1> SUFFICES ASSUME Books, NEW to \in Peer, NEW id \in Id,
                    now < confirmed[EnvelopeKey[<<to, id>>]],
                    NEW x \in (IF up THEN mem.store[to] ELSE {}) \cup Fresh(disk.store[to])
             PROVE  x.id # id
  BY DEF AckedStaysGone
<1>1. CASE x \in Fresh(disk.store[to])
  BY <1>1 DEF Books, Clear
<1>2. CASE up /\ x \in mem.store[to]
  BY <1>2 DEF Books, AllClear
<1> QED BY <1>1, <1>2

\* The key of an entry's message is a key.
LEMMA KeyOf ==
  ASSUME NEW s, Sound(s), NEW p \in Peer, NEW x \in s[p]
  PROVE  x \in Item /\ x.id \in Id /\ x.at \in Nat /\ EnvelopeKey[<<p, x.id>>] \in Key
BY KeyAssumption DEF Sound, Item

LEMMA KeysDiffer ==
  ASSUME NEW p \in Peer, NEW q \in Peer, NEW i \in Id, NEW j \in Id
  PROVE  /\ EnvelopeKey[<<p, i>>] \in Key
         /\ EnvelopeKey[<<p, i>>] = EnvelopeKey[<<q, j>>] => p = q /\ i = j
BY KeyAssumption

---------------------------------------------------------------------------
(* What the relation From keeps of it. *)

\* Tombstones that have only lapsed remember what the others did.
LEMMA LapsedRemembers ==
  ASSUME Accounts, NEW a \in Tombstones, NEW b, Remembers(a), Lapsed(a, b)
  PROVE  Remembers(b)
<1> SUFFICES ASSUME NEW k \in Key
             PROVE  b[k] <= refused[k] /\ (now < confirmed[k] => b[k] >= confirmed[k])
  BY DEF Remembers
<1>1. /\ now \in Nat /\ a[k] \in Nat \cup {-1} /\ confirmed[k] \in Nat \cup {-1}
      /\ refused[k] \in Nat \cup {-1}
  BY DEF Accounts, Counts, Tombstones, None
<1>2. a[k] <= refused[k] /\ (now < confirmed[k] => a[k] >= confirmed[k])
  BY DEF Remembers
<1>3. b[k] = a[k] \/ (b[k] = -1 /\ now >= a[k])
  BY DEF Lapsed, None
<1> QED BY <1>1, <1>2, <1>3

\* Queues that have grown hold what is owed, and nothing acknowledged.
LEMMA GrownHolds ==
  ASSUME Books, NEW s, NEW R, NEW id, Grown(mem, s, R, id)
  PROVE  Holds(s)
<1> SUFFICES ASSUME NEW o \in owed, ~(o.item.at < now - MsgTTL)
             PROVE  o.item \in s[o.to]
  BY DEF Holds
<1>1. o.to \in Peer /\ o.item \in Item
  BY DEF Books, Accounts
<1>2. o.item \in mem.store[o.to]
  BY DEF Books, Holds
<1>3. o.item.at >= now - MsgTTL
  BY <1>1, RetentionAssumption DEF Item, Books, Accounts, Counts
<1>4. o.item \in Fresh(mem.store[o.to])
  BY <1>2, <1>3 DEF Fresh
<1> QED BY <1>1, <1>4 DEF Grown

LEMMA GrownClear ==
  ASSUME Books, NEW s, NEW R, NEW id, R = {} \/ id \in Id, Grown(mem, s, R, id)
  PROVE  Clear(s) /\ (up => AllClear(s))
<1>1. ASSUME NEW to \in Peer, NEW i \in Id, now < confirmed[EnvelopeKey[<<to, i>>]],
             NEW x \in s[to], x \notin mem.store[to]
      PROVE  x.id # i
  <2>1. x = NewItem(id) /\ now >= mem.acked[EnvelopeKey[<<to, id>>]] /\ id \in Id
    BY <1>1 DEF Grown
  <2>2. SUFFICES ASSUME i = id
                 PROVE  FALSE
    BY <2>1 DEF NewItem
  <2> DEFINE k == EnvelopeKey[<<to, id>>]
  <2>3. k \in Key
    BY <2>1, KeysDiffer
  <2>4. mem.acked[k] >= confirmed[k]
    BY <1>1, <2>2, <2>3 DEF Books, Remembers
  <2>5. now \in Int /\ mem.acked[k] \in Int /\ confirmed[k] \in Int
    BY <2>3 DEF Books, Accounts, Good, Counts, Tombstones, None
  <2> HIDE DEF k
  <2>6. now >= mem.acked[k] /\ now < confirmed[k]
    BY <1>1, <2>1, <2>2 DEF k
  <2> QED BY <2>4, <2>5, <2>6
<1>2. up => AllClear(s)
  <2> SUFFICES ASSUME up, NEW to \in Peer, NEW i \in Id, now < confirmed[EnvelopeKey[<<to, i>>]],
                      NEW x \in s[to]
               PROVE  x.id # i
    BY DEF AllClear
  <2>1. x \in mem.store[to] => x.id # i
    BY DEF Books, AllClear
  <2> QED BY <1>1, <2>1
<1>3. Clear(s)
  <2> SUFFICES ASSUME NEW to \in Peer, NEW i \in Id, now < confirmed[EnvelopeKey[<<to, i>>]],
                      NEW x \in Fresh(s[to])
               PROVE  x.id # i
    BY DEF Clear
  <2>1. x \in s[to]
    BY DEF Fresh
  <2>2. x \in mem.store[to] => x.id # i
    <3>1. CASE up
      BY <3>1 DEF Books, AllClear
    <3>2. CASE ~up
      BY <3>2 DEF Books, Clear, Fresh
    <3> QED BY <3>1, <3>2
  <2> QED BY <1>1, <2>1, <2>2
<1> QED BY <1>2, <1>3

\* What a run leaves in memory and on disk, whatever becomes of the process.
LEMMA FromBooks ==
  ASSUME Books, NEW R, NEW id, R = {} \/ id \in Id, NEW run, From(mem, disk, run, R, id)
  PROVE  /\ Remembers(run.mem.acked) /\ Remembers(run.disk.acked)
         /\ Holds(run.mem.store) /\ Holds(run.disk.store)
         /\ Clear(run.mem.store) /\ Clear(run.disk.store)
         /\ up => AllClear(run.mem.store)
<1>1. Accounts /\ mem.acked \in Tombstones /\ Remembers(mem.acked) /\ Remembers(disk.acked)
      /\ Holds(disk.store) /\ Clear(disk.store)
  BY DEF Books, Accounts, Good
<1>2. Remembers(run.mem.acked)
  BY <1>1, LapsedRemembers DEF From
<1>3. Remembers(run.disk.acked)
  <2>1. CASE run.disk.acked = disk.acked
    BY <1>1, <2>1
  <2>2. CASE Lapsed(mem.acked, run.disk.acked)
    BY <1>1, <2>2, LapsedRemembers
  <2> QED BY <2>1, <2>2 DEF From
<1>4. Holds(run.mem.store) /\ Clear(run.mem.store) /\ (up => AllClear(run.mem.store))
  BY GrownHolds, GrownClear DEF From
<1>5. Holds(run.disk.store) /\ Clear(run.disk.store)
  <2>1. CASE run.disk.store = disk.store
    BY <1>1, <2>1
  <2>2. CASE Grown(mem, run.disk.store, R, id)
    BY <2>2, GrownHolds, GrownClear
  <2> QED BY <2>1, <2>2 DEF From
<1> QED BY <1>2, <1>3, <1>4, <1>5

\* Memory and disk agree after a run on every message but those of the
\* request, and on these too if it has gone through.
LEMMA FromAgree ==
  ASSUME Books, NEW R, NEW id, NEW run, From(mem, disk, run, R, id)
  PROVE  /\ run.ok => Agree(run.mem.store, run.disk.store, unsettled)
         /\ \A keys : (\A p \in R : EnvelopeKey[<<p, id>>] \in keys) =>
              Agree(run.mem.store, run.disk.store, unsettled \cup keys)
<1> DEFINE s == run.mem.store
           d == run.disk.store
<1>1. Agree(mem.store, disk.store, unsettled)
  BY DEF Books
<1>2. Grown(mem, s, R, id) /\ (d = disk.store \/ (Grown(mem, d, R, id) /\ Covers(d, s, R, id)))
  BY DEF From
<1>3. ASSUME run.ok
      PROVE  Agree(s, d, unsettled)
  <2>1. CASE d = s
    BY <2>1 DEF Agree, Fresh
  <2>2. CASE d = disk.store /\ s = mem.store
    BY <1>1, <2>2
  <2> QED BY <1>3, <2>1, <2>2 DEF From
<1>4. ASSUME NEW keys, \A p \in R : EnvelopeKey[<<p, id>>] \in keys
      PROVE  Agree(s, d, unsettled \cup keys)
  <2> HIDE DEF s, d
  <2>1. NewItem(id).id = id
    BY DEF NewItem
  <2>2. ASSUME NEW p \in Peer, NEW x \in s[p], x \notin d[p]
        PROVE  EnvelopeKey[<<p, x.id>>] \in unsettled \cup keys
    <3>1. x \in mem.store[p] \/ (p \in R /\ x = NewItem(id))
      BY <1>2, <2>2 DEF Grown
    <3>2. CASE d = disk.store
      BY <1>1, <1>4, <2>1, <2>2, <3>1, <3>2 DEF Agree
    <3>3. CASE Covers(d, s, R, id)
      BY <1>4, <2>1, <2>2, <3>3 DEF Covers
    <3> QED BY <1>2, <3>2, <3>3
  <2>3. ASSUME NEW p \in Peer, NEW x \in Fresh(d[p]), x \notin s[p]
        PROVE  EnvelopeKey[<<p, x.id>>] \in unsettled \cup keys
    <3>1. x \notin Fresh(mem.store[p])
      BY <1>2, <2>3 DEF Grown
    <3>2. x \notin mem.store[p]
      BY <2>3, <3>1 DEF Fresh
    <3>3. CASE d = disk.store
      BY <1>1, <2>3, <3>2, <3>3 DEF Agree
    <3>4. CASE Grown(mem, d, R, id)
      <4>1. p \in R /\ x = NewItem(id)
        BY <2>3, <3>2, <3>4 DEF Grown, Fresh
      <4> QED BY <1>4, <2>1, <4>1
    <3> QED BY <1>2, <3>3, <3>4
  <2> QED BY <2>2, <2>3 DEF Agree
<1> QED BY <1>3, <1>4

\* What becomes of the process after a run about the messages keys.
Left(run, keys) ==
  \/ /\ up' = TRUE /\ crashes' = crashes
     /\ mem' = run.mem /\ disk' = run.disk
     /\ unsettled' = IF run.ok THEN unsettled ELSE unsettled \cup keys
  \/ ~run.ok /\ Dies(run.disk)

LEMMA ServesLeft ==
  ASSUME up, up \in BOOLEAN, NEW run, NEW keys, Serves(run, keys)
  PROVE  Left(run, keys)
BY DEF Serves, Left

\* The books are kept by every step that leaves what such a run leaves.
LEMMA RunKeepsBooks ==
  ASSUME Books, NEW R, NEW id, R = {} \/ id \in Id, NEW run, From(mem, disk, run, R, id),
         NEW keys \in SUBSET Key, \A p \in R : EnvelopeKey[<<p, id>>] \in keys,
         Left(run, keys),
         \/ up \/ up' = FALSE
         \/ \A p \in Peer : Fresh(run.mem.store[p]) = run.mem.store[p],
         UNCHANGED <<now, confirmed, refused>>, arrivals' \in Nat,
         owed' \subseteq [to : Peer, item : Item],
         \A o \in owed' : \/ o \in owed
                          \/ o.item \in run.mem.store[o.to] /\ o.item \in run.disk.store[o.to]
  PROVE  Books'
<1>1. /\ Remembers(run.mem.acked) /\ Remembers(run.disk.acked)
      /\ Holds(run.mem.store) /\ Holds(run.disk.store)
      /\ Clear(run.mem.store) /\ Clear(run.disk.store)
      /\ up => AllClear(run.mem.store)
  BY FromBooks
<1>2. /\ disk' = run.disk
      /\ \/ up' = TRUE /\ crashes' = crashes /\ mem' = run.mem
         \/ up' = FALSE /\ crashes' = crashes + 1 /\ mem' = run.disk /\ unsettled' = {}
  BY DEF Left, Dies
<1>3. Accounts'
  <2>1. Good(run.mem) /\ Good(run.disk)
    BY DEF From
  <2>2. Good(mem)' /\ Good(disk)'
    <3>1. mem' = run.mem \/ mem' = run.disk
      BY <1>2
    <3>2. Good(mem') /\ Good(disk')
      BY <1>2, <2>1, <3>1
    <3> QED BY <3>2 DEF Good, Shaped, Pair, Triple, Sound, Tombstones
  <2>3. unsettled' \subseteq Key
    <3>1. unsettled' = {} \/ unsettled' = unsettled \/ unsettled' = unsettled \cup keys
      BY DEF Left, Dies
    <3>2. unsettled \subseteq Key
      BY DEF Books, Accounts
    <3> QED BY <3>1, <3>2
  <2>4. up' \in BOOLEAN /\ crashes' \in Nat
    <3>1. up' \in BOOLEAN
      BY <1>2
    <3>2. crashes' = crashes \/ crashes' = crashes + 1
      BY <1>2
    <3> QED BY <3>1, <3>2 DEF Books, Accounts
  <2>5. Counts' /\ confirmed' \in Tombstones /\ refused' \in Tombstones
    BY DEF Books, Accounts, Counts
  <2>6. (confirmed \in Tombstones /\ refused \in Tombstones)'
    BY <2>5 DEF Tombstones
  <2> QED BY <2>2, <2>3, <2>4, <2>5, <2>6 DEF Accounts
<1>4. Remembers(mem.acked)' /\ Remembers(disk.acked)' /\ Recent'
  <2>1. Recent
    BY DEF Books
  <2> QED BY <1>1, <1>2, <2>1 DEF Remembers, Recent
<1>5. Holds(mem.store)' /\ Holds(disk.store)'
  <2>1. \A o \in owed' : /\ o.item \in run.mem.store[o.to] \/ o.item.at < now - MsgTTL
                         /\ o.item \in run.disk.store[o.to] \/ o.item.at < now - MsgTTL
    BY <1>1 DEF Holds
  <2>2. mem'.store = run.mem.store \/ mem'.store = run.disk.store
    BY <1>2
  <2>3. disk'.store = run.disk.store /\ now' = now
    BY <1>2
  <2> QED BY <2>1, <2>2, <2>3 DEF Holds
<1>6. Clear(disk.store)'
  <2>1. disk'.store = run.disk.store /\ now' = now /\ confirmed' = confirmed
    BY <1>2
  <2> QED BY <1>1, <2>1 DEF Clear, Fresh
<1>7. ASSUME up'
      PROVE  AllClear(mem.store)'
  <2>1. mem'.store = run.mem.store
    BY <1>2, <1>7
  <2>2. AllClear(run.mem.store)
    <3>1. CASE up
      BY <1>1, <3>1
    <3>2. CASE \A p \in Peer : Fresh(run.mem.store[p]) = run.mem.store[p]
      BY <1>1, <3>2 DEF Clear, AllClear
    <3> QED BY <1>7, <3>1, <3>2
  <2> QED BY <2>1, <2>2 DEF AllClear
<1>8. Agree(mem.store, disk.store, unsettled)'
  <2>1. CASE up' = FALSE
    <3>1. mem'.store = disk'.store
      BY <1>2, <2>1
    <3> QED BY <3>1 DEF Agree, Fresh
  <2>2. CASE up' = TRUE
    <3>1. /\ mem' = run.mem /\ disk' = run.disk
          /\ unsettled' = IF run.ok THEN unsettled ELSE unsettled \cup keys
      BY <2>2 DEF Left, Dies
    <3>2. Agree(run.mem.store, run.disk.store, unsettled')
      BY <3>1, FromAgree
    <3>3. mem'.store = run.mem.store /\ disk'.store = run.disk.store /\ now' = now
      BY <3>1
    <3> QED BY <3>2, <3>3 DEF Agree, Fresh
  <2> QED BY <1>2, <2>1, <2>2
<1>9. ~up' => mem' = disk' /\ unsettled' = {}
  BY <1>2
<1> QED BY <1>3, <1>4, <1>5, <1>6, <1>7, <1>8, <1>9 DEF Books

---------------------------------------------------------------------------
(* What such a step is in the mailbox. *)

\* Of the messages that are not loose only those posted come, and none goes.
LEMMA RunMoves ==
  ASSUME Books, NEW R, NEW id, R = {} \/ id \in Id, NEW run, From(mem, disk, run, R, id),
         disk' = run.disk,
         \A o \in owed' : o \in owed \/ o.item \in run.disk.store[o.to]
  PROVE  Promise!Moves(R \X {id}, {})
<1> DEFINE d == run.disk.store
           until == [r \in Peer \X Id |-> confirmed[EnvelopeKey[r]]]
           loose == {r \in Peer \X Id : EnvelopeKey[r] \in unsettled}
<1>1. /\ Sound(d) /\ Sound(disk.store) /\ Sound(mem.store) /\ Sound(run.mem.store)
      /\ now \in Nat
  BY DEF From, Good, Books, Accounts, Counts
<1>2. Agree(mem.store, disk.store, unsettled)
  BY DEF Books
<1>3. d = disk.store \/ Grown(mem, d, R, id)
  BY DEF From
<1>4. disk'.store = d
  OBVIOUS
<1>5. ASSUME NEW p \in Peer, NEW x \in d[p] \ disk.store[p]
      PROVE  /\ now >= until[<<p, x.id>>]
             /\ <<p, x.id>> \in loose \/ (<<p, x.id>> \in R \X {id} /\ x.at = now)
  <2> DEFINE k == EnvelopeKey[<<p, x.id>>]
  <2>1. x.id \in Id /\ k \in Key /\ confirmed[k] \in Nat \cup {-1}
    BY <1>1, KeyOf DEF Books, Accounts, Tombstones, None
  <2>2. Grown(mem, d, R, id)
    BY <1>3
  <2>3. x \in mem.store[p] => <<p, x.id>> \in loose
    BY <1>2, <2>1 DEF Agree
  <2>4. x \notin mem.store[p] => <<p, x.id>> \in R \X {id} /\ x.at = now
    <3> SUFFICES ASSUME x \notin mem.store[p]
                 PROVE  <<p, x.id>> \in R \X {id} /\ x.at = now
      OBVIOUS
    <3>1. p \in R /\ x = NewItem(id)
      BY <2>2 DEF Grown
    <3>2. x.id = id /\ x.at = now
      BY <3>1 DEF NewItem
    <3> QED BY <3>1, <3>2
  <2>5. ~(now < confirmed[k])
    <3>1. CASE up
      <4>1. AllClear(d)
        BY <2>2, <3>1, GrownClear
      <4> QED BY <2>1, <4>1 DEF AllClear
    <3>2. CASE ~up
      <4>1. x \notin mem.store[p]
        BY <3>2 DEF Books
      <4>2. x = NewItem(id)
        BY <2>2, <4>1 DEF Grown
      <4>3. x \in Fresh(d[p])
        BY <1>1, <4>2, RetentionAssumption DEF NewItem, Fresh
      <4>4. Clear(d)
        BY <2>2, GrownClear
      <4> QED BY <2>1, <4>3, <4>4 DEF Clear
    <3> QED BY <3>1, <3>2
  <2>6. until[<<p, x.id>>] = confirmed[k]
    BY <2>1
  <2> QED BY <1>1, <2>1, <2>3, <2>4, <2>5, <2>6
<1>6. ASSUME NEW p \in Peer, NEW x \in Fresh(disk.store[p]) \ d[p]
      PROVE  <<p, x.id>> \in loose
  <2>1. Grown(mem, d, R, id) /\ x \in disk.store[p]
    BY <1>3, <1>6 DEF Fresh
  <2>2. x \notin mem.store[p]
    BY <1>6, <2>1 DEF Grown, Fresh
  <2>3. EnvelopeKey[<<p, x.id>>] \in unsettled
    BY <1>2, <2>2 DEF Agree
  <2> QED BY <1>1, <2>1, <2>3, KeyOf
<1>7. ASSUME NEW o \in owed', o.item.at >= now - MsgTTL
      PROVE  o.item \in d[o.to]
  <2>1. CASE o \in owed
    <3>1. o.item \in d[o.to] \/ o.item.at < now - MsgTTL
      BY <2>1, FromBooks DEF Holds
    <3>2. o.item.at \in Nat /\ now - MsgTTL \in Int
      BY <1>1, <2>1, RetentionAssumption DEF Books, Accounts, Item
    <3> QED BY <1>7, <3>1, <3>2
  <2> QED BY <2>1
<1> HIDE DEF d
<1> QED BY <1>4, <1>5, <1>6, <1>7 DEF Promise!Moves, Promise!Live, Fresh

\* A request that has failed leaves its messages loose, or the process dead.
LEMMA LeftFails ==
  ASSUME NEW R \in SUBSET Peer, NEW id, R = {} \/ id \in Id, NEW run, NEW keys,
         keys = {EnvelopeKey[<<p, id>>] : p \in R} \/ run.ok, R = {} \/ ~run.ok,
         Left(run, keys)
  PROVE  Promise!Fails(R \X {id})
<1> DEFINE loose == {r \in Peer \X Id : EnvelopeKey[r] \in unsettled}
           after == {r \in Peer \X Id : EnvelopeKey[r] \in unsettled'}
<1>1. \/ unsettled' = {}
      \/ run.ok /\ unsettled' = unsettled
      \/ ~run.ok /\ unsettled' = unsettled \cup keys
  BY DEF Left, Dies
<1>2. CASE unsettled' = {}
  BY <1>2 DEF Promise!Fails
<1>3. CASE run.ok /\ unsettled' = unsettled
  <2>1. R \X {id} = {}
    BY <1>3
  <2> QED BY <1>3, <2>1 DEF Promise!Fails
<1>4. CASE ~run.ok /\ unsettled' = unsettled \cup keys
  <2>1. \A r \in Peer \X Id : EnvelopeKey[r] \in keys <=> r \in R \X {id}
    <3> SUFFICES ASSUME NEW q \in Peer, NEW i \in Id
                 PROVE  EnvelopeKey[<<q, i>>] \in keys <=> <<q, i>> \in R \X {id}
      OBVIOUS
    <3>1. EnvelopeKey[<<q, i>>] \in keys <=> \E p \in R : EnvelopeKey[<<q, i>>] = EnvelopeKey[<<p, id>>]
      BY <1>4
    <3>2. <<q, i>> \in R \X {id} <=> q \in R /\ i = id
      OBVIOUS
    <3>3. \A p \in R : EnvelopeKey[<<q, i>>] = EnvelopeKey[<<p, id>>] => q = p /\ i = id
      BY KeysDiffer
    <3> QED BY <3>1, <3>2, <3>3
  <2>2. R \X {id} \subseteq Peer \X Id
    OBVIOUS
  <2>3. after = loose \cup (R \X {id})
    BY <1>4, <2>1, <2>2
  <2> QED BY <2>3 DEF Promise!Fails
<1> QED BY <1>1, <1>2, <1>3, <1>4

\* Pruning is expiry in the mailbox.
LEMMA RunExpires ==
  ASSUME Books, NEW id, NEW run, From(mem, disk, run, {}, id),
         NEW keys, keys = {} \/ run.ok, Left(run, keys),
         UNCHANGED <<now, owed, confirmed, refused>>
  PROVE  Promise!Expire
<1>1. disk' = run.disk
  BY DEF Left, Dies
<1>2. Promise!Moves({} \X {id}, {})
  BY <1>1, RunMoves
<1>3. Promise!Fails({} \X {id})
  <2>1. keys = {EnvelopeKey[<<p, id>>] : p \in {}} \/ run.ok
    OBVIOUS
  <2> QED BY <2>1, LeftFails
<1>4. {} \X {id} = {}
  OBVIOUS
<1> QED BY <1>2, <1>3, <1>4 DEF Promise!Expire

\* A store request for some recipients, answered or not, with the process
\* alive or dead after it, is a post.
LEMMA PostStep ==
  ASSUME Books, up, NEW R \in SUBSET Peer, NEW id \in Id, NEW run, From(mem, disk, run, R, id),
         Left(run, {EnvelopeKey[<<p, id>>] : p \in R}),
         UNCHANGED <<now, confirmed, refused>>, arrivals' \in Nat,
         run.ok => \A p \in R : now >= mem.acked[EnvelopeKey[<<p, id>>]] =>
                     \E x \in Fresh(run.mem.store[p]) : x.id = id,
         \A o : o \in owed' <=> \/ o \in owed
                                \/ /\ run.ok
                                   /\ \E p \in R : /\ EnvelopeKey[<<p, id>>] \notin unsettled
                                                   /\ \E x \in Owing(run, p, id) :
                                                        o = [to |-> p, item |-> x]
  PROVE  Books' /\ Promise!Post(R, id)
<1> DEFINE keys == {EnvelopeKey[<<p, id>>] : p \in R}
           d == run.disk.store
           Mine(s, p) == {x \in Fresh(s[p]) : x.id = id}
<1>1. /\ Sound(d) /\ Sound(run.mem.store) /\ Accounts /\ disk' = run.disk
      /\ \A p \in R : EnvelopeKey[<<p, id>>] \in Key /\ EnvelopeKey[<<p, id>>] \in keys
  BY KeysDiffer DEF From, Good, Books, Left, Dies
<1>2. ASSUME run.ok, NEW p \in R
      PROVE  /\ Owing(run, p, id) = Mine(run.mem.store, p)
             /\ now >= refused[EnvelopeKey[<<p, id>>]] => \E x \in Mine(run.mem.store, p) : TRUE
  <2> DEFINE k == EnvelopeKey[<<p, id>>]
  <2>1. mem.acked[k] <= refused[k]
    BY <1>1 DEF Books, Remembers
  <2>2. mem.acked[k] \in Int /\ refused[k] \in Int /\ now \in Int
    BY <1>1 DEF Accounts, Good, Counts, Tombstones, None
  <2>3. now >= refused[k] => now >= mem.acked[k]
    <3> HIDE DEF k
    <3> QED BY <2>1, <2>2
  <2>4. now >= refused[k] => \E x \in Fresh(run.mem.store[p]) : x.id = id
    BY <1>2, <2>3
  <2>5. now >= refused[k] => Mine(run.mem.store, p) # {}
    BY <2>4
  <2> QED BY <2>4, <2>5 DEF Owing
<1>3. ASSUME run.ok, NEW p \in R, EnvelopeKey[<<p, id>>] \notin unsettled
      PROVE  Mine(run.mem.store, p) = Mine(d, p)
  <2>1. Agree(run.mem.store, d, unsettled)
    BY <1>3, FromAgree
  <2> QED BY <1>3, <2>1 DEF Agree, Fresh
<1>4. ASSUME NEW o \in owed', o \notin owed
      PROVE  /\ o \in [to : Peer, item : Item]
             /\ o.item \in run.mem.store[o.to] /\ o.item \in d[o.to]
  <2>1. PICK p \in R : /\ run.ok /\ EnvelopeKey[<<p, id>>] \notin unsettled
                       /\ \E x \in Owing(run, p, id) : o = [to |-> p, item |-> x]
    BY <1>4
  <2> PICK x \in Owing(run, p, id) : o = [to |-> p, item |-> x]
    BY <2>1
  <2>2. x \in Fresh(run.mem.store[p]) /\ x \in Fresh(d[p])
    <3>1. x \in Mine(run.mem.store, p) /\ x \in Mine(d, p)
      BY <1>2, <1>3, <2>1
    <3> QED BY <3>1
  <2>3. x \in run.mem.store[p] /\ x \in d[p] /\ x \in Item
    BY <1>1, <2>2, KeyOf DEF Fresh
  <2> QED BY <2>1, <2>3
<1>5. Books'
  <2>1. owed' \subseteq [to : Peer, item : Item]
    BY <1>1, <1>4 DEF Accounts
  <2>2. keys \in SUBSET Key /\ \A p \in R : EnvelopeKey[<<p, id>>] \in keys
    BY <1>1
  <2>3. Left(run, keys)
    OBVIOUS
  <2> HIDE DEF keys
  <2> QED BY <1>4, <2>1, <2>2, <2>3, RunKeepsBooks
<1>6. Promise!Moves(R \X {id}, {})
  BY <1>1, <1>4, RunMoves
<1>7. CASE ~run.ok
  <2>1. Promise!Fails(R \X {id})
    BY <1>7, LeftFails
  <2>2. owed' = owed
    BY <1>7
  <2> QED BY <1>5, <1>6, <2>1, <2>2 DEF Promise!Post
<1>8. CASE run.ok
  <2> DEFINE loose == {r \in Peer \X Id : EnvelopeKey[r] \in unsettled}
             told == {r \in R \X {id} : r \notin loose}
             Here(p) == {y \in Fresh(d[p]) : y.id = id}
             new == UNION {{[to |-> r[1], item |-> x] : x \in Here(r[1])} : r \in told}
             turned == [r \in Peer \X Id |-> refused[EnvelopeKey[r]]]
  <2>1. unsettled' = unsettled /\ disk'.store = d
    BY <1>1, <1>8 DEF Left
  <2>2. \A p : <<p, id>> \in told <=> p \in R /\ EnvelopeKey[<<p, id>>] \notin unsettled
    OBVIOUS
  <2>3. \A r \in told : r = <<r[1], id>> /\ r[1] \in R
    OBVIOUS
  <2> HIDE DEF told
  <2>4. \A o : o \in new <=> \E p \in R : /\ EnvelopeKey[<<p, id>>] \notin unsettled
                                          /\ \E x \in Here(p) : o = [to |-> p, item |-> x]
    <3> HIDE DEF Here
    <3>1. \A o : o \in new <=> \E r \in told : \E x \in Here(r[1]) : o = [to |-> r[1], item |-> x]
      OBVIOUS
    <3>2. ASSUME NEW o, NEW p \in R, EnvelopeKey[<<p, id>>] \notin unsettled,
                 NEW x \in Here(p), o = [to |-> p, item |-> x]
          PROVE  o \in new
      <4> DEFINE r == <<p, id>>
      <4>1. r \in told /\ r[1] = p
        BY <2>2, <3>2
      <4> HIDE DEF r
      <4>2. x \in Here(r[1]) /\ o = [to |-> r[1], item |-> x]
        BY <3>2, <4>1
      <4> QED BY <3>1, <4>1, <4>2
    <3>3. ASSUME NEW o \in new
          PROVE  \E p \in R : /\ EnvelopeKey[<<p, id>>] \notin unsettled
                              /\ \E y \in Here(p) : o = [to |-> p, item |-> y]
      <4> PICK r \in told : \E x \in Here(r[1]) : o = [to |-> r[1], item |-> x]
        BY <3>1, <3>3
      <4> PICK x \in Here(r[1]) : o = [to |-> r[1], item |-> x]
        OBVIOUS
      <4> DEFINE p == r[1]
      <4>1. p \in R /\ r = <<p, id>>
        BY <2>3
      <4> HIDE DEF p
      <4>2. EnvelopeKey[<<p, id>>] \notin unsettled
        BY <2>2, <4>1
      <4>3. x \in Here(p) /\ o = [to |-> p, item |-> x]
        BY DEF p
      <4> QED BY <4>1, <4>2, <4>3
    <3> HIDE DEF new, told
    <3>4. ASSUME NEW o, \E p \in R : /\ EnvelopeKey[<<p, id>>] \notin unsettled
                                     /\ \E x \in Here(p) : o = [to |-> p, item |-> x]
          PROVE  o \in new
      BY <3>2, <3>4
    <3> QED BY <3>3, <3>4
  <2>5. owed' = owed \cup new
    <3>1. \A p \in R : EnvelopeKey[<<p, id>>] \notin unsettled => Owing(run, p, id) = Here(p)
      BY <1>2, <1>3, <1>8
    <3> HIDE DEF Here, new
    <3>2. \A o : o \in owed' <=> o \in owed \/ o \in new
      BY <1>8, <2>4, <3>1
    <3> QED BY <3>2
  <2>6. ASSUME NEW r \in told, now >= turned[r]
        PROVE  \E x \in Fresh(d[r[1]]) : x.id = id
    <3> DEFINE p == r[1]
    <3>1. p \in R /\ r = <<p, id>> /\ EnvelopeKey[<<p, id>>] \notin unsettled
      BY <2>2, <2>3
    <3>2. turned[<<p, id>>] = refused[EnvelopeKey[<<p, id>>]]
      BY <3>1
    <3> HIDE DEF p
    <3>3. now >= refused[EnvelopeKey[<<p, id>>]]
      BY <2>6, <3>1, <3>2
    <3>4. \E x \in Mine(d, p) : TRUE
      BY <1>2, <1>3, <1>8, <3>1, <3>3
    <3> QED BY <3>1, <3>4 DEF p
  <2>7. \A r \in told : now >= turned[r] =>
          \E x \in {y \in disk'.store[r[1]] : y.at >= now - MsgTTL} : x.id = id
    BY <2>1, <2>6 DEF Fresh
  <2>8. owed' = owed \cup UNION {{[to |-> r[1], item |-> x] :
                  x \in {y \in {z \in disk'.store[r[1]] : z.at >= now - MsgTTL} : y.id = id}} : r \in told}
    BY <2>1, <2>5 DEF Fresh
  <2>9. told = {r \in R \X {id} : r \notin loose} /\ now' = now /\ confirmed' = confirmed
        /\ refused' = refused
    BY DEF told
  <2> HIDE DEF d, Here, new
  <2> QED BY <1>5, <1>6, <2>1, <2>7, <2>8, <2>9 DEF Promise!Post, Promise!Live
<1> QED BY <1>7, <1>8

\* An acknowledgement, answered or not, with the process alive or dead after
\* it, is a withdrawal.
LEMMA AckStep ==
  ASSUME Books, up, NEW to \in Peer, NEW id \in Id, NEW run, Acks(mem, disk, run, to, id),
         Left(run, {EnvelopeKey[<<to, id>>]}),
         confirmed' = IF run.ok /\ EnvelopeKey[<<to, id>>] \notin unsettled
                      THEN [confirmed EXCEPT ![EnvelopeKey[<<to, id>>]] = now + AckTTL]
                      ELSE confirmed,
         refused' = [refused EXCEPT ![EnvelopeKey[<<to, id>>]] = now + AckTTL],
         owed' = {o \in owed : ~(o.to = to /\ o.item.id = id)},
         UNCHANGED <<now, arrivals>>
  PROVE  Books' /\ Promise!Withdraw(to, id)
<1> DEFINE k == EnvelopeKey[<<to, id>>]
           s == run.mem.store
           d == run.disk.store
           M == mem.store
           D == disk.store
           until == now + AckTTL
<1>1. /\ Accounts /\ k \in Key /\ until \in Nat /\ now \in Nat /\ now' = now
      /\ Sound(M) /\ Sound(D) /\ Sound(s) /\ Sound(d)
  BY KeysDiffer, RetentionAssumption DEF Books, Accounts, Counts, Good, Acks
<1>2. \A j \in Key : /\ confirmed[j] \in Int /\ refused[j] \in Int
                     /\ mem.acked[j] \in Int /\ disk.acked[j] \in Int
                     /\ confirmed[j] <= refused[j] /\ refused[j] <= until
  BY <1>1 DEF Books, Recent, Accounts, Good, Tombstones, None
<1>3. /\ \A j \in Key : confirmed'[j] = IF j = k /\ run.ok /\ k \notin unsettled THEN until
                                       ELSE confirmed[j]
      /\ \A j \in Key : refused'[j] = IF j = k THEN until ELSE refused[j]
  <2>1. confirmed \in [Key -> Int] /\ refused \in [Key -> Int]
    BY <1>1 DEF Accounts, Tombstones, None
  <2> HIDE DEF k, until
  <2>2. /\ confirmed' = IF run.ok /\ k \notin unsettled THEN [confirmed EXCEPT ![k] = until]
                       ELSE confirmed
        /\ refused' = [refused EXCEPT ![k] = until]
    BY DEF k, until
  <2>3. \A j \in Key : refused'[j] = IF j = k THEN until ELSE refused[j]
    BY <2>1, <2>2
  <2>4. CASE run.ok /\ k \notin unsettled
    BY <2>1, <2>2, <2>3, <2>4
  <2>5. CASE ~(run.ok /\ k \notin unsettled)
    BY <2>1, <2>2, <2>3, <2>5
  <2> QED BY <2>4, <2>5
<1>4. /\ disk' = run.disk
      /\ \/ up' = TRUE /\ crashes' = crashes /\ mem' = run.mem
         \/ up' = FALSE /\ crashes' = crashes + 1 /\ mem' = run.disk /\ unsettled' = {}
  BY DEF Left, Dies
<1>5. /\ s = M \/ Without(mem, s, to, id)
      /\ d = D \/ (d = s /\ Without(mem, s, to, id))
      /\ run.ok => /\ run.disk.acked = run.mem.acked
                   /\ Without(mem, s, to, id)
                   /\ d = s \/ s = M
  BY DEF Acks
<1>6. Agree(M, D, unsettled) /\ AllClear(M) /\ Clear(D) /\ Holds(M) /\ Holds(D)
  BY DEF Books
<1>7. \A p \in Peer, i \in Id : EnvelopeKey[<<p, i>>] = k => p = to /\ i = id
  BY KeysDiffer
\* Nothing but the message goes, and nothing but loose messages comes.
<1>8. \A p \in Peer : s[p] \subseteq M[p]
  BY <1>5 DEF Without
<1>9. \A p \in Peer : \A x \in M[p] : x \in s[p] \/ (p = to /\ x.id = id)
  BY <1>5 DEF Without
<1>10. \A p \in Peer : d[p] \subseteq D[p] \/ d[p] \subseteq M[p]
  BY <1>5 DEF Without
\* Once it has gone through, the message is gone from memory and disk.
<1>11. ASSUME run.ok, k \notin unsettled
       PROVE  (\A x \in s[to] : x.id # id) /\ (\A x \in Fresh(d[to]) : x.id # id)
  <2>1. \A x \in s[to] : x.id # id
    BY <1>5, <1>11 DEF Without
  <2>2. CASE d = s
    BY <2>1, <2>2 DEF Fresh
  <2>3. CASE d = D /\ s = M
    <3>1. \A x \in Fresh(D[to]) : x.id = id => x \in M[to]
      BY <1>6, <1>11 DEF Agree
    <3> QED BY <2>1, <2>3, <3>1
  <2> QED BY <1>5, <1>11, <2>1, <2>2, <2>3
<1> HIDE DEF k, s, d, M, D, until
<1>12. Accounts'
  <2>1. Good(run.mem) /\ Good(run.disk)
    BY DEF Acks
  <2>2. Good(mem)' /\ Good(disk)'
    <3>1. mem' = run.mem \/ mem' = run.disk
      BY <1>4
    <3>2. Good(mem') /\ Good(disk')
      BY <1>4, <2>1, <3>1
    <3> QED BY <3>2 DEF Good, Shaped, Pair, Triple, Sound, Tombstones
  <2>3. unsettled' \subseteq Key
    <3>1. unsettled' = {} \/ unsettled' = unsettled \/ unsettled' = unsettled \cup {k}
      BY DEF Left, Dies, k
    <3> QED BY <1>1, <3>1 DEF Accounts
  <2>4. up' \in BOOLEAN
    BY <1>4
  <2>5. crashes' \in Nat
    <3>1. crashes' = crashes \/ crashes' = crashes + 1
      BY <1>4
    <3> QED BY <1>1, <3>1 DEF Accounts
  <2>6. confirmed' \in Tombstones /\ refused' \in Tombstones
    <3>1. confirmed \in Tombstones /\ refused \in Tombstones /\ until \in Nat \cup {None}
      BY <1>1 DEF Accounts
    <3>2. [confirmed EXCEPT ![k] = until] \in Tombstones /\ [refused EXCEPT ![k] = until] \in Tombstones
      BY <1>1, <3>1 DEF Tombstones
    <3>3. refused' = [refused EXCEPT ![k] = until]
      BY DEF k, until
    <3>4. confirmed' = [confirmed EXCEPT ![k] = until] \/ confirmed' = confirmed
      BY DEF k, until
    <3> QED BY <3>1, <3>2, <3>3, <3>4
  <2>7. (confirmed \in Tombstones /\ refused \in Tombstones)'
    BY <2>6 DEF Tombstones
  <2>8. owed' \subseteq [to : Peer, item : Item]
    BY <1>1 DEF Accounts
  <2> QED BY <1>1, <2>2, <2>3, <2>4, <2>5, <2>7, <2>8 DEF Accounts, Counts
<1>13. Remembers(mem.acked)' /\ Remembers(disk.acked)' /\ Recent'
  <2> DEFINE Remembered(t) ==
        \A j \in Key : t[j] <= refused'[j] /\ (now < confirmed'[j] => t[j] >= confirmed'[j])
  <2>1. \A j \in Key : run.mem.acked[j] = IF j = k THEN until ELSE mem.acked[j]
    BY DEF Acks, Marked, k, until
  <2>2. Remembers(mem.acked) /\ Remembers(disk.acked)
    BY DEF Books
  <2>3. Remembered(run.mem.acked)
    BY <1>1, <1>2, <1>3, <2>1, <2>2 DEF Remembers
  <2>4. Remembered(run.disk.acked)
    <3>1. CASE run.disk.acked = run.mem.acked
      BY <2>3, <3>1
    <3>2. CASE run.disk.acked = disk.acked /\ ~run.ok
      BY <1>1, <1>2, <1>3, <2>2, <3>2 DEF Remembers
    <3> QED BY <1>5, <3>1, <3>2 DEF Acks
  <2>5. \A j \in Key : confirmed'[j] <= refused'[j] /\ refused'[j] <= now + AckTTL
    BY <1>1, <1>2, <1>3 DEF until
  <2>6. Remembered(mem'.acked) /\ Remembered(disk'.acked)
    <3>1. mem'.acked = run.mem.acked \/ mem'.acked = run.disk.acked
      BY <1>4
    <3> QED BY <1>4, <2>3, <2>4, <3>1
  <2> QED BY <1>1, <2>5, <2>6 DEF Remembers, Recent
<1>14. \A o \in owed' : /\ o.item \in s[o.to] \/ o.item.at < now - MsgTTL
                        /\ o.item \in d[o.to] \/ o.item.at < now - MsgTTL
  <2> SUFFICES ASSUME NEW o \in owed', ~(o.item.at < now - MsgTTL)
               PROVE  o.item \in s[o.to] /\ o.item \in d[o.to]
    OBVIOUS
  <2>1. o \in owed /\ ~(o.to = to /\ o.item.id = id) /\ o.to \in Peer
    BY <1>1 DEF Accounts
  <2>2. o.item \in M[o.to] /\ o.item \in D[o.to]
    BY <1>6, <2>1 DEF Holds
  <2>3. o.item \in s[o.to]
    BY <1>9, <2>1, <2>2
  <2> QED BY <1>5, <2>2, <2>3
<1>15. Holds(mem.store)' /\ Holds(disk.store)'
  <2>1. mem'.store = s \/ mem'.store = d
    BY <1>4 DEF s, d
  <2>2. disk'.store = d
    BY <1>4 DEF d
  <2> QED BY <1>1, <1>14, <2>1, <2>2 DEF Holds
<1>16. Clear(disk.store)'
  <2>1. disk'.store = d
    BY <1>4 DEF d
  <2> SUFFICES ASSUME NEW p \in Peer, NEW i \in Id, now < confirmed'[EnvelopeKey[<<p, i>>]],
                      NEW x \in Fresh(d[p])
               PROVE  x.id # i
    BY <1>1, <2>1 DEF Clear, Fresh
  <2>2. EnvelopeKey[<<p, i>>] \in Key
    BY KeysDiffer
  <2>3. CASE EnvelopeKey[<<p, i>>] = k /\ run.ok /\ k \notin unsettled
    BY <1>7, <1>11, <2>3
  <2>4. CASE ~(EnvelopeKey[<<p, i>>] = k /\ run.ok /\ k \notin unsettled)
    <3>1. now < confirmed[EnvelopeKey[<<p, i>>]]
      BY <1>3, <2>2, <2>4
    <3>2. x \in Fresh(D[p]) \/ x \in M[p]
      BY <1>10 DEF Fresh
    <3> QED BY <1>6, <3>1, <3>2 DEF Clear, AllClear
  <2> QED BY <2>3, <2>4
<1>17. ASSUME up'
       PROVE  AllClear(mem.store)'
  <2>1. mem'.store = s
    BY <1>4, <1>17 DEF s
  <2> SUFFICES ASSUME NEW p \in Peer, NEW i \in Id, now < confirmed'[EnvelopeKey[<<p, i>>]],
                      NEW x \in s[p]
               PROVE  x.id # i
    BY <1>1, <2>1 DEF AllClear
  <2>2. EnvelopeKey[<<p, i>>] \in Key
    BY KeysDiffer
  <2>3. CASE EnvelopeKey[<<p, i>>] = k /\ run.ok /\ k \notin unsettled
    BY <1>7, <1>11, <2>3
  <2>4. CASE ~(EnvelopeKey[<<p, i>>] = k /\ run.ok /\ k \notin unsettled)
    <3>1. now < confirmed[EnvelopeKey[<<p, i>>]]
      BY <1>3, <2>2, <2>4
    <3> QED BY <1>6, <1>8, <3>1 DEF AllClear
  <2> QED BY <2>3, <2>4
<1>18. /\ run.ok => Agree(s, d, unsettled)
       /\ Agree(s, d, unsettled \cup {k})
  <2>1. CASE d = s
    BY <2>1 DEF Agree, Fresh
  <2>2. CASE d = D
    <3>1. ASSUME NEW p \in Peer, NEW x \in Fresh(d[p]), x \notin s[p]
          PROVE  EnvelopeKey[<<p, x.id>>] \in unsettled \cup {k}
      BY <1>6, <1>9, <2>2, <3>1 DEF Agree, k
    <3>2. ASSUME NEW p \in Peer, NEW x \in s[p], x \notin d[p]
          PROVE  EnvelopeKey[<<p, x.id>>] \in unsettled
      BY <1>6, <1>8, <2>2, <3>2 DEF Agree
    <3>3. Agree(s, d, unsettled \cup {k})
      BY <3>1, <3>2 DEF Agree
    <3>4. run.ok => Agree(s, d, unsettled)
      BY <1>5, <1>6, <2>1, <2>2
    <3> QED BY <3>3, <3>4
  <2> QED BY <1>5, <2>1, <2>2
<1>19. Agree(mem.store, disk.store, unsettled)'
  <2>1. CASE up' = FALSE
    <3>1. mem'.store = disk'.store
      BY <1>4, <2>1
    <3> QED BY <3>1 DEF Agree, Fresh
  <2>2. CASE up' = TRUE
    <3>1. unsettled' = IF run.ok THEN unsettled ELSE unsettled \cup {k}
      BY <2>2 DEF Left, Dies, k
    <3>2. mem'.store = s /\ disk'.store = d
      BY <1>4, <2>2 DEF s, d
    <3>3. Agree(s, d, unsettled')
      BY <1>18, <3>1
    <3> QED BY <1>1, <3>2, <3>3 DEF Agree, Fresh
  <2> QED BY <1>4, <2>1, <2>2
<1>20. ~up' => mem' = disk' /\ unsettled' = {}
  BY <1>4
<1>21. Books'
  BY <1>12, <1>13, <1>15, <1>16, <1>17, <1>19, <1>20 DEF Books
<1> DEFINE r == <<to, id>>
           withdrawn == [q \in Peer \X Id |-> confirmed[EnvelopeKey[q]]]
           turned == [q \in Peer \X Id |-> refused[EnvelopeKey[q]]]
           loose == {q \in Peer \X Id : EnvelopeKey[q] \in unsettled}
<1>22. r \in Peer \X Id /\ EnvelopeKey[r] = k /\ (r \in loose <=> k \in unsettled)
       /\ \A q \in Peer \X Id : EnvelopeKey[q] \in Key /\ (EnvelopeKey[q] = k <=> q = r)
  <2>1. r \in Peer \X Id /\ EnvelopeKey[r] = k
    BY DEF k
  <2>2. \A q \in Peer \X Id : EnvelopeKey[q] \in Key /\ (EnvelopeKey[q] = EnvelopeKey[r] => q = r)
    BY <2>1, KeyAssumption
  <2> HIDE DEF r
  <2> QED BY <2>1, <2>2
<1>23. [q \in Peer \X Id |-> refused'[EnvelopeKey[q]]] = [turned EXCEPT ![r] = until]
  <2> HIDE DEF r
  <2>1. \A q \in Peer \X Id : refused'[EnvelopeKey[q]] = IF q = r THEN until ELSE turned[q]
    BY <1>3, <1>22
  <2> QED BY <2>1
<1>24. [q \in Peer \X Id |-> confirmed'[EnvelopeKey[q]]] =
          IF run.ok /\ r \notin loose THEN [withdrawn EXCEPT ![r] = until] ELSE withdrawn
  <2> HIDE DEF r, loose
  <2>1. \A q \in Peer \X Id : confirmed'[EnvelopeKey[q]] =
           IF q = r /\ run.ok /\ r \notin loose THEN until ELSE withdrawn[q]
    BY <1>3, <1>22
  <2>2. CASE run.ok /\ r \notin loose
    <3>1. \A q \in Peer \X Id : confirmed'[EnvelopeKey[q]] = IF q = r THEN until ELSE withdrawn[q]
      BY <2>1, <2>2
    <3>2. [q \in Peer \X Id |-> confirmed'[EnvelopeKey[q]]] = [withdrawn EXCEPT ![r] = until]
      BY <3>1
    <3> HIDE DEF withdrawn
    <3> QED BY <2>2, <3>2
  <2>3. CASE ~(run.ok /\ r \notin loose)
    <3>1. \A q \in Peer \X Id : confirmed'[EnvelopeKey[q]] = confirmed[EnvelopeKey[q]]
      BY <2>1, <2>3
    <3>2. [q \in Peer \X Id |-> confirmed'[EnvelopeKey[q]]] = withdrawn
      BY <3>1
    <3> HIDE DEF withdrawn
    <3> QED BY <2>3, <3>2
  <2> QED BY <2>2, <2>3
<1>25. Promise!Moves({}, {r})
  <2>1. disk'.store = d /\ disk.store = D
    BY <1>4 DEF d, D
  <2>2. ASSUME NEW p \in Peer, NEW x \in d[p] \ D[p]
        PROVE  now >= withdrawn[<<p, x.id>>] /\ <<p, x.id>> \in loose
    <3>1. x \in M[p]
      BY <1>10, <2>2
    <3>2. x.id \in Id
      BY <1>1, <3>1, KeyOf
    <3>3. EnvelopeKey[<<p, x.id>>] \in unsettled
      BY <1>6, <2>2, <3>1 DEF Agree
    <3>4. ~(now < confirmed[EnvelopeKey[<<p, x.id>>]])
      BY <1>6, <3>1, <3>2 DEF AllClear
    <3>5. confirmed[EnvelopeKey[<<p, x.id>>]] \in Int
      BY <1>2, <3>2, KeysDiffer
    <3>6. withdrawn[<<p, x.id>>] = confirmed[EnvelopeKey[<<p, x.id>>]]
      BY <3>2
    <3>7. now >= withdrawn[<<p, x.id>>]
      BY <1>1, <3>4, <3>5, <3>6
    <3> QED BY <3>2, <3>3, <3>7
  <2>3. ASSUME NEW p \in Peer, NEW x \in Fresh(D[p]) \ d[p]
        PROVE  <<p, x.id>> \in loose \cup {r}
    <3>1. x.id \in Id
      BY <1>1, KeyOf DEF Fresh
    <3>2. CASE x \in M[p]
      <4>1. d = s /\ x \notin s[p]
        BY <1>5, <2>3 DEF Fresh
      <4>2. p = to /\ x.id = id
        BY <1>9, <3>2, <4>1
      <4> QED BY <4>2
    <3>3. CASE x \notin M[p]
      <4>1. EnvelopeKey[<<p, x.id>>] \in unsettled
        BY <1>6, <2>3, <3>3 DEF Agree
      <4> QED BY <3>1, <4>1
    <3> QED BY <3>2, <3>3
  <2>4. ASSUME NEW o \in owed', o.item.at >= now - MsgTTL
        PROVE  o.item \in d[o.to]
    <3>1. o.item \in d[o.to] \/ o.item.at < now - MsgTTL
      BY <1>14
    <3>2. o.item.at \in Nat /\ now - MsgTTL \in Int
      BY <1>1, RetentionAssumption DEF Accounts, Item
    <3> QED BY <2>4, <3>1, <3>2
  <2> HIDE DEF r
  <2> QED BY <2>1, <2>2, <2>3, <2>4 DEF Promise!Moves, Promise!Live, Fresh
<1>26. CASE ~run.ok
  <2>1. Promise!Fails({to} \X {id})
    <3>1. {k} = {EnvelopeKey[<<p, id>>] : p \in {to}}
      BY DEF k
    <3>2. Left(run, {k})
      BY DEF k
    <3> QED BY <1>26, <3>1, <3>2, LeftFails
  <2>2. {to} \X {id} = {r}
    OBVIOUS
  <2>3. [q \in Peer \X Id |-> confirmed'[EnvelopeKey[q]]] = withdrawn
    BY <1>24, <1>26
  <2>4. Promise!Fails({r})
    BY <2>1, <2>2
  <2> HIDE DEF withdrawn, turned
  <2> QED BY <1>1, <1>21, <1>23, <1>25, <2>3, <2>4 DEF Promise!Withdraw, withdrawn, turned, until
<1>27. CASE run.ok
  <2>1. unsettled' = unsettled
    BY <1>27 DEF Left
  <2>2. r \notin loose => \A x \in Fresh(d[to]) : x.id # id
    BY <1>11, <1>22, <1>27
  <2>3. disk'.store = d
    BY <1>4 DEF d
  <2>5. r \notin loose => \A x \in {y \in disk'.store[to] : y.at >= now' - MsgTTL} : x.id # id
    BY <1>1, <2>2, <2>3 DEF Fresh
  <2>6. [q \in Peer \X Id |-> confirmed'[EnvelopeKey[q]]] =
          IF r \in loose THEN withdrawn ELSE [withdrawn EXCEPT ![r] = until]
    BY <1>24, <1>27
  <2> HIDE DEF d
  <2> QED BY <1>1, <1>21, <1>23, <1>25, <2>1, <2>5, <2>6 DEF Promise!Withdraw, Promise!Live, until
<1> QED BY <1>26, <1>27
---------------------------------------------------------------------------
(* The steps of the relay. *)

\* The maps are of the kind they were, with the same memberships, in memory
\* or in what the disk holds for the next process.
Steady ==
  /\ Like(disk, disk')
  /\ Like(mem, mem') \/ mem' = disk'

LEMMA LeftSteady ==
  ASSUME NEW run, NEW keys, Left(run, keys), Like(mem, run.mem), Like(disk, run.disk)
  PROVE  Steady
BY DEF Left, Dies, Steady

\* Everything that is in a queue, in memory or on disk.
Seen(p) == mem.store[p] \cup disk.store[p]

\* A queue gains at most the entry of a request, and of what is fresh on disk
\* only the messages lost leave its memory.
Advances(p, lost) ==
  /\ \/ Seen(p)' \subseteq Seen(p) /\ (arrivals' = arrivals \/ arrivals' = arrivals + 1)
     \/ arrivals' = arrivals + 1 /\ \E id \in Id : Seen(p)' \subseteq Seen(p) \cup {NewItem(id)}
  /\ \A x \in Fresh(disk'.store[p]) \ mem'.store[p] :
       x \in disk.store[p] \ mem.store[p] \/ x.id \in lost

LEMMA LeftAdvances ==
  ASSUME NEW R, NEW id, NEW run, From(mem, disk, run, R, id),
         NEW keys, Left(run, keys), NEW p \in Peer,
         \/ R = {} /\ arrivals' = arrivals
         \/ id \in Id /\ arrivals' = arrivals + 1
  PROVE  Advances(p, {})
<1> DEFINE s == run.mem.store
           d == run.disk.store
<1>1. /\ disk'.store = d
      /\ mem'.store = s \/ mem'.store = d
  BY DEF Left, Dies
<1>2. Grown(mem, s, R, id) /\ (d = disk.store \/ (Grown(mem, d, R, id) /\ Covers(d, s, R, id)))
  BY DEF From
<1> HIDE DEF s, d
<1>3. /\ \A x \in s[p] : x \in Seen(p) \/ (p \in R /\ x = NewItem(id))
      /\ \A x \in d[p] : x \in Seen(p) \/ (p \in R /\ x = NewItem(id))
  BY <1>2 DEF Grown, Seen
<1>4. Seen(p)' = mem'.store[p] \cup disk'.store[p]
  BY DEF Seen
<1>5. \A x \in Seen(p)' : x \in Seen(p) \/ (p \in R /\ x = NewItem(id))
  BY <1>1, <1>3, <1>4
<1>6. ASSUME NEW x \in Fresh(d[p]), x \notin s[p]
      PROVE  x \in disk.store[p] /\ x \notin mem.store[p]
  <2>1. x \notin mem.store[p]
    BY <1>2, <1>6 DEF Grown, Fresh
  <2>2. d = disk.store
    BY <1>2, <1>6 DEF Covers
  <2> QED BY <2>1, <2>2 DEF Fresh
<1>7. \A x \in Fresh(disk'.store[p]) \ mem'.store[p] : x \in disk.store[p] \ mem.store[p]
  BY <1>1, <1>6 DEF Fresh
<1>8. CASE R = {} /\ arrivals' = arrivals
  <2>1. Seen(p)' \subseteq Seen(p)
    BY <1>5, <1>8
  <2> QED BY <1>7, <1>8, <2>1 DEF Advances
<1>9. CASE id \in Id /\ arrivals' = arrivals + 1
  <2>1. Seen(p)' \subseteq Seen(p) \cup {NewItem(id)}
    BY <1>5
  <2> QED BY <1>7, <1>9, <2>1 DEF Advances
<1> QED BY <1>8, <1>9

\* A step that only prunes, or is a handler refused after pruning.
LEMMA PruneStep ==
  ASSUME Books, NEW run, NEW id, From(mem, disk, run, {}, id),
         NEW keys \in SUBSET Key, keys = {} \/ run.ok, Left(run, keys),
         \/ up \/ up' = FALSE
         \/ \A p \in Peer : Fresh(run.mem.store[p]) = run.mem.store[p],
         UNCHANGED <<now, owed, confirmed, refused>>, arrivals' \in Nat
  PROVE  Books' /\ Promise!Expire
<1>1. owed' \subseteq [to : Peer, item : Item]
  BY DEF Books, Accounts
<1> DEFINE R == {}
<1>2. R = {} /\ From(mem, disk, run, R, id) /\ \A p \in R : EnvelopeKey[<<p, id>>] \in keys
  OBVIOUS
<1>3. \A o \in owed' : \/ o \in owed
                       \/ o.item \in run.mem.store[o.to] /\ o.item \in run.disk.store[o.to]
  OBVIOUS
<1>4. Books'
  <2> HIDE DEF R
  <2> QED BY <1>1, <1>2, <1>3, RunKeepsBooks
<1>5. Promise!Expire
  BY RunExpires
<1> QED BY <1>4, <1>5

LEMMA StoreHandled ==
  ASSUME Books, NEW to \in Peer, NEW id \in Id, Store(to, id)
  PROVE  Books' /\ Promise!Post({to}, id) /\ Steady /\ \A p \in Peer : Advances(p, {})
<1> DEFINE k == EnvelopeKey[<<to, id>>]
<1>1. Counts /\ Good(mem) /\ Good(disk) /\ up \in BOOLEAN /\ up /\ arrivals' \in Nat
      /\ UNCHANGED <<now, confirmed, refused>>
  BY DEF Books, Accounts, Counts, Store
<1>2. PICK run \in StoreRuns(to, id) :
        /\ Serves(run, {k})
        /\ owed' = IF run.ok /\ k \notin unsettled
                   THEN owed \cup {[to |-> to, item |-> x] : x \in Owing(run, to, id)}
                   ELSE owed
  BY DEF Store
<1>3. /\ From(mem, disk, run, {to}, id)
      /\ Like(mem, run.mem) /\ Like(disk, run.disk)
      /\ run.ok /\ now >= mem.acked[k] => \E x \in Fresh(run.mem.store[to]) : x.id = id
  BY <1>1, StoreRunsFrom
<1>4. Left(run, {k})
  <2> HIDE DEF k
  <2> QED BY <1>1, <1>2, ServesLeft
<1>5. Steady
  BY <1>3, <1>4, LeftSteady
<1>6. {k} = {EnvelopeKey[<<p, id>>] : p \in {to}}
  OBVIOUS
<1>7. run.ok => \A p \in {to} : now >= mem.acked[EnvelopeKey[<<p, id>>]] =>
                   \E x \in Fresh(run.mem.store[p]) : x.id = id
  BY <1>3
<1>8. \A o : o \in owed' <=> \/ o \in owed
                             \/ /\ run.ok
                                /\ \E p \in {to} : /\ EnvelopeKey[<<p, id>>] \notin unsettled
                                                   /\ \E x \in Owing(run, p, id) :
                                                        o = [to |-> p, item |-> x]
  BY <1>2
<1>9. {to} \in SUBSET Peer /\ Left(run, {EnvelopeKey[<<p, id>>] : p \in {to}})
  BY <1>4, <1>6
<1> HIDE DEF k
<1>10. Books' /\ Promise!Post({to}, id)
  BY <1>1, <1>3, <1>7, <1>8, <1>9, PostStep
<1>11. \A p \in Peer : Advances(p, {})
  BY <1>3, <1>4, LeftAdvances DEF Store
<1> QED BY <1>5, <1>10, <1>11

LEMMA AckHandled ==
  ASSUME Books, NEW to \in Peer, NEW id \in Id, Ack(to, id)
  PROVE  /\ Books' /\ Promise!Withdraw(to, id) /\ Steady
         /\ \A p \in Peer : Advances(p, IF p = to THEN {id} ELSE {})
<1> DEFINE k == EnvelopeKey[<<to, id>>]
<1>1. Counts /\ Good(mem) /\ Good(disk) /\ up \in BOOLEAN /\ up
      /\ UNCHANGED <<now, arrivals>>
      /\ refused' = [refused EXCEPT ![k] = now + AckTTL]
      /\ owed' = {o \in owed : ~(o.to = to /\ o.item.id = id)}
  BY DEF Books, Accounts, Ack
<1>2. PICK run \in AckRuns(to, id) :
        /\ Serves(run, {k})
        /\ confirmed' = IF run.ok /\ k \notin unsettled
                        THEN [confirmed EXCEPT ![k] = now + AckTTL] ELSE confirmed
  BY DEF Ack
<1>3. Acks(mem, disk, run, to, id) /\ Like(mem, run.mem) /\ Like(disk, run.disk)
  BY <1>1, AckRunsAck
<1>4. Left(run, {k})
  <2> HIDE DEF k
  <2> QED BY <1>1, <1>2, ServesLeft
<1>5. Steady
  BY <1>3, <1>4, LeftSteady
<1>6. Books' /\ Promise!Withdraw(to, id)
  BY <1>1, <1>2, <1>3, <1>4, AckStep
<1>7. ASSUME NEW p \in Peer
      PROVE  Advances(p, IF p = to THEN {id} ELSE {})
  <2> DEFINE s == run.mem.store
             d == run.disk.store
  <2>1. /\ disk'.store = d
        /\ mem'.store = s \/ mem'.store = d
    BY <1>4 DEF Left, Dies
  <2>2. /\ s = mem.store \/ Without(mem, s, to, id)
        /\ d = disk.store \/ (d = s /\ Without(mem, s, to, id))
    BY <1>3 DEF Acks
  <2> HIDE DEF s, d
  <2>3. s[p] \subseteq mem.store[p] /\ (d[p] \subseteq disk.store[p] \/ d[p] = s[p])
        /\ \A x \in mem.store[p] : x \in s[p] \/ (p = to /\ x.id = id)
    BY <2>2 DEF Without
  <2>4. Seen(p)' \subseteq Seen(p) /\ arrivals' = arrivals
    BY <1>1, <2>1, <2>3 DEF Seen
  <2>5. \A x \in Fresh(disk'.store[p]) \ mem'.store[p] :
           x \in disk.store[p] \ mem.store[p] \/ (p = to /\ x.id = id)
    BY <2>1, <2>2, <2>3 DEF Fresh
  <2> QED BY <2>4, <2>5 DEF Advances
<1> QED BY <1>5, <1>6, <1>7

\* pruneRecipient answers a poll, whether the answer arrives or not.
LEMMA PollHandled ==
  ASSUME Books, NEW to \in Peer, NEW run \in PruneRecipient(Begin(mem, disk), to),
         up, Serves(run, {}), UNCHANGED <<now, arrivals, owed, confirmed, refused>>
  PROVE  Books' /\ Promise!Expire /\ Steady /\ \A p \in Peer : Advances(p, {})
<1>1. Good(mem) /\ Good(disk) /\ up \in BOOLEAN /\ arrivals' \in Nat
  BY DEF Books, Accounts, Counts
<1>2. From(mem, disk, Begin(mem, disk), {}, 0)
      /\ Begin(mem, disk).mem = mem /\ Begin(mem, disk).disk = disk
  BY <1>1, BeginFrom DEF Begin
<1>3. From(mem, disk, run, {}, 0) /\ Like(mem, run.mem) /\ Like(disk, run.disk)
  BY <1>2, PruneRecipientFrom
<1>4. Left(run, {})
  BY <1>1, ServesLeft
<1>5. Steady
  BY <1>3, <1>4, LeftSteady
<1>6. Books' /\ Promise!Expire
  BY <1>1, <1>3, <1>4, PruneStep
<1>7. \A p \in Peer : Advances(p, {})
  BY <1>3, <1>4, LeftAdvances
<1> QED BY <1>5, <1>6, <1>7

LEMMA FetchHandled ==
  ASSUME Books, NEW to \in Peer, Fetch(to)
  PROVE  Books' /\ Promise!Expire /\ Steady /\ \A p \in Peer : Advances(p, {})
<1>1. up /\ UNCHANGED <<now, arrivals, owed, confirmed, refused>>
  BY DEF Fetch
<1>2. PICK run \in PruneRecipient(Begin(mem, disk), to) : Serves(run, {})
  BY DEF Fetch
<1> QED BY <1>1, <1>2, PollHandled

LEMMA TimerHandled ==
  ASSUME Books, PruneTimer
  PROVE  Books' /\ Promise!Expire /\ Steady /\ \A p \in Peer : Advances(p, {})
<1>1. Counts /\ Good(mem) /\ Good(disk) /\ up \in BOOLEAN /\ up /\ arrivals' \in Nat
      /\ UNCHANGED <<now, owed, confirmed, refused>>
  BY DEF Books, Accounts, Counts, PruneTimer
<1>2. PICK run \in PrunePersistentState(Begin(mem, disk)) :
        \/ run.ok /\ mem' = run.mem /\ disk' = run.disk /\ UNCHANGED <<up, crashes, unsettled>>
        \/ ~run.ok /\ Dies(run.disk)
  BY DEF PruneTimer
<1>3. Begin(mem, disk).mem = mem /\ Begin(mem, disk).disk = disk
  BY DEF Begin
<1>4. From(mem, disk, run, {}, 0) /\ Like(mem, run.mem) /\ Like(disk, run.disk)
  BY <1>1, <1>2, <1>3, PrunePersistentStateFrom
<1>5. Left(run, {})
  <2>1. CASE run.ok /\ mem' = run.mem /\ disk' = run.disk /\ UNCHANGED <<up, crashes, unsettled>>
    <3>1. up' = TRUE
      BY <1>1, <2>1
    <3> QED BY <2>1, <3>1 DEF Left
  <2>2. CASE ~run.ok /\ Dies(run.disk)
    BY <2>2 DEF Left
  <2> QED BY <1>2, <2>1, <2>2
<1>6. Steady
  BY <1>4, <1>5, LeftSteady
<1>7. Books' /\ Promise!Expire
  BY <1>1, <1>4, <1>5, PruneStep
<1>8. \A p \in Peer : Advances(p, {})
  BY <1>4, <1>5, LeftAdvances DEF PruneTimer
<1> QED BY <1>6, <1>7, <1>8

LEMMA RestartHandled ==
  ASSUME Books, Restart
  PROVE  Books' /\ Promise!Expire /\ Steady /\ \A p \in Peer : Advances(p, {})
<1>1. Counts /\ Good(mem) /\ Good(disk) /\ ~up /\ arrivals' \in Nat
      /\ UNCHANGED <<now, owed, confirmed, refused>> /\ mem = disk
  BY DEF Books, Accounts, Counts, Restart
<1>2. PICK run \in PrunePersistentState(Begin(disk, disk)) :
        \/ run.ok /\ up' = TRUE /\ mem' = run.mem /\ disk' = run.disk /\ UNCHANGED <<crashes, unsettled>>
        \/ ~run.ok /\ Dies(run.disk)
  BY DEF Restart
<1>3. Begin(disk, disk).mem = mem /\ Begin(disk, disk).disk = disk
  BY <1>1 DEF Begin
<1>4. /\ From(mem, disk, run, {}, 0) /\ Like(mem, run.mem) /\ Like(disk, run.disk)
      /\ run.ok => \A p \in Peer : Fresh(run.mem.store[p]) = run.mem.store[p]
  BY <1>1, <1>2, <1>3, PrunePersistentStateFrom
<1>5. Left(run, {})
  <2>1. CASE run.ok /\ up' = TRUE /\ mem' = run.mem /\ disk' = run.disk /\ UNCHANGED <<crashes, unsettled>>
    BY <2>1 DEF Left
  <2>2. CASE ~run.ok /\ Dies(run.disk)
    BY <2>2 DEF Left
  <2> QED BY <1>2, <2>1, <2>2
<1>6. up' = FALSE \/ \A p \in Peer : Fresh(run.mem.store[p]) = run.mem.store[p]
  BY <1>2, <1>4 DEF Dies
<1>7. Steady
  BY <1>4, <1>5, LeftSteady
<1>8. Books' /\ Promise!Expire
  BY <1>1, <1>4, <1>5, <1>6, PruneStep
<1>9. \A p \in Peer : Advances(p, {})
  BY <1>4, <1>5, LeftAdvances DEF Restart
<1> QED BY <1>7, <1>8, <1>9

LEMMA CrashHandled ==
  ASSUME Books, Crash
  PROVE  Books' /\ Promise!Expire /\ Steady /\ \A p \in Peer : Advances(p, {})
<1>1. Good(mem) /\ Good(disk) /\ Shaped(disk) /\ arrivals' \in Nat /\ up
      /\ UNCHANGED <<now, owed, confirmed, refused>> /\ Dies(disk)
  BY DEF Books, Accounts, Counts, Crash, Good
<1> DEFINE run == [mem |-> mem, disk |-> disk, ok |-> FALSE]
<1>2. From(mem, disk, run, {}, 0)
  BY <1>1 DEF From, Grown, Fresh, Lapsed
<1>3. Left(run, {})
  BY <1>1 DEF Left
<1>4. Steady
  BY <1>1, LikeItself DEF Dies, Steady
<1> HIDE DEF run
<1>5. Books' /\ Promise!Expire
  BY <1>1, <1>2, <1>3, PruneStep
<1>6. \A p \in Peer : Advances(p, {})
  BY <1>2, <1>3, LeftAdvances DEF Crash
<1> QED BY <1>4, <1>5, <1>6

LEMMA TickHandled ==
  ASSUME Books, Tick
  PROVE  Books' /\ Promise!Pass /\ Steady /\ \A p \in Peer : Advances(p, {})
<1>1. /\ now' = now + 1 /\ now \in Nat
      /\ UNCHANGED <<mem, disk, up, arrivals, crashes, owed, confirmed, refused, unsettled>>
  BY DEF Tick, Books, Accounts, Counts
<1>2. Accounts'
  <2>1. Good(mem)' /\ Good(disk)'
    BY <1>1 DEF Books, Accounts, Good, Shaped, Pair, Triple, Sound, Tombstones
  <2>2. (confirmed \in Tombstones)' /\ (refused \in Tombstones)'
    BY <1>1 DEF Books, Accounts, Tombstones
  <2> QED BY <1>1, <2>1, <2>2 DEF Books, Accounts, Counts
<1>3. \A k \in Key : /\ confirmed[k] \in Int /\ refused[k] \in Int
                     /\ mem.acked[k] \in Int /\ disk.acked[k] \in Int
  BY DEF Books, Accounts, Good, Tombstones, None
<1>4. Remembers(mem.acked)' /\ Remembers(disk.acked)' /\ Recent'
  BY <1>1, <1>3, RetentionAssumption DEF Books, Remembers, Recent
<1>5. Holds(mem.store)' /\ Holds(disk.store)'
  <2>1. \A o \in owed : o.item.at \in Nat
    BY DEF Books, Accounts, Item
  <2> QED BY <1>1, <2>1, RetentionAssumption DEF Books, Holds
<1>6. \A p \in Peer : {x \in disk'.store[p] : x.at >= now' - MsgTTL} \subseteq Fresh(disk.store[p])
  <2>1. Sound(disk.store)
    BY DEF Books, Accounts, Good
  <2>2. \A p \in Peer : \A x \in disk.store[p] : x.at \in Nat
    BY <2>1, KeyOf
  <2> QED BY <1>1, <2>2, RetentionAssumption DEF Fresh
<1>7. \A p \in Peer : (Fresh(disk.store[p]))' \subseteq Fresh(disk.store[p])
  BY <1>6 DEF Fresh
<1>8. Clear(disk.store)' /\ (up => AllClear(mem.store))'
  <2>1. \A p \in Peer, i \in Id : /\ confirmed[EnvelopeKey[<<p, i>>]] \in Int
                                  /\ confirmed' = confirmed
    BY <1>1, <1>3, KeysDiffer
  <2>2. \A p \in Peer, i \in Id : now' < confirmed'[EnvelopeKey[<<p, i>>]] =>
                                  now < confirmed[EnvelopeKey[<<p, i>>]]
    BY <1>1, <2>1
  <2>3. Clear(disk.store)'
    <3> SUFFICES ASSUME NEW p \in Peer, NEW i \in Id, now' < confirmed'[EnvelopeKey[<<p, i>>]],
                        NEW x \in (Fresh(disk.store[p]))'
                 PROVE  x.id # i
      BY DEF Clear
    <3>1. x \in Fresh(disk.store[p]) /\ now < confirmed[EnvelopeKey[<<p, i>>]]
      BY <1>7, <2>2
    <3> QED BY <3>1 DEF Books, Clear
  <2>4. (up => AllClear(mem.store))'
    BY <1>1, <2>2 DEF Books, AllClear
  <2> QED BY <2>3, <2>4
<1>9. Agree(mem.store, disk.store, unsettled)'
  <2>1. Agree(mem.store, disk.store, unsettled)
    BY DEF Books
  <2> SUFFICES ASSUME NEW p \in Peer
               PROVE  /\ \A x \in mem.store[p] : x \in disk.store[p] \/ EnvelopeKey[<<p, x.id>>] \in unsettled
                      /\ \A x \in (Fresh(disk.store[p]))' :
                           x \in mem.store[p] \/ EnvelopeKey[<<p, x.id>>] \in unsettled
    BY <1>1 DEF Agree
  <2> QED BY <1>7, <2>1 DEF Agree
<1>10. Books'
  BY <1>1, <1>2, <1>4, <1>5, <1>8, <1>9 DEF Books
<1>11. Promise!Pass
  BY <1>1 DEF Promise!Pass
<1>12. Steady
  BY <1>1, LikeItself DEF Steady, Books, Accounts, Good
<1>13. \A p \in Peer : Advances(p, {})
  BY <1>1 DEF Advances, Seen, Fresh
<1> QED BY <1>10, <1>11, <1>12, <1>13

LEMMA StutterKeeps ==
  ASSUME Books, UNCHANGED vars
  PROVE  /\ Books' /\ UNCHANGED Promise!boxVars /\ Steady
         /\ \A p \in Peer : Advances(p, {})
<1>1. UNCHANGED <<mem, disk, up, now, arrivals, crashes, owed, confirmed, refused, unsettled>>
  BY DEF vars
<1>2. Steady
  BY <1>1, LikeItself DEF Steady, Books, Accounts, Good
<1>3. \A p \in Peer : Advances(p, {})
  BY <1>1 DEF Advances, Seen, Fresh
<1> QED BY <1>1, <1>2, <1>3 DEF Promise!boxVars, Books, Accounts, Good, Shaped, Pair, Triple, Sound,
            Tombstones, Counts, Remembers, Recent, Holds, Clear, AllClear, Agree, Fresh
---------------------------------------------------------------------------
(* The theorems about the queues. *)

Inv == Books /\ Pair(mem) /\ Pair(disk)

LEMMA EmptyBooks ==
  ASSUME mem.store = EmptyMaps.store, mem.acked = EmptyMaps.acked, Shaped(mem), disk = mem,
         up = TRUE, now = 0, arrivals = 0, crashes = 0, owed = {}, unsettled = {},
         confirmed = [k \in Key |-> None], refused = [k \in Key |-> None]
  PROVE  Books /\ Promise!BoxInit
<1>1. mem.store = [p \in Peer |-> {}] /\ mem.acked = [k \in Key |-> None]
  BY DEF EmptyMaps
<1>2. Accounts
  BY <1>1 DEF Accounts, Good, Sound, Tombstones, Counts
<1>3. Remembers(mem.acked) /\ Recent
  BY <1>1, RetentionAssumption DEF Remembers, Recent, None
<1>4. Holds(mem.store) /\ Clear(mem.store) /\ AllClear(mem.store)
      /\ Agree(mem.store, mem.store, unsettled)
  BY <1>1 DEF Holds, Clear, AllClear, Agree, Fresh
<1>5. Books
  BY <1>2, <1>3, <1>4 DEF Books
<1>6. Promise!BoxInit
  <2>1. \A r \in Peer \X Id : EnvelopeKey[r] \in Key
    BY KeyAssumption
  <2> QED BY <1>1, <2>1 DEF Promise!BoxInit, None
<1> QED BY <1>5, <1>6

LEMMA InitInv == Init => Inv /\ Promise!BoxInit
<1> SUFFICES ASSUME Init
             PROVE  Inv /\ Promise!BoxInit
  OBVIOUS
<1>1. /\ mem = EmptyMaps /\ disk = mem /\ up = TRUE /\ now = 0 /\ arrivals = 0 /\ crashes = 0
      /\ owed = {} /\ unsettled = {}
      /\ confirmed = [k \in Key |-> None] /\ refused = [k \in Key |-> None]
  BY DEF Init
<1>2. Pair(mem) /\ Pair(disk)
  BY <1>1 DEF Pair, EmptyMaps
<1>3. Books /\ Promise!BoxInit
  BY <1>1, <1>2, EmptyBooks DEF Shaped
<1> QED BY <1>2, <1>3 DEF Inv

\* Steady steps keep the kind of the maps.
LEMMA SteadyPairs ==
  ASSUME Pair(mem), Pair(disk), Steady
  PROVE  Pair(mem)' /\ Pair(disk)'
<1>1. ASSUME NEW m, NEW n, Pair(m), Like(m, n)
      PROVE  Pair(n)
  BY <1>1, NotBoth DEF Like
<1>2. Pair(disk') /\ Pair(mem')
  BY <1>1 DEF Steady
<1> QED BY <1>2 DEF Pair

\* Every step keeps the books and is a step of the mailbox, or none.
LEMMA QueueStep ==
  Inv /\ [Next]_vars => Inv' /\ [Promise!BoxNext]_(Promise!boxVars)
<1> SUFFICES ASSUME Inv, [Next]_vars
             PROVE  Inv' /\ [Promise!BoxNext]_(Promise!boxVars)
  OBVIOUS
<1>1. Books /\ Pair(mem) /\ Pair(disk)
  BY DEF Inv
<1>2. SUFFICES Books' /\ [Promise!BoxNext]_(Promise!boxVars) /\ Steady
  BY <1>1, SteadyPairs DEF Inv
<1>3. CASE \E to \in Peer, id \in Id : Store(to, id)
  <2>1. PICK to \in Peer, id \in Id : Store(to, id)
    BY <1>3
  <2>2. Books' /\ Promise!Post({to}, id) /\ Steady
    BY <1>1, <2>1, StoreHandled
  <2> QED BY <2>2 DEF Promise!BoxNext
<1>4. CASE \E to \in Peer, id \in Id : Ack(to, id)
  <2>1. PICK to \in Peer, id \in Id : Ack(to, id)
    BY <1>4
  <2>2. Books' /\ Promise!Withdraw(to, id) /\ Steady
    BY <1>1, <2>1, AckHandled
  <2> QED BY <2>2 DEF Promise!BoxNext
<1>5. CASE \E to \in Peer : Fetch(to)
  BY <1>1, <1>5, FetchHandled DEF Promise!BoxNext
<1>6. CASE PruneTimer
  BY <1>1, <1>6, TimerHandled DEF Promise!BoxNext
<1>7. CASE Crash
  BY <1>1, <1>7, CrashHandled DEF Promise!BoxNext
<1>8. CASE Restart
  BY <1>1, <1>8, RestartHandled DEF Promise!BoxNext
<1>9. CASE Tick
  BY <1>1, <1>9, TickHandled DEF Promise!BoxNext
<1>10. CASE UNCHANGED vars
  BY <1>1, <1>10, StutterKeeps
<1> QED BY <1>3, <1>4, <1>5, <1>6, <1>7, <1>8, <1>9, <1>10 DEF Next

LEMMA InvFacts == Inv => TypeOK /\ UniqueIds /\ OwedIsDurable /\ AckedStaysGone
<1> SUFFICES ASSUME Inv
             PROVE  TypeOK /\ UniqueIds /\ OwedIsDurable /\ AckedStaysGone
  OBVIOUS
<1>1. Books /\ Accounts /\ Good(mem) /\ Good(disk)
  BY DEF Inv, Books, Accounts
<1>2. mem \in Maps /\ disk \in Maps
  BY <1>1 DEF Inv, Good, Sound, Pair, Tombstones, Maps
<1>3. TypeOK
  BY <1>1, <1>2 DEF Accounts, TypeOK, Counts, Tombstones
<1>4. UniqueIds
  BY <1>1 DEF UniqueIds, Good, Sound
<1>5. OwedIsDurable
  BY <1>1 DEF OwedIsDurable, Books, Holds
<1> QED BY <1>1, <1>3, <1>4, <1>5, BooksAcked

LEMMA AlwaysInv == Spec => []Inv
<1>1. Init => Inv
  BY InitInv
<1>2. Inv /\ [Next]_vars => Inv'
  BY QueueStep
<1> QED BY <1>1, <1>2, PTL DEF Spec

\* The variables of the relay queues always have their types.
THEOREM TypeCorrect == Spec => []TypeOK
<1>1. Inv => TypeOK
  BY InvFacts
<1> QED BY <1>1, AlwaysInv, PTL

\* No queue, in memory or on disk, ever holds two envelopes with one id, for
\* any number of peers, ids, requests and crashes and with failing saves.
THEOREM IdsStayUnique == Spec => []UniqueIds
<1>1. Inv => UniqueIds
  BY InvFacts
<1> QED BY <1>1, AlwaysInv, PTL

\* A message whose store was answered ok stays on disk until its recipient
\* acknowledges it or its retention time has passed: for any number of peers,
\* ids, requests, crashes and failing saves and every retention time.
THEOREM StoredStays == Spec => []OwedIsDurable
<1>1. Inv => OwedIsDurable
  BY InvFacts
<1> QED BY <1>1, AlwaysInv, PTL

\* A message whose acknowledgement was answered ok is in no queue until its
\* tombstone expires, and on the disk only past its time, whatever fails.
THEOREM AcknowledgedStaysGone == Spec => []AckedStaysGone
<1>1. Inv => AckedStaysGone
  BY InvFacts
<1> QED BY <1>1, AlwaysInv, PTL

\* The detailed specification implements the abstract one: for any number of
\* peers, ids, requests and crashes, and with any save failing, the queues on
\* disk behave as the boxes of Mailbox.
THEOREM QueuesImplementMailbox == Spec => KeepsPromise
<1>1. Init => Promise!BoxInit
  BY InitInv
<1>2. Inv /\ [Next]_vars => [Promise!BoxNext]_(Promise!boxVars)
  BY QueueStep
<1> QED BY <1>1, <1>2, AlwaysInv, PTL DEF Spec, KeepsPromise, Promise!BoxSpec
---------------------------------------------------------------------------
(***************************************************************************)
(* The clients.  The entries of a queue have different numbers, all below  *)
(* that of the next request, so a page that starts after the cursor's entry *)
(* starts with the first number above it, and an entry that is added later *)
(* is never in front of a cursor.                                          *)
(***************************************************************************)

\* A queue whose entries are ordered by numbers below next.
Numbered(queue, next) ==
  /\ IsFiniteSet(queue)
  /\ \A x \in queue : x.n < next
  /\ \A x, y \in queue : x.n = y.n => x = y

\* What only the disk still has, the client has received before.
Had(p) == \A x \in Fresh(disk.store[p]) \ mem.store[p] : x.id \in received[p]

\* NoSkip, for memory and disk together: a crash makes the disk the memory.
Passed(p) ==
  \A c \in Seen(p) : clean[p] /\ c.id = cursor[p] /\ c.n = mark[p] =>
    \A x \in Fresh(Seen(p)) : x.n < c.n => x.id \in received[p]

\* What the relay and its clients keep together.
Cursors ==
  /\ cursor \in [Peer -> Id \cup {NoId}]
  /\ mark \in [Peer -> Nat]
  /\ received \in [Peer -> SUBSET Id]
  /\ clean \in [Peer -> BOOLEAN]

Reached(p) == cursor[p] # NoId => cursor[p] \in received[p] /\ mark[p] < arrivals

DeliveryInv ==
  /\ Books
  /\ Cursors
  /\ \A p \in Peer : Numbered(Seen(p), arrivals) /\ Reached(p) /\ Had(p) /\ Passed(p)

\* A set of naturals that is not empty has a least element.
LEMMA Least ==
  ASSUME NEW S \in SUBSET Nat, S # {}
  PROVE  \E x \in S : \A y \in S : x <= y
<1>1. PICK x \in S : \A y \in S : ~(<<y, x>> \in OpToRel(<, Nat))
  BY NatLessThanWellFounded, WFMin
<1>2. \A y \in S : ~(y < x)
  BY <1>1 DEF OpToRel
<1> QED BY <1>2

\* A page that is not empty has a latest entry.
LEMMA LatestOfPage ==
  ASSUME NEW page \in SUBSET Item, page # {}, NEW next \in Nat, \A x \in page : x.n < next
  PROVE  Latest(page) \in page /\ \A y \in page : y.n <= Latest(page).n
<1> DEFINE left == {next - x.n : x \in page}
<1>1. left \in SUBSET Nat /\ left # {}
  BY DEF Item
<1>2. PICK d \in left : \A e \in left : d <= e
  <2> HIDE DEF left
  <2> QED BY <1>1, Least
<1>3. PICK x \in page : d = next - x.n
  BY <1>2
<1>4. \A y \in page : y.n <= x.n
  <2> TAKE y \in page
  <2>1. next - x.n <= next - y.n
    BY <1>2, <1>3
  <2> QED BY <2>1 DEF Item
<1> QED BY <1>4 DEF Latest

\* The index of an entry grows with its number.
LEMMA IndexGrows ==
  ASSUME NEW queue \in SUBSET Item, IsFiniteSet(queue), NEW x \in queue, NEW y \in queue
  PROVE  /\ Index(queue, x) \in Nat /\ Index(queue, y) \in Nat
         /\ x.n < y.n => Index(queue, x) < Index(queue, y)
<1> DEFINE before(z) == {w \in queue : w.n < z.n}
<1>1. IsFiniteSet(before(x)) /\ IsFiniteSet(before(y))
  BY FS_Subset
<1>2. Cardinality(before(x)) \in Nat /\ Cardinality(before(y)) \in Nat
  <2> HIDE DEF before
  <2> QED BY <1>1, FS_CardinalityType
<1>3. ASSUME x.n < y.n
      PROVE  Cardinality(before(x)) < Cardinality(before(y))
  <2>1. before(x) \in SUBSET before(y) /\ x \in before(y) /\ x \notin before(x)
    BY <1>3 DEF Item
  <2> HIDE DEF before
  <2>2. /\ Cardinality(before(x)) <= Cardinality(before(y))
        /\ Cardinality(before(y)) = Cardinality(before(x)) => before(y) = before(x)
    BY <1>1, <2>1, FS_Subset
  <2> QED BY <1>2, <2>1, <2>2
<1> QED BY <1>2, <1>3 DEF Index

\* A page leaves out nothing between the cursor and its latest entry.
LEMMA PageFollows ==
  ASSUME NEW queue \in SUBSET Item, NEW next \in Nat, Numbered(queue, next),
         NEW from, NEW limit \in Int, NEW top \in Page(queue, from, limit),
         NEW x \in queue, x.n <= top.n, x \notin Page(queue, from, limit)
  PROVE  \E c \in queue : c.id = from /\ x.n <= c.n
<1> DEFINE start == StartIndex(queue, from)
           end == IF start + limit < 0 THEN Cardinality(queue) + start + limit
                  ELSE start + limit
<1>1. top \in queue /\ start <= Index(queue, top) /\ Index(queue, top) < end
  BY DEF Page
<1>2. Index(queue, x) \in Nat /\ Index(queue, top) \in Nat
      /\ Index(queue, x) <= Index(queue, top)
  <2>1. x.n < top.n \/ x = top
    BY <1>1 DEF Numbered, Item
  <2> QED BY <1>1, <2>1, IndexGrows DEF Numbered
<1>3. Cardinality(queue) \in Nat
  BY FS_CardinalityType DEF Numbered
<1>4. ~(start <= Index(queue, x) /\ Index(queue, x) < end)
  BY DEF Page
<1>5. CASE \E c \in queue : c.id = from
  <2> DEFINE c == CHOOSE z \in queue : z.id = from
  <2>1. c \in queue /\ c.id = from
    BY <1>5
  <2>2. start = Index(queue, c) + 1
    BY <1>5 DEF StartIndex
  <2> HIDE DEF c
  <2>3. Index(queue, c) \in Nat /\ (c.n < x.n => Index(queue, c) < Index(queue, x))
    BY <2>1, IndexGrows DEF Numbered
  <2>4. start \in Nat /\ end \in Int
    BY <1>3, <2>2, <2>3
  <2> HIDE DEF start, end
  <2>5. Index(queue, x) < end
    BY <1>1, <1>2, <2>4
  <2>6. ~(start <= Index(queue, x))
    BY <1>4, <2>5
  <2>7. ~(c.n < x.n)
    BY <1>2, <2>2, <2>3, <2>6
  <2>8. x.n <= c.n
    BY <2>1, <2>7 DEF Item
  <2> QED BY <2>1, <2>8
<1>6. CASE ~\E c \in queue : c.id = from
  <2>1. start = 0
    BY <1>6 DEF StartIndex
  <2>2. end \in Int
    BY <1>3, <2>1
  <2> HIDE DEF start, end
  <2> QED BY <1>1, <1>2, <1>4, <2>1, <2>2
<1> QED BY <1>5, <1>6


\* What is fresh later is fresh now.
LEMMA FreshLater ==
  ASSUME now \in Nat, now' \in {now, now + 1}, NEW S \in SUBSET Item
  PROVE  (Fresh(S))' \subseteq Fresh(S)
<1>1. (Fresh(S))' = {x \in S : x.at >= now' - MsgTTL}
  BY DEF Fresh
<1>2. \A x \in S : x.at \in Nat /\ (x.at >= now' - MsgTTL => x.at >= now - MsgTTL)
  BY RetentionAssumption DEF Item
<1> QED BY <1>1, <1>2 DEF Fresh

LEMMA SeenItems == ASSUME Books, NEW p \in Peer PROVE Seen(p) \subseteq Item /\ arrivals \in Nat
BY DEF Seen, Books, Accounts, Good, Sound, Counts

\* Steps of the relay that lose nothing from memory but what they prune.
LEMMA RelayAdvances ==
  ASSUME Books,
         \/ \E to \in Peer, id \in Id : Store(to, id)
         \/ \E to \in Peer : Fetch(to)
         \/ PruneTimer
         \/ Crash
         \/ Restart
         \/ Tick
         \/ UNCHANGED vars
  PROVE  Books' /\ now' \in {now, now + 1} /\ \A p \in Peer : Advances(p, {})
<1>1. CASE \E to \in Peer, id \in Id : Store(to, id)
  BY <1>1, StoreHandled DEF Store
<1>2. CASE \E to \in Peer : Fetch(to)
  BY <1>2, FetchHandled DEF Fetch
<1>3. CASE PruneTimer
  BY <1>3, TimerHandled DEF PruneTimer
<1>4. CASE Crash
  BY <1>4, CrashHandled DEF Crash
<1>5. CASE Restart
  BY <1>5, RestartHandled DEF Restart
<1>6. CASE Tick
  BY <1>6, TickHandled DEF Tick
<1>7. CASE UNCHANGED vars
  BY <1>7, StutterKeeps DEF vars
<1> QED BY <1>1, <1>2, <1>3, <1>4, <1>5, <1>6, <1>7

\* Such a step keeps a queue numbered.
LEMMA NumberedKept ==
  ASSUME Books, NEW p \in Peer, Numbered(Seen(p), arrivals), NEW lost, Advances(p, lost)
  PROVE  Numbered(Seen(p)', arrivals')
<1> DEFINE old == Seen(p)
           new == Seen(p)'
<1>1. arrivals \in Nat /\ old \subseteq Item
  BY SeenItems
<1>2. CASE new \subseteq old /\ (arrivals' = arrivals \/ arrivals' = arrivals + 1)
  <2> HIDE DEF old, new
  <2>1. IsFiniteSet(new)
    BY <1>2, FS_Subset DEF Numbered, old
  <2>2. \A x \in new : x.n \in Nat /\ x.n < arrivals
    BY <1>1, <1>2 DEF Numbered, Item, old
  <2>3. \A x \in new : x.n < arrivals'
    BY <1>1, <1>2, <2>2
  <2> QED BY <1>2, <2>1, <2>3 DEF Numbered, old, new
<1>3. ASSUME arrivals' = arrivals + 1, NEW id \in Id, new \subseteq old \cup {NewItem(id)}
      PROVE  Numbered(new, arrivals')
  <2> HIDE DEF new
  <2>1. IsFiniteSet(old \cup {NewItem(id)})
    BY FS_AddElement DEF Numbered
  <2>2. IsFiniteSet(new)
    BY <1>3, <2>1, FS_Subset
  <2>3. NewItem(id).n = arrivals
    BY DEF NewItem
  <2>4. \A x \in old : x.n \in Nat /\ x.n < arrivals
    BY <1>1 DEF Numbered, Item
  <2>5. \A x \in new : x.n < arrivals'
    BY <1>1, <1>3, <2>3, <2>4
  <2>6. \A x, y \in new : x.n = y.n => x = y
    BY <1>3, <2>3, <2>4 DEF Numbered
  <2> QED BY <2>2, <2>5, <2>6 DEF Numbered
<1> QED BY <1>2, <1>3 DEF Advances

\* No step of the relay puts an entry in front of a client's cursor.
LEMMA NothingInFront ==
  ASSUME DeliveryInv, Books', NEW p \in Peer, NEW lost, Advances(p, lost),
         NEW c \in Seen(p)', c.id = cursor[p], c.n = mark[p],
         NEW x \in Seen(p)', x.n < c.n
  PROVE  c \in Seen(p) /\ x \in Seen(p)
<1>1. c \in Item /\ x \in Item /\ arrivals \in Nat
  <2>1. (Seen(p) \subseteq Item)'
    BY DEF Seen, Books, Accounts, Good, Sound
  <2> QED BY <2>1, SeenItems DEF DeliveryInv
<1>2. cursor[p] # NoId
  BY <1>1, PagingAssumption DEF Item
<1>3. c.n < arrivals /\ c.n \in Nat /\ x.n \in Nat
  BY <1>1, <1>2 DEF DeliveryInv, Reached, Item
<1>4. c.n # arrivals /\ x.n # arrivals
  BY <1>1, <1>3
<1>5. \A id \in Id : NewItem(id).n = arrivals
  BY DEF NewItem
<1> QED BY <1>4, <1>5 DEF Advances

\* A step of the relay alone: what only the disk still has afterwards, the
\* client has received.
LEMMA RelayStepDelivers ==
  ASSUME DeliveryInv, Books', now' \in {now, now + 1}, UNCHANGED clientVars,
         \A p \in Peer : Advances(p, received[p])
  PROVE  DeliveryInv'
<1>1. UNCHANGED <<cursor, mark, received, clean>> /\ now \in Nat
  BY DEF clientVars, DeliveryInv, Books, Accounts, Counts
<1>2. ASSUME NEW p \in Peer
      PROVE  Numbered(Seen(p)', arrivals') /\ Reached(p)' /\ Had(p)' /\ Passed(p)'
  <2>1. Advances(p, received[p]) /\ Seen(p)' \subseteq Item /\ arrivals \in Nat
        /\ disk'.store[p] \subseteq Seen(p)'
    <3>1. (Seen(p) \subseteq Item)' /\ (disk.store[p] \subseteq Seen(p))'
      BY DEF Seen, Books, Accounts, Good, Sound
    <3> QED BY <3>1, SeenItems DEF DeliveryInv
  <2>2. Numbered(Seen(p)', arrivals')
    BY <2>1, NumberedKept DEF DeliveryInv
  <2>3. Reached(p)'
    <3>1. mark[p] \in Nat /\ (arrivals' = arrivals \/ arrivals' = arrivals + 1)
      BY <2>1 DEF Advances, DeliveryInv, Cursors
    <3> QED BY <1>1, <2>1, <3>1 DEF DeliveryInv, Reached
  <2>4. Had(p)'
    <3> SUFFICES ASSUME NEW x \in (Fresh(disk.store[p]))', x \notin mem'.store[p]
                 PROVE  x.id \in received[p]
      BY <1>1 DEF Had
    <3>1. {x} \subseteq Item /\ x \in disk'.store[p] /\ x \in (Fresh({x}))'
      BY <2>1 DEF Fresh
    <3>2. x \in Fresh({x})
      BY <1>1, <3>1, FreshLater
    <3>3. x \in Fresh(disk'.store[p]) \ mem'.store[p]
      BY <3>1, <3>2 DEF Fresh
    <3>4. x \in disk.store[p] \ mem.store[p] \/ x.id \in received[p]
      BY <2>1, <3>3 DEF Advances
    <3> QED BY <3>2, <3>4 DEF DeliveryInv, Had, Fresh
  <2>5. Passed(p)'
    <3> SUFFICES ASSUME NEW c \in Seen(p)', clean[p], c.id = cursor[p], c.n = mark[p],
                        NEW x \in (Fresh(Seen(p)))', x.n < c.n
                 PROVE  x.id \in received[p]
      BY <1>1 DEF Passed
    <3>1. x \in Seen(p)' /\ {x} \subseteq Item /\ x \in (Fresh({x}))'
      BY <2>1 DEF Fresh
    <3>2. x \in Fresh({x})
      BY <1>1, <3>1, FreshLater
    <3>3. c \in Seen(p) /\ x \in Seen(p)
      BY <2>1, <3>1, NothingInFront
    <3>4. x \in Fresh(Seen(p))
      BY <3>2, <3>3 DEF Fresh
    <3> QED BY <3>3, <3>4 DEF DeliveryInv, Passed
  <2> QED BY <2>2, <2>3, <2>4, <2>5
<1>3. \A p \in Peer : Numbered(Seen(p), arrivals)'
  BY <1>2 DEF Numbered
<1> QED BY <1>1, <1>2, <1>3 DEF DeliveryInv, Cursors

\* A poll whose page reaches the client.
LEMMA PollDelivers ==
  ASSUME DeliveryInv, NEW to \in Peer, NEW parsed \in Limits, Poll(to, parsed)
  PROVE  DeliveryInv'
<1>1. PICK run \in PruneRecipient(Begin(mem, disk), to) :
        LET page == Page(run.mem.store[to], cursor[to], Limit(parsed))
        IN  /\ Serves(run, {})
            /\ IF ~run.ok \/ page = {} THEN UNCHANGED clientVars
               ELSE /\ cursor' = [cursor EXCEPT ![to] = Latest(page).id]
                    /\ mark' = [mark EXCEPT ![to] = Latest(page).n]
                    /\ received' = [received EXCEPT ![to] = @ \cup {x.id : x \in page}]
                    /\ clean' = [clean EXCEPT ![to] =
                         IF \E x \in run.mem.store[to] : x.id = cursor[to]
                         THEN @ /\ \E x \in run.mem.store[to] : x.id = cursor[to] /\ x.n = mark[to]
                         ELSE TRUE]
  BY DEF Poll
<1> DEFINE queue == run.mem.store[to]
           page == Page(queue, cursor[to], Limit(parsed))
<1>2. /\ Books' /\ now' = now /\ arrivals' = arrivals /\ now \in Nat /\ arrivals \in Nat
      /\ \A p \in Peer : Advances(p, {})
  <2>1. Books /\ up /\ UNCHANGED <<now, arrivals, owed, confirmed, refused>> /\ Serves(run, {})
    BY <1>1 DEF DeliveryInv, Poll
  <2> HIDE DEF page, queue
  <2> QED BY <1>1, <2>1, PollHandled DEF Books, Accounts, Counts
<1>3. CASE UNCHANGED clientVars
  <2>1. \A p \in Peer : Advances(p, received[p])
    BY <1>2 DEF Advances
  <2> QED BY <1>2, <1>3, <2>1, RelayStepDelivers
<1>4. CASE run.ok /\ page # {}
  <2> DEFINE top == Latest(page)
             same == \E x \in queue : x.id = cursor[to] /\ x.n = mark[to]
             there == \E x \in queue : x.id = cursor[to]
  <2>1. /\ cursor' = [cursor EXCEPT ![to] = top.id]
        /\ mark' = [mark EXCEPT ![to] = top.n]
        /\ received' = [received EXCEPT ![to] = @ \cup {x.id : x \in page}]
        /\ clean' = [clean EXCEPT ![to] = IF there THEN @ /\ same ELSE TRUE]
    BY <1>1, <1>4
  <2>2. mem' = run.mem /\ mem'.store[to] = queue
    BY <1>1, <1>4 DEF Serves
  <2>3. Cursors
    BY DEF DeliveryInv
  <2>4. Sound(mem'.store) /\ queue \subseteq Item /\ Seen(to)' \subseteq Item
        /\ queue \subseteq Seen(to)' /\ \A x, y \in queue : x.id = y.id => x = y
    <3>1. Sound(mem'.store)
      BY <1>2 DEF Books, Accounts, Good, Sound
    <3>2. (Seen(to) \subseteq Item)' /\ (mem.store[to] \subseteq Seen(to))'
      BY <1>2 DEF Seen, Books, Accounts, Good, Sound
    <3> QED BY <2>2, <3>1, <3>2 DEF Sound
  <2>5. \A p \in Peer : Numbered(Seen(p)', arrivals)
    BY <1>2, NumberedKept DEF DeliveryInv
  <2>6. Numbered(queue, arrivals)
    <3>1. Numbered(Seen(to)', arrivals)
      BY <2>5
    <3>2. IsFiniteSet(queue)
      BY <2>4, <3>1, FS_Subset DEF Numbered
    <3> HIDE DEF queue
    <3> QED BY <2>4, <3>1, <3>2 DEF Numbered
  <2>7. page \subseteq queue
    BY DEF Page
  <2>8. top \in page /\ top \in Item /\ top.n < arrivals
    <3>1. page \in SUBSET Item /\ page # {} /\ \A x \in page : x.n < arrivals
      BY <1>4, <2>4, <2>6, <2>7 DEF Numbered
    <3> HIDE DEF page
    <3> QED BY <1>2, <3>1, LatestOfPage
  <2>9. Limit(parsed) \in Int
    BY PagingAssumption DEF Limit
  <2>10. Cursors'
    <3>1. top.id \in Id /\ top.n \in Nat
      BY <2>8 DEF Item
    <3>2. {x.id : x \in page} \subseteq Id
      BY <2>4, <2>7 DEF Item
    <3>3. there \in BOOLEAN /\ same \in BOOLEAN
      OBVIOUS
    <3> HIDE DEF top, page, there, same
    <3>4. cursor' \in [Peer -> Id \cup {NoId}] /\ mark' \in [Peer -> Nat]
      BY <2>1, <2>3, <3>1 DEF Cursors
    <3>5. received' \in [Peer -> SUBSET Id]
      BY <2>1, <2>3, <3>2 DEF Cursors
    <3>6. clean' \in [Peer -> BOOLEAN]
      BY <2>1, <2>3, <3>3 DEF Cursors
    <3> QED BY <3>4, <3>5, <3>6 DEF Cursors
  <2>11. /\ cursor'[to] = top.id /\ mark'[to] = top.n
         /\ received'[to] = received[to] \cup {x.id : x \in page}
         /\ clean'[to] => (there => clean[to] /\ same)
    <3> HIDE DEF top, page, there, same
    <3> QED BY <2>1, <2>3 DEF Cursors
  <2>12. \A p \in Peer : p # to =>
           /\ cursor'[p] = cursor[p] /\ mark'[p] = mark[p]
           /\ received'[p] = received[p] /\ clean'[p] = clean[p]
    <3> HIDE DEF top, page, there, same
    <3> QED BY <2>1, <2>3 DEF Cursors
  <2>13. \A p \in Peer : received[p] \subseteq received'[p]
    <3> HIDE DEF page
    <3> QED BY <2>11, <2>12
  <2>14. \A p \in Peer : Reached(p)'
    <3>1. top.id \in {x.id : x \in page}
      BY <2>8
    <3> HIDE DEF top, page, there, same
    <3> QED BY <1>2, <2>8, <2>11, <2>12, <3>1 DEF DeliveryInv, Reached
  <2>15. ASSUME NEW p \in Peer, NEW x \in Fresh(disk'.store[p]) \ mem'.store[p]
         PROVE  x.id \in received'[p]
    <3>1. x \in Fresh(disk.store[p]) \ mem.store[p]
      BY <1>2, <2>15 DEF Advances, Fresh
    <3> QED BY <2>13, <3>1 DEF DeliveryInv, Had
  <2>16. ASSUME clean'[to], NEW x \in Fresh(queue), x.n < top.n
         PROVE  x.id \in received'[to]
    <3>0. x \in queue
      BY DEF Fresh
    <3>1. CASE x \in page
      BY <2>11, <3>1
    <3>2. CASE x \notin page
      <4>1. PICK d \in queue : d.id = cursor[to] /\ x.n <= d.n
        <5>1. x.n <= top.n
          BY <2>4, <2>8, <2>16, <3>0 DEF Item
        <5> HIDE DEF queue, top
        <5> QED BY <1>2, <2>4, <2>6, <2>8, <2>9, <3>0, <3>2, <5>1, PageFollows DEF queue
      <4>2. clean[to] /\ d.n = mark[to]
        <5>1. PICK e \in queue : e.id = cursor[to] /\ e.n = mark[to]
          BY <2>11, <2>16, <4>1
        <5>2. d = e
          BY <2>4, <4>1, <5>1
        <5> QED BY <2>11, <2>16, <4>1, <5>1, <5>2
      <4>3. d.id # NoId /\ d.id \in received[to]
        BY <2>4, <4>1, PagingAssumption DEF Item, DeliveryInv, Reached
      <4>4. CASE x.n = d.n
        <5>1. x = d
          BY <2>6, <3>0, <4>1, <4>4 DEF Numbered
        <5> QED BY <2>13, <4>3, <5>1
      <4>5. CASE x.n < d.n
        <5>1. d \in Seen(to) /\ x \in Seen(to)
          <6>1. Advances(to, {}) /\ d \in Seen(to)' /\ x \in Seen(to)'
            BY <1>2, <2>4, <3>0, <4>1
          <6> HIDE DEF queue
          <6> QED BY <1>2, <4>1, <4>2, <4>5, <6>1, NothingInFront
        <5>2. x \in Fresh(Seen(to))
          BY <5>1 DEF Fresh
        <5>3. x.id \in received[to]
          BY <4>1, <4>2, <4>5, <5>1, <5>2 DEF DeliveryInv, Passed
        <5> QED BY <2>13, <5>3
      <4>6. x.n = d.n \/ x.n < d.n
        BY <2>4, <3>0, <4>1 DEF Item
      <4> QED BY <4>4, <4>5, <4>6
    <3> QED BY <3>1, <3>2
  <2>17. ASSUME NEW p \in Peer
         PROVE  Passed(p)'
    <3> SUFFICES ASSUME NEW c \in Seen(p)',
                        clean'[p], c.id = cursor'[p], c.n = mark'[p],
                        NEW x \in (Fresh(Seen(p)))', x.n < c.n
                 PROVE  x.id \in received'[p]
      BY DEF Passed
    <3>0. x \in Fresh(mem'.store[p]) \/ x \in Fresh(disk'.store[p]) \ mem'.store[p]
      BY <1>2 DEF Fresh, Seen
    <3>1. CASE x \in Fresh(disk'.store[p]) \ mem'.store[p]
      BY <2>15, <3>1
    <3>2. CASE x \in Fresh(mem'.store[p]) /\ p = to
      <4>1. x \in Fresh(queue) /\ x.n < top.n /\ clean'[to]
        BY <2>2, <2>11, <3>2
      <4> QED BY <2>16, <3>2, <4>1
    <3>3. CASE x \in Fresh(mem'.store[p]) /\ p # to
      <4>1. c.id = cursor[p] /\ c.n = mark[p] /\ clean[p]
        BY <2>12, <3>3
      <4>2. x \in Seen(p)'
        BY DEF Fresh
      <4>3. c \in Seen(p) /\ x \in Seen(p)
        BY <1>2, <4>1, <4>2, NothingInFront
      <4>4. x \in Fresh(Seen(p))
        BY <3>3, <4>3 DEF Fresh
      <4>5. x.id \in received[p]
        BY <4>1, <4>3, <4>4 DEF DeliveryInv, Passed
      <4> QED BY <2>13, <4>5
    <3> QED BY <3>0, <3>1, <3>2, <3>3
  <2>18. \A p \in Peer : Numbered(Seen(p), arrivals)' /\ Had(p)'
    BY <1>2, <2>5, <2>15 DEF Numbered, Had, Fresh
  <2> QED BY <1>2, <2>10, <2>14, <2>17, <2>18 DEF DeliveryInv
<1> QED BY <1>1, <1>3, <1>4

\* Every step of the relay and its clients keeps the invariant.
LEMMA DeliveryStep == DeliveryInv /\ [DeliveryNext]_allVars => DeliveryInv'
<1> SUFFICES ASSUME DeliveryInv, [DeliveryNext]_allVars
             PROVE  DeliveryInv'
  OBVIOUS
<1>1. ASSUME NEW to \in Peer, NEW parsed \in Limits, Poll(to, parsed)
      PROVE  DeliveryInv'
  BY <1>1, PollDelivers
<1>2. ASSUME NEW to \in Peer, NEW id \in Id, AckReceived(to, id)
      PROVE  DeliveryInv'
  <2>1. Ack(to, id) /\ UNCHANGED clientVars /\ id \in received[to]
    BY <1>2 DEF AckReceived
  <2>2. Books' /\ now' = now /\ \A p \in Peer : Advances(p, IF p = to THEN {id} ELSE {})
    BY <2>1, AckHandled DEF DeliveryInv, Ack
  <2>3. \A p \in Peer : Advances(p, received[p])
    BY <2>1, <2>2 DEF Advances
  <2> QED BY <2>1, <2>2, <2>3, RelayStepDelivers
<1>3. ASSUME NEW to \in Peer, Forget(to)
      PROVE  DeliveryInv'
  <2>1. /\ UNCHANGED <<mem, disk, up, now, arrivals, crashes, owed, confirmed, refused, unsettled>>
        /\ UNCHANGED <<mark, received, clean>>
        /\ cursor' = [cursor EXCEPT ![to] = NoId]
    BY <1>3 DEF Forget, vars
  <2>2. Books'
    <3>1. UNCHANGED vars
      BY <2>1 DEF vars
    <3> QED BY <3>1, StutterKeeps DEF DeliveryInv
  <2>3. /\ Cursors'
        /\ \A p \in Peer : cursor'[p] = NoId \/ cursor'[p] = cursor[p]
    BY <2>1 DEF DeliveryInv, Cursors
  <2>4. ASSUME NEW p \in Peer
        PROVE  Numbered(Seen(p), arrivals)' /\ Reached(p)' /\ Had(p)' /\ Passed(p)'
    <3>1. Seen(p)' = Seen(p) /\ (Fresh(Seen(p)))' = Fresh(Seen(p))
      BY <2>1 DEF Seen, Fresh
    <3>2. Numbered(Seen(p), arrivals)' /\ Reached(p)' /\ Had(p)'
      BY <2>1, <2>3, <3>1 DEF DeliveryInv, Numbered, Reached, Had, Fresh
    <3>3. \A c \in Seen(p) : c.id # NoId
      BY SeenItems, PagingAssumption DEF DeliveryInv, Item
    <3>4. Passed(p)'
      BY <2>1, <2>3, <3>1, <3>3 DEF DeliveryInv, Passed
    <3> QED BY <3>2, <3>4
  <2> QED BY <2>2, <2>3, <2>4 DEF DeliveryInv
<1>4. ASSUME UNCHANGED clientVars,
             \/ \E to \in Peer, id \in Id : Store(to, id)
             \/ \E to \in Peer : Fetch(to)
             \/ PruneTimer
             \/ Crash
             \/ Restart
             \/ Tick
             \/ UNCHANGED vars
      PROVE  DeliveryInv'
  <2>1. Books' /\ now' \in {now, now + 1} /\ \A p \in Peer : Advances(p, {})
    BY <1>4, RelayAdvances DEF DeliveryInv
  <2>2. \A p \in Peer : Advances(p, received[p])
    BY <2>1 DEF Advances
  <2> QED BY <1>4, <2>1, <2>2, RelayStepDelivers
<1> QED BY <1>1, <1>2, <1>3, <1>4 DEF DeliveryNext, allVars

\* A client that follows its cursor through the pages skips no message that
\* is still queued, whatever is appended, acknowledged, pruned or lost in
\* between, across failed saves and restarts of the relay: for any number of
\* peers, ids, requests and crashes and any page limits.
THEOREM FollowersSkipNothing == DeliverySpec => []NoSkip
<1>1. DeliveryInit => DeliveryInv
  <2> SUFFICES ASSUME DeliveryInit
               PROVE  DeliveryInv
    OBVIOUS
  <2>1. Books
    BY InitInv DEF DeliveryInit, Inv
  <2>2. \A p \in Peer : Seen(p) = {} /\ disk.store[p] = {}
    BY DEF DeliveryInit, Init, EmptyMaps, Seen
  <2>3. \A p \in Peer : Numbered(Seen(p), arrivals)
    BY <2>2, FS_EmptySet DEF Numbered
  <2> QED BY <2>1, <2>2, <2>3 DEF DeliveryInit, DeliveryInv, Cursors, Reached, Had, Passed, Fresh
<1>2. DeliveryInv /\ [DeliveryNext]_allVars => DeliveryInv'
  BY DeliveryStep
<1>3. DeliveryInv => NoSkip
  BY DEF DeliveryInv, Passed, NoSkip, Seen, Fresh
<1> QED BY <1>1, <1>2, <1>3, PTL DEF DeliverySpec

\* Clients that page, acknowledge and forget are no more to the relay than
\* requests: every step of RelayDelivery is one of RelayQueue, or none.
LEMMA DeliveryIsQueue == DeliverySpec => Spec
<1>1. DeliveryInit => Init
  BY DEF DeliveryInit
<1>2. [DeliveryNext]_allVars => [Next]_vars
  <2> SUFFICES ASSUME [DeliveryNext]_allVars
               PROVE  [Next]_vars
    OBVIOUS
  <2>1. ASSUME NEW to \in Peer, NEW parsed, Poll(to, parsed)
        PROVE  Fetch(to)
    BY <2>1 DEF Poll, Fetch
  <2>2. CASE \E to \in Peer, parsed \in Limits : Poll(to, parsed)
    BY <2>1, <2>2 DEF Next
  <2>3. CASE \E to \in Peer, id \in Id : AckReceived(to, id)
    BY <2>3 DEF AckReceived, Next
  <2>4. CASE \E to \in Peer : Forget(to)
    BY <2>4 DEF Forget
  <2>5. CASE UNCHANGED allVars
    BY <2>5 DEF allVars
  <2>6. CASE \/ \E to \in Peer, id \in Id : Store(to, id)
             \/ \E to \in Peer : Fetch(to)
             \/ PruneTimer \/ Crash \/ Restart \/ Tick
    BY <2>6 DEF Next
  <2> QED BY <2>2, <2>3, <2>4, <2>5, <2>6 DEF DeliveryNext
<1> QED BY <1>1, <1>2, PTL DEF DeliverySpec, Spec

\* So the queues keep their promise to clients that page through them with
\* cursors, lose answers and start anew.
THEOREM DeliveryImplementsMailbox == DeliverySpec => KeepsPromise
BY DeliveryIsQueue, QueuesImplementMailbox, PTL

---------------------------------------------------------------------------
(* Groups: what the handlers do to the memberships.                        *)

\* What a record must be: the clauses of WithinDelegation about it.
Lawful(group) ==
  LET Allowed(p, action) ==
        \E t \in group.delegations : action \in t.permissions /\ p \notin t.protected
  IN  Governed(group) =>
        /\ group.owner \in group.members
        /\ \A p \in group.listed \ group.members : Allowed(p, "remove")
        /\ \A p \in group.members \ group.listed : Allowed(p, "add")

Ruled(m) ==
  /\ Triple(m)
  /\ m.groups = [g \in Group |-> m.groups[g]]
  /\ \A g \in Group : Lawful(m.groups[g])

\* The governed records of a are in b, unless they have expired.
Spared(a, b) ==
  \A g \in Group : Governed(a[g]) => b[g] = a[g] \/ b[g] = Expired(now)

\* A run that began with the maps M and the snapshots D has spared the
\* governed records of the memory, in memory and where it has saved.
Altered(M, D, r) ==
  /\ Ruled(r.mem) /\ Ruled(r.disk)
  /\ Spared(M.groups, r.mem.groups)
  /\ r.disk.groups = D.groups \/ Spared(M.groups, r.disk.groups)

LEMMA BeginAltered ==
  ASSUME NEW M, NEW D, Ruled(M), Ruled(D)
  PROVE  Altered(M, D, Begin(M, D))
BY DEF Altered, Begin, Spared

\* Writes of the queues and of the tombstones alter no record.
LEMMA LikeRuled ==
  ASSUME NEW m, NEW n, Ruled(m), Like(m, n)
  PROVE  Ruled(n) /\ n.groups = m.groups
BY NotBoth DEF Ruled, Like

LEMMA LikeAltered ==
  ASSUME NEW M, NEW D, NEW run, Altered(M, D, run),
         NEW r, Like(run.mem, r.mem), Like(run.disk, r.disk)
  PROVE  Altered(M, D, r) /\ r.mem.groups = run.mem.groups
<1>1. /\ Ruled(r.mem) /\ r.mem.groups = run.mem.groups
      /\ Ruled(r.disk) /\ r.disk.groups = run.disk.groups
  BY LikeRuled DEF Altered
<1> QED BY <1>1 DEF Altered

\* What replacing the records does to the maps.
LEMMA GroupsReplaced ==
  ASSUME NEW m, Triple(m), NEW gs
  PROVE  /\ Triple([m EXCEPT !.groups = gs])
         /\ [m EXCEPT !.groups = gs].groups = gs
         /\ [m EXCEPT !.groups = gs].store = m.store
         /\ [m EXCEPT !.groups = gs].acked = m.acked
<1> DEFINE a == m.store
           b == m.acked
           c == m.groups
<1>1. m = [store |-> a, acked |-> b, groups |-> c]
  BY DEF Triple
<1> HIDE DEF a, b, c
<1>2. [m EXCEPT !.groups = gs] = [store |-> a, acked |-> b, groups |-> gs]
  BY <1>1
<1> QED BY <1>1, <1>2 DEF Triple

\* The run r differs from run in records only.
Beside(run, r) ==
  /\ r.mem.store = run.mem.store /\ r.mem.acked = run.mem.acked
  /\ r.disk.store = run.disk.store /\ r.disk.acked = run.disk.acked
  /\ Triple(r.mem) /\ Triple(r.disk)
  /\ r.ok \in BOOLEAN /\ (r.ok => run.ok)

LEMMA BesideFrom ==
  ASSUME NEW M, NEW D, NEW R, NEW id, NEW run, From(M, D, run, R, id), NEW r, Beside(run, r)
  PROVE  From(M, D, r, R, id)
<1>1. Good(r.mem) /\ Good(r.disk)
  BY DEF From, Beside, Good, Shaped
<1> QED BY <1>1 DEF From, Beside

\* RelayGroupMembershipStore.set and delete
LEMMA SetGroupsRuns ==
  ASSUME NEW run, run.ok \in BOOLEAN, Triple(run.mem), Triple(run.disk),
         NEW gs, NEW r \in SetGroups(run, gs)
  PROVE  /\ Beside(run, r)
         /\ r = run \/ (/\ r.mem.groups = gs
                        /\ r.disk.groups = gs \/ r.disk.groups = run.disk.groups)
<1> DEFINE m == [run.mem EXCEPT !.groups = gs]
           d == [run.disk EXCEPT !.groups = gs]
<1>1. /\ Triple(m) /\ m.groups = gs /\ m.store = run.mem.store /\ m.acked = run.mem.acked
      /\ Triple(d) /\ d.groups = gs /\ d.store = run.disk.store /\ d.acked = run.disk.acked
  BY GroupsReplaced
<1>2. /\ ~run.ok => r = run
      /\ run.ok => r.mem = m /\ r.ok \in BOOLEAN /\ (r.disk = d \/ (~r.ok /\ r.disk = run.disk))
  <2>1. r \in Saved(run, m, d)
    BY DEF SetGroups
  <2> HIDE DEF m, d
  <2> QED BY <2>1, SavedRuns
<1> HIDE DEF m, d
<1>3. CASE ~run.ok
  <2>1. r = run
    BY <1>2, <1>3
  <2> QED BY <2>1 DEF Beside
<1>4. CASE run.ok
  <2>1. Beside(run, r)
    BY <1>1, <1>2, <1>4 DEF Beside
  <2> QED BY <1>1, <1>2, <1>4, <2>1
<1> QED BY <1>3, <1>4

\* pruneGroupMemberships
LEMMA PruneGroupMembershipsFrom ==
  ASSUME now \in Nat, NEW M, NEW D, NEW run, Altered(M, D, run), run.ok \in BOOLEAN,
         NEW r \in PruneGroupMemberships(run)
  PROVE  Beside(run, r) /\ Altered(M, D, r)
<1> DEFINE groups == run.mem.groups
           due == {g \in Group : Aged(groups[g]) # groups[g]}
           After(done) == [g \in Group |-> IF g \in done THEN Aged(groups[g]) ELSE groups[g]]
           Memory(done) == [run.mem EXCEPT !.groups = After(done)]
           Snapshots(done) == IF done = {} THEN run.disk ELSE [run.disk EXCEPT !.groups = After(done)]
<1>1. Ruled(run.mem) /\ Ruled(run.disk) /\ Triple(run.mem) /\ Triple(run.disk)
  BY DEF Altered, Ruled
<1>2. CASE ~run.ok \/ due = {}
  <2>1. r = run
    BY <1>2 DEF PruneGroupMemberships
  <2> QED BY <1>1, <2>1 DEF Beside
<1>3. CASE run.ok /\ due # {}
  <2>1. \A done : /\ Triple(Memory(done)) /\ Memory(done).groups = After(done)
                  /\ Memory(done).store = run.mem.store /\ Memory(done).acked = run.mem.acked
    <3> HIDE DEF After
    <3> QED BY <1>1, GroupsReplaced
  <2>2. \A done : /\ Triple(Snapshots(done))
                  /\ Snapshots(done).groups = IF done = {} THEN run.disk.groups ELSE After(done)
                  /\ Snapshots(done).store = run.disk.store /\ Snapshots(done).acked = run.disk.acked
    <3> HIDE DEF After
    <3> QED BY <1>1, GroupsReplaced
  <2>3. ASSUME NEW done
        PROVE  /\ After(done) = [g \in Group |-> After(done)[g]]
               /\ \A g \in Group : Lawful(After(done)[g])
               /\ Spared(M.groups, After(done))
    <3>1. \A g \in Group : Lawful(After(done)[g])
      <4> TAKE g \in Group
      <4>1. Lawful(groups[g])
        BY <1>1 DEF Ruled
      <4>2. Aged(groups[g]) = groups[g] \/ Aged(groups[g]).kind \in {"absent", "expired"}
        BY DEF Aged, Absent, Expired
      <4>3. Lawful(Aged(groups[g]))
        BY <4>1, <4>2 DEF Lawful, Governed
      <4> HIDE DEF groups
      <4> QED BY <4>1, <4>3
    <3>2. ASSUME NEW g \in Group, Governed(M.groups[g])
          PROVE  After(done)[g] = M.groups[g] \/ After(done)[g] = Expired(now)
      <4>1. groups[g] = M.groups[g] \/ groups[g] = Expired(now)
        BY <3>2 DEF Altered, Spared
      <4>2. CASE g \notin done
        BY <4>1, <4>2
      <4>3. CASE g \in done /\ groups[g] = M.groups[g]
        BY <3>2, <4>3 DEF Aged, Governed, Expired
      <4>4. CASE g \in done /\ groups[g] # M.groups[g]
        <5>1. Aged(Expired(now)) = Expired(now)
          BY GroupAssumption DEF Aged, Expired
        <5> QED BY <4>1, <4>4, <5>1
      <4> QED BY <4>2, <4>3, <4>4
    <3>3. After(done) = [g \in Group |-> After(done)[g]]
      OBVIOUS
    <3> HIDE DEF After
    <3> QED BY <3>1, <3>2, <3>3 DEF Spared
  <2>4. PICK done, left : r.mem = Memory(done) /\ r.disk = Snapshots(left) /\ r.ok \in BOOLEAN
    <3> HIDE DEF Memory, Snapshots, due
    <3>1. \/ r = [mem |-> Memory(due), disk |-> Snapshots(due), ok |-> TRUE]
          \/ \E done \in (SUBSET due) \ {{}} :
               r \in Stopped(Memory(done),
                             {Snapshots(done)} \cup {Snapshots(done \ {last}) : last \in done})
      BY <1>3 DEF PruneGroupMemberships, Memory, Snapshots, due
    <3>2. CASE r = [mem |-> Memory(due), disk |-> Snapshots(due), ok |-> TRUE]
      BY <3>2
    <3>3. CASE \E done \in (SUBSET due) \ {{}} :
                 r \in Stopped(Memory(done),
                               {Snapshots(done)} \cup {Snapshots(done \ {last}) : last \in done})
      <4>1. PICK done : r \in Stopped(Memory(done),
                                      {Snapshots(done)} \cup {Snapshots(done \ {last}) : last \in done})
        BY <3>3
      <4> DEFINE S == {Snapshots(done)} \cup {Snapshots(done \ {last}) : last \in done}
      <4>2. r.mem = Memory(done) /\ r.ok = FALSE /\ r.disk \in S
        <5>1. r \in Stopped(Memory(done), S)
          BY <4>1
        <5> HIDE DEF S
        <5> QED BY <5>1, StoppedRuns
      <4>3. PICK left : r.disk = Snapshots(left)
        BY <4>2
      <4> QED BY <4>2, <4>3
    <3> QED BY <3>1, <3>2, <3>3
  <2> HIDE DEF Memory, Snapshots, After
  <2>5. Beside(run, r)
    BY <1>3, <2>1, <2>2, <2>4 DEF Beside
  <2>6. /\ r.mem.groups = After(done)
        /\ r.disk.groups = run.disk.groups \/ r.disk.groups = After(left)
    BY <2>1, <2>2, <2>4
  <2>7. Ruled(r.mem) /\ Ruled(r.disk)
    BY <1>1, <2>3, <2>5, <2>6 DEF Ruled, Beside
  <2> QED BY <2>3, <2>5, <2>6, <2>7 DEF Altered
<1> QED BY <1>2, <1>3

\* A group store to a group that is not known.
LEMMA BootstrapFrom ==
  ASSUME NEW M, NEW D, NEW run, Altered(M, D, run), run.ok \in BOOLEAN,
         NEW g \in Group, NEW from, NEW R, NEW r \in Bootstrap(run, g, from, R)
  PROVE  Beside(run, r) /\ Altered(M, D, r)
<1> DEFINE made == Membership(from, {from} \cup R, {}, {from} \cup R, TRUE)
           gs == [run.mem.groups EXCEPT ![g] = made]
<1>1. Ruled(run.mem) /\ Ruled(run.disk) /\ Triple(run.mem) /\ Triple(run.disk)
  BY DEF Altered, Ruled
<1>2. CASE run.mem.groups[g].kind # "absent"
  <2>1. r = run
    BY <1>2 DEF Bootstrap
  <2> QED BY <1>1, <2>1 DEF Beside
<1>3. CASE run.mem.groups[g].kind = "absent"
  <2>1. r \in SetGroups(run, gs)
    BY <1>3 DEF Bootstrap
  <2>2. /\ gs = [h \in Group |-> gs[h]]
        /\ \A h \in Group : gs[h] = IF h = g THEN made ELSE run.mem.groups[h]
    <3>1. run.mem.groups = [h \in Group |-> run.mem.groups[h]]
      BY <1>1 DEF Ruled
    <3> HIDE DEF made
    <3> QED BY <3>1
  <2>3. Lawful(made)
    BY DEF Membership, Lawful, Governed
  <2>4. ~Governed(M.groups[g])
    <3> SUFFICES ASSUME Governed(M.groups[g]) PROVE FALSE
      OBVIOUS
    <3>1. run.mem.groups[g] = M.groups[g] \/ run.mem.groups[g] = Expired(now)
      BY DEF Altered, Spared
    <3> QED BY <1>3, <3>1 DEF Governed, Expired
  <2> HIDE DEF gs, made
  <2>5. /\ Beside(run, r)
        /\ r = run \/ (/\ r.mem.groups = gs
                       /\ r.disk.groups = gs \/ r.disk.groups = run.disk.groups)
    BY <1>1, <2>1, SetGroupsRuns
  <2>6. Spared(M.groups, gs)
    BY <2>2, <2>4 DEF Altered, Spared
  <2>7. CASE r = run
    BY <2>5, <2>7
  <2>8. CASE r.mem.groups = gs /\ (r.disk.groups = gs \/ r.disk.groups = run.disk.groups)
    <3>1. \A h \in Group : Lawful(gs[h])
      BY <1>1, <2>2, <2>3 DEF Ruled
    <3>2. Ruled(r.mem) /\ Ruled(r.disk)
      BY <1>1, <2>2, <2>5, <2>8, <3>1 DEF Ruled, Beside
    <3> QED BY <2>5, <2>6, <2>8, <3>2 DEF Altered
  <2> QED BY <2>5, <2>7, <2>8
<1> QED BY <1>2, <1>3
---------------------------------------------------------------------------
(* The fan-out of a group store. *)

LEMMA FollowsItself ==
  ASSUME NEW run, Good(run.mem), Good(run.disk)
  PROVE  Follows(run, run)
<1>1. Like(run.mem, run.mem) /\ Like(run.disk, run.disk)
  BY LikeItself DEF Good
<1> QED BY <1>1 DEF Follows, Fresh

LEMMA FollowsThrough ==
  ASSUME NEW a, NEW b, NEW c, Follows(a, b), Follows(b, c)
  PROVE  Follows(a, c)
<1>1. Like(a.mem, c.mem) /\ Like(a.disk, c.disk)
  BY LikeThrough DEF Follows
<1>2. \A p \in Peer : Fresh(a.mem.store[p]) \subseteq c.mem.store[p]
  BY DEF Follows, Fresh
<1>3. c.mem.acked = a.mem.acked /\ (c.ok => a.ok)
  BY DEF Follows
<1> QED BY <1>1, <1>2, <1>3 DEF Follows

\* The message id is in the queue of p, or p has acknowledged it.
Settled(r, p, id) ==
  Tombstoned(r, p, id) \/ \E x \in Fresh(r.mem.store[p]) : x.id = id

LEMMA SettledStays ==
  ASSUME NEW run, NEW r, Follows(run, r), NEW p \in Peer, NEW id, Settled(run, p, id)
  PROVE  Settled(r, p, id)
BY DEF Follows, Settled, Tombstoned, Fresh

\* One recipient.
LEMMA DeliverFrom ==
  ASSUME Counts, NEW M, M.acked \in Tombstones, NEW D, NEW R, NEW id \in Id,
         NEW run, From(M, D, run, R, id), NEW to \in Peer, to \in R,
         NEW r \in Deliver(run, to, id)
  PROVE  From(M, D, r, R, id) /\ Follows(run, r) /\ (r.ok => Settled(r, to, id))
<1>1. CASE ~run.ok \/ Tombstoned(run, to, id)
  <2>1. r = run
    BY <1>1 DEF Deliver
  <2>2. Follows(run, run)
    BY FollowsItself DEF From
  <2> QED BY <1>1, <2>1, <2>2 DEF Settled
<1>2. CASE run.ok /\ ~Tombstoned(run, to, id)
  <2>1. PICK pruned \in PruneRecipient(run, to) : r \in Push(pruned, to, id)
    BY <1>2 DEF Deliver
  <2>2. EnvelopeKey[<<to, id>>] \in Key
    BY KeysDiffer
  <2>3. /\ From(M, D, r, R, id) /\ Follows(run, r)
        /\ r.ok => \E x \in Fresh(r.mem.store[to]) : x.id = id
    BY <1>2, <2>1, <2>2, DeliveredFrom
  <2> QED BY <2>3 DEF Settled
<1> QED BY <1>1, <1>2

\* Numbers that hold 0, and each number whose predecessor they hold, up to n.
LEMMA UpTo ==
  ASSUME NEW S, NEW n \in Nat, 0 \in S, \A k \in 1..n : k - 1 \in S => k \in S
  PROVE  \A k \in 0..n : k \in S
<1> DEFINE missing == {k \in 0..n : k \notin S}
<1> SUFFICES ASSUME missing # {} PROVE FALSE
  OBVIOUS
<1>1. PICK k \in missing : \A j \in missing : k <= j
  <2>1. missing \in SUBSET Nat
    OBVIOUS
  <2> HIDE DEF missing
  <2> QED BY <2>1, Least
<1>2. k \in 1..n /\ k - 1 \in 0..n /\ k \notin S
  BY <1>1
<1>3. k - 1 \notin missing
  BY <1>1, <1>2
<1> QED BY <1>2, <1>3

\* The turn of the k-th peer.
Turn(k, runs, R, id) ==
  UNION {IF Sorted[k] \in R THEN Deliver(r, Sorted[k], id) ELSE {r} : r \in runs}

\* The runs of the loop up to its n-th turn.
IsLoop(f, n, run, R, id) ==
  f = [k \in 0..n |-> IF k = 0 THEN {run} ELSE Turn(k, f[k - 1], R, id)]

\* What the loop is from its first run to its last turn.
Leads(h, run, R, id) ==
  /\ h[0] = {run}
  /\ h[Len(Sorted)] = FanOut(run, R, id)
  /\ \A k \in 1..Len(Sorted) : h[k] = Turn(k, h[k - 1], R, id)

\* The runs of the loop, one peer at a time.
LEMMA FanOutSteps ==
  ASSUME NEW run, NEW R, NEW id
  PROVE  \E h : Leads(h, run, R, id)
<1> DEFINE def == {n \in Nat : \E f : IsLoop(f, n, run, R, id)}
<1>0. Len(Sorted) \in Nat
  BY GroupAssumption
<1>1. 0 \in def
  <2> DEFINE f == [k \in 0..0 |-> {run}]
  <2>1. IsLoop(f, 0, run, R, id)
    BY DEF IsLoop
  <2> QED BY <2>1
<1>2. ASSUME NEW n \in 1..Len(Sorted), n - 1 \in def
      PROVE  n \in def
  <2>1. PICK f : IsLoop(f, n - 1, run, R, id)
    BY <1>2
  <2> DEFINE g == [k \in 0..n |-> IF k = n THEN Turn(n, f[n - 1], R, id) ELSE f[k]]
  <2>2. \A k \in 0..n : g[k] = IF k = 0 THEN {run} ELSE Turn(k, g[k - 1], R, id)
    <3> TAKE k \in 0..n
    <3>1. CASE k = n
      <4>1. k # 0 /\ n - 1 \in 0..n /\ n - 1 # n
        BY <3>1
      <4>2. g[n - 1] = f[n - 1] /\ g[n] = Turn(n, f[n - 1], R, id)
        BY <4>1
      <4> QED BY <3>1, <4>1, <4>2
    <3>2. CASE k # n
      <4>1. k \in 0..(n - 1) /\ g[k] = f[k]
        BY <3>2
      <4>2. f[k] = IF k = 0 THEN {run} ELSE Turn(k, f[k - 1], R, id)
        BY <2>1, <4>1 DEF IsLoop
      <4>3. k # 0 => g[k - 1] = f[k - 1]
        BY <4>1
      <4> QED BY <4>1, <4>2, <4>3
    <3> QED BY <3>1, <3>2
  <2>3. g = [k \in 0..n |-> IF k = 0 THEN {run} ELSE Turn(k, g[k - 1], R, id)]
    <3>1. g = [k \in 0..n |-> g[k]]
      OBVIOUS
    <3> HIDE DEF g
    <3> QED BY <2>2, <3>1
  <2> HIDE DEF g
  <2> QED BY <2>3 DEF IsLoop
<1>3. Len(Sorted) \in def
  <2>1. \A k \in 1..Len(Sorted) : k - 1 \in def => k \in def
    BY <1>2
  <2>2. Len(Sorted) \in 0..Len(Sorted)
    BY <1>0
  <2> HIDE DEF def
  <2>3. \A k \in 0..Len(Sorted) : k \in def
    BY <1>0, <1>1, <2>1, UpTo, Zenon
  <2> QED BY <2>2, <2>3
<1> DEFINE h == CHOOSE f : IsLoop(f, Len(Sorted), run, R, id)
<1>4. IsLoop(h, Len(Sorted), run, R, id)
  BY <1>3
<1>5. h[Len(Sorted)] = FanOut(run, R, id)
  BY DEF FanOut, IsLoop, Turn
<1> HIDE DEF h
<1>6. h[0] = {run}
  BY <1>0, <1>4 DEF IsLoop
<1>7. ASSUME NEW k \in 1..Len(Sorted)
      PROVE  h[k] = Turn(k, h[k - 1], R, id)
  <2>1. k \in 0..Len(Sorted) /\ k # 0
    BY <1>0
  <2> QED BY <1>4, <2>1 DEF IsLoop
<1> QED BY <1>5, <1>6, <1>7 DEF Leads

\* The whole loop: a run that got through has reached every recipient.
LEMMA FanOutFrom ==
  ASSUME Counts, NEW M, M.acked \in Tombstones, NEW D, NEW R \in SUBSET Peer, NEW id \in Id,
         NEW run, From(M, D, run, R, id), NEW y \in FanOut(run, R, id)
  PROVE  /\ From(M, D, y, R, id) /\ Follows(run, y)
         /\ y.ok => \A p \in R : Settled(y, p, id)
<1>0. PICK h : Leads(h, run, R, id)
  BY FanOutSteps
<1>1. /\ h[0] = {run}
      /\ h[Len(Sorted)] = FanOut(run, R, id)
      /\ \A k \in 1..Len(Sorted) : h[k] = Turn(k, h[k - 1], R, id)
  BY <1>0 DEF Leads
<1>2. Len(Sorted) \in Nat /\ \A k \in 1..Len(Sorted) : Sorted[k] \in Peer
  BY GroupAssumption
<1> DEFINE Got(r, k) ==
             /\ From(M, D, r, R, id) /\ Follows(run, r)
             /\ r.ok => \A i \in 1..k : Sorted[i] \in R => Settled(r, Sorted[i], id)
           S == {k \in 0..Len(Sorted) : \A r \in h[k] : Got(r, k)}
<1>3. 0 \in S
  <2>1. Follows(run, run)
    BY FollowsItself DEF From
  <2> QED BY <1>1, <1>2, <2>1
<1>4. ASSUME NEW k \in 1..Len(Sorted), k - 1 \in S
      PROVE  k \in S
  <2> SUFFICES ASSUME NEW r \in h[k] PROVE Got(r, k)
    BY <1>2
  <2>1. PICK q \in h[k - 1] : r \in IF Sorted[k] \in R THEN Deliver(q, Sorted[k], id) ELSE {q}
    BY <1>1 DEF Turn
  <2>2. Got(q, k - 1)
    BY <1>4, <2>1
  <2>3. \A i \in 1..k : i = k \/ i \in 1..(k - 1)
    OBVIOUS
  <2>4. CASE Sorted[k] \notin R
    BY <2>1, <2>2, <2>3, <2>4
  <2>5. CASE Sorted[k] \in R
    <3>1. r \in Deliver(q, Sorted[k], id)
      BY <2>1, <2>5
    <3>2. From(M, D, r, R, id) /\ Follows(q, r) /\ (r.ok => Settled(r, Sorted[k], id))
      BY <1>2, <2>2, <2>5, <3>1, DeliverFrom
    <3>3. Follows(run, r)
      BY <2>2, <3>2, FollowsThrough
    <3>4. ASSUME r.ok, NEW i \in 1..k, Sorted[i] \in R
          PROVE  Settled(r, Sorted[i], id)
      <4>1. CASE i = k
        BY <3>2, <3>4, <4>1
      <4>2. CASE i \in 1..(k - 1)
        <5>1. q.ok
          BY <3>2, <3>4 DEF Follows
        <5>2. Settled(q, Sorted[i], id)
          BY <2>2, <3>4, <4>2, <5>1
        <5> QED BY <1>2, <3>2, <5>2, SettledStays
      <4> QED BY <2>3, <4>1, <4>2
    <3> QED BY <3>2, <3>3, <3>4
  <2> QED BY <2>4, <2>5
<1>5. Len(Sorted) \in S
  <2>1. \A k \in 1..Len(Sorted) : k - 1 \in S => k \in S
    BY <1>4
  <2> HIDE DEF S
  <2>2. \A k \in 0..Len(Sorted) : k \in S
    BY <1>2, <1>3, <2>1, UpTo, Zenon
  <2> QED BY <1>2, <2>2
<1>6. Got(y, Len(Sorted))
  BY <1>1, <1>5
<1>7. \A p \in R : \E i \in 1..Len(Sorted) : Sorted[i] = p
  BY GroupAssumption
<1> QED BY <1>6, <1>7

\* What a run has done for no recipient it may do for some.
LEMMA FromMore ==
  ASSUME NEW M, NEW D, NEW r, NEW i, From(M, D, r, {}, i), NEW R, NEW id
  PROVE  From(M, D, r, R, id)
BY DEF From, Grown, Covers

\* A recipient whose tombstone is no longer in force has the message.
Gets(r, R, id) ==
  \A p \in R : now >= mem.acked[EnvelopeKey[<<p, id>>]] =>
    \E x \in Fresh(r.mem.store[p]) : x.id = id

\* The runs of POST /relay/group/store: one that is refused has only pruned
\* and perhaps written the record, one that goes through has reached everyone.
LEMMA GroupStoreRunsFrom ==
  ASSUME Counts, Good(mem), Good(disk), Ruled(mem), Ruled(disk),
         NEW g \in Group, NEW from, NEW R \in SUBSET Peer, NEW id \in Id,
         NEW y \in GroupStoreRuns(g, from, R, id)
  PROVE  /\ From(mem, disk, y, R, id)
         /\ Altered(mem, disk, y)
         /\ Admits(y, g, from, R) \/ From(mem, disk, y, {}, id)
         /\ y.ok /\ Admits(y, g, from, R) => Gets(y, R, id)
<1> DEFINE none == {}
<1>1. PICK a, b, c :
        /\ a \in PruneAckTombstones(Begin(mem, disk))
        /\ b \in PruneGroupMemberships(a)
        /\ c \in Bootstrap(b, g, from, R)
        /\ y \in IF c.ok /\ Admits(c, g, from, R) THEN FanOut(c, R, id) ELSE {c}
  BY DEF GroupStoreRuns
<1>2. /\ From(mem, disk, a, none, id) /\ Altered(mem, disk, a)
      /\ a.ok => \A k \in Key : a.mem.acked[k] = None \/ now < a.mem.acked[k]
  <2> HIDE DEF none
  <2>1. /\ From(mem, disk, Begin(mem, disk), none, id)
        /\ Altered(mem, disk, Begin(mem, disk))
    BY BeginFrom, BeginAltered
  <2>2. /\ From(mem, disk, a, none, id)
        /\ Like(Begin(mem, disk).mem, a.mem) /\ Like(Begin(mem, disk).disk, a.disk)
        /\ a.ok => \A k \in Key : a.mem.acked[k] = None \/ now < a.mem.acked[k]
    BY <1>1, <2>1, PruneAckTombstonesFrom
  <2> QED BY <2>1, <2>2, LikeAltered
<1>3. /\ From(mem, disk, b, none, id) /\ Altered(mem, disk, b)
      /\ b.mem.acked = a.mem.acked
      /\ b.ok => a.ok
  <2> HIDE DEF none
  <2>1. a.ok \in BOOLEAN /\ now \in Nat
    BY <1>2 DEF From, Counts
  <2>2. Beside(a, b) /\ Altered(mem, disk, b)
    BY <1>1, <1>2, <2>1, PruneGroupMembershipsFrom
  <2>3. From(mem, disk, b, none, id)
    BY <1>2, <2>2, BesideFrom
  <2> QED BY <2>2, <2>3 DEF Beside
<1>4. /\ From(mem, disk, c, none, id) /\ Altered(mem, disk, c)
      /\ c.mem.acked = b.mem.acked
      /\ c.ok => b.ok
  <2> HIDE DEF none
  <2>1. b.ok \in BOOLEAN
    BY <1>3 DEF From
  <2>2. Beside(b, c) /\ Altered(mem, disk, c)
    BY <1>1, <1>3, <2>1, BootstrapFrom
  <2>3. From(mem, disk, c, none, id)
    BY <1>3, <2>2, BesideFrom
  <2> QED BY <2>2, <2>3 DEF Beside
<1>5. From(mem, disk, c, R, id)
  BY <1>4, FromMore
<1>6. CASE ~(c.ok /\ Admits(c, g, from, R))
  <2>1. y = c
    BY <1>1, <1>6
  <2> QED BY <1>4, <1>5, <1>6, <2>1
<1>7. CASE c.ok /\ Admits(c, g, from, R)
  <2>1. y \in FanOut(c, R, id)
    BY <1>1, <1>7
  <2>2. /\ From(mem, disk, y, R, id) /\ Follows(c, y)
        /\ y.ok => \A p \in R : Settled(y, p, id)
    BY <1>5, <2>1, FanOutFrom DEF Good
  <2>3. Altered(mem, disk, y) /\ y.mem.groups = c.mem.groups
    <3>1. Like(c.mem, y.mem) /\ Like(c.disk, y.disk)
      BY <2>2 DEF Follows
    <3> QED BY <1>4, <3>1, LikeAltered
  <2>4. Admits(y, g, from, R)
    BY <1>7, <2>3 DEF Admits
  <2>5. ASSUME y.ok
        PROVE  Gets(y, R, id)
    <3> SUFFICES ASSUME NEW p \in R, now >= mem.acked[EnvelopeKey[<<p, id>>]]
                 PROVE  \E x \in Fresh(y.mem.store[p]) : x.id = id
      BY DEF Gets
    <3> DEFINE k == EnvelopeKey[<<p, id>>]
    <3>1. Settled(y, p, id) /\ k \in Key
      BY <2>2, <2>5, KeysDiffer
    <3>2. y.mem.acked[k] = None
      <4>1. y.mem.acked = a.mem.acked /\ a.ok
        BY <1>3, <1>4, <2>2, <2>5 DEF Follows
      <4>2. a.mem.acked[k] = None \/ now < a.mem.acked[k]
        BY <1>2, <3>1, <4>1
      <4>3. a.mem.acked[k] = mem.acked[k] \/ a.mem.acked[k] = None
        BY <1>2, <3>1 DEF From, Lapsed
      <4>4. mem.acked[k] \in Int /\ now \in Int
        BY <3>1 DEF Good, Tombstones, None, Counts
      <4> QED BY <4>1, <4>2, <4>3, <4>4
    <3> QED BY <3>1, <3>2 DEF Settled, Tombstoned
  <2> QED BY <2>2, <2>3, <2>4, <2>5
<1> QED BY <1>6, <1>7

---------------------------------------------------------------------------
(* The records. *)

OwnersKept(a, b) ==
  \A g \in Group :
    Governed(a[g]) /\ b[g].kind = "live" => Governed(b[g]) /\ b[g].owner = a[g].owner

\* What a step does to the records: those it leaves, in memory and on disk,
\* are those of the disk, or have the owners of those in memory.
Obeys ==
  /\ Ruled(mem') /\ Ruled(disk')
  /\ mem'.groups = disk.groups \/ OwnersKept(mem.groups, mem'.groups)
  /\ disk'.groups = disk.groups \/ OwnersKept(mem.groups, disk'.groups)

LEMMA AlteredObeys ==
  ASSUME NEW run, Altered(mem, disk, run), NEW keys, Left(run, keys)
  PROVE  Obeys
<1>1. disk' = run.disk /\ (mem' = run.mem \/ mem' = run.disk)
  BY DEF Left, Dies
<1>2. ASSUME NEW a, NEW b, Spared(a, b)
      PROVE  OwnersKept(a, b)
  BY <1>2 DEF Spared, OwnersKept, Expired
<1> QED BY <1>1, <1>2 DEF Altered, Obeys

LEMMA SteadyObeys ==
  ASSUME Ruled(mem), Ruled(disk), Steady
  PROVE  Obeys
<1>1. Ruled(disk') /\ disk'.groups = disk.groups
  BY LikeRuled DEF Steady
<1>2. mem' = disk' \/ (Ruled(mem') /\ mem'.groups = mem.groups)
  BY LikeRuled DEF Steady
<1>3. OwnersKept(mem.groups, mem.groups)
  BY DEF OwnersKept
<1> QED BY <1>1, <1>2, <1>3 DEF Obeys

\* Where memory and disk agreed on the owner they still do.
LEMMA ObeysOwners ==
  ASSUME Obeys, NEW g \in Group, NEW owner,
         \A group \in {mem.groups[g], disk.groups[g]} : Governed(group) /\ group.owner = owner,
         NEW group \in {mem'.groups[g], disk'.groups[g]}, group.kind = "live"
  PROVE  Governed(group) /\ group.owner = owner
BY DEF Obeys, OwnersKept

---------------------------------------------------------------------------
(* The steps of the groups. *)

GroupInv == Books /\ Ruled(mem) /\ Ruled(disk)

LEMMA GroupStoreHandled ==
  ASSUME GroupInv, NEW g \in Group, NEW from \in Peer, NEW R \in SUBSET Peer, NEW id \in Id,
         GroupStore(g, from, R, id)
  PROVE  Books' /\ (Promise!Post(R, id) \/ Promise!Expire) /\ Obeys
<1> DEFINE keys == {EnvelopeKey[<<p, id>>] : p \in R}
           told == {p \in R : EnvelopeKey[<<p, id>>] \notin unsettled}
<1>1. /\ Books /\ Counts /\ Good(mem) /\ Good(disk) /\ Ruled(mem) /\ Ruled(disk)
      /\ up \in BOOLEAN /\ up /\ arrivals' \in Nat
      /\ UNCHANGED <<now, confirmed, refused>>
  BY DEF GroupInv, Books, Accounts, Counts, GroupStore
<1>2. PICK run \in GroupStoreRuns(g, from, R, id) :
        /\ Serves(run, keys)
        /\ owed' = IF run.ok /\ Admits(run, g, from, R)
                   THEN owed \cup UNION {{[to |-> p, item |-> x] : x \in Owing(run, p, id)}
                                          : p \in told}
                   ELSE owed
  BY DEF GroupStore
<1>3. /\ From(mem, disk, run, R, id)
      /\ Altered(mem, disk, run)
      /\ Admits(run, g, from, R) \/ From(mem, disk, run, {}, id)
      /\ run.ok /\ Admits(run, g, from, R) => Gets(run, R, id)
  BY <1>1, GroupStoreRunsFrom
<1>4. Left(run, keys)
  <2> HIDE DEF keys
  <2> QED BY <1>1, <1>2, ServesLeft
<1>5. Obeys
  <2> HIDE DEF keys
  <2> QED BY <1>3, <1>4, AlteredObeys
<1>6. keys \in SUBSET Key
  <2>1. \A p \in R : EnvelopeKey[<<p, id>>] \in Key
    BY KeysDiffer
  <2> QED BY <2>1
<1>7. CASE run.ok /\ ~Admits(run, g, from, R)
  <2> HIDE DEF keys, told
  <2>1. UNCHANGED <<now, owed, confirmed, refused>>
    BY <1>1, <1>2, <1>7
  <2>2. Books' /\ Promise!Expire
    BY <1>1, <1>3, <1>4, <1>6, <1>7, <2>1, PruneStep
  <2> QED BY <1>5, <2>2
<1>8. CASE ~(run.ok /\ ~Admits(run, g, from, R))
  <2>1. run.ok => \A p \in R : now >= mem.acked[EnvelopeKey[<<p, id>>]] =>
                     \E x \in Fresh(run.mem.store[p]) : x.id = id
    BY <1>3, <1>8 DEF Gets
  <2>2. \A o : o \in owed' <=> \/ o \in owed
                               \/ /\ run.ok
                                  /\ \E p \in R : /\ EnvelopeKey[<<p, id>>] \notin unsettled
                                                  /\ \E x \in Owing(run, p, id) :
                                                       o = [to |-> p, item |-> x]
    <3>1. CASE run.ok
      <4>1. owed' = owed \cup UNION {{[to |-> p, item |-> x] : x \in Owing(run, p, id)}
                                       : p \in told}
        <5> HIDE DEF told
        <5> QED BY <1>2, <1>8, <3>1
      <4> QED BY <3>1, <4>1
    <3>2. CASE ~run.ok
      <4>1. owed' = owed
        <5> HIDE DEF told
        <5> QED BY <1>2, <3>2
      <4> QED BY <3>2, <4>1
    <3> QED BY <3>1, <3>2
  <2>3. Left(run, {EnvelopeKey[<<p, id>>] : p \in R})
    BY <1>4
  <2>4. Books' /\ Promise!Post(R, id)
    BY <1>1, <1>3, <2>1, <2>2, <2>3, PostStep
  <2> QED BY <1>5, <2>4
<1> QED BY <1>7, <1>8

\* A membership update whose record is lawful, and whose owner is that of the
\* governed record it replaces in memory.
LEMMA UpdateHandled ==
  ASSUME GroupInv, up, NEW g \in Group, NEW record, Lawful(record),
         Governed(mem.groups[g]) => Governed(record) /\ record.owner = mem.groups[g].owner,
         NEW run \in SetGroups(Begin(mem, disk), [mem.groups EXCEPT ![g] = record]),
         Serves(run, {}), UNCHANGED <<now, arrivals, owed, confirmed, refused>>
  PROVE  Books' /\ Promise!Expire /\ Obeys
<1> DEFINE gs == [mem.groups EXCEPT ![g] = record]
           first == Begin(mem, disk)
<1>1. /\ Books /\ Good(mem) /\ Good(disk) /\ Ruled(mem) /\ Ruled(disk)
      /\ up \in BOOLEAN /\ arrivals' \in Nat
  BY DEF GroupInv, Books, Accounts, Counts
<1>2. /\ first.ok \in BOOLEAN /\ first.mem = mem /\ first.disk = disk
      /\ Triple(first.mem) /\ Triple(first.disk)
  BY <1>1 DEF Begin, Ruled
<1>3. From(mem, disk, first, {}, 0)
  BY <1>1, BeginFrom
<1>4. /\ gs = [h \in Group |-> gs[h]]
      /\ \A h \in Group : gs[h] = IF h = g THEN record ELSE mem.groups[h]
  <2>1. mem.groups = [h \in Group |-> mem.groups[h]]
    BY <1>1 DEF Ruled
  <2> QED BY <2>1
<1> HIDE DEF gs
<1>5. /\ Beside(first, run)
      /\ run = first \/ (/\ run.mem.groups = gs
                         /\ run.disk.groups = gs \/ run.disk.groups = disk.groups)
  <2>1. run \in SetGroups(first, gs)
    BY DEF gs
  <2> HIDE DEF first
  <2> QED BY <1>2, <2>1, SetGroupsRuns
<1> HIDE DEF first
<1>6. From(mem, disk, run, {}, 0)
  BY <1>3, <1>5, BesideFrom
<1>7. Left(run, {})
  BY <1>1, ServesLeft
<1>8. Books' /\ Promise!Expire
  BY <1>1, <1>6, <1>7, PruneStep
<1>9. OwnersKept(mem.groups, gs) /\ OwnersKept(mem.groups, mem.groups)
  BY <1>4 DEF OwnersKept
<1>10. \A h \in Group : Lawful(gs[h])
  BY <1>1, <1>4 DEF Ruled
<1>11. Ruled(run.mem) /\ Ruled(run.disk)
  BY <1>1, <1>2, <1>4, <1>5, <1>10 DEF Ruled, Beside
<1>12. /\ run.mem.groups = mem.groups \/ run.mem.groups = gs
       /\ run.disk.groups = disk.groups \/ run.disk.groups = gs
  BY <1>2, <1>5
<1>13. disk' = run.disk /\ (mem' = run.mem \/ mem' = run.disk)
  BY <1>7 DEF Left, Dies
<1>14. Obeys
  BY <1>9, <1>11, <1>12, <1>13 DEF Obeys
<1> QED BY <1>8, <1>14

LEMMA OwnerUpdateHandled ==
  ASSUME GroupInv, NEW g \in Group, NEW owner, NEW members, NEW versioned, NEW tokens,
         OwnerUpdate(g, owner, members, versioned, tokens)
  PROVE  Books' /\ Promise!Expire /\ Obeys
<1> DEFINE kept == IF Governed(mem.groups[g]) THEN mem.groups[g].delegations ELSE {}
           record == Membership(owner, members, IF versioned THEN tokens ELSE kept, members, FALSE)
<1>1. /\ up /\ owner \in members /\ OwnerAccepts(mem.groups[g], owner)
      /\ UNCHANGED <<now, arrivals, owed, confirmed, refused>>
  BY DEF OwnerUpdate
<1>2. PICK run \in SetGroups(Begin(mem, disk), [mem.groups EXCEPT ![g] = record]) : Serves(run, {})
  BY DEF OwnerUpdate
<1>3. Lawful(record) /\ Governed(record) /\ record.owner = owner
  BY <1>1 DEF Lawful, Governed, Membership
<1> HIDE DEF record
<1>4. Governed(mem.groups[g]) => Governed(record) /\ record.owner = mem.groups[g].owner
  BY <1>1, <1>3 DEF OwnerAccepts
<1> QED BY <1>1, <1>2, <1>3, <1>4, UpdateHandled

LEMMA AdminUpdateHandled ==
  ASSUME GroupInv, NEW g \in Group, NEW token, NEW action \in {"add", "remove"},
         NEW changed, NEW members,
         AdminUpdate(g, token, action, changed, members)
  PROVE  Books' /\ Promise!Expire /\ Obeys
<1> DEFINE group == mem.groups[g]
           expected == IF action = "add" THEN group.members \cup changed ELSE group.members \ changed
           record == Membership(group.owner, members, group.delegations, group.listed, FALSE)
<1>1. /\ up /\ MayChange(token, group, action, changed)
      /\ group.owner \in expected /\ members = expected
      /\ UNCHANGED <<now, arrivals, owed, confirmed, refused>>
  BY DEF AdminUpdate
<1>2. PICK run \in SetGroups(Begin(mem, disk), [mem.groups EXCEPT ![g] = record]) : Serves(run, {})
  BY DEF AdminUpdate
<1>3. /\ action \in token.permissions /\ Governed(group) /\ token \in group.delegations
      /\ \A p \in changed : p \notin token.protected
  BY <1>1 DEF MayChange
<1>4. Lawful(group)
  BY DEF GroupInv, Ruled
<1>5. Governed(record) /\ record.owner = group.owner /\ record.members = members
      /\ record.delegations = group.delegations /\ record.listed = group.listed
  BY DEF Governed, Membership
<1>6. Lawful(record)
  <2> HIDE DEF record, group
  <2>1. ASSUME NEW p \in record.listed \ record.members
        PROVE  \E t \in record.delegations : "remove" \in t.permissions /\ p \notin t.protected
    <3>1. CASE p \in group.listed \ group.members
      BY <1>3, <1>4, <1>5, <3>1 DEF Lawful
    <3>2. CASE p \in group.members
      <4>1. action = "remove" /\ p \in changed
        BY <1>1, <1>5, <2>1, <3>2
      <4> QED BY <1>3, <1>5, <4>1
    <3> QED BY <1>5, <2>1, <3>1, <3>2
  <2>2. ASSUME NEW p \in record.members \ record.listed
        PROVE  \E t \in record.delegations : "add" \in t.permissions /\ p \notin t.protected
    <3>1. CASE p \in group.members
      BY <1>3, <1>4, <1>5, <2>2, <3>1 DEF Lawful
    <3>2. CASE p \notin group.members
      <4>1. action = "add" /\ p \in changed
        BY <1>1, <1>5, <2>2, <3>2
      <4> QED BY <1>3, <1>5, <4>1
    <3> QED BY <3>1, <3>2
  <2>3. record.owner \in record.members
    BY <1>1, <1>5
  <2> QED BY <2>1, <2>2, <2>3 DEF Lawful
<1> HIDE DEF record
<1>7. Governed(mem.groups[g]) => Governed(record) /\ record.owner = mem.groups[g].owner
  BY <1>5
<1> QED BY <1>1, <1>2, <1>6, <1>7, UpdateHandled

\* The retention timer and startup.
LEMMA PruneStateHandled ==
  ASSUME GroupInv, up \/ mem = disk, NEW run \in PruneState(Begin(mem, disk)),
         NEW keys, keys = {}, Left(run, keys),
         UNCHANGED <<now, arrivals, owed, confirmed, refused>>,
         up \/ up' = FALSE \/ run.ok
  PROVE  Books' /\ Promise!Expire /\ Obeys
<1>1. /\ Books /\ Counts /\ Good(mem) /\ Good(disk) /\ Ruled(mem) /\ Ruled(disk)
      /\ arrivals' \in Nat
  BY DEF GroupInv, Books, Accounts, Counts
<1>2. PICK r \in PrunePersistentState(Begin(mem, disk)) : run \in PruneGroupMemberships(r)
  BY DEF PruneState
<1>3. /\ From(mem, disk, r, {}, 0) /\ r.ok \in BOOLEAN
      /\ Altered(mem, disk, r)
      /\ r.ok => \A p \in Peer : Fresh(r.mem.store[p]) = r.mem.store[p]
  <2> DEFINE first == Begin(mem, disk)
  <2>1. /\ first.mem = mem /\ first.disk = disk /\ Altered(mem, disk, first)
    BY <1>1, BeginAltered DEF Begin
  <2> HIDE DEF first
  <2>2. /\ From(mem, disk, r, {}, 0)
        /\ Like(first.mem, r.mem) /\ Like(first.disk, r.disk)
        /\ r.ok => \A p \in Peer : Fresh(r.mem.store[p]) = r.mem.store[p]
    BY <1>1, <1>2, <2>1, PrunePersistentStateFrom DEF first
  <2>3. Altered(mem, disk, r)
    BY <2>1, <2>2, LikeAltered
  <2> QED BY <2>2, <2>3 DEF From
<1>4. Beside(r, run) /\ Altered(mem, disk, run)
  BY <1>1, <1>2, <1>3, PruneGroupMembershipsFrom DEF Counts
<1>5. From(mem, disk, run, {}, 0)
  BY <1>3, <1>4, BesideFrom
<1>6. up \/ up' = FALSE \/ \A p \in Peer : Fresh(run.mem.store[p]) = run.mem.store[p]
  BY <1>3, <1>4 DEF Beside
<1>7. Obeys
  BY <1>4, AlteredObeys
<1>8. Books' /\ Promise!Expire
  BY <1>1, <1>5, <1>6, PruneStep
<1> QED BY <1>7, <1>8

LEMMA GroupTimerHandled ==
  ASSUME GroupInv, GroupPruneTimer
  PROVE  Books' /\ Promise!Expire /\ Obeys
<1>1. up /\ up \in BOOLEAN /\ UNCHANGED <<now, arrivals, owed, confirmed, refused>>
  BY DEF GroupInv, Books, Accounts, GroupPruneTimer
<1>2. PICK run \in PruneState(Begin(mem, disk)) :
        \/ run.ok /\ mem' = run.mem /\ disk' = run.disk /\ UNCHANGED <<up, crashes, unsettled>>
        \/ ~run.ok /\ Dies(run.disk)
  BY DEF GroupPruneTimer
<1>3. Left(run, {})
  <2>1. CASE run.ok /\ mem' = run.mem /\ disk' = run.disk /\ UNCHANGED <<up, crashes, unsettled>>
    <3>1. up' = TRUE
      BY <1>1, <2>1
    <3> QED BY <2>1, <3>1 DEF Left
  <2>2. CASE ~run.ok /\ Dies(run.disk)
    BY <2>2 DEF Left
  <2> QED BY <1>2, <2>1, <2>2
<1> QED BY <1>1, <1>2, <1>3, PruneStateHandled

LEMMA GroupRestartHandled ==
  ASSUME GroupInv, GroupRestart
  PROVE  Books' /\ Promise!Expire /\ Obeys
<1>1. mem = disk /\ UNCHANGED <<now, arrivals, owed, confirmed, refused>>
  BY DEF GroupInv, Books, GroupRestart
<1>2. PICK run \in PruneState(Begin(disk, disk)) :
        \/ run.ok /\ up' = TRUE /\ mem' = run.mem /\ disk' = run.disk /\ UNCHANGED <<crashes, unsettled>>
        \/ ~run.ok /\ Dies(run.disk)
  BY DEF GroupRestart
<1>3. Left(run, {})
  <2>1. CASE run.ok /\ up' = TRUE /\ mem' = run.mem /\ disk' = run.disk /\ UNCHANGED <<crashes, unsettled>>
    BY <2>1 DEF Left
  <2>2. CASE ~run.ok /\ Dies(run.disk)
    BY <2>2 DEF Left
  <2> QED BY <1>2, <2>1, <2>2
<1>4. up' = FALSE \/ run.ok
  BY <1>2 DEF Dies
<1>5. run \in PruneState(Begin(mem, disk))
  BY <1>1, <1>2
<1> QED BY <1>1, <1>3, <1>4, <1>5, PruneStateHandled

\* What a step does to the owners: the body of OwnerStays.
OwnersStay ==
  \A g \in Group :
    LET before == {mem.groups[g], disk.groups[g]}
        after == {mem'.groups[g], disk'.groups[g]}
    IN  \A owner \in Peer :
          (\A group \in before : Governed(group) /\ group.owner = owner) =>
            \A group \in after :
              group.kind = "live" => Governed(group) /\ group.owner = owner

\* Every step keeps the invariant, is a step of the mailbox or none, and
\* leaves the owners where they are.
LEMMA GroupStep ==
  GroupInv /\ [GroupNext]_vars =>
    GroupInv' /\ [Promise!BoxNext]_(Promise!boxVars) /\ OwnersStay
<1> SUFFICES ASSUME GroupInv, [GroupNext]_vars
             PROVE  GroupInv' /\ [Promise!BoxNext]_(Promise!boxVars) /\ OwnersStay
  OBVIOUS
<1>1. Books /\ Ruled(mem) /\ Ruled(disk)
  BY DEF GroupInv
<1>2. SUFFICES Books' /\ [Promise!BoxNext]_(Promise!boxVars) /\ Obeys
  <2>1. GroupInv'
    <3>1. Obeys => (Ruled(mem) /\ Ruled(disk))'
      BY DEF Obeys, Ruled, Triple
    <3> QED BY <1>2, <3>1 DEF GroupInv
  <2>2. OwnersStay
    BY <1>2, ObeysOwners DEF OwnersStay
  <2> QED BY <1>2, <2>1, <2>2
<1>3. CASE \E g \in Group, from \in Peer, R \in SUBSET Peer, id \in Id : GroupStore(g, from, R, id)
  <2>1. PICK g \in Group, from \in Peer, R \in SUBSET Peer, id \in Id : GroupStore(g, from, R, id)
    BY <1>3
  <2>2. Books' /\ (Promise!Post(R, id) \/ Promise!Expire) /\ Obeys
    BY <2>1, GroupStoreHandled
  <2> QED BY <2>2 DEF Promise!BoxNext
<1>4. CASE \E g \in Group, owner \in Peer, members \in List, versioned \in BOOLEAN,
              tokens \in SUBSET Token : OwnerUpdate(g, owner, members, versioned, tokens)
  <2>1. Books' /\ Promise!Expire /\ Obeys
    BY <1>4, OwnerUpdateHandled
  <2> QED BY <2>1 DEF Promise!BoxNext
<1>5. CASE \E g \in Group, token \in Token, action \in {"add", "remove"},
              changed \in SUBSET Peer, members \in SUBSET Peer :
                AdminUpdate(g, token, action, changed, members)
  <2>1. Books' /\ Promise!Expire /\ Obeys
    BY <1>5, AdminUpdateHandled
  <2> QED BY <2>1 DEF Promise!BoxNext
<1>6. CASE \E to \in Peer, id \in Id : Ack(to, id)
  <2>1. PICK to \in Peer, id \in Id : Ack(to, id)
    BY <1>6
  <2>2. Books' /\ Promise!Withdraw(to, id) /\ Steady
    BY <1>1, <2>1, AckHandled
  <2> QED BY <1>1, <2>2, SteadyObeys DEF Promise!BoxNext
<1>7. CASE \E to \in Peer, id \in Id : Store(to, id)
  <2>1. PICK to \in Peer, id \in Id : Store(to, id)
    BY <1>7
  <2>2. Books' /\ Promise!Post({to}, id) /\ Steady
    BY <1>1, <2>1, StoreHandled
  <2> QED BY <1>1, <2>2, SteadyObeys DEF Promise!BoxNext
<1>8. CASE GroupPruneTimer
  BY <1>8, GroupTimerHandled DEF Promise!BoxNext
<1>9. CASE GroupRestart
  BY <1>9, GroupRestartHandled DEF Promise!BoxNext
<1>10. CASE \E to \in Peer : Fetch(to)
  <2>1. Books' /\ Promise!Expire /\ Steady
    BY <1>1, <1>10, FetchHandled
  <2> QED BY <1>1, <2>1, SteadyObeys DEF Promise!BoxNext
<1>11. CASE Crash
  <2>1. Books' /\ Promise!Expire /\ Steady
    BY <1>1, <1>11, CrashHandled
  <2> QED BY <1>1, <2>1, SteadyObeys DEF Promise!BoxNext
<1>12. CASE Tick
  <2>1. Books' /\ Promise!Pass /\ Steady
    BY <1>1, <1>12, TickHandled
  <2> QED BY <1>1, <2>1, SteadyObeys DEF Promise!BoxNext
<1>13. CASE UNCHANGED vars
  <2>1. Books' /\ UNCHANGED Promise!boxVars /\ Steady
    BY <1>1, <1>13, StutterKeeps
  <2> QED BY <1>1, <2>1, SteadyObeys
<1> QED BY <1>3, <1>4, <1>5, <1>6, <1>7, <1>8, <1>9, <1>10, <1>11, <1>12, <1>13 DEF GroupNext

LEMMA GroupInitInv == GroupInit => GroupInv /\ Promise!BoxInit
<1> SUFFICES ASSUME GroupInit
             PROVE  GroupInv /\ Promise!BoxInit
  OBVIOUS
<1>1. /\ mem.store = EmptyMaps.store /\ mem.acked = EmptyMaps.acked
      /\ mem.groups = [g \in Group |-> Absent]
      /\ Triple(mem)
  BY DEF GroupInit, EmptyMaps, Triple
<1>2. /\ disk = mem /\ up = TRUE /\ now = 0 /\ arrivals = 0 /\ crashes = 0
      /\ owed = {} /\ unsettled = {}
      /\ confirmed = [k \in Key |-> None] /\ refused = [k \in Key |-> None]
  BY DEF GroupInit
<1>3. Books /\ Promise!BoxInit
  BY <1>1, <1>2, EmptyBooks DEF Shaped
<1>4. Lawful(Absent)
  BY DEF Lawful, Governed, Absent
<1>5. Ruled(mem) /\ Ruled(disk)
  BY <1>1, <1>2, <1>4 DEF Ruled
<1> QED BY <1>3, <1>5 DEF GroupInv

LEMMA GroupFacts ==
  GroupInv => UniqueIds /\ OwedIsDurable /\ AckedStaysGone /\ WithinDelegation
<1> SUFFICES ASSUME GroupInv
             PROVE  UniqueIds /\ OwedIsDurable /\ AckedStaysGone /\ WithinDelegation
  OBVIOUS
<1>1. Books /\ Good(mem) /\ Good(disk) /\ Ruled(mem) /\ Ruled(disk)
  BY DEF GroupInv, Books, Accounts
<1>2. UniqueIds
  BY <1>1 DEF UniqueIds, Good, Sound
<1>3. OwedIsDurable
  BY <1>1 DEF OwedIsDurable, Books, Holds
<1>4. WithinDelegation
  BY <1>1 DEF Ruled, Lawful, WithinDelegation
<1> QED BY <1>1, <1>2, <1>3, <1>4, BooksAcked

LEMMA AlwaysGroupInv == GroupSpec => []GroupInv
<1>1. GroupInit => GroupInv
  BY GroupInitInv
<1>2. GroupInv /\ [GroupNext]_vars => GroupInv'
  BY GroupStep
<1> QED BY <1>1, <1>2, PTL DEF GroupSpec

\* However often a group store is repeated, and whichever of its saves fail,
\* no queue has two envelopes with one id.
THEOREM GroupIdsUnique == GroupSpec => []UniqueIds
<1>1. GroupInv => UniqueIds
  BY GroupFacts
<1> QED BY <1>1, AlwaysGroupInv, PTL

\* What a recipient has acknowledged does not come back to his queue, also
\* not by a group store that the sender repeats for all recipients.
THEOREM GroupAcksStay == GroupSpec => []AckedStaysGone
<1>1. GroupInv => AckedStaysGone
  BY GroupFacts
<1> QED BY <1>1, AlwaysGroupInv, PTL

\* A group message answered ok is on disk for each of its recipients until he
\* acknowledges it or its time has passed, although POST /relay/group/store
\* saves one queue after the other and may fail or die between two of them.
THEOREM GroupStoredStays == GroupSpec => []OwedIsDurable
<1>1. GroupInv => OwedIsDurable
  BY GroupFacts
<1> QED BY <1>1, AlwaysGroupInv, PTL

\* All the message routes of a relay together implement the mailbox: a group
\* store is one post to all its recipients or none, whichever of its saves
\* fails or kills the process, and also between direct stores and
\* acknowledgements of the same message.
THEOREM GroupsImplementMailbox == GroupSpec => KeepsPromise
<1>1. GroupInit => Promise!BoxInit
  BY GroupInitInv
<1>2. GroupInv /\ [GroupNext]_vars => [Promise!BoxNext]_(Promise!boxVars)
  BY GroupStep
<1> QED BY <1>1, <1>2, AlwaysGroupInv, PTL DEF GroupSpec, KeepsPromise, Promise!BoxSpec

\* The members of a group differ from the list its owner last published only
\* by what the tokens published with it allow, in memory and on disk, for any
\* tokens and any order of updates, stores, prunes, failed saves, crashes and
\* restarts: the checks of POST /relay/group/members/update.
THEOREM ChangesAreDelegated == GroupSpec => []WithinDelegation
<1>1. GroupInv => WithinDelegation
  BY GroupFacts
<1> QED BY <1>1, AlwaysGroupInv, PTL

\* A living membership that an owner update has established, in memory and on
\* disk, keeps its owner: no update, group store, prune, failed save, crash or
\* restart puts another one in his place.
THEOREM GovernorsStay == GroupSpec => OwnerStays
<1>1. GroupInv /\ [GroupNext]_vars => OwnersStay
  BY GroupStep
<1>2. OwnersStay =>
        \A g \in Group :
          LET before == {mem.groups[g], disk.groups[g]}
              after == {mem'.groups[g], disk'.groups[g]}
          IN  \A owner \in Peer :
                (\A group \in before : Governed(group) /\ group.owner = owner) =>
                  \A group \in after :
                    group.kind = "live" => Governed(group) /\ group.owner = owner
  BY DEF OwnersStay
<1> QED BY <1>1, <1>2, AlwaysGroupInv, PTL DEF GroupSpec, OwnerStays
============================================================================
