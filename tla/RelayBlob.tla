----------------------------- MODULE RelayBlob -----------------------------
(***************************************************************************)
(* The blobs of one relay: single and chunked upload, download, the        *)
(* retention timer, crash and restart.  The chunks of an unfinished upload *)
(* are files of their own; the snapshot of the uploads only lists their    *)
(* indexes, so that an upload is on disk in several pieces.                *)
(***************************************************************************)
EXTENDS Integers, FiniteSets, RelayStorage

CONSTANTS
  Blob,        \* blob ids
  Session,     \* values of uploadKey: blob id, sender and group
  BlobOf,      \* the blob id of each session
  Last,        \* the index of the last chunk
  Bytes, Missing,
  Signed,      \* the payload its sender signed, for each session
  TTL,         \* the ttl of a blob
  UploadTTL,   \* RELAY_UPLOAD_TTL_SECONDS
  SaveErrors,  \* may a write fail in a process that goes on?
  MaxTime,     \* bound: the clock stops here
  MaxCrashes   \* bound: number of crashes

Index == 0..Last
Payload == [Index -> Bytes]

ASSUME BlobAssumption ==
  /\ BlobOf \in [Session -> Blob] /\ Signed \in [Session -> Payload]
  /\ Last \in Nat /\ Missing \notin Bytes
  /\ TTL \in Nat \ {0} /\ UploadTTL \in Nat /\ SaveErrors \in BOOLEAN
  /\ MaxTime \in Nat /\ MaxCrashes \in Nat

VARIABLES
  mem,       \* the maps of the process: blobs and uploads
  disk,      \* their snapshots, and the chunk files
  up,        \* is the process serving?
  now,       \* Date.now()
  crashes,   \* crashes so far
  failed,    \* observation: has a write failed since this process started?
  promised,  \* observation: blobs answered ok while none had
  received   \* observation: what each chunk answered ok may hold

vars == <<mem, disk, up, now, crashes, failed, promised, received>>

---------------------------------------------------------------------------
None == [at |-> -1]
NoChunks == [i \in Index |-> Missing]

\* What encodeValue keeps of an upload, and what decodeValue makes of it.
Encoded(u) == IF u = None THEN None
              ELSE [indexes |-> {i \in Index : u.chunks[i] # Missing}, at |-> u.at]
Decoded(e, files) ==
  IF e = None THEN None
  ELSE [chunks |-> [i \in Index |-> IF i \in e.indexes THEN files[i] ELSE Missing], at |-> e.at]

\* RelayBlobStore.set and delete, RelayBlobUploadStore.set
SetBlob(run, b, value) ==
  Saved(run, [run.mem EXCEPT !.blobs[b] = value],
             [run.disk EXCEPT !.blobs = [run.mem.blobs EXCEPT ![b] = value]])
SetUpload(run, s, u) ==
  Saved(run, [run.mem EXCEPT !.uploads[s] = u],
             [run.disk EXCEPT !.uploads =
                [x \in Session |-> Encoded(IF x = s THEN u ELSE run.mem.uploads[x])]])

\* Mutant: the snapshot lists the chunk whose file is not written.
StoreChunkLater(run, s, i, bytes) == {run}

\* RelayBlobUploadStore.storeChunk: a temporary file, fsync, rename.
StoreChunk(run, s, i, bytes) ==
  Saved(run, run.mem, [run.disk EXCEPT !.files[s][i] = bytes])

\* The removal of an upload's directory, which may stop half way.
RemoveFiles(run, s) ==
  LET Without(gone) == [run.disk EXCEPT !.files[s] =
                          [i \in Index |-> IF i \in gone THEN Missing ELSE @[i]]]
  IN  IF run.ok
      THEN {[run EXCEPT !.disk = Without(Index)]}
             \cup Stopped(run.mem, {Without(gone) : gone \in SUBSET Index})
      ELSE {run}

\* RelayBlobUploadStore.delete
DeleteUpload(run, s) ==
  IF run.mem.uploads[s] = None THEN {run}
  ELSE UNION {RemoveFiles(saved, s) : saved \in SetUpload(run, s, None)}

DeleteBlob(run, b) == SetBlob(run, b, None)

---------------------------------------------------------------------------
(* Retention. *)

\* Mutant: a blob is dropped one time unit early.
ExpiredEarly(blob) == blob # None /\ now >= blob.at + TTL - 1

Expired(blob) == blob # None /\ now >= blob.at + TTL

\* One delete for each expired blob, in any order: all succeed, or one of them
\* fails after some others.
PruneBlobs(run) ==
  LET due == {b \in Blob : Expired(run.mem.blobs[b])}
      After(done) == [b \in Blob |-> IF b \in done THEN None ELSE run.mem.blobs[b]]
      Without(done) == IF done = {} THEN run
                       ELSE [mem |-> [run.mem EXCEPT !.blobs = After(done)],
                             disk |-> [run.disk EXCEPT !.blobs = After(done)], ok |-> TRUE]
  IN  IF ~run.ok THEN {run}
      ELSE {Without(due)}
             \cup {r \in UNION {UNION {DeleteBlob(Without(done), b) : b \in due \ done}
                                 : done \in SUBSET due} : ~r.ok}

Abandoned(upload) == upload # None /\ upload.at < now - UploadTTL

\* The same for the abandoned uploads.
PruneUploads(run) ==
  LET due == {s \in Session : Abandoned(run.mem.uploads[s])}
      After(done) == [s \in Session |-> IF s \in done THEN None ELSE run.mem.uploads[s]]
      Left(done) == [s \in Session |-> IF s \in done THEN NoChunks ELSE run.disk.files[s]]
      Without(done) == IF done = {} THEN run
                       ELSE [mem |-> [run.mem EXCEPT !.uploads = After(done)],
                             disk |-> [run.disk EXCEPT
                                         !.uploads = [s \in Session |-> Encoded(After(done)[s])],
                                         !.files = Left(done)],
                             ok |-> TRUE]
  IN  IF ~run.ok THEN {run}
      ELSE {Without(due)}
             \cup {r \in UNION {UNION {DeleteUpload(Without(done), s) : s \in due \ done}
                                 : done \in SUBSET due} : ~r.ok}

PruneRuns(run) == UNION {PruneUploads(r) : r \in PruneBlobs(run)}

---------------------------------------------------------------------------
(* What becomes of the process after a run. *)

\* What a process that loads the snapshots has in memory.
Loaded(snapshots) ==
  [blobs |-> snapshots.blobs,
   uploads |-> [s \in Session |-> Decoded(snapshots.uploads[s], snapshots.files[s])]]

Dies(snapshots) ==
  /\ crashes < MaxCrashes
  /\ crashes' = crashes + 1
  /\ up' = FALSE
  /\ disk' = snapshots
  /\ mem' = Loaded(snapshots)
  /\ failed' = FALSE

Serves(run) ==
  \/ /\ run.ok \/ SaveErrors
     /\ mem' = run.mem
     /\ disk' = run.disk
     /\ failed' = (failed \/ ~run.ok)
     /\ UNCHANGED <<up, crashes>>
  \/ /\ ~run.ok
     /\ Dies(run.disk)

\* Nothing more is promised of an upload that the relay has deleted.
Forgets(run) ==
  received' = [s \in Session |-> IF run.mem.uploads[s] = None THEN [i \in Index |-> {}]
                                 ELSE received[s]]

Answered(run, b) ==
  IF run.ok /\ ~failed THEN promised \cup {[id |-> b, blob |-> run.mem.blobs[b]]} ELSE promised

---------------------------------------------------------------------------
(* The handlers. *)

\* POST /relay/blob/upload: the blob is set if there is none with its id.
Upload(b, payload) ==
  /\ up
  /\ \E run \in IF mem.blobs[b] # None THEN {Begin(mem, disk)}
                ELSE SetBlob(Begin(mem, disk), b, [payload |-> payload, at |-> now]) :
       /\ Serves(run)
       /\ promised' = Answered(run, b)
  /\ UNCHANGED <<now, received>>

\* POST /relay/blob/upload/chunk: the chunk enters the map of an upload that
\* is already there before its file is written; a new upload enters the map
\* last.
ChunkRuns(s, i, bytes) ==
  LET old == mem.uploads[s]
      new == IF old = None THEN [chunks |-> [NoChunks EXCEPT ![i] = bytes], at |-> now]
             ELSE [old EXCEPT !.chunks[i] = bytes]
      begun == IF old = None THEN Begin(mem, disk)
               ELSE Begin([mem EXCEPT !.uploads[s] = new], disk)
  IN  UNION {SetUpload(run, s, new) : run \in StoreChunk(begun, s, i, bytes)}

Chunk(s, i, bytes) ==
  /\ up
  /\ \E run \in ChunkRuns(s, i, bytes) :
       /\ Serves(run)
       /\ received' = [received EXCEPT ![s][i] =
                         IF run.ok THEN {bytes} ELSE IF @ = {} THEN {} ELSE @ \cup {bytes}]
  /\ UNCHANGED <<now, promised>>

\* Mutant: the upload is deleted before the blob is saved.
CompleteRunsSwapped(s, payload) ==
  LET b == BlobOf[s]
  IN  UNION {IF run.mem.blobs[b] # None THEN {run}
             ELSE SetBlob(run, b, [payload |-> payload, at |-> now])
              : run \in DeleteUpload(Begin(mem, disk), s)}

\* The blob is set if there is none, then the upload is deleted.
CompleteRuns(s, payload) ==
  LET b == BlobOf[s]
  IN  UNION {DeleteUpload(run, s)
              : run \in IF mem.blobs[b] # None THEN {Begin(mem, disk)}
                        ELSE SetBlob(Begin(mem, disk), b, [payload |-> payload, at |-> now])}

\* POST /relay/blob/upload/complete: every chunk is there and together they
\* are what the sender signed.
Complete(s) ==
  /\ up
  /\ mem.uploads[s] # None
  /\ mem.uploads[s].chunks = Signed[s]
  /\ \E run \in CompleteRuns(s, Signed[s]) :
       /\ Serves(run)
       /\ promised' = Answered(run, BlobOf[s])
       /\ Forgets(run)
  /\ UNCHANGED now

\* GET /relay/blob/:blobId
Download ==
  /\ up
  /\ \E run \in PruneBlobs(Begin(mem, disk)) : Serves(run)
  /\ UNCHANGED <<now, promised, received>>

\* The 60 second timer: an error in it is an uncaught exception.
PruneTimer ==
  /\ up
  /\ \E run \in PruneRuns(Begin(mem, disk)) :
       /\ Forgets(run)
       /\ \/ /\ run.ok
             /\ mem' = run.mem
             /\ disk' = run.disk
             /\ UNCHANGED <<up, crashes, failed>>
          \/ ~run.ok /\ Dies(run.disk)
  /\ UNCHANGED <<now, promised>>

Crash ==
  /\ up
  /\ Dies(disk)
  /\ UNCHANGED <<now, promised, received>>

\* The new process loads the snapshots and the chunk files, and prunes.
Restart ==
  /\ ~up
  /\ \E run \in PruneRuns(Begin(mem, disk)) :
       /\ Forgets(run)
       /\ \/ /\ run.ok
             /\ up' = TRUE
             /\ mem' = run.mem
             /\ disk' = run.disk
             /\ UNCHANGED <<crashes, failed>>
          \/ ~run.ok /\ Dies(run.disk)
  /\ UNCHANGED <<now, promised>>

Tick ==
  /\ now < MaxTime
  /\ now' = now + 1
  /\ UNCHANGED <<mem, disk, up, crashes, failed, promised, received>>

Init ==
  /\ mem = [blobs |-> [b \in Blob |-> None], uploads |-> [s \in Session |-> None]]
  /\ disk = [blobs |-> [b \in Blob |-> None], uploads |-> [s \in Session |-> None],
             files |-> [s \in Session |-> NoChunks]]
  /\ up = TRUE
  /\ now = 0
  /\ crashes = 0
  /\ failed = FALSE
  /\ promised = {}
  /\ received = [s \in Session |-> [i \in Index |-> {}]]

Next ==
  \/ \E s \in Session :
       \/ Upload(BlobOf[s], Signed[s])
       \/ Complete(s)
       \/ \E i \in Index, bytes \in Bytes : Chunk(s, i, bytes)
  \/ Download
  \/ PruneTimer
  \/ Crash
  \/ Restart
  \/ Tick

Spec == Init /\ [][Next]_vars

---------------------------------------------------------------------------
(* Properties. *)

\* A chunk answered ok stays on disk, in the list of its upload and in its
\* file, through crashes, failing writes and the chunks of other uploads,
\* until the relay deletes that upload (CHANGELOG.md:151: "persisted as
\* individual crash-safe files").
ReceivedIsOnDisk ==
  \A s \in Session, i \in Index :
    received[s][i] # {} =>
      /\ disk.uploads[s] # None
      /\ i \in disk.uploads[s].indexes
      /\ disk.files[s][i] \in received[s][i]

\* A blob answered ok is on disk, as answered, until its ttl is over, also when
\* the relay dies at any step of the upload or of the clean-up after it
\* (RELAY.md:403: "encrypted media remains available until its own blob TTL
\* expires").  A process in which a write has failed is the exception: there the
\* retry of an upload is answered ok from memory.
BlobStays ==
  \A p \in promised : p.blob.at + TTL > now => disk.blobs[p.id] = p.blob

\* While a signed upload is not finished its data is not lost: between the
\* answer to the last chunk and the blob on disk, whatever step the relay
\* dies at, either the chunks or the blob are there.  Same exception: a blob
\* that is only in memory lets the completion delete the chunks.
NeverNeither ==
  [][\A s \in Session :
       /\ ~failed
       /\ \A i \in Index : received[s][i] = {Signed[s][i]}
       /\ mem.uploads[s] # None /\ mem.uploads[s].at >= now - UploadTTL
       => \/ \A i \in Index : disk'.files[s][i] # Missing
          \/ disk'.blobs[BlobOf[s]] # None]_vars
============================================================================
