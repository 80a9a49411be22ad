-------------------------- MODULE RelayBlobProofs -------------------------
(***************************************************************************)
(* Proofs about RelayBlob, for any number of blobs, uploads, chunks and    *)
(* crashes, and whether or not a write may fail in a process that goes on. *)
(* Kept says what a handler may do to the maps and the snapshots it found; *)
(* each write is shown to respect it, then each handler.                   *)
(***************************************************************************)
EXTENDS RelayBlob, TLAPS

BlobValue == [payload : Payload, at : Nat]
UploadValue == [chunks : [Index -> Bytes \cup {Missing}], at : Nat]
UploadRow == [indexes : SUBSET Index, at : Nat]

\* The maps m of a process and the snapshots d.
Typed(m, d) ==
  /\ m \in [blobs : [Blob -> BlobValue \cup {None}], uploads : [Session -> UploadValue \cup {None}]]
  /\ d \in [blobs : [Blob -> BlobValue \cup {None}], uploads : [Session -> UploadRow \cup {None}],
            files : [Session -> [Index -> Bytes \cup {Missing}]]]

\* A blob the relay has to offer.
Alive(blob) == blob # None /\ ~Expired(blob)

\* A run r that began with maps M and snapshots D and deletes no uploads but
\* those in gone: blobs that are alive stay, and memory and disk agree on the
\* blobs if they did; uploads stay with their files, and their rows are those
\* of before or those of the uploads in memory.
Kept(M, D, r, gone) ==
  /\ Typed(r.mem, r.disk)
  /\ r.ok \in BOOLEAN
  /\ \A b \in Blob : Alive(M.blobs[b]) =>
       /\ r.mem.blobs[b] = M.blobs[b]
       /\ D.blobs[b] = M.blobs[b] => r.disk.blobs[b] = M.blobs[b]
  /\ r.ok /\ M.blobs = D.blobs => r.mem.blobs = r.disk.blobs
  /\ \A s \in Session :
       /\ r.mem.uploads[s] = M.uploads[s] \/ (s \in gone /\ r.mem.uploads[s] = None)
       /\ r.mem.uploads[s] # None => r.disk.uploads[s] \in {D.uploads[s], Encoded(M.uploads[s])}
       /\ r.mem.uploads[s] # None \/ s \notin gone => r.disk.files[s] = D.files[s]

---------------------------------------------------------------------------
(* Values. *)

LEMMA Values ==
  /\ None \notin BlobValue /\ None \notin UploadValue /\ None \notin UploadRow
  /\ NoChunks \in [Index -> Bytes \cup {Missing}]
<1>1. ASSUME NEW v \in BlobValue \cup UploadValue \cup UploadRow
      PROVE  v.at \in Nat
  BY DEF BlobValue, UploadValue, UploadRow
<1>2. None.at = -1
  BY DEF None
<1>3. None \notin BlobValue \cup UploadValue \cup UploadRow
  BY <1>1, <1>2
<1> QED BY <1>3 DEF NoChunks

\* What is written of an upload, and what is read back.
LEMMA Codes ==
  /\ \A u \in UploadValue \cup {None} :
       /\ Encoded(u) \in UploadRow \cup {None}
       /\ u # None => /\ Encoded(u) # None
                      /\ \A i \in Index : u.chunks[i] # Missing => i \in Encoded(u).indexes
  /\ \A e \in UploadRow \cup {None}, files \in [Index -> Bytes \cup {Missing}] :
       /\ Decoded(e, files) \in UploadValue \cup {None}
       /\ e # None => /\ Decoded(e, files) # None
                      /\ \A i \in e.indexes : Decoded(e, files).chunks[i] = files[i]
<1>1. ASSUME NEW u \in UploadValue
      PROVE  /\ Encoded(u) \in UploadRow
             /\ \A i \in Index : u.chunks[i] # Missing => i \in Encoded(u).indexes
  <2>1. u # None
    BY Values
  <2>2. Encoded(u) = [indexes |-> {i \in Index : u.chunks[i] # Missing}, at |-> u.at]
    BY <2>1 DEF Encoded
  <2> QED BY <2>2 DEF UploadRow, UploadValue
<1>2. ASSUME NEW e \in UploadRow, NEW files \in [Index -> Bytes \cup {Missing}]
      PROVE  /\ Decoded(e, files) \in UploadValue
             /\ \A i \in e.indexes : Decoded(e, files).chunks[i] = files[i]
  <2>1. e # None
    BY Values
  <2>2. Decoded(e, files) =
          [chunks |-> [i \in Index |-> IF i \in e.indexes THEN files[i] ELSE Missing], at |-> e.at]
    BY <2>1 DEF Decoded
  <2>3. e.indexes \subseteq Index /\ e.at \in Nat
    BY DEF UploadRow
  <2> QED BY <2>2, <2>3 DEF UploadValue
<1>3. Encoded(None) = None /\ \A files : Decoded(None, files) = None
  BY DEF Encoded, Decoded
<1> QED BY <1>1, <1>2, <1>3, Values

---------------------------------------------------------------------------
(* Writes. *)

\* RelayBlobStore.set and delete, of a blob that is not alive.
LEMMA SetBlobKeeps ==
  ASSUME NEW M, NEW D, NEW gone, NEW r, Kept(M, D, r, gone),
         NEW b \in Blob, NEW v \in BlobValue \cup {None}, ~Alive(r.mem.blobs[b]),
         NEW y \in SetBlob(r, b, v)
  PROVE  /\ Kept(M, D, y, gone)
         /\ y.ok => y.mem.blobs[b] = v /\ y.disk.blobs[b] = v
         /\ y.mem.uploads = r.mem.uploads /\ y.disk.files = r.disk.files
<1> DEFINE m == [r.mem EXCEPT !.blobs[b] = v]
           d == [r.disk EXCEPT !.blobs = [r.mem.blobs EXCEPT ![b] = v]]
<1>1. Typed(r.mem, r.disk) /\ r.ok \in BOOLEAN
  BY DEF Kept
<1>2. Typed(m, d)
  BY <1>1 DEF Typed
<1>3. /\ m.uploads = r.mem.uploads /\ d.uploads = r.disk.uploads /\ d.files = r.disk.files
      /\ m.blobs = d.blobs /\ m.blobs[b] = v
      /\ \A c \in Blob : c # b => m.blobs[c] = r.mem.blobs[c]
  BY <1>1 DEF Typed
<1>4. \/ ~r.ok /\ y = r
      \/ r.ok /\ y = [mem |-> m, disk |-> d, ok |-> TRUE]
      \/ r.ok /\ y = [mem |-> m, disk |-> r.disk, ok |-> FALSE]
      \/ r.ok /\ y = [mem |-> m, disk |-> d, ok |-> FALSE]
  BY <1>1 DEF SetBlob, Saved, Stopped
<1>5. \A c \in Blob : Alive(M.blobs[c]) => c # b /\ m.blobs[c] = M.blobs[c] /\ d.blobs[c] = M.blobs[c]
  BY <1>3 DEF Kept
<1> HIDE DEF m, d
<1>6. Typed(r.mem, d) /\ Typed(m, r.disk)
  BY <1>1, <1>2 DEF Typed
<1>7. CASE ~r.ok
  <2>1. y = r
    BY <1>4, <1>7
  <2> QED BY <1>7, <2>1
<1>8. ASSUME r.ok, y.mem = m, y.disk \in {r.disk, d}, y.ok \in BOOLEAN, y.ok => y.disk = d
      PROVE  /\ Kept(M, D, y, gone)
             /\ y.ok => y.mem.blobs[b] = v /\ y.disk.blobs[b] = v
             /\ y.mem.uploads = r.mem.uploads /\ y.disk.files = r.disk.files
  <2>1. Typed(y.mem, y.disk)
    BY <1>2, <1>6, <1>8
  <2>2. ASSUME NEW c \in Blob, Alive(M.blobs[c])
        PROVE  /\ y.mem.blobs[c] = M.blobs[c]
               /\ D.blobs[c] = M.blobs[c] => y.disk.blobs[c] = M.blobs[c]
    BY <1>5, <1>8, <2>2 DEF Kept
  <2>3. y.mem.uploads = r.mem.uploads /\ y.disk.files = r.disk.files
        /\ y.disk.uploads = r.disk.uploads
    BY <1>3, <1>8
  <2>4. y.ok => y.mem.blobs = y.disk.blobs /\ y.mem.blobs[b] = v
    BY <1>3, <1>8
  <2> QED BY <1>8, <2>1, <2>2, <2>3, <2>4 DEF Kept
<1>9. r.ok => y.mem = m /\ y.disk \in {r.disk, d} /\ y.ok \in BOOLEAN /\ (y.ok => y.disk = d)
  <2> SUFFICES ASSUME r.ok
               PROVE  y.mem = m /\ y.disk \in {r.disk, d} /\ y.ok \in BOOLEAN /\ (y.ok => y.disk = d)
    OBVIOUS
  <2>1. CASE y = [mem |-> m, disk |-> d, ok |-> TRUE]
    BY <2>1
  <2>2. CASE y = [mem |-> m, disk |-> r.disk, ok |-> FALSE]
    BY <2>2
  <2>3. CASE y = [mem |-> m, disk |-> d, ok |-> FALSE]
    BY <2>3
  <2> QED BY <1>4, <2>1, <2>2, <2>3
<1> QED BY <1>1, <1>7, <1>8, <1>9

\* RelayBlobUploadStore.delete
LEMMA DeleteUploadKeeps ==
  ASSUME NEW M, NEW D, NEW gone, NEW r, Kept(M, D, r, gone), NEW s \in Session, s \in gone,
         NEW y \in DeleteUpload(r, s)
  PROVE  /\ Kept(M, D, y, gone)
         /\ y.disk.blobs = r.disk.blobs /\ y.mem.blobs = r.mem.blobs
         /\ ~r.ok => y = r
<1> DEFINE m == [r.mem EXCEPT !.uploads[s] = None]
           d == [r.disk EXCEPT !.uploads =
                   [x \in Session |-> Encoded(IF x = s THEN None ELSE r.mem.uploads[x])]]
           e(G) == [d EXCEPT !.files[s] = [i \in Index |-> IF i \in G THEN Missing ELSE @[i]]]
<1>1. Typed(r.mem, r.disk) /\ r.ok \in BOOLEAN
  BY DEF Kept
<1>2. /\ m.blobs = r.mem.blobs /\ m.uploads[s] = None
      /\ \A x \in Session : x # s => m.uploads[x] = r.mem.uploads[x]
      /\ m \in [blobs : [Blob -> BlobValue \cup {None}], uploads : [Session -> UploadValue \cup {None}]]
  BY <1>1 DEF Typed
<1>3. /\ d.blobs = r.disk.blobs /\ d.files = r.disk.files
      /\ \A x \in Session : x # s => d.uploads[x] = Encoded(r.mem.uploads[x])
      /\ d \in [blobs : [Blob -> BlobValue \cup {None}], uploads : [Session -> UploadRow \cup {None}],
                files : [Session -> [Index -> Bytes \cup {Missing}]]]
  BY <1>1, Codes DEF Typed
<1>4. ASSUME NEW G \in SUBSET Index
      PROVE  /\ e(G).blobs = r.disk.blobs /\ e(G).uploads = d.uploads
             /\ \A x \in Session : x # s => e(G).files[x] = r.disk.files[x]
             /\ e(G) \in [blobs : [Blob -> BlobValue \cup {None}],
                          uploads : [Session -> UploadRow \cup {None}],
                          files : [Session -> [Index -> Bytes \cup {Missing}]]]
  <2> HIDE DEF d
  <2>1. [i \in Index |-> IF i \in G THEN Missing ELSE d.files[s][i]] \in [Index -> Bytes \cup {Missing}]
    BY <1>3
  <2> QED BY <1>3, <2>1
<1>5. \/ y = r
      \/ r.ok /\ y.mem = m /\ y.disk \in {r.disk, d} /\ y.ok \in BOOLEAN /\ ~y.ok
      \/ r.ok /\ y.mem = m /\ y.ok \in BOOLEAN /\ \E G \in SUBSET Index : y.disk = e(G)
  <2>1. CASE r.mem.uploads[s] = None \/ ~r.ok
    BY <2>1, <1>1 DEF DeleteUpload, SetUpload, Saved, RemoveFiles
  <2>2. CASE r.mem.uploads[s] # None /\ r.ok
    <3>1. PICK w \in SetUpload(r, s, None) : y \in RemoveFiles(w, s)
      BY <2>2 DEF DeleteUpload
    <3>2. \/ w = [mem |-> m, disk |-> d, ok |-> TRUE]
          \/ w = [mem |-> m, disk |-> r.disk, ok |-> FALSE]
          \/ w = [mem |-> m, disk |-> d, ok |-> FALSE]
      BY <2>2, <3>1 DEF SetUpload, Saved, Stopped
    <3>3. CASE w.ok
      <4>1. w = [mem |-> m, disk |-> d, ok |-> TRUE]
        BY <3>2, <3>3
      <4>a. w.ok /\ w.disk = d /\ w.mem = m
        BY <4>1
      <4> HIDE DEF d, m
      <4>2. \/ y = [w EXCEPT !.disk = e(Index)]
            \/ \E G \in SUBSET Index : y = [mem |-> w.mem, disk |-> e(G), ok |-> FALSE]
        <5> DEFINE Without(G) == [w.disk EXCEPT !.files[s] =
                                   [i \in Index |-> IF i \in G THEN Missing ELSE @[i]]]
        <5>1. y \in {[w EXCEPT !.disk = Without(Index)]}
                     \cup {[mem |-> w.mem, disk |-> x, ok |-> FALSE] :
                            x \in {Without(G) : G \in SUBSET Index}}
          BY <3>1, <4>a DEF RemoveFiles, Stopped
        <5>2. \A G : Without(G) = e(G)
          BY <4>a
        <5> HIDE DEF Without, e
        <5> QED BY <5>1, <5>2
      <4>3. Index \in SUBSET Index
        OBVIOUS
      <4>4. CASE y = [w EXCEPT !.disk = e(Index)]
        <5>1. y.mem = m /\ y.ok = TRUE /\ y.disk = e(Index)
          BY <4>1, <4>4
        <5> QED BY <2>2, <4>3, <5>1
      <4>5. CASE \E G \in SUBSET Index : y = [mem |-> w.mem, disk |-> e(G), ok |-> FALSE]
        <5>1. PICK G \in SUBSET Index : y = [mem |-> w.mem, disk |-> e(G), ok |-> FALSE]
          BY <4>5
        <5>2. y.mem = m /\ y.ok = FALSE /\ y.disk = e(G)
          BY <4>1, <5>1
        <5> QED BY <2>2, <5>2
      <4> QED BY <4>2, <4>4, <4>5
    <3>4. CASE ~w.ok
      <4>1. y = w
        BY <3>1, <3>4 DEF RemoveFiles
      <4> HIDE DEF d, m
      <4>2. y.mem = m /\ y.disk \in {r.disk, d} /\ y.ok = FALSE
        BY <3>2, <3>4, <4>1
      <4> QED BY <2>2, <4>2
    <3> QED BY <3>3, <3>4
  <2> QED BY <2>1, <2>2
<1> HIDE DEF m, d, e
<1>6. CASE y = r
  BY <1>6
<1>7. ASSUME r.ok, y.mem = m, y.ok \in BOOLEAN,
             Typed(m, y.disk), y.disk.blobs = r.disk.blobs,
             \A x \in Session : x # s => y.disk.files[x] = r.disk.files[x],
             \A x \in Session : x # s =>
               y.disk.uploads[x] \in {r.disk.uploads[x], Encoded(r.mem.uploads[x])}
      PROVE  Kept(M, D, y, gone) /\ y.disk.blobs = r.disk.blobs /\ y.mem.blobs = r.mem.blobs
  <2>1. ASSUME NEW x \in Session
        PROVE  /\ y.mem.uploads[x] = M.uploads[x] \/ (x \in gone /\ y.mem.uploads[x] = None)
               /\ y.mem.uploads[x] # None =>
                    y.disk.uploads[x] \in {D.uploads[x], Encoded(M.uploads[x])}
               /\ y.mem.uploads[x] # None \/ x \notin gone => y.disk.files[x] = D.files[x]
    <3>1. CASE x = s
      BY <1>2, <1>7, <3>1
    <3>2. CASE x # s
      <4>1. y.mem.uploads[x] = r.mem.uploads[x] /\ y.disk.files[x] = r.disk.files[x]
        BY <1>2, <1>7, <3>2
      <4>2. y.disk.uploads[x] \in {r.disk.uploads[x], Encoded(r.mem.uploads[x])}
        BY <1>7, <3>2
      <4> QED BY <4>1, <4>2 DEF Kept
    <3> QED BY <3>1, <3>2
  <2> QED BY <1>2, <1>7, <2>1 DEF Kept
<1>8. CASE r.ok /\ y.mem = m /\ y.disk \in {r.disk, d} /\ y.ok \in BOOLEAN /\ ~y.ok
  <2>1. Typed(m, r.disk) /\ Typed(m, d)
    BY <1>1, <1>2, <1>3 DEF Typed
  <2> QED BY <1>3, <1>7, <1>8, <2>1
<1>9. CASE r.ok /\ y.mem = m /\ y.ok \in BOOLEAN /\ \E G \in SUBSET Index : y.disk = e(G)
  <2>1. PICK G \in SUBSET Index : y.disk = e(G)
    BY <1>9
  <2>2. Typed(m, e(G))
    BY <1>2, <1>4 DEF Typed
  <2> QED BY <1>3, <1>4, <1>7, <1>9, <2>1, <2>2
<1> QED BY <1>5, <1>6, <1>8, <1>9

---------------------------------------------------------------------------
(* Retention. *)

LEMMA PruneBlobsKeeps ==
  ASSUME NEW M, NEW D, NEW gone, NEW r, Kept(M, D, r, gone), NEW y \in PruneBlobs(r)
  PROVE  Kept(M, D, y, gone) /\ y.disk.files = r.disk.files
<1> DEFINE due == {b \in Blob : Expired(r.mem.blobs[b])}
           After(done) == [b \in Blob |-> IF b \in done THEN None ELSE r.mem.blobs[b]]
           Without(done) == IF done = {} THEN r
                            ELSE [mem |-> [r.mem EXCEPT !.blobs = After(done)],
                                  disk |-> [r.disk EXCEPT !.blobs = After(done)], ok |-> TRUE]
<1>1. CASE ~r.ok
  BY <1>1 DEF PruneBlobs
<1>2. CASE r.ok
  <2>1. \/ y = Without(due)
        \/ \E done \in SUBSET due : \E b \in due \ done : y \in DeleteBlob(Without(done), b)
    <3>1. y \in {Without(due)}
                 \cup {x \in UNION {UNION {DeleteBlob(Without(done), b) : b \in due \ done}
                                     : done \in SUBSET due} : ~x.ok}
      BY <1>2, Zenon DEF PruneBlobs
    <3> HIDE DEF Without, due
    <3> QED BY <3>1
  <2>2. ASSUME NEW done \in SUBSET due
        PROVE  /\ Kept(M, D, Without(done), gone) /\ Without(done).disk.files = r.disk.files
               /\ \A b \in due \ done : Without(done).mem.blobs[b] = r.mem.blobs[b]
    <3>1. CASE done = {}
      BY <3>1
    <3>2. CASE done # {}
      <4> DEFINE m == [r.mem EXCEPT !.blobs = After(done)]
                 d == [r.disk EXCEPT !.blobs = After(done)]
      <4>1. Typed(r.mem, r.disk)
        BY DEF Kept
      <4>2. After(done) \in [Blob -> BlobValue \cup {None}]
        BY <4>1 DEF Typed
      <4> HIDE DEF After
      <4>3. /\ m.blobs = After(done) /\ m.uploads = r.mem.uploads
            /\ d.blobs = After(done) /\ d.uploads = r.disk.uploads /\ d.files = r.disk.files
            /\ Typed(m, d)
        BY <4>1, <4>2 DEF Typed
      <4>4. ASSUME NEW c \in Blob, Alive(M.blobs[c])
            PROVE  After(done)[c] = M.blobs[c]
        <5>1. r.mem.blobs[c] = M.blobs[c] /\ c \notin due
          BY <4>4 DEF Kept, Alive
        <5> QED BY <5>1 DEF After
      <4>5. Without(done) = [mem |-> m, disk |-> d, ok |-> TRUE]
        BY <3>2
      <4>6. \A b \in due \ done : After(done)[b] = r.mem.blobs[b]
        BY DEF After
      <4> HIDE DEF m, d, Without, due
      <4>7. Kept(M, D, Without(done), gone)
        BY <4>3, <4>4, <4>5 DEF Kept
      <4> QED BY <4>3, <4>5, <4>6, <4>7
    <3> QED BY <3>1, <3>2
  <2>3. due \in SUBSET due /\ due \subseteq Blob
    OBVIOUS
  <2>4. CASE y = Without(due)
    <3> HIDE DEF Without, due
    <3> QED BY <2>2, <2>3, <2>4
  <2>5. ASSUME NEW done \in SUBSET due, NEW b \in due \ done, y \in DeleteBlob(Without(done), b)
        PROVE  Kept(M, D, y, gone) /\ y.disk.files = r.disk.files
    <3>1. ~Alive(Without(done).mem.blobs[b])
      <4>1. Without(done).mem.blobs[b] = r.mem.blobs[b] /\ Expired(r.mem.blobs[b])
        BY <2>2
      <4> QED BY <4>1 DEF Alive
    <3>2. b \in Blob /\ Kept(M, D, Without(done), gone)
          /\ Without(done).disk.files = r.disk.files
      BY <2>2, <2>3
    <3> HIDE DEF Without, due
    <3>3. y \in SetBlob(Without(done), b, None)
      BY <2>5 DEF DeleteBlob
    <3> QED BY <3>1, <3>2, <3>3, SetBlobKeeps
  <2> QED BY <2>1, <2>4, <2>5
<1> QED BY <1>1, <1>2

LEMMA PruneUploadsKeeps ==
  ASSUME NEW M, NEW D, NEW gone, NEW r, Kept(M, D, r, gone), NEW y \in PruneUploads(r),
         \A s \in Session : Abandoned(r.mem.uploads[s]) => s \in gone
  PROVE  Kept(M, D, y, gone)
<1> DEFINE due == {s \in Session : Abandoned(r.mem.uploads[s])}
           After(done) == [s \in Session |-> IF s \in done THEN None ELSE r.mem.uploads[s]]
           Left(done) == [s \in Session |-> IF s \in done THEN NoChunks ELSE r.disk.files[s]]
           Rows(done) == [s \in Session |-> Encoded(After(done)[s])]
           Without(done) == IF done = {} THEN r
                            ELSE [mem |-> [r.mem EXCEPT !.uploads = After(done)],
                                  disk |-> [r.disk EXCEPT !.uploads = Rows(done),
                                                          !.files = Left(done)],
                                  ok |-> TRUE]
<1>1. CASE ~r.ok
  BY <1>1 DEF PruneUploads
<1>2. CASE r.ok
  <2>1. \/ y = Without(due)
        \/ \E done \in SUBSET due : \E s \in due \ done : y \in DeleteUpload(Without(done), s)
    <3>1. y \in {Without(due)}
                 \cup {x \in UNION {UNION {DeleteUpload(Without(done), s) : s \in due \ done}
                                     : done \in SUBSET due} : ~x.ok}
      BY <1>2, Zenon DEF PruneUploads
    <3> HIDE DEF Without, due
    <3> QED BY <3>1
  <2>2. ASSUME NEW done \in SUBSET due
        PROVE  Kept(M, D, Without(done), gone)
    <3>1. CASE done = {}
      BY <3>1
    <3>2. CASE done # {}
      <4> DEFINE m == [r.mem EXCEPT !.uploads = After(done)]
                 d == [r.disk EXCEPT !.uploads = Rows(done), !.files = Left(done)]
      <4>1. Typed(r.mem, r.disk)
        BY DEF Kept
      <4>2. /\ After(done) \in [Session -> UploadValue \cup {None}]
            /\ Left(done) \in [Session -> [Index -> Bytes \cup {Missing}]]
        BY <4>1, Values DEF Typed
      <4>3. Rows(done) \in [Session -> UploadRow \cup {None}]
        <5>1. \A s \in Session : Encoded(After(done)[s]) \in UploadRow \cup {None}
          <6> HIDE DEF After
          <6> QED BY <4>2, Codes
        <5> HIDE DEF After
        <5> QED BY <5>1
      <4>4. ASSUME NEW s \in Session
            PROVE  /\ After(done)[s] = M.uploads[s] \/ (s \in gone /\ After(done)[s] = None)
                   /\ After(done)[s] # None =>
                        Rows(done)[s] \in {D.uploads[s], Encoded(M.uploads[s])}
                   /\ After(done)[s] # None \/ s \notin gone => Left(done)[s] = D.files[s]
        <5>1. CASE s \in done
          <6>1. After(done)[s] = None /\ s \in gone
            BY <5>1
          <6> QED BY <6>1
        <5>2. CASE s \notin done
          <6>1. After(done)[s] = r.mem.uploads[s] /\ Left(done)[s] = r.disk.files[s]
                /\ Rows(done)[s] = Encoded(r.mem.uploads[s])
            BY <5>2
          <6>2. /\ r.mem.uploads[s] = M.uploads[s] \/ (s \in gone /\ r.mem.uploads[s] = None)
                /\ r.mem.uploads[s] # None \/ s \notin gone => r.disk.files[s] = D.files[s]
            BY DEF Kept
          <6> HIDE DEF After, Left, Rows
          <6> QED BY <6>1, <6>2
        <5> QED BY <5>1, <5>2
      <4>5. Without(done) = [mem |-> m, disk |-> d, ok |-> TRUE]
        BY <3>2
      <4> HIDE DEF After, Left, Rows
      <4>6. /\ m.uploads = After(done) /\ m.blobs = r.mem.blobs
            /\ d.uploads = Rows(done) /\ d.files = Left(done) /\ d.blobs = r.disk.blobs
            /\ Typed(m, d)
        BY <4>1, <4>2, <4>3 DEF Typed
      <4> HIDE DEF m, d, Without, due
      <4> QED BY <1>2, <4>4, <4>5, <4>6 DEF Kept
    <3> QED BY <3>1, <3>2
  <2>3. due \in SUBSET due /\ due \subseteq Session /\ \A s \in due : s \in gone
    OBVIOUS
  <2>4. CASE y = Without(due)
    <3> HIDE DEF Without, due
    <3> QED BY <2>2, <2>3, <2>4
  <2>5. ASSUME NEW done \in SUBSET due, NEW s \in due \ done, y \in DeleteUpload(Without(done), s)
        PROVE  Kept(M, D, y, gone)
    <3>1. Kept(M, D, Without(done), gone) /\ s \in Session /\ s \in gone
      BY <2>2, <2>3
    <3> HIDE DEF Without, due
    <3> QED BY <2>5, <3>1, DeleteUploadKeeps
  <2> QED BY <2>1, <2>4, <2>5
<1> QED BY <1>1, <1>2

\* The timer and the start delete abandoned uploads only.
LEMMA PruneRunsKeeps ==
  ASSUME Typed(mem, disk), NEW y \in PruneRuns(Begin(mem, disk))
  PROVE  Kept(mem, disk, y, {s \in Session : Abandoned(mem.uploads[s])})
<1> DEFINE gone == {s \in Session : Abandoned(mem.uploads[s])}
<1>1. PICK r \in PruneBlobs(Begin(mem, disk)) : y \in PruneUploads(r)
  BY DEF PruneRuns
<1>2. Kept(mem, disk, Begin(mem, disk), gone)
  BY DEF Kept, Begin
<1>3. Kept(mem, disk, r, gone)
  BY <1>1, <1>2, PruneBlobsKeeps
<1>4. \A s \in Session : Abandoned(r.mem.uploads[s]) => s \in gone
  BY <1>3 DEF Kept, Abandoned
<1> QED BY <1>1, <1>3, <1>4, PruneUploadsKeeps

---------------------------------------------------------------------------
(* The invariant. *)

\* A chunk that was answered ok is in the upload in memory, in the row and in
\* its file.
Listed(m, d, chunks) ==
  \A s \in Session, i \in Index :
    chunks[s][i] # {} =>
      /\ m.uploads[s] # None /\ m.uploads[s].chunks[i] # Missing
      /\ d.uploads[s] # None /\ i \in d.uploads[s].indexes
      /\ d.files[s][i] \in chunks[s][i]

BlobInv ==
  /\ Typed(mem, disk) /\ now \in Nat /\ failed \in BOOLEAN
  /\ received \in [Session -> [Index -> SUBSET Bytes]]
  /\ Listed(mem, disk, received)
  /\ ~failed => mem.blobs = disk.blobs
  /\ \A p \in promised :
       /\ p.id \in Blob /\ p.blob \in BlobValue
       /\ p.blob.at + TTL > now => mem.blobs[p.id] = p.blob /\ disk.blobs[p.id] = p.blob

\* What is not over is alive.
LEMMA InTimeIsAlive ==
  ASSUME now \in Nat, NEW v \in BlobValue
  PROVE  v.at + TTL > now => Alive(v)
<1>1. v # None /\ v.at \in Nat /\ TTL \in Nat
  BY Values, BlobAssumption DEF BlobValue
<1> QED BY <1>1 DEF Alive, Expired

\* A process that loads the snapshots has what they list.
LEMMA LoadedIsTyped ==
  ASSUME NEW m, NEW d, Typed(m, d)
  PROVE  /\ Typed(Loaded(d), d) /\ Loaded(d).blobs = d.blobs
         /\ \A s \in Session : Loaded(d).uploads[s] = Decoded(d.uploads[s], d.files[s])
<1>1. \A s \in Session : Decoded(d.uploads[s], d.files[s]) \in UploadValue \cup {None}
  BY Codes DEF Typed
<1>2. [s \in Session |-> Decoded(d.uploads[s], d.files[s])] \in [Session -> UploadValue \cup {None}]
  BY <1>1
<1> QED BY <1>2 DEF Typed, Loaded

\* Whatever a run did, a new process lists what the disk lists.
LEMMA LoadedLists ==
  ASSUME NEW m, NEW d, Typed(m, d), NEW chunks \in [Session -> [Index -> SUBSET Bytes]],
         \A s \in Session, i \in Index :
           chunks[s][i] # {} => /\ d.uploads[s] # None /\ i \in d.uploads[s].indexes
                                /\ d.files[s][i] \in chunks[s][i]
  PROVE  Listed(Loaded(d), d, chunks)
<1> SUFFICES ASSUME NEW s \in Session, NEW i \in Index, chunks[s][i] # {}
             PROVE  /\ Loaded(d).uploads[s] # None
                    /\ Loaded(d).uploads[s].chunks[i] # Missing
  BY DEF Listed
<1>1. /\ d.uploads[s] \in UploadRow \cup {None} /\ d.uploads[s] # None
      /\ i \in d.uploads[s].indexes
      /\ d.files[s] \in [Index -> Bytes \cup {Missing}]
      /\ d.files[s][i] \in Bytes
  BY DEF Typed
<1>2. Loaded(d).uploads[s] = Decoded(d.uploads[s], d.files[s])
  BY LoadedIsTyped
<1>3. /\ Decoded(d.uploads[s], d.files[s]) # None
      /\ Decoded(d.uploads[s], d.files[s]).chunks[i] = d.files[s][i]
  BY <1>1, Codes
<1> QED BY <1>1, <1>2, <1>3, BlobAssumption

\* A run that deletes only what it forgets leaves the chunks of the others.
LEMMA KeptLists ==
  ASSUME BlobInv, NEW gone, NEW r, Kept(mem, disk, r, gone),
         NEW chunks, \A s \in Session : r.mem.uploads[s] # None => chunks[s] = received[s],
         \A s \in Session : r.mem.uploads[s] = None => \A i \in Index : chunks[s][i] = {}
  PROVE  Listed(r.mem, r.disk, chunks)
<1> SUFFICES ASSUME NEW s \in Session, NEW i \in Index, chunks[s][i] # {}
             PROVE  /\ r.mem.uploads[s] # None /\ r.mem.uploads[s].chunks[i] # Missing
                    /\ r.disk.uploads[s] # None /\ i \in r.disk.uploads[s].indexes
                    /\ r.disk.files[s][i] \in chunks[s][i]
  BY DEF Listed
<1>1. r.mem.uploads[s] # None /\ chunks[s] = received[s]
  OBVIOUS
<1>2. /\ mem.uploads[s] # None /\ mem.uploads[s].chunks[i] # Missing
      /\ disk.uploads[s] # None /\ i \in disk.uploads[s].indexes
      /\ disk.files[s][i] \in received[s][i]
  BY <1>1 DEF BlobInv, Listed
<1>3. /\ r.mem.uploads[s] = mem.uploads[s] /\ r.disk.files[s] = disk.files[s]
      /\ r.disk.uploads[s] \in {disk.uploads[s], Encoded(mem.uploads[s])}
  BY <1>1 DEF Kept
<1>4. mem.uploads[s] \in UploadValue \cup {None}
  BY DEF BlobInv, Typed
<1>5. Encoded(mem.uploads[s]) # None /\ i \in Encoded(mem.uploads[s]).indexes
  BY <1>2, <1>4, Codes
<1> QED BY <1>1, <1>2, <1>3, <1>5

\* How a handler ends: its run is what the process goes on with, or it dies.
LEMMA KeptKeeps ==
  ASSUME BlobInv, NEW gone, NEW r, Kept(mem, disk, r, gone), now' = now,
         \/ mem' = r.mem /\ disk' = r.disk /\ failed' \in BOOLEAN /\ (~failed' => r.ok /\ ~failed)
         \/ Dies(r.disk),
         received' \in [Session -> [Index -> SUBSET Bytes]],
         \A s \in Session : r.mem.uploads[s] # None => received'[s] = received[s],
         \A s \in Session : r.mem.uploads[s] = None => \A i \in Index : received'[s][i] = {},
         \A p \in promised' : p \in promised \/ /\ p.id \in Blob /\ p.blob \in BlobValue
                                                /\ r.ok /\ r.mem.blobs[p.id] = p.blob
                                                /\ r.disk.blobs[p.id] = p.blob
  PROVE  BlobInv'
<1>1. Typed(r.mem, r.disk) /\ Listed(r.mem, r.disk, received')
  BY KeptLists DEF Kept
<1>2. ASSUME NEW p \in promised'
      PROVE  /\ p.id \in Blob /\ p.blob \in BlobValue
             /\ p.blob.at + TTL > now =>
                  r.mem.blobs[p.id] = p.blob /\ r.disk.blobs[p.id] = p.blob
  <2>1. CASE p \in promised
    BY <2>1, InTimeIsAlive DEF BlobInv, Kept
  <2>2. CASE p \notin promised
    BY <2>2
  <2> QED BY <2>1, <2>2
<1>3. CASE mem' = r.mem /\ disk' = r.disk /\ failed' \in BOOLEAN /\ (~failed' => r.ok /\ ~failed)
  <2>1. ~failed' => mem'.blobs = disk'.blobs
    BY <1>3 DEF BlobInv, Kept
  <2>2. Typed(mem, disk)' /\ Listed(mem, disk, received)'
    BY <1>1, <1>3 DEF Typed, Listed
  <2> QED BY <1>2, <1>3, <2>1, <2>2 DEF BlobInv
<1>4. CASE Dies(r.disk)
  <2>1. disk' = r.disk /\ mem' = Loaded(r.disk) /\ failed' = FALSE
    BY <1>4 DEF Dies
  <2>2. Typed(Loaded(r.disk), r.disk) /\ Loaded(r.disk).blobs = r.disk.blobs
    BY <1>1, LoadedIsTyped
  <2>3. Listed(Loaded(r.disk), r.disk, received')
    <3>1. \A s \in Session, i \in Index :
            received'[s][i] # {} =>
              /\ r.disk.uploads[s] # None /\ i \in r.disk.uploads[s].indexes
              /\ r.disk.files[s][i] \in received'[s][i]
      BY <1>1 DEF Listed
    <3> QED BY <1>1, <3>1, LoadedLists
  <2>4. Typed(mem, disk)' /\ Listed(mem, disk, received)'
    BY <2>1, <2>2, <2>3 DEF Typed, Listed
  <2> QED BY <1>2, <2>1, <2>2, <2>4 DEF BlobInv
<1> QED BY <1>3, <1>4

---------------------------------------------------------------------------
(* The handlers. *)

\* Every chunk of a signed upload that is not abandoned has been answered ok,
\* and the data that is not lost.
Whole(s) ==
  /\ ~failed
  /\ \A i \in Index : received[s][i] = {Signed[s][i]}
  /\ mem.uploads[s] # None /\ mem.uploads[s].at >= now - UploadTTL
There(s, d) == (\A i \in Index : d.files[s][i] # Missing) \/ d.blobs[BlobOf[s]] # None

LEMMA FilesStay ==
  ASSUME BlobInv, NEW s \in Session, Whole(s), NEW d, d.files[s] = disk.files[s]
  PROVE  There(s, d)
<1>1. \A i \in Index : disk.files[s][i] = Signed[s][i]
  BY DEF BlobInv, Listed, Whole
<1>2. \A i \in Index : Signed[s][i] \in Bytes
  BY BlobAssumption DEF Payload
<1> QED BY <1>1, <1>2, BlobAssumption DEF There

\* A handler that deletes no such upload leaves its files.
LEMMA KeptIsThere ==
  ASSUME BlobInv, NEW gone, NEW r, Kept(mem, disk, r, gone), disk' = r.disk
  PROVE  \A s \in Session : s \notin gone /\ Whole(s) => There(s, disk')
<1>1. \A s \in Session : s \notin gone => r.disk.files[s] = disk.files[s]
  BY DEF Kept
<1> QED BY <1>1, FilesStay

\* POST /relay/blob/upload
LEMMA UploadKeeps ==
  ASSUME BlobInv, NEW s \in Session, Upload(BlobOf[s], Signed[s])
  PROVE  BlobInv' /\ \A x \in Session : Whole(x) => There(x, disk')
<1> DEFINE b == BlobOf[s]
           v == [payload |-> Signed[s], at |-> now]
<1>1. PICK r \in IF mem.blobs[b] # None THEN {Begin(mem, disk)}
                 ELSE SetBlob(Begin(mem, disk), b, v) :
         Serves(r) /\ promised' = Answered(r, b)
  BY DEF Upload
<1>2. b \in Blob /\ v \in BlobValue
  BY BlobAssumption DEF BlobInv, BlobValue
<1>3. Kept(mem, disk, Begin(mem, disk), {})
  BY DEF Kept, Begin, BlobInv
<1>4. Kept(mem, disk, r, {}) /\ (r.ok => r.mem.blobs[b] # None)
  <2>1. CASE mem.blobs[b] # None
    <3>1. r = Begin(mem, disk)
      BY <1>1, <2>1
    <3>2. r.mem = mem /\ r.disk = disk
      BY <3>1 DEF Begin
    <3> QED BY <1>3, <2>1, <3>1, <3>2
  <2>2. CASE mem.blobs[b] = None
    <3>1. ~Alive(Begin(mem, disk).mem.blobs[b])
      BY <2>2 DEF Alive, Begin
    <3> HIDE DEF b, v
    <3> QED BY <1>1, <1>2, <1>3, <2>2, <3>1, SetBlobKeeps, Values
  <2> QED BY <2>1, <2>2
<1>5. \A x \in Session : r.mem.uploads[x] = mem.uploads[x]
  BY <1>4 DEF Kept
<1>6. /\ now' = now /\ received' = received
      /\ \A x \in Session : mem.uploads[x] = None => \A i \in Index : received[x][i] = {}
  BY DEF Upload, BlobInv, Listed
<1>7. /\ \/ mem' = r.mem /\ disk' = r.disk /\ failed' \in BOOLEAN /\ (~failed' => r.ok /\ ~failed)
         \/ Dies(r.disk)
      /\ disk' = r.disk
  BY <1>1 DEF Serves, Dies, BlobInv
<1>8. \A p \in promised' : p \in promised \/ /\ p.id \in Blob /\ p.blob \in BlobValue
                                             /\ r.ok /\ r.mem.blobs[p.id] = p.blob
                                             /\ r.disk.blobs[p.id] = p.blob
  <2> SUFFICES ASSUME NEW p \in promised', p \notin promised
               PROVE  /\ p.id \in Blob /\ p.blob \in BlobValue
                      /\ r.ok /\ r.mem.blobs[p.id] = p.blob /\ r.disk.blobs[p.id] = p.blob
    OBVIOUS
  <2>1. r.ok /\ ~failed /\ p = [id |-> b, blob |-> r.mem.blobs[b]]
    BY <1>1 DEF Answered
  <2>2. r.mem.blobs = r.disk.blobs /\ r.mem.blobs[b] \in BlobValue
    BY <1>2, <1>4, <2>1 DEF Kept, BlobInv, Typed
  <2> QED BY <1>2, <2>1, <2>2
<1>9. BlobInv'
  <2> HIDE DEF b, v
  <2>1. received' \in [Session -> [Index -> SUBSET Bytes]]
    BY <1>6 DEF BlobInv
  <2> QED BY <1>4, <1>5, <1>6, <1>7, <1>8, <2>1, KeptKeeps
<1> QED BY <1>4, <1>7, <1>9, KeptIsThere

\* POST /relay/blob/upload/complete
LEMMA CompleteKeeps ==
  ASSUME BlobInv, NEW s \in Session, Complete(s)
  PROVE  BlobInv' /\ \A x \in Session : Whole(x) => There(x, disk')
<1> DEFINE b == BlobOf[s]
           v == [payload |-> Signed[s], at |-> now]
<1>1. PICK y \in CompleteRuns(s, Signed[s]) :
         Serves(y) /\ promised' = Answered(y, b) /\ Forgets(y)
  BY DEF Complete
<1>2. b \in Blob /\ v \in BlobValue
  BY BlobAssumption DEF BlobInv, BlobValue
<1>3. Kept(mem, disk, Begin(mem, disk), {s})
  BY DEF Kept, Begin, BlobInv
<1>4. PICK r \in IF mem.blobs[b] # None THEN {Begin(mem, disk)}
                 ELSE SetBlob(Begin(mem, disk), b, v) : y \in DeleteUpload(r, s)
  BY <1>1 DEF CompleteRuns
<1>5. /\ Kept(mem, disk, r, {s}) /\ r.disk.files = disk.files
      /\ r.ok => r.mem.blobs[b] # None
  <2>1. CASE mem.blobs[b] # None
    <3>1. r = Begin(mem, disk)
      BY <1>4, <2>1
    <3>2. r.mem = mem /\ r.disk = disk
      BY <3>1 DEF Begin
    <3> QED BY <1>3, <2>1, <3>1, <3>2
  <2>2. CASE mem.blobs[b] = None
    <3>1. ~Alive(Begin(mem, disk).mem.blobs[b]) /\ Begin(mem, disk).disk = disk
      BY <2>2 DEF Alive, Begin
    <3> HIDE DEF b, v
    <3> QED BY <1>2, <1>3, <1>4, <2>2, <3>1, SetBlobKeeps, Values
  <2> QED BY <2>1, <2>2
<1>6. /\ Kept(mem, disk, y, {s}) /\ y.disk.blobs = r.disk.blobs /\ y.mem.blobs = r.mem.blobs
      /\ ~r.ok => y = r
  BY <1>4, <1>5, DeleteUploadKeeps
<1>7. /\ \/ mem' = y.mem /\ disk' = y.disk /\ failed' \in BOOLEAN /\ (~failed' => y.ok /\ ~failed)
         \/ Dies(y.disk)
      /\ disk' = y.disk
  BY <1>1 DEF Serves, Dies, BlobInv
<1>8. y.ok => r.ok
  BY <1>6
<1>9. \A p \in promised' : p \in promised \/ /\ p.id \in Blob /\ p.blob \in BlobValue
                                             /\ y.ok /\ y.mem.blobs[p.id] = p.blob
                                             /\ y.disk.blobs[p.id] = p.blob
  <2> SUFFICES ASSUME NEW p \in promised', p \notin promised
               PROVE  /\ p.id \in Blob /\ p.blob \in BlobValue
                      /\ y.ok /\ y.mem.blobs[p.id] = p.blob /\ y.disk.blobs[p.id] = p.blob
    OBVIOUS
  <2>1. y.ok /\ ~failed /\ p = [id |-> b, blob |-> y.mem.blobs[b]]
    BY <1>1 DEF Answered
  <2>2. y.mem.blobs = y.disk.blobs /\ y.mem.blobs[b] \in BlobValue
    BY <1>2, <1>5, <1>6, <1>8, <2>1 DEF Kept, BlobInv, Typed
  <2> QED BY <1>2, <2>1, <2>2
<1>10. /\ now' = now
       /\ received' \in [Session -> [Index -> SUBSET Bytes]]
       /\ \A x \in Session : y.mem.uploads[x] # None => received'[x] = received[x]
       /\ \A x \in Session : y.mem.uploads[x] = None => \A i \in Index : received'[x][i] = {}
  BY <1>1 DEF Complete, Forgets, BlobInv
<1>11. BlobInv'
  <2> HIDE DEF b, v
  <2> QED BY <1>6, <1>7, <1>9, <1>10, KeptKeeps
<1>12. Whole(s) => There(s, disk')
  <2> SUFFICES ASSUME Whole(s)
               PROVE  There(s, disk')
    OBVIOUS
  <2>1. CASE r.ok
    <3>1. r.mem.blobs = r.disk.blobs
      BY <1>5, <2>1 DEF Kept, BlobInv, Whole
    <3> QED BY <1>5, <1>6, <1>7, <2>1, <3>1 DEF There
  <2>2. CASE ~r.ok
    BY <1>5, <1>6, <1>7, <2>2, FilesStay
  <2> QED BY <2>1, <2>2
<1> QED BY <1>6, <1>7, <1>11, <1>12, KeptIsThere

\* What POST /relay/blob/upload/chunk may leave: nothing of other uploads
\* changes but their rows, which are written with those of the whole map.
LEMMA ChunkRunsShape ==
  ASSUME BlobInv, NEW s \in Session, NEW i \in Index, NEW bytes \in Bytes,
         NEW y \in ChunkRuns(s, i, bytes)
  PROVE  /\ Typed(y.mem, y.disk) /\ y.ok \in BOOLEAN
         /\ y.mem.blobs = mem.blobs /\ y.disk.blobs = disk.blobs
         /\ \A x \in Session : x # s =>
              /\ y.mem.uploads[x] = mem.uploads[x] /\ y.disk.files[x] = disk.files[x]
              /\ y.disk.uploads[x] \in {disk.uploads[x], Encoded(mem.uploads[x])}
         /\ \A j \in Index : y.disk.files[s][j] = disk.files[s][j] \/ (j = i /\ y.disk.files[s][j] = bytes)
         /\ mem.uploads[s] # None \/ y.ok =>
              /\ y.mem.uploads[s] # None /\ y.mem.uploads[s].chunks[i] = bytes
              /\ mem.uploads[s] # None =>
                   \A j \in Index \ {i} : y.mem.uploads[s].chunks[j] = mem.uploads[s].chunks[j]
              /\ \/ ~y.ok /\ y.disk.uploads[s] = disk.uploads[s]
                 \/ y.disk.uploads[s] = Encoded(y.mem.uploads[s])
         /\ y.ok => y.disk.files[s][i] = bytes
<1> DEFINE old == mem.uploads[s]
           new == IF old = None THEN [chunks |-> [NoChunks EXCEPT ![i] = bytes], at |-> now]
                  ELSE [old EXCEPT !.chunks[i] = bytes]
           mb == IF old = None THEN mem ELSE [mem EXCEPT !.uploads[s] = new]
           m == [mb EXCEPT !.uploads[s] = new]
           f == [disk EXCEPT !.files[s][i] = bytes]
           Rows(u) == [x \in Session |-> Encoded(IF x = s THEN new ELSE u[x])]
           g == [f EXCEPT !.uploads = Rows(mb.uploads)]
<1>1. /\ mem \in [blobs : [Blob -> BlobValue \cup {None}], uploads : [Session -> UploadValue \cup {None}]]
      /\ disk \in [blobs : [Blob -> BlobValue \cup {None}], uploads : [Session -> UploadRow \cup {None}],
                   files : [Session -> [Index -> Bytes \cup {Missing}]]]
      /\ old \in UploadValue \cup {None} /\ now \in Nat
  BY DEF BlobInv, Typed
<1>2. /\ new \in UploadValue /\ new # None /\ new.chunks[i] = bytes
      /\ old # None => \A j \in Index \ {i} : new.chunks[j] = old.chunks[j]
  <2>1. CASE old = None
    <3>1. [NoChunks EXCEPT ![i] = bytes] \in [Index -> Bytes \cup {Missing}]
          /\ [NoChunks EXCEPT ![i] = bytes][i] = bytes
      BY Values
    <3>2. new = [chunks |-> [NoChunks EXCEPT ![i] = bytes], at |-> now]
      BY <2>1
    <3> QED BY <1>1, <2>1, <3>1, <3>2, Values DEF UploadValue
  <2>2. CASE old # None
    <3> HIDE DEF old
    <3>1. old \in UploadValue
      BY <1>1, <2>2
    <3>2. new = [old EXCEPT !.chunks[i] = bytes]
      BY <2>2
    <3> HIDE DEF new
    <3>3. new \in UploadValue
      BY <3>1, <3>2 DEF UploadValue
    <3> QED BY <3>1, <3>2, <3>3, Values DEF UploadValue
  <2> QED BY <2>1, <2>2
<1> HIDE DEF new
<1>3. /\ mb.blobs = mem.blobs /\ m.blobs = mem.blobs /\ m.uploads[s] = new
      /\ mb.uploads[s] = IF old = None THEN None ELSE new
      /\ \A x \in Session : x # s => mb.uploads[x] = mem.uploads[x] /\ m.uploads[x] = mem.uploads[x]
      /\ mb \in [blobs : [Blob -> BlobValue \cup {None}], uploads : [Session -> UploadValue \cup {None}]]
      /\ m \in [blobs : [Blob -> BlobValue \cup {None}], uploads : [Session -> UploadValue \cup {None}]]
  BY <1>1, <1>2
<1>4. /\ f.blobs = disk.blobs /\ f.uploads = disk.uploads
      /\ f.files[s][i] = bytes
      /\ \A j \in Index : j # i => f.files[s][j] = disk.files[s][j]
      /\ \A x \in Session : x # s => f.files[x] = disk.files[x]
      /\ f \in [blobs : [Blob -> BlobValue \cup {None}], uploads : [Session -> UploadRow \cup {None}],
                files : [Session -> [Index -> Bytes \cup {Missing}]]]
  BY <1>1
<1> HIDE DEF mb, f
<1>5. /\ Rows(mb.uploads) \in [Session -> UploadRow \cup {None}]
      /\ Rows(mb.uploads)[s] = Encoded(new)
      /\ \A x \in Session : x # s => Rows(mb.uploads)[x] = Encoded(mem.uploads[x])
  <2>1. \A x \in Session : (IF x = s THEN new ELSE mb.uploads[x]) \in UploadValue \cup {None}
    BY <1>2, <1>3
  <2>2. \A x \in Session : Encoded(IF x = s THEN new ELSE mb.uploads[x]) \in UploadRow \cup {None}
    BY <2>1, Codes
  <2> QED BY <1>3, <2>2
<1>6. /\ g.blobs = disk.blobs /\ g.uploads = Rows(mb.uploads) /\ g.files = f.files
      /\ g \in [blobs : [Blob -> BlobValue \cup {None}], uploads : [Session -> UploadRow \cup {None}],
                files : [Session -> [Index -> Bytes \cup {Missing}]]]
  <2> HIDE DEF Rows
  <2> QED BY <1>4, <1>5
<1>7. PICK w \in StoreChunk(Begin(mb, disk), s, i, bytes) : y \in SetUpload(w, s, new)
  <2>1. IF old = None THEN Begin(mem, disk) = Begin(mb, disk)
                      ELSE Begin([mem EXCEPT !.uploads[s] = new], disk) = Begin(mb, disk)
    BY DEF mb
  <2> QED BY <2>1 DEF ChunkRuns, new
<1>8. /\ w.ok \in BOOLEAN /\ w.mem = mb
      /\ w.ok => w.disk = f
      /\ ~w.ok => w.disk \in {disk, f}
  <2>1. /\ Begin(mb, disk).mem = mb /\ Begin(mb, disk).disk = disk /\ Begin(mb, disk).ok = TRUE
    BY DEF Begin
  <2>2. \/ w = [mem |-> mb, disk |-> f, ok |-> TRUE]
        \/ w = [mem |-> mb, disk |-> disk, ok |-> FALSE]
        \/ w = [mem |-> mb, disk |-> f, ok |-> FALSE]
    BY <1>7, <2>1 DEF StoreChunk, Saved, Stopped, f
  <2>3. CASE w = [mem |-> mb, disk |-> f, ok |-> TRUE]
    BY <2>3
  <2>4. CASE w = [mem |-> mb, disk |-> disk, ok |-> FALSE]
    BY <2>4
  <2>5. CASE w = [mem |-> mb, disk |-> f, ok |-> FALSE]
    BY <2>5
  <2> QED BY <2>2, <2>3, <2>4, <2>5
<1>9. \/ y.ok = FALSE /\ y.mem = mb /\ y.disk \in {disk, f}
      \/ y.ok = FALSE /\ y.mem = m /\ y.disk \in {f, g}
      \/ y.ok = TRUE /\ y.mem = m /\ y.disk = g
  <2>1. CASE ~w.ok
    <3>1. y = w
      BY <1>7, <2>1 DEF SetUpload, Saved
    <3> QED BY <1>8, <2>1, <3>1
  <2>2. CASE w.ok
    <3>1. \/ y = [mem |-> m, disk |-> g, ok |-> TRUE]
          \/ y = [mem |-> m, disk |-> f, ok |-> FALSE]
          \/ y = [mem |-> m, disk |-> g, ok |-> FALSE]
      BY <1>7, <1>8, <2>2 DEF SetUpload, Saved, Stopped
    <3> HIDE DEF m, g
    <3>2. CASE y = [mem |-> m, disk |-> g, ok |-> TRUE]
      BY <3>2
    <3>3. CASE y = [mem |-> m, disk |-> f, ok |-> FALSE]
      BY <3>3
    <3>4. CASE y = [mem |-> m, disk |-> g, ok |-> FALSE]
      BY <3>4
    <3> QED BY <3>1, <3>2, <3>3, <3>4
  <2> QED BY <2>1, <2>2
<1> HIDE DEF m, g, Rows
<1>10. CASE y.ok = FALSE /\ y.mem = mb /\ y.disk \in {disk, f}
  <2>1. Typed(y.mem, y.disk)
    BY <1>1, <1>3, <1>4, <1>10 DEF Typed
  <2> HIDE DEF old
  <2>2. /\ y.mem.blobs = mem.blobs /\ y.disk.blobs = disk.blobs /\ y.disk.uploads = disk.uploads
        /\ \A x \in Session : x # s => /\ y.mem.uploads[x] = mem.uploads[x]
                                       /\ y.disk.files[x] = disk.files[x]
        /\ \A j \in Index : y.disk.files[s][j] = disk.files[s][j] \/ (j = i /\ y.disk.files[s][j] = bytes)
    BY <1>3, <1>4, <1>10
  <2>3. old # None => y.mem.uploads[s] = new
    BY <1>3, <1>10
  <2> QED BY <1>2, <1>10, <2>1, <2>2, <2>3 DEF old
<1>11. CASE y.mem = m /\ y.disk \in {f, g} /\ y.ok \in BOOLEAN /\ (y.ok => y.disk = g)
  <2>1. Typed(y.mem, y.disk)
    BY <1>3, <1>4, <1>6, <1>11 DEF Typed
  <2>2. /\ y.mem.blobs = mem.blobs /\ y.disk.blobs = disk.blobs
        /\ y.mem.uploads[s] = new /\ y.disk.files = f.files
    BY <1>3, <1>4, <1>6, <1>11
  <2>3. ASSUME NEW x \in Session, x # s
        PROVE  /\ y.mem.uploads[x] = mem.uploads[x] /\ y.disk.files[x] = disk.files[x]
               /\ y.disk.uploads[x] \in {disk.uploads[x], Encoded(mem.uploads[x])}
    BY <1>3, <1>4, <1>5, <1>6, <1>11, <2>3
  <2>4. \/ ~y.ok /\ y.disk.uploads[s] = disk.uploads[s]
        \/ y.disk.uploads[s] = Encoded(y.mem.uploads[s])
    BY <1>4, <1>5, <1>6, <1>11, <2>2
  <2>5. \A j \in Index : y.disk.files[s][j] = disk.files[s][j] \/ (j = i /\ y.disk.files[s][j] = bytes)
    BY <1>4, <2>2
  <2> QED BY <1>2, <1>4, <1>11, <2>1, <2>2, <2>3, <2>4, <2>5
<1>12. CASE y.ok = FALSE /\ y.mem = m /\ y.disk \in {f, g}
  BY <1>11, <1>12
<1>13. CASE y.ok = TRUE /\ y.mem = m /\ y.disk = g
  BY <1>11, <1>13
<1> QED BY <1>9, <1>10, <1>12, <1>13

\* POST /relay/blob/upload/chunk
LEMMA ChunkKeeps ==
  ASSUME BlobInv, NEW s \in Session, NEW i \in Index, NEW bytes \in Bytes, Chunk(s, i, bytes)
  PROVE  BlobInv' /\ \A x \in Session : Whole(x) => There(x, disk')
<1>1. PICK y \in ChunkRuns(s, i, bytes) :
         /\ Serves(y)
         /\ received' = [received EXCEPT ![s][i] =
                           IF y.ok THEN {bytes} ELSE IF @ = {} THEN {} ELSE @ \cup {bytes}]
  BY DEF Chunk
<1>2. /\ Typed(y.mem, y.disk) /\ y.ok \in BOOLEAN
      /\ y.mem.blobs = mem.blobs /\ y.disk.blobs = disk.blobs
      /\ \A x \in Session : x # s =>
           /\ y.mem.uploads[x] = mem.uploads[x] /\ y.disk.files[x] = disk.files[x]
           /\ y.disk.uploads[x] \in {disk.uploads[x], Encoded(mem.uploads[x])}
      /\ \A j \in Index : y.disk.files[s][j] = disk.files[s][j] \/ (j = i /\ y.disk.files[s][j] = bytes)
      /\ mem.uploads[s] # None \/ y.ok =>
           /\ y.mem.uploads[s] # None /\ y.mem.uploads[s].chunks[i] = bytes
           /\ mem.uploads[s] # None =>
                \A j \in Index \ {i} : y.mem.uploads[s].chunks[j] = mem.uploads[s].chunks[j]
           /\ \/ ~y.ok /\ y.disk.uploads[s] = disk.uploads[s]
              \/ y.disk.uploads[s] = Encoded(y.mem.uploads[s])
      /\ y.ok => y.disk.files[s][i] = bytes
  BY <1>1, ChunkRunsShape
<1>3. /\ received' \in [Session -> [Index -> SUBSET Bytes]]
      /\ \A x \in Session : x # s => received'[x] = received[x]
      /\ \A j \in Index : j # i => received'[s][j] = received[s][j]
      /\ received'[s][i] = IF y.ok THEN {bytes}
                           ELSE IF received[s][i] = {} THEN {} ELSE received[s][i] \cup {bytes}
  <2>1. received \in [Session -> [Index -> SUBSET Bytes]]
    BY DEF BlobInv
  <2> QED BY <1>1, <2>1
<1>4. /\ now' = now /\ promised' = promised /\ disk' = y.disk
      /\ \/ mem' = y.mem /\ failed' \in BOOLEAN /\ (~failed' => ~failed)
         \/ Dies(y.disk)
  BY <1>1 DEF Chunk, Serves, Dies, BlobInv
<1>5. Listed(y.mem, y.disk, received')
  <2> SUFFICES ASSUME NEW x \in Session, NEW j \in Index, received'[x][j] # {}
               PROVE  /\ y.mem.uploads[x] # None /\ y.mem.uploads[x].chunks[j] # Missing
                      /\ y.disk.uploads[x] # None /\ j \in y.disk.uploads[x].indexes
                      /\ y.disk.files[x][j] \in received'[x][j]
    BY DEF Listed
  <2>1. CASE x # s
    <3>1. /\ mem.uploads[x] # None /\ mem.uploads[x].chunks[j] # Missing
          /\ disk.uploads[x] # None /\ j \in disk.uploads[x].indexes
          /\ disk.files[x][j] \in received[x][j]
      BY <1>3, <2>1 DEF BlobInv, Listed
    <3>2. mem.uploads[x] \in UploadValue \cup {None}
      BY DEF BlobInv, Typed
    <3>3. Encoded(mem.uploads[x]) # None /\ j \in Encoded(mem.uploads[x]).indexes
      BY <3>1, <3>2, Codes
    <3> QED BY <1>2, <1>3, <2>1, <3>1, <3>3
  <2>2. CASE x = s
    <3>1. received[s][j] # {} =>
            /\ mem.uploads[s] # None /\ mem.uploads[s].chunks[j] # Missing
            /\ disk.uploads[s] # None /\ j \in disk.uploads[s].indexes
            /\ disk.files[s][j] \in received[s][j]
      BY DEF BlobInv, Listed
    <3>2. (j = i /\ y.ok) \/ received[s][j] # {}
      BY <1>3, <2>2
    <3>3. mem.uploads[s] # None \/ y.ok
      BY <3>1, <3>2
    <3>4. y.mem.uploads[s] # None /\ y.mem.uploads[s].chunks[j] # Missing
      <4>1. CASE j = i
        BY <1>2, <3>3, <4>1, BlobAssumption
      <4>2. CASE j # i
        BY <1>2, <3>1, <3>2, <4>2
      <4> QED BY <4>1, <4>2
    <3>5. y.disk.uploads[s] # None /\ j \in y.disk.uploads[s].indexes
      <4>1. CASE ~y.ok /\ y.disk.uploads[s] = disk.uploads[s]
        BY <3>1, <3>2, <4>1
      <4>2. CASE y.disk.uploads[s] = Encoded(y.mem.uploads[s])
        <5>1. y.mem.uploads[s] \in UploadValue \cup {None}
          BY <1>2 DEF Typed
        <5> QED BY <3>4, <4>2, <5>1, Codes
      <4> QED BY <1>2, <3>3, <4>1, <4>2
    <3>6. y.disk.files[s][j] \in received'[s][j]
      <4>1. CASE j # i
        BY <1>2, <1>3, <3>1, <3>2, <4>1
      <4>2. CASE j = i /\ y.ok
        BY <1>2, <1>3, <4>2
      <4>3. CASE j = i /\ ~y.ok
        BY <1>2, <1>3, <3>1, <3>2, <4>3
      <4> QED BY <4>1, <4>2, <4>3
    <3> QED BY <2>2, <3>4, <3>5, <3>6
  <2> QED BY <2>1, <2>2
<1>6. BlobInv'
  <2>1. \A p \in promised' :
          /\ p.id \in Blob /\ p.blob \in BlobValue
          /\ p.blob.at + TTL > now' =>
               y.mem.blobs[p.id] = p.blob /\ y.disk.blobs[p.id] = p.blob
    BY <1>2, <1>4 DEF BlobInv
  <2>2. CASE mem' = y.mem /\ failed' \in BOOLEAN /\ (~failed' => ~failed)
    <3>1. ~failed' => mem'.blobs = disk'.blobs
      BY <1>2, <1>4, <2>2 DEF BlobInv
    <3>2. Typed(mem, disk)' /\ Listed(mem, disk, received)'
      BY <1>2, <1>4, <1>5, <2>2 DEF Typed, Listed
    <3> QED BY <1>3, <1>4, <2>1, <2>2, <3>1, <3>2 DEF BlobInv
  <2>3. CASE Dies(y.disk)
    <3>1. mem' = Loaded(y.disk) /\ failed' = FALSE
      BY <2>3 DEF Dies
    <3>2. Typed(Loaded(y.disk), y.disk) /\ Loaded(y.disk).blobs = y.disk.blobs
      BY <1>2, LoadedIsTyped
    <3>3. Listed(Loaded(y.disk), y.disk, received')
      <4>1. \A x \in Session, j \in Index :
              received'[x][j] # {} => /\ y.disk.uploads[x] # None
                                      /\ j \in y.disk.uploads[x].indexes
                                      /\ y.disk.files[x][j] \in received'[x][j]
        BY <1>5 DEF Listed
      <4> QED BY <1>2, <1>3, <4>1, LoadedLists
    <3>4. Typed(mem, disk)' /\ Listed(mem, disk, received)'
      BY <1>4, <3>1, <3>2, <3>3 DEF Typed, Listed
    <3>5. now' \in Nat
      BY <1>4 DEF BlobInv
    <3> QED BY <1>3, <1>4, <2>1, <3>1, <3>2, <3>4, <3>5 DEF BlobInv
  <2> QED BY <1>4, <2>2, <2>3
<1>7. ASSUME NEW x \in Session, Whole(x)
      PROVE  There(x, disk')
  <2>1. CASE x # s
    BY <1>2, <1>4, <1>7, <2>1, FilesStay
  <2>2. CASE x = s
    <3>1. \A j \in Index : disk.files[s][j] = Signed[s][j] /\ Signed[s][j] \in Bytes
      <4>1. \A j \in Index : disk.files[s][j] = Signed[s][j]
        BY <1>7, <2>2 DEF BlobInv, Listed, Whole
      <4>2. \A j \in Index : Signed[s][j] \in Bytes
        BY BlobAssumption DEF Payload
      <4> QED BY <4>1, <4>2
    <3>2. \A j \in Index : y.disk.files[s][j] \in Bytes
      BY <1>2, <3>1
    <3> QED BY <1>4, <2>2, <3>2, BlobAssumption DEF There
  <2> QED BY <2>1, <2>2
<1> QED BY <1>6, <1>7

\* The timer and the start: what they delete is abandoned.
LEMMA PruneKeeps ==
  ASSUME BlobInv, NEW r \in PruneRuns(Begin(mem, disk)), Forgets(r),
         \/ r.ok /\ mem' = r.mem /\ disk' = r.disk /\ failed' = failed
         \/ ~r.ok /\ Dies(r.disk),
         now' = now, promised' = promised
  PROVE  BlobInv' /\ \A x \in Session : Whole(x) => There(x, disk')
<1> DEFINE gone == {s \in Session : Abandoned(mem.uploads[s])}
<1>1. Kept(mem, disk, r, gone)
  BY PruneRunsKeeps DEF BlobInv
<1>2. /\ received' \in [Session -> [Index -> SUBSET Bytes]]
      /\ \A x \in Session : r.mem.uploads[x] # None => received'[x] = received[x]
      /\ \A x \in Session : r.mem.uploads[x] = None => \A i \in Index : received'[x][i] = {}
  BY DEF Forgets, BlobInv
<1>3. disk' = r.disk
  BY DEF Dies
<1>4. \A x \in Session : Whole(x) => x \notin gone
  <2> SUFFICES ASSUME NEW x \in Session, Whole(x), Abandoned(mem.uploads[x])
               PROVE  FALSE
    OBVIOUS
  <2>1. mem.uploads[x].at \in Nat /\ now \in Nat /\ UploadTTL \in Nat
    BY BlobAssumption DEF Whole, BlobInv, Typed, UploadValue
  <2> QED BY <2>1 DEF Whole, Abandoned
<1>5. \/ mem' = r.mem /\ disk' = r.disk /\ failed' \in BOOLEAN /\ (~failed' => r.ok /\ ~failed)
      \/ Dies(r.disk)
  BY DEF BlobInv
<1> HIDE DEF gone
<1>6. BlobInv'
  BY <1>1, <1>2, <1>5, KeptKeeps
<1> QED BY <1>1, <1>3, <1>4, <1>6, KeptIsThere

\* A step that only reads, prunes blobs or dies.
LEMMA QuietKeeps ==
  ASSUME BlobInv, NEW r, Kept(mem, disk, r, {}), disk' = r.disk,
         \/ mem' = r.mem /\ failed' \in BOOLEAN /\ (~failed' => r.ok /\ ~failed)
         \/ Dies(r.disk),
         UNCHANGED <<now, promised, received>>
  PROVE  BlobInv' /\ \A x \in Session : Whole(x) => There(x, disk')
<1>1. /\ \A x \in Session : r.mem.uploads[x] = mem.uploads[x]
      /\ received' \in [Session -> [Index -> SUBSET Bytes]]
      /\ \A x \in Session : mem.uploads[x] = None => \A i \in Index : received'[x][i] = {}
  BY DEF Kept, BlobInv, Listed
<1>2. BlobInv'
  BY <1>1, KeptKeeps
<1> QED BY <1>2, KeptIsThere

LEMMA BlobStep ==
  BlobInv /\ [Next]_vars => BlobInv' /\ \A x \in Session : Whole(x) => There(x, disk')
<1> SUFFICES ASSUME BlobInv, [Next]_vars
             PROVE  BlobInv' /\ \A x \in Session : Whole(x) => There(x, disk')
  OBVIOUS
<1>1. ASSUME NEW s \in Session, Upload(BlobOf[s], Signed[s])
      PROVE  BlobInv' /\ \A x \in Session : Whole(x) => There(x, disk')
  BY <1>1, UploadKeeps
<1>2. ASSUME NEW s \in Session, Complete(s)
      PROVE  BlobInv' /\ \A x \in Session : Whole(x) => There(x, disk')
  BY <1>2, CompleteKeeps
<1>3. ASSUME NEW s \in Session, NEW i \in Index, NEW bytes \in Bytes, Chunk(s, i, bytes)
      PROVE  BlobInv' /\ \A x \in Session : Whole(x) => There(x, disk')
  BY <1>3, ChunkKeeps
<1>4. Kept(mem, disk, Begin(mem, disk), {})
  BY DEF Kept, Begin, BlobInv
<1>5. CASE Download
  <2>1. PICK r \in PruneBlobs(Begin(mem, disk)) : Serves(r)
    BY <1>5 DEF Download
  <2>2. Kept(mem, disk, r, {})
    BY <1>4, <2>1, PruneBlobsKeeps
  <2>3. /\ disk' = r.disk
        /\ \/ mem' = r.mem /\ failed' \in BOOLEAN /\ (~failed' => r.ok /\ ~failed)
           \/ Dies(r.disk)
    BY <2>1 DEF Serves, Dies, BlobInv
  <2> QED BY <1>5, <2>2, <2>3, QuietKeeps DEF Download
<1>6. CASE PruneTimer
  BY <1>6, PruneKeeps DEF PruneTimer
<1>7. CASE Restart
  BY <1>7, PruneKeeps DEF Restart
<1>8. CASE Crash
  <2>1. Begin(mem, disk).disk = disk /\ disk' = disk /\ Dies(disk)
    BY <1>8 DEF Begin, Crash, Dies
  <2> QED BY <1>4, <1>8, <2>1, QuietKeeps DEF Crash
<1>9. CASE Tick
  <2>1. /\ now' = now + 1 /\ now \in Nat
        /\ UNCHANGED <<mem, disk, failed, promised, received>>
    BY <1>9 DEF Tick, BlobInv
  <2>2. ASSUME NEW p \in promised, p.blob.at + TTL > now'
        PROVE  p.blob.at + TTL > now
    <3>1. p.blob.at \in Nat /\ TTL \in Nat
      BY BlobAssumption DEF BlobInv, BlobValue
    <3> QED BY <2>1, <2>2, <3>1
  <2>3. Typed(mem, disk)' /\ Listed(mem, disk, received)' /\ now' \in Nat
    BY <2>1 DEF BlobInv, Typed, Listed
  <2>4. BlobInv'
    BY <2>1, <2>2, <2>3 DEF BlobInv
  <2> QED BY <2>1, <2>4, FilesStay
<1>10. CASE UNCHANGED vars
  <2>1. UNCHANGED <<mem, disk, now, failed, promised, received>>
    BY <1>10 DEF vars
  <2>2. BlobInv'
    BY <2>1 DEF BlobInv, Typed, Listed
  <2> QED BY <2>1, <2>2, FilesStay
<1> QED BY <1>1, <1>2, <1>3, <1>5, <1>6, <1>7, <1>8, <1>9, <1>10 DEF Next

LEMMA BlobInitInv == Init => BlobInv
<1> SUFFICES ASSUME Init
             PROVE  BlobInv
  OBVIOUS
<1>1. Typed(mem, disk)
  BY Values DEF Init, Typed
<1>2. Listed(mem, disk, received)
  BY DEF Init, Listed
<1> QED BY <1>1, <1>2 DEF Init, BlobInv

\* A chunk answered ok stays in the row and in the file of its upload until
\* the relay deletes that upload, whatever other uploads, failing writes,
\* crashes and restarts come in between: storeChunk and the snapshot of the
\* uploads, which is written anew for every chunk of any of them.
THEOREM ChunksStay == Spec => []ReceivedIsOnDisk
<1>1. BlobInv => ReceivedIsOnDisk
  BY DEF BlobInv, Listed, ReceivedIsOnDisk
<1>2. BlobInv /\ [Next]_vars => BlobInv'
  BY BlobStep
<1> QED BY <1>1, <1>2, BlobInitInv, PTL DEF Spec

\* A blob answered ok by a process in which no write has failed is on disk
\* until its ttl is over.
THEOREM BlobsStay == Spec => []BlobStays
<1>1. BlobInv => BlobStays
  BY DEF BlobInv, BlobStays
<1>2. BlobInv /\ [Next]_vars => BlobInv'
  BY BlobStep
<1> QED BY <1>1, <1>2, BlobInitInv, PTL DEF Spec

\* The completion of an upload, cut off by a crash at any of its writes, by
\* the timer or by other uploads, never leaves neither chunks nor blob.
THEOREM DataIsNotLost == Spec => NeverNeither
<1>1. BlobInv /\ [Next]_vars =>
        [\A s \in Session :
           /\ ~failed
           /\ \A i \in Index : received[s][i] = {Signed[s][i]}
           /\ mem.uploads[s] # None /\ mem.uploads[s].at >= now - UploadTTL
           => \/ \A i \in Index : disk'.files[s][i] # Missing
              \/ disk'.blobs[BlobOf[s]] # None]_vars
  BY BlobStep DEF Whole, There
<1>2. BlobInv /\ [Next]_vars => BlobInv'
  BY BlobStep
<1> QED BY <1>1, <1>2, BlobInitInv, PTL DEF Spec, NeverNeither

============================================================================
