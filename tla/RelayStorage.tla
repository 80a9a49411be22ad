--------------------------- MODULE RelayStorage ---------------------------
(***************************************************************************)
(* The storage discipline every relay handler shares (PersistentRelayMap). *)
(* A handler runs alone.  Each Map.set or Map.delete changes the map in    *)
(* memory first and then rewrites the whole snapshot of that map: temporary *)
(* file, fsync, rename, directory fsync.  An error before the rename leaves *)
(* the old snapshot, an error after it leaves the new one; both abort the  *)
(* handler with the memory already changed.  A crash has the same two disk *)
(* outcomes, and then the memory is lost.                                  *)
(*                                                                         *)
(* A handler is followed as a run: the maps in memory, the snapshots on    *)
(* disk, and whether every save so far has succeeded.  A write turns a run *)
(* into the set of runs it can lead to.                                    *)
(***************************************************************************)

\* A handler starts from the maps and the snapshots it finds.
Begin(memory, snapshots) ==
  [mem |-> memory, disk |-> snapshots, ok |-> TRUE]

\* Runs stopped at a save: the memory has the write, each snapshot in S is
\* one the failed save may leave behind.
Stopped(memory, S) == {[mem |-> memory, disk |-> s, ok |-> FALSE] : s \in S}

\* One write: memory is the maps with it, snapshots the disk with it saved.
Saved(run, memory, snapshots) ==
  IF run.ok
  THEN {[mem |-> memory, disk |-> snapshots, ok |-> TRUE]}
         \cup Stopped(memory, {run.disk, snapshots})
  ELSE {run}
============================================================================
