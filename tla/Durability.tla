---------------------------- MODULE Durability ----------------------------
(***************************************************************************)
(* The monitor on a machine that can lose its power.                       *)
(*                                                                         *)
(* The database runs with journal_mode=WAL and synchronous=NORMAL: a       *)
(* commit is not synced, a checkpoint is.  After a power loss SQLite is at *)
(* one of the commits since the last sync, whichever of them the kernel    *)
(* had written back; images holds them.  An archive's content is synced    *)
(* before its rename.  The rename itself is taken to be on disk before     *)
(* anything written later, which a journaling file system does and POSIX   *)
(* does not promise: the directory is not synced.                          *)
(***************************************************************************)
EXTENDS Monitor

VARIABLES
  images,    (* what SQLite may be found as after a power loss             *)
  cached,    (* weeks whose .tmp or .parquet file is only in the page cache*)
  gone,      (* history: timestamps that a compaction has merged away      *)
  durable    (* history: the timestamps no power loss may take away        *)

durabilityVars == <<monitorVars, images, cached, gone, durable>>

Image(table, interval_ms) == [db |-> table, meta |-> interval_ms]

DurabilityInit ==
  /\ MonitorInit
  /\ images = {Image(db, meta)}
  /\ cached = {}
  /\ gone = {} /\ durable = DOMAIN db

(* A checkpoint syncs the log and the database: SQLite makes one when a    *)
(* commit finds the log long, on closing and on reclaiming space.          *)
Checkpoint ==
  /\ images' = {Image(db', meta')}
  /\ durable' = Stored' \ gone'

NoCheckpoint ==
  /\ images' = images \cup {Image(db', meta')}
  /\ durable' = (durable \cup Archived') \ gone'

(* Mutant: the file is closed and renamed without f.Sync().                *)
FileSync_Missing(files, w) == files

(* f.Sync(), between the last write and the rename.                        *)
FileSync(files, w) == files \ {w}

(* A start that compacts: it goes on only if space was reclaimed.          *)
Prepare ==
  /\ Boot \/ BootFails
  /\ gone' = gone \cup (DOMAIN db \ DOMAIN db')
  /\ Checkpoint \/ ((phase' = "down" \/ gone' = gone) /\ NoCheckpoint)
  /\ UNCHANGED cached

(* The other steps that commit, and reclaimSQLiteSpace and store.Close():  *)
(* a checkpoint comes with them, or does not, or fails.                    *)
Commit ==
  /\ FlushCommit \/ DeleteWeek \/ ArchiveEnd \/ Exit
  /\ UNCHANGED gone
  /\ Checkpoint \/ NoCheckpoint
  /\ UNCHANGED cached

WriteFile ==
  /\ QueryWeek
  /\ cached' = IF step' = "write" THEN cached \cup {cursor} ELSE cached
  /\ UNCHANGED <<images, gone, durable>>

SyncAndRename ==
  /\ RenameWeek
  /\ cached' = FileSync(cached, cursor)
  /\ UNCHANGED gone
  /\ NoCheckpoint

ElseInMonitor ==
  /\ \/ Tick \/ Signal \/ Crash \/ Collect
     \/ FlushBegin \/ FinalFlush \/ StopIdle \/ FlushFail \/ ArchiveBegin \/ SkipWeek
  /\ UNCHANGED <<images, cached, gone, durable>>

(* The power goes, whether the process runs or not: its memory is gone,    *)
(* SQLite recovers to an image, and a file that was not synced is empty.   *)
PowerLoss ==
  /\ \E image \in images, emptied \in SUBSET cached :
       /\ db' = image.db /\ meta' = image.meta
       /\ archive' = [w \in DOMAIN archive |-> IF w \in emptied THEN NoRows ELSE archive[w]]
  /\ UNCHANGED tmp
  /\ NoJob
  /\ phase' = "down" /\ cancelled' = FALSE /\ interval' = 0
  /\ current' = <<>> /\ pending' = <<>> /\ batch' = <<>> /\ subscribers' = NoRows
  /\ lost' = lost \cup InMemory \cup (Stored \ Stored')
  /\ images' = {Image(db', meta')} /\ cached' = {}
  /\ UNCHANGED <<clock, taken, late, gone, durable>>

DurabilityNext ==
  \/ Prepare \/ Commit \/ WriteFile \/ SyncAndRename \/ ElseInMonitor
  \/ PowerLoss

DurabilitySpec == DurabilityInit /\ [][DurabilityNext]_durabilityVars

-----------------------------------------------------------------------------
(* A row that was in SQLite at a checkpoint, or in an archive file, is     *)
(* stored ever after, in one of the two, through power losses and crashes  *)
(* at any point: a week whose rows are deleted has its file on disk, and   *)
(* not merely in the cache.  Late rows are excepted, and rows a compaction *)
(* has merged away: a power loss may undo it after their week was written. *)
DurableRowsSurvive == durable \ DOMAIN late \subseteq Stored

(* What a power loss takes from the store is its newest part: no sample is *)
(* missing before one that is still there.  Commits come in time order,    *)
(* SQLite loses a suffix of them, and the archiver may have moved rows of  *)
(* a commit that is lost into a file that stays.                           *)
PowerLossLeavesNoHole ==
  [][PowerLoss =>
       \A k \in Stored \ (Stored' \cup DOMAIN late) : \A j \in Stored' : j < k]_durabilityVars
=============================================================================
