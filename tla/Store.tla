------------------------------- MODULE Store -------------------------------
(***************************************************************************)
(* internal/storage: the SQLite file, the Parquet archives and the         *)
(* operations of Store on them.                                            *)
(*                                                                         *)
(* db, meta, archive and tmp are on disk and survive a crash.  A SQLite    *)
(* transaction is one step.  ArchiveCompletedWeeks is not: its loop writes *)
(* a file, renames it and deletes rows in three steps of their own, kept   *)
(* in step, cursor, cutoff and points, and a reader or a crash can come    *)
(* between any two of them.                                                *)
(***************************************************************************)
EXTENDS Samples

CONSTANT Legacy   (* tables that an earlier version may have left behind   *)

ASSUME StoreAssumption == \A f \in Legacy : IsTable(f)

VARIABLES
  db,        (* the samples table: timestamp_ms -> row                     *)
  meta,      (* metadata.persistence_interval_ms, 0 when there is no row   *)
  archive,   (* week -> the rows of its .parquet file                      *)
  tmp,       (* weeks with a .parquet.tmp file, which no reader looks at   *)
  step,      (* where ArchiveCompletedWeeks is, "idle" when not running    *)
  cursor,    (* start, the week its loop is at                             *)
  cutoff,    (* currentWeek, where its loop ends                           *)
  points     (* the rows being written to cursor's .tmp file               *)

disk == <<db, meta, archive, tmp>>
job  == <<step, cursor, cutoff, points>>
storeVars == <<disk, job>>

NoJob == step' = "idle" /\ cursor' = 0 /\ cutoff' = 0 /\ points' = NoRows

StoreInit ==
  /\ db \in Legacy
  /\ meta = 0
  /\ archive = NoRows
  /\ tmp = {}
  /\ step = "idle" /\ cursor = 0 /\ cutoff = 0 /\ points = NoRows

StoreTypeOK ==
  /\ IsTable(db)
  /\ meta \in Nat
  /\ \A w \in DOMAIN archive : w \in Nat /\ IsTable(archive[w])
  /\ tmp \subseteq Nat
  /\ step \in {"idle", "week", "write", "delete"}
  /\ cursor \in Nat /\ cutoff \in Nat
  /\ IsTable(points)

(* The timestamps found in some archive file, and in the store as a whole. *)
Archived == UNION {DOMAIN archive[w] : w \in DOMAIN archive}
Stored   == DOMAIN db \cup Archived

(* Mutant: the end of the week is one tick short, as with "<" for "<=".    *)
WeekRows_Short(w) ==
  RowsIn(db, {k \in DOMAIN db : Week(k) = w /\ Week(k + 1) = w})

(* The rows of week w, as the WHERE clauses on start and end select them.  *)
WeekRows(w) == RowsIn(db, {k \in DOMAIN db : Week(k) = w})

-----------------------------------------------------------------------------
(* One transaction replaces the table by its compaction, unless the        *)
(* recorded interval is already as large.                                  *)
PreparePersistence(interval) ==
  /\ IF meta >= interval
       THEN UNCHANGED <<db, meta>>
       ELSE /\ db' = Upsert(NoRows, CompactByInterval(db, interval))
            /\ meta' = interval
  /\ UNCHANGED <<archive, tmp, job>>

(* A transaction of INSERT OR REPLACE.                                     *)
AddBatch(rows) ==
  /\ db' = Upsert(db, rows)
  /\ UNCHANGED <<meta, archive, tmp, job>>

-----------------------------------------------------------------------------
(* ArchiveCompletedWeeks, called at time now: SELECT MIN, then the loop.   *)
(* Without a row, or when the query fails, the call returns at once.       *)
ArchiveNothing ==
  /\ step = "idle"
  /\ UNCHANGED storeVars

(* Mutant: the last completed week counts as the current one.              *)
ArchiveStart_WeekEarly(now) ==
  /\ step = "idle"
  /\ \E oldest \in DOMAIN db :
       /\ \A k \in DOMAIN db : oldest <= k
       /\ cursor' = Week(oldest)
  /\ cutoff' = Week(now) - 1
  /\ step' = "week"
  /\ UNCHANGED <<disk, points>>

ArchiveStart(now) ==
  /\ step = "idle"
  /\ \E oldest \in DOMAIN db :
       /\ \A k \in DOMAIN db : oldest <= k
       /\ cursor' = Week(oldest)
  /\ cutoff' = Week(now)
  /\ step' = "week"
  /\ UNCHANGED <<disk, points>>

(* start.Before(currentWeek) is false: reclaim space (which changes no     *)
(* row) and return.                                                        *)
ArchiveReturn ==
  /\ step = "week"
  /\ cursor >= cutoff
  /\ NoJob
  /\ UNCHANGED disk

(* The file of the week exists: go on to the DELETE.                       *)
ArchiveSkip ==
  /\ step = "week"
  /\ cursor < cutoff
  /\ cursor \in DOMAIN archive
  /\ step' = "delete"
  /\ UNCHANGED <<disk, cursor, cutoff, points>>

(* No file: query the week; a week with rows is written to its .tmp file,  *)
(* which os.Create truncates if a crash left one.                          *)
ArchiveQuery ==
  /\ step = "week"
  /\ cursor < cutoff
  /\ cursor \notin DOMAIN archive
  /\ IF DOMAIN WeekRows(cursor) = {}
       THEN step' = "delete" /\ UNCHANGED <<tmp, points>>
       ELSE step' = "write" /\ tmp' = tmp \cup {cursor} /\ points' = WeekRows(cursor)
  /\ UNCHANGED <<db, meta, archive, cursor, cutoff>>

(* os.Rename: the synced file appears under its name all at once.          *)
ArchiveRename ==
  /\ step = "write"
  /\ archive' = [w \in DOMAIN archive \cup {cursor} |->
                   IF w = cursor THEN points ELSE archive[w]]
  /\ tmp' = tmp \ {cursor}
  /\ step' = "delete"
  /\ points' = NoRows
  /\ UNCHANGED <<db, meta, cursor, cutoff>>

(* Mutant: "timestamp_ms <= end" takes the first row of the next week too.  *)
ArchiveDelete_PastEnd ==
  /\ step = "delete"
  /\ db' = RowsIn(db, {k \in DOMAIN db : Week(k) # cursor /\ Week(k - 1) # cursor})
  /\ cursor' = cursor + 1
  /\ step' = "week"
  /\ UNCHANGED <<meta, archive, tmp, cutoff, points>>

(* DELETE FROM samples for the week, then start = end.                     *)
ArchiveDelete ==
  /\ step = "delete"
  /\ db' = RowsIn(db, {k \in DOMAIN db : Week(k) # cursor})
  /\ cursor' = cursor + 1
  /\ step' = "week"
  /\ UNCHANGED <<meta, archive, tmp, cutoff, points>>

(* A query, a write, the rename or the DELETE fails, or reclaiming does:   *)
(* the call returns the error.  The deferred os.Remove takes the .tmp file *)
(* away, unless it fails too: its error is ignored.                        *)
ArchiveError ==
  /\ step # "idle"
  /\ NoJob
  /\ tmp' = tmp \/ (step = "write" /\ tmp' = tmp \ {cursor})
  /\ UNCHANGED <<db, meta, archive>>
=============================================================================
