------------------------------ MODULE Monitor ------------------------------
(***************************************************************************)
(* internal/monitor and the process around it (cmd/pi-monitor): the one    *)
(* goroutine that runs Monitor.Run, sampling, flushing and archiving in    *)
(* turn, from the start of the process to its exit or crash, over and over *)
(* on the same data directory.                                             *)
(*                                                                         *)
(* phase is where that goroutine is.  Run's select is phase "select": the  *)
(* tickers and the signal may all be ready there, and select may take any  *)
(* of them.  Flush detaches the pending batch under the mutex and commits  *)
(* it afterwards without it, in two steps.                                 *)
(*                                                                         *)
(* now is the wall clock, which ticks at any moment and never goes back.   *)
(* taken, lost and late are history variables: what was collected, what    *)
(* the end of a process took away, and what was committed to SQLite for a  *)
(* week that already had its archive file.                                 *)
(***************************************************************************)
EXTENDS Store, Sequences

CONSTANTS
  Levels,      (* the values a collected sample may have                   *)
  Intervals,   (* the -persist-interval settings the service is run with   *)
  StartTime,   (* the clock when the service is first started              *)
  MaxTime,     (* bound: the clock stops there                             *)
  BufferCap    (* capacity of a subscriber's channel                       *)

ASSUME MonitorAssumption ==
  /\ Levels \subseteq Int
  /\ Intervals \subseteq Nat \ {0} /\ Intervals # {} /\ IsFiniteSet(Intervals)
  /\ StartTime \in Nat /\ MaxTime \in Nat /\ StartTime <= MaxTime
  /\ BufferCap \in Nat \ {0}
  /\ \A f \in Legacy : \A k \in DOMAIN f : k <= StartTime

VARIABLES
  now,         (* time.Now()                                               *)
  last,        (* the timestamp of the last sample of any process          *)
  phase,       (* where Run is; "down" when there is no process            *)
  cancelled,   (* ctx is done: SIGINT or SIGTERM came                      *)
  interval,    (* config.PersistenceInterval                               *)
  current,     (* m.current, <<>> for nil                                  *)
  pending,     (* m.pending                                                *)
  batch,       (* the local batch of a running Flush                       *)
  subscribers, (* m.subscribers: channel -> the timestamps it buffers      *)
  taken,       (* every sample ever collected, and the legacy rows         *)
  lost,        (* timestamps that were only in memory when a process ended *)
  late         (* rows committed after the archive of their week           *)

clock   == <<now, last>>
process == <<phase, cancelled, interval>>
memory  == <<current, pending, batch, subscribers>>
ghosts  == <<taken, lost, late>>
monitorVars == <<storeVars, clock, process, memory, ghosts>>

InMemory == TimesOf(batch) \cup TimesOf(pending)

-----------------------------------------------------------------------------
MonitorInit ==
  /\ StoreInit
  /\ now = StartTime /\ last = StartTime
  /\ phase = "down" /\ cancelled = FALSE /\ interval = 0
  /\ current = <<>> /\ pending = <<>> /\ batch = <<>> /\ subscribers = NoRows
  /\ taken = [k \in DOMAIN db |-> db[k].v]
  /\ lost = {} /\ late = NoRows

MonitorTypeOK ==
  /\ StoreTypeOK
  /\ now \in Nat /\ last \in Nat
  /\ phase \in {"down", "init", "first", "select", "archive", "flush", "final", "stopped"}
  /\ cancelled \in BOOLEAN
  /\ interval \in Nat
  /\ current \in Seq(Sample) /\ Len(current) <= 1
  /\ pending \in Seq(Sample) /\ batch \in Seq(Sample)
  /\ \A c \in DOMAIN subscribers :
       subscribers[c] \in Seq(Nat) /\ Len(subscribers[c]) <= BufferCap
  /\ DOMAIN taken \subseteq Nat /\ \A k \in DOMAIN taken : taken[k] \in Int
  /\ lost \subseteq Nat
  /\ IsTable(late)

-----------------------------------------------------------------------------
Tick ==
  /\ now < MaxTime
  /\ now' = now + 1
  /\ UNCHANGED <<storeVars, last, process, memory, ghosts>>

(* The memory of a process goes away with it.                              *)
ForgetMemory ==
  /\ cancelled' = FALSE /\ interval' = 0
  /\ current' = <<>> /\ pending' = <<>> /\ batch' = <<>> /\ subscribers' = NoRows
  /\ lost' = lost \cup InMemory

(* run up to the start of the goroutine: storage.Open, PreparePersistence, *)
(* New, go mon.Run.  (last < MaxTime: the bounded clock has a tick left    *)
(* for the first sample of the process.)                                   *)
Boot ==
  /\ phase = "down"
  /\ last < MaxTime
  /\ \E i \in Intervals : PreparePersistence(i) /\ interval' = i
  /\ phase' = "init"
  /\ UNCHANGED <<clock, cancelled, memory, ghosts>>

(* PreparePersistence commits, then fails (reclaimSQLiteSpace): run        *)
(* returns the error and the process exits.                                *)
BootFails ==
  /\ phase = "down"
  /\ \E i \in Intervals : PreparePersistence(i)
  /\ UNCHANGED <<clock, process, memory, ghosts>>

(* SIGINT or SIGTERM, or a listener that fails: ctx is cancelled.          *)
Signal ==
  /\ phase # "down" /\ ~cancelled
  /\ cancelled' = TRUE
  /\ UNCHANGED <<storeVars, clock, phase, interval, memory, ghosts>>

(* SIGKILL or a panic (Durability: a power loss).  What was in a running   *)
(* Flush is still only in memory; a running archive call just stops.       *)
Crash ==
  /\ phase # "down"
  /\ phase' = "down"
  /\ ForgetMemory
  /\ NoJob
  /\ UNCHANGED <<disk, clock, taken, late>>

(* Run has returned, run closes the store and returns.                     *)
Exit ==
  /\ phase = "stopped"
  /\ phase' = "down"
  /\ ForgetMemory
  /\ UNCHANGED <<storeVars, clock, taken, late>>

-----------------------------------------------------------------------------
(* Mutant: a channel without a bound.                                      *)
Offer_Unbounded(channel, t) == Append(channel, t)

(* Mutant: the last place of the channel is never used.                    *)
Offer_Short(channel, t) ==
  IF Len(channel) + 1 < BufferCap THEN Append(channel, t) ELSE channel

(* collect: a sample of the current moment becomes current, joins pending  *)
(* and is offered to every subscriber whose channel has room.              *)
Offer(channel, t) ==
  IF Len(channel) < BufferCap THEN Append(channel, t) ELSE channel

(* last < now is an assumption: two samples of a process have different    *)
(* milliseconds.  Ticks are at least 100 ms apart, but one that waited in  *)
(* the ticker's channel while Run was blocked is taken late, and the next  *)
(* sample can then come right behind it.                                   *)
Collect ==
  /\ phase \in {"first", "select"}
  /\ last < now
  /\ \E v \in Levels :
       /\ current' = <<[t |-> now, v |-> v]>>
       /\ pending' = Append(pending, [t |-> now, v |-> v])
       /\ taken' = [k \in DOMAIN taken \cup {now} |-> IF k = now THEN v ELSE taken[k]]
  /\ subscribers' = [c \in DOMAIN subscribers |-> Offer(subscribers[c], now)]
  /\ last' = now
  /\ phase' = "select"
  /\ UNCHANGED <<storeVars, now, cancelled, interval, batch, lost, late>>

-----------------------------------------------------------------------------
(* Mutant: m.pending is not reset.                                         *)
TakeBatch_Keeps ==
  /\ pending # <<>>
  /\ batch' = pending
  /\ UNCHANGED <<storeVars, clock, cancelled, interval, current, pending, subscribers, ghosts>>

(* Mutant: a single pending sample is not worth a transaction.             *)
TakeBatch_Lazy ==
  /\ Len(pending) > 1
  /\ batch' = pending
  /\ pending' = <<>>
  /\ UNCHANGED <<storeVars, clock, cancelled, interval, current, subscribers, ghosts>>

(* Flush, first half: take the batch under the mutex.  An empty one ends   *)
(* the call.                                                               *)
TakeBatch ==
  /\ pending # <<>>
  /\ batch' = pending
  /\ pending' = <<>>
  /\ UNCHANGED <<storeVars, clock, cancelled, interval, current, subscribers, ghosts>>

(* The flush ticker.                                                       *)
FlushBegin == phase = "select" /\ phase' = "flush" /\ TakeBatch

(* ctx.Done: one last Flush, with a context of its own.                    *)
FinalFlush == phase = "select" /\ cancelled /\ phase' = "final" /\ TakeBatch

(* Mutant: Run goes on when the last Flush had nothing to write.           *)
StopIdle_GoesOn ==
  /\ phase = "select" /\ cancelled
  /\ pending = <<>>
  /\ UNCHANGED monitorVars

(* ctx.Done with nothing to write: Run returns.                            *)
StopIdle ==
  /\ phase = "select" /\ cancelled
  /\ pending = <<>>
  /\ phase' = "stopped"
  /\ UNCHANGED <<storeVars, clock, cancelled, interval, memory, ghosts>>

AfterFlush == phase' = (IF phase = "final" THEN "stopped" ELSE "select")

(* Rows whose week has its archive file already.                           *)
LateRows(rows) ==
  [i \in {j \in DOMAIN rows : Week(rows[j].t) \in DOMAIN archive} |-> rows[i]]

(* Second half: compact and commit.  With ctx cancelled, the transaction   *)
(* of a ticker's flush is refused.                                         *)
FlushCommit ==
  /\ phase = "final" \/ (phase = "flush" /\ ~cancelled)
  /\ LET stored == CompactByInterval(batch, interval)
     IN  /\ AddBatch(stored)
         /\ late' = Upsert(late, LateRows(stored))
  /\ batch' = <<>>
  /\ AfterFlush
  /\ UNCHANGED <<clock, cancelled, interval, current, pending, subscribers, taken, lost>>

(* Mutant: the failed batch is dropped.                                    *)
FlushFail_Drops ==
  /\ phase \in {"flush", "final"}
  /\ batch' = <<>>
  /\ AfterFlush
  /\ UNCHANGED <<storeVars, clock, cancelled, interval, current, pending, subscribers, ghosts>>

(* AddBatch fails and rolls back: the batch goes back in front of pending. *)
FlushFail ==
  /\ phase \in {"flush", "final"}
  /\ pending' = batch \o pending
  /\ batch' = <<>>
  /\ AfterFlush
  /\ UNCHANGED <<storeVars, clock, cancelled, interval, current, subscribers, ghosts>>

-----------------------------------------------------------------------------
(* The archive ticker, and the call Run makes before its first sample:     *)
(* both run ArchiveCompletedWeeks to its end in the goroutine of Run.      *)
outside == <<clock, cancelled, interval, memory, ghosts>>

ArchiveBegin ==
  /\ phase = "init" \/ phase = "select"
  /\ ~cancelled
  /\ ArchiveStart(now)
  /\ phase' = (IF phase = "init" THEN "init" ELSE "archive")
  /\ UNCHANGED outside

(* The query and the DELETE are refused once ctx is cancelled; the work on *)
(* files is not.                                                           *)
InArchive == phase \in {"init", "archive"} /\ UNCHANGED phase /\ UNCHANGED outside

SkipWeek   == InArchive /\ ArchiveSkip
QueryWeek  == InArchive /\ ~cancelled /\ ArchiveQuery
RenameWeek == InArchive /\ ArchiveRename
DeleteWeek == InArchive /\ ~cancelled /\ ArchiveDelete

ArchiveEnd ==
  /\ phase \in {"init", "archive"}
  /\ ArchiveNothing \/ ArchiveReturn \/ ArchiveError
  /\ phase' = (IF phase = "init" THEN "first" ELSE "select")
  /\ UNCHANGED outside

-----------------------------------------------------------------------------
RunStep ==
  \/ Collect
  \/ FlushBegin \/ FinalFlush \/ StopIdle \/ FlushCommit \/ FlushFail
  \/ ArchiveBegin \/ SkipWeek \/ QueryWeek \/ RenameWeek \/ DeleteWeek \/ ArchiveEnd

MonitorNext ==
  \/ Tick
  \/ Boot \/ BootFails \/ Signal \/ Crash \/ Exit
  \/ RunStep

MonitorSpec == MonitorInit /\ [][MonitorNext]_monitorVars

-----------------------------------------------------------------------------
(* Timestamps order the three places a sample lives in: whatever SQLite or *)
(* an archive holds is older than whatever memory holds, and memory, with  *)
(* the batch of a running Flush in front, is in order and has no sample    *)
(* twice.  History's merge, Flush's window scan and INSERT OR REPLACE all  *)
(* lean on it: a retried flush that broke it would overwrite rows or       *)
(* compact a window twice.                                                 *)
InOrder(samples) == \A i, j \in DOMAIN samples : i < j => samples[i].t < samples[j].t

MemoryNewerThanStore ==
  /\ InOrder(batch \o pending)
  /\ \A m \in InMemory : m <= last /\ \A k \in Stored : k < m
  /\ \A k \in Stored : k <= last

(* No sample disappears without a trace, whatever fails, crashes or is     *)
(* upgraded in between: it was lost with the memory of a process, or is in *)
(* memory, or a stored row stands for it: one at its own time or later,    *)
(* whose value is close.  Each compaction on the way may move the time     *)
(* within a window and the value by twice the threshold, and each interval *)
(* does so at most once, in order of length.  Where longer windows consist *)
(* of shorter ones, the row has not left the sample's own.  Rows that came *)
(* to SQLite after their week's archive count as stored here;              *)
(* RemovedRowsAreArchived is about those.                                  *)
StoredRows ==
  {db[k] : k \in DOMAIN db} \cup {late[k] : k \in DOMAIN late}
    \cup UNION {{archive[w][k] : k \in DOMAIN archive[w]} : w \in DOMAIN archive}

NestedIntervals == \A i, j \in Intervals : i <= j => j % i = 0

(* How many compactions can have come before one of windows of length i,   *)
(* itself included.                                                        *)
Compactions(i) == Cardinality({j \in Intervals : j <= i})

Reaches(u, t) ==
  /\ u >= t
  /\ \E i \in Intervals :
       /\ u - t <= (i - 1) * Compactions(i)
       /\ NestedIntervals => Bucket(u, i) = Bucket(t, i)

Drift == 2 * Threshold * Cardinality(Intervals)

StandsFor(row, t) ==
  /\ Reaches(row.t, t)
  /\ row.v - taken[t] <= Drift /\ taken[t] - row.v <= Drift

EverySampleAccountedFor ==
  \A t \in DOMAIN taken :
    t \in lost \cup InMemory \/ \E row \in StoredRows : StandsFor(row, t)

(* A row of a week that has an archive file is in that file with the same  *)
(* value, except for the rows that came late: this is what makes the       *)
(* DELETE of ArchiveCompletedWeeks safe, also when the rows stayed behind  *)
(* because of a crash or an error after the rename.                        *)
ArchiveCoversRows ==
  \A k \in DOMAIN db \ DOMAIN late :
    Week(k) \in DOMAIN archive =>
      /\ k \in DOMAIN archive[Week(k)]
      /\ archive[Week(k)][k].v = db[k].v

(* At most one of batch and pending holds samples, because the goroutine   *)
(* that collects is the one that flushes; both are in order and younger    *)
(* than the store.                                                         *)
MemoryInv ==
  /\ phase \notin {"flush", "final"} => batch = <<>>
  /\ phase \in {"flush", "final", "down"} => pending = <<>>
  /\ InOrder(batch) /\ InOrder(pending)
  /\ \A m \in InMemory : m <= last /\ \A k \in Stored : k < m
  /\ \A k \in Stored : k <= last

(* The rows being written are the rows of the week, and when the loop gets *)
(* to the DELETE, a week with rows has its file.                           *)
JobInv ==
  /\ phase \notin {"init", "archive"} => step = "idle"
  /\ step = "write" => points = WeekRows(cursor) /\ cursor \notin DOMAIN archive
  /\ step = "delete" => cursor \in DOMAIN archive \/ DOMAIN WeekRows(cursor) = {}

(* All of it together is inductive: each step keeps it on its own.         *)
IInv == MonitorTypeOK /\ MemoryInv /\ JobInv /\ ArchiveCoversRows

(* What is stored stays stored: apart from the compaction of a start with  *)
(* a larger interval, no step takes a row out of the union of SQLite and   *)
(* the archives, unless it came late.                                      *)
StoredRowsStay ==
  [][meta' = meta => Stored \ DOMAIN late \subseteq Stored']_monitorVars

(* Every sample goes through the life SampleFate allows: it is settled in  *)
(* time order, once, and nothing brings back what was lost, merged away or *)
(* erased, or moves it back to memory once it is stored.                   *)
FateOf(t) ==
  IF t \notin DOMAIN taken     THEN "none"
  ELSE IF t \in InMemory       THEN "memory"
  ELSE IF t \in Stored         THEN "stored"
  ELSE IF t \in lost           THEN "lost"
  ELSE IF t \in DOMAIN late    THEN "erased"
  ELSE "merged"

fates == [t \in 0..MaxTime |-> FateOf(t)]

Fate == INSTANCE SampleFate WITH Times <- 0..MaxTime, fate <- fates

SamplesMeetTheirFate == Fate!Spec

(* README.md:62-64, "Completed weeks are written atomically [...], then    *)
(* removed from SQLite": a row the archiver removes is in the archive of   *)
(* its week.  The code breaks it for rows flushed after their week was     *)
(* archived, which it deletes without having written them.                 *)
RemovedRowsAreArchived ==
  [][\A k \in DOMAIN db \ DOMAIN db' : step = "delete" =>
       Week(k) \in DOMAIN archive /\ k \in DOMAIN archive[Week(k)]]_monitorVars

(* README.md:75-79: the samples of a wall-clock window are compared with   *)
(* the first sample in it, and a volatile window retains every sample.     *)
(* The code compacts a window in two parts when a flush falls into it:     *)
(* each part is compared with its own first sample only.                   *)
VolatileWindowsKept ==
  \A i \in Intervals, t \in DOMAIN taken :
    LET window == {u \in DOMAIN taken : Bucket(u, i) = Bucket(t, i)}
        volatile == \E first, u \in window :
          /\ \A w \in window : first <= w
          /\ taken[u] - taken[first] > Threshold \/ taken[first] - taken[u] > Threshold
    IN  volatile /\ window \cap (lost \cup InMemory) = {} => t \in Stored \cup DOMAIN late

-----------------------------------------------------------------------------
(* Fairness.  The goroutine does not stop inside an operation.  Among the  *)
(* ready cases of a select Go picks at random, so one that is ready again  *)
(* and again is taken: strong fairness.  Strong fairness of the SQLite and *)
(* file operations says that their errors do not last forever.             *)
ArchiveMoves == SkipWeek \/ QueryWeek \/ RenameWeek \/ DeleteWeek \/ ArchiveEnd

MonitorFairness ==
  /\ WF_monitorVars(phase = "first" /\ Collect)
  /\ WF_monitorVars(FlushCommit \/ FlushFail)
  /\ WF_monitorVars(ArchiveMoves)
  /\ WF_monitorVars(Tick) /\ WF_monitorVars(Exit)
  /\ SF_monitorVars(FlushBegin) /\ SF_monitorVars(FinalFlush) /\ SF_monitorVars(StopIdle)
  /\ SF_monitorVars(ArchiveBegin) /\ SF_monitorVars(FlushCommit)
  /\ SF_monitorVars(SkipWeek) /\ SF_monitorVars(QueryWeek)
  /\ SF_monitorVars(RenameWeek) /\ SF_monitorVars(DeleteWeek)

FairMonitorSpec == MonitorSpec /\ MonitorFairness

(* A signal ends the process, whatever it was doing and whatever fails.    *)
ShutdownCompletes == cancelled ~> phase = "down"

StaysUp == <>[](phase # "down" /\ ~cancelled)

(* While the service stays up, a sample in memory is flushed in the end,   *)
(* also when flushes fail and put the batch back.                          *)
SamplesBecomeDurable ==
  StaysUp => \A t \in StartTime..MaxTime : t \in InMemory ~> t \notin InMemory

(* While the service stays up, the rows of a completed week leave SQLite,  *)
(* also when archiving was interrupted after the rename or rows came late. *)
CompletedWeeksLeaveSQLite ==
  StaysUp => \A t \in 0..MaxTime :
    (t \in DOMAIN db /\ Week(t) < Week(now)) ~> t \notin DOMAIN db
=============================================================================
