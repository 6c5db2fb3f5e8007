---------------------------- MODULE FaultProofs -----------------------------
(***************************************************************************)
(* The monitor under faults of the machine, for every value of the         *)
(* constants.                                                              *)
(*                                                                         *)
(* The clock: that every sample is accounted for, also when it is set back,*)
(* but for those of the time that came twice; and that archiving does not  *)
(* depend on it.                                                           *)
(*                                                                         *)
(* The power: whatever SQLite may be found as, no row that was durable is  *)
(* missing from it and from the archives, and what is missing is the       *)
(* newest part of the store.                                               *)
(***************************************************************************)
EXTENDS ClockSteps, Durability, MonitorProofs

-----------------------------------------------------------------------------
(* The parts of IInv that do not depend on the clock.  Memory and store    *)
(* lose their order when it is set back, so MemoryInv is no invariant      *)
(* there; the rest is inductive without it.                                *)
SafeInv == MonitorTypeOK /\ JobInv /\ ArchiveCoversRows

LEMMA ClockInitInv == ClockInit => SafeInv
BY InitInv DEF ClockInit, IInv, SafeInv

(* Setting the clock touches nothing but the clock.                        *)
LEMMA SetBackStep ==
  ASSUME SafeInv, SetBack
  PROVE  SafeInv' /\ UNCHANGED <<storeVars, late>>
<1>1. /\ UNCHANGED <<db, meta, archive, tmp, step, cursor, cutoff, points, phase, cancelled,
                     interval, current, pending, batch, subscribers, taken, lost, late>>
      /\ \E t \in 1..now : now' = t /\ last' = t - 1
  BY DEF SetBack, storeVars, disk, job, process, memory, ghosts
<1>2. now \in Nat
  BY DEF SafeInv, MonitorTypeOK
<1>3. now' \in Nat /\ last' \in Nat
  BY <1>1, <1>2
<1>4. MonitorTypeOK'
  BY <1>1, <1>3 DEF SafeInv, MonitorTypeOK, StoreTypeOK
<1>5. JobInv'
  BY <1>1 DEF SafeInv, JobInv, WeekRows
<1>6. ArchiveCoversRows'
  BY <1>1 DEF SafeInv, ArchiveCoversRows
<1> QED
  BY <1>1, <1>4, <1>5, <1>6 DEF SafeInv, storeVars, disk, job

LEMMA ClockStutter ==
  ASSUME SafeInv, UNCHANGED clockStepsVars
  PROVE  SafeInv' /\ UNCHANGED monitorVars
<1>1. UNCHANGED <<db, meta, archive, tmp, step, cursor, cutoff, points, now, last, phase,
                  cancelled, interval, current, pending, batch, subscribers, taken, lost,
                  late>>
  BY DEF clockStepsVars, monitorVars, storeVars, disk, job, clock, process, memory, ghosts
<1>2. MonitorTypeOK'
  BY <1>1 DEF SafeInv, MonitorTypeOK, StoreTypeOK
<1>3. JobInv'
  BY <1>1 DEF SafeInv, JobInv, WeekRows
<1>4. ArchiveCoversRows'
  BY <1>1 DEF SafeInv, ArchiveCoversRows
<1> QED
  BY <1>2, <1>3, <1>4 DEF SafeInv, clockStepsVars

LEMMA ClockStep == SafeInv /\ [ClockNext]_clockStepsVars => SafeInv'
<1> SUFFICES ASSUME SafeInv, [ClockNext]_clockStepsVars PROVE SafeInv'
  OBVIOUS
<1>1. CASE MonitorNext
  BY <1>1, TypeStep, JobStep, CoverStep DEF SafeInv
<1>2. CASE SetBack
  BY <1>2, SetBackStep
<1>3. CASE UNCHANGED clockStepsVars
  BY <1>3, ClockStutter
<1> QED
  BY <1>1, <1>2, <1>3 DEF ClockNext

(* Whatever the clock does, a week's file covers the rows of that week     *)
(* still in SQLite, so the DELETE of the archiver loses nothing.           *)
THEOREM ArchivesCoverAtAnyTime == ClockSpec => []ArchiveCoversRows
<1>1. SafeInv => ArchiveCoversRows
  BY DEF SafeInv
<1> QED
  BY <1>1, ClockInitInv, ClockStep, PTL DEF ClockSpec

(* Whatever the clock does, no step but the compaction of a start takes a  *)
(* row that was in time out of the store.                                  *)
THEOREM RowsStayAtAnyTime == ClockSpec => StoredRowsStay
<1>1. SafeInv /\ [ClockNext]_clockStepsVars
        => [meta' = meta => Stored \ DOMAIN late \subseteq Stored']_monitorVars
  <2> SUFFICES ASSUME SafeInv, [ClockNext]_clockStepsVars, meta' = meta
               PROVE  Stored \ DOMAIN late \subseteq Stored' \/ UNCHANGED monitorVars
    OBVIOUS
  <2>1. CASE MonitorNext
    BY <2>1, StayStep DEF SafeInv
  <2>2. CASE SetBack
    BY <2>2, SetBackStep DEF Stored, Archived, storeVars, disk
  <2>3. CASE UNCHANGED clockStepsVars
    BY <2>3 DEF clockStepsVars
  <2> QED
    BY <2>1, <2>2, <2>3 DEF ClockNext
<1> QED
  BY <1>1, ClockInitInv, ClockStep, PTL DEF ClockSpec, StoredRowsStay

-----------------------------------------------------------------------------
(* That every sample is accounted for.  A row that stands for a sample is  *)
(* moved at most once by each interval, by a flush or by a compaction, for *)
(* the recorded interval only grows; and each time within a window of it.  *)
(*                                                                         *)
(* R holds the ticks that come, or came, more than once: none of them in   *)
(* Monitor, the variable repeated in ClockSteps.  Everything said here is  *)
(* about the other ticks, and clear are the times whose rows cannot be of  *)
(* R.                                                                      *)
Clear(t, R) == \A u \in R : ~Reaches(u, t)

(* With m recorded, row stands for a sample of time t and value v.         *)
Close(row, t, v, m) ==
  /\ row.t >= t
  /\ \/ row.t = t
     \/ /\ m \in Intervals /\ row.t - t <= (m - 1) * Compactions(m)
        /\ NestedIntervals => Bucket(row.t, m) = Bucket(t, m)
  /\ row.v - v <= 2 * Threshold * Compactions(m)
  /\ v - row.v <= 2 * Threshold * Compactions(m)

Ordered(samples, R) ==
  \A i, j \in DOMAIN samples :
    i < j => samples[i].t < samples[j].t \/ samples[i].t \in R

(* What is left of MemoryInv: a sample that comes is the youngest, and no  *)
(* flush overwrites a row.                                                 *)
OrderInv(R) ==
  /\ last <= now
  /\ phase \notin {"flush", "final"} => batch = <<>>
  /\ phase \in {"flush", "final", "down"} => pending = <<>>
  /\ Ordered(batch, R) /\ Ordered(pending, R)
  /\ InMemory \cup Stored \cup DOMAIN late \subseteq DOMAIN taken
  /\ \A k \in DOMAIN taken \ R : k <= last
  /\ InMemory \cap (Stored \cup DOMAIN late) \subseteq R

(* The process compacts by no more than the recorded interval.             *)
IntervalInv ==
  /\ meta \in Intervals \cup {0}
  /\ phase # "down" => interval \in Intervals /\ interval <= meta

MemoryValuesInv(R) ==
  /\ \A i \in DOMAIN batch : taken[batch[i].t] = batch[i].v \/ batch[i].t \in R
  /\ \A i \in DOMAIN pending : taken[pending[i].t] = pending[i].v \/ pending[i].t \in R

LateValuesInv(R) == \A k \in (DOMAIN late \cap DOMAIN db) \ R : late[k].v = db[k].v

RowsInv(R) ==
  \A t \in DOMAIN taken \ (lost \cup InMemory) :
    Clear(t, R) => \E row \in StoredRows : Close(row, t, taken[t], meta)

ValuesInv(R) == IntervalInv /\ MemoryValuesInv(R) /\ LateValuesInv(R) /\ RowsInv(R)

AccountInv(R) == SafeInv /\ OrderInv(R) /\ ValuesInv(R)

-----------------------------------------------------------------------------
LEMMA CompactionsBounded ==
  ASSUME NEW m \in Nat
  PROVE  /\ Compactions(m) \in Nat /\ Cardinality(Intervals) \in Nat
         /\ Compactions(m) <= Cardinality(Intervals)
         /\ m \in Intervals => Compactions(m) >= 1
<1>1. {i \in Intervals : i <= m} \in SUBSET Intervals /\ IsFiniteSet(Intervals)
  BY MonitorAssumption
<1>2. /\ IsFiniteSet({i \in Intervals : i <= m})
      /\ Cardinality({i \in Intervals : i <= m}) <= Cardinality(Intervals)
  BY <1>1, FS_Subset
<1>3. Cardinality({i \in Intervals : i <= m}) \in Nat /\ Cardinality(Intervals) \in Nat
  BY <1>1, <1>2, FS_CardinalityType
<1>4. m \in Intervals => Cardinality({i \in Intervals : i <= m}) # 0
  <2>1. m \in Intervals => {i \in Intervals : i <= m} # {}
    OBVIOUS
  <2> QED
    BY <1>2, <2>1, FS_EmptySet
<1> QED
  BY <1>2, <1>3, <1>4 DEF Compactions

LEMMA CompactionsGrow ==
  ASSUME NEW m \in Nat, NEW n \in Intervals, m < n
  PROVE  Compactions(m) + 1 <= Compactions(n)
<1> DEFINE below == {i \in Intervals : i <= m}
           upTo == {i \in Intervals : i <= n}
<1>1. Intervals \subseteq Nat /\ IsFiniteSet(Intervals)
  BY MonitorAssumption
<1>2. /\ below \in SUBSET Intervals /\ upTo \in SUBSET Intervals
      /\ n \notin below /\ below \cup {n} \in SUBSET upTo
  <2>1. /\ n \in Nat /\ ~(n <= m) /\ n <= n
        /\ \A i \in Intervals : i <= m => i <= n
    BY <1>1
  <2>2. \A i \in below \cup {n} : i \in upTo
    BY <2>1
  <2> QED
    BY <2>1, <2>2
<1>3. IsFiniteSet(below) /\ IsFiniteSet(upTo)
  BY <1>1, <1>2, FS_Subset
<1>4. Cardinality(below \cup {n}) = Cardinality(below) + 1
  BY <1>2, <1>3, FS_AddElement
<1>5. Cardinality(below \cup {n}) <= Cardinality(upTo)
  BY <1>2, <1>3, FS_Subset
<1>6. Cardinality(below) \in Nat /\ Cardinality(upTo) \in Nat
  BY <1>3, FS_CardinalityType
<1> QED
  BY <1>4, <1>5, <1>6 DEF Compactions

LEMMA SameBucketNear ==
  ASSUME NEW n \in Nat \ {0}, NEW s \in Nat, NEW t \in Nat,
         s = t \/ Bucket(s, n) = Bucket(t, n)
  PROVE  t - s < n
BY DEF Bucket

(* What is close to t stays so when a larger interval is recorded, and     *)
(* what that interval merges it into is close to t, too.                   *)
LEMMA CloseMerged ==
  ASSUME NEW m \in Intervals \cup {0}, NEW n \in Intervals, m < n,
         NEW row \in Row, NEW next \in Row, NEW t \in Nat, NEW v \in Int,
         Close(row, t, v, m),
         row.t <= next.t,
         row.t = next.t \/ Bucket(row.t, n) = Bucket(next.t, n),
         next.v - row.v <= 2 * Threshold, row.v - next.v <= 2 * Threshold
  PROVE  Close(next, t, v, n)
<1>1. /\ m \in Nat /\ n \in Nat \ {0} /\ Threshold \in Nat
      /\ row.t \in Nat /\ next.t \in Nat /\ row.v \in Int /\ next.v \in Int
  BY MonitorAssumption, SamplesAssumption DEF Row
<1>2. ASSUME NestedIntervals PROVE Bucket(row.t, n) = Bucket(t, n)
  <2>1. CASE row.t = t
    BY <2>1
  <2>2. CASE row.t # t
    <3>1. m \in Nat \ {0} /\ n % m = 0 /\ Bucket(row.t, m) = Bucket(t, m)
      BY <1>1, <1>2, <2>2, MonitorAssumption DEF Close, NestedIntervals
    <3> QED
      BY <1>1, <3>1, BucketsNest
  <2> QED
    BY <2>1, <2>2
<1>3. PICK a \in Nat, b \in Nat : /\ a = Compactions(m) /\ b = Compactions(n)
                                  /\ a + 1 <= b
  BY <1>1, CompactionsBounded, CompactionsGrow
<1>4. 2 * Threshold * a + 2 * Threshold <= 2 * Threshold * b
  <2>1. 2 * Threshold * a + 2 * Threshold = 2 * Threshold * (a + 1)
    BY <1>1
  <2>2. 2 * Threshold * (a + 1) <= 2 * Threshold * b
    BY <1>1, <1>3
  <2> QED
    BY <2>1, <2>2
<1>5. 2 * Threshold * a \in Int /\ 2 * Threshold * b \in Int
  BY <1>1
<1>6. next.v - v <= 2 * Threshold * b /\ v - next.v <= 2 * Threshold * b
  <2>1. row.v - v <= 2 * Threshold * a /\ v - row.v <= 2 * Threshold * a
    BY <1>3 DEF Close
  <2> QED
    BY <1>1, <1>4, <1>5, <2>1
<1>7. next.t >= t
  BY <1>1 DEF Close
<1>8. NestedIntervals => Bucket(next.t, n) = Bucket(t, n)
  BY <1>2
<1>9. next.t - t <= (n - 1) * b
  <2>1. next.t - row.t <= n - 1
    BY <1>1, SameBucketNear
  <2>2. row.t - t <= (n - 1) * a
    <3>1. PICK k \in Nat : k = n - 1
      BY <1>1
    <3>2. CASE row.t = t
      <4>1. k * a >= 0
        BY <1>3, <3>1
      <4> QED
        BY <3>1, <3>2, <4>1
    <3>3. CASE row.t # t
      <4>1. m \in Nat \ {0} /\ row.t - t <= (m - 1) * a
        BY <1>1, <1>3, <3>3, MonitorAssumption DEF Close
      <4>2. PICK l \in Nat : l = m - 1 /\ l <= k
        BY <1>1, <3>1, <4>1
      <4>3. l * a <= k * a
        BY <1>3, <3>1, <4>2
      <4>4. PICK la \in Int, ka \in Int : la = l * a /\ ka = k * a
        BY <1>3, <3>1, <4>2
      <4> QED
        BY <1>1, <3>1, <4>1, <4>2, <4>3, <4>4
    <3> QED
      BY <3>2, <3>3
  <2>3. PICK k \in Nat : k = n - 1
    BY <1>1
  <2>4. k * a + k = k * (a + 1) /\ k * (a + 1) <= k * b
    BY <1>3, <2>3
  <2>5. PICK ka \in Int, kb \in Int : ka = k * a /\ kb = k * b /\ ka + k <= kb
    BY <1>3, <2>3, <2>4
  <2> QED
    BY <1>1, <2>1, <2>2, <2>3, <2>5
<1> QED
  BY <1>3, <1>6, <1>7, <1>8, <1>9 DEF Close

LEMMA RowTypes ==
  ASSUME StoreTypeOK, IsTable(late), NEW row \in StoredRows
  PROVE  row \in Row
BY DEF StoreTypeOK, IsTable, StoredRows

(* The row that stands for a clear sample is not of a tick of R.           *)
LEMMA ClearRow ==
  ASSUME NEW R, NEW t, Clear(t, R), NEW k, Reaches(k, t)
  PROVE  k \notin R
BY DEF Clear

LEMMA ReachesItself ==
  ASSUME NEW t \in Nat
  PROVE  Reaches(t, t)
<1>1. PICK i \in Intervals : i \in Nat \ {0}
  BY MonitorAssumption
<1>2. PICK c \in Nat, h \in Nat : c = Compactions(i) /\ h = i - 1
  BY <1>1, CompactionsBounded
<1>3. h * c >= 0
  BY <1>2
<1> QED
  BY <1>1, <1>2, <1>3 DEF Reaches

(* What is close to t is reached from t.                                   *)
LEMMA CloseReaches ==
  ASSUME NEW m, NEW row, NEW v, NEW t \in Nat, row.t \in Nat, Close(row, t, v, m)
  PROVE  Reaches(row.t, t)
<1>1. CASE row.t = t
  BY <1>1, ReachesItself
<1>2. CASE row.t # t
  <2>1. /\ m \in Intervals /\ row.t >= t /\ row.t - t <= (m - 1) * Compactions(m)
        /\ NestedIntervals => Bucket(row.t, m) = Bucket(t, m)
    BY <1>2 DEF Close
  <2> QED
    BY <2>1 DEF Reaches
<1> QED
  BY <1>1, <1>2

(* What memory holds are times of InMemory.                                *)
LEMMA MemoryTimes ==
  ASSUME MonitorTypeOK
  PROVE  /\ \A i \in DOMAIN batch : batch[i].t \in InMemory
         /\ \A i \in DOMAIN pending : pending[i].t \in InMemory
BY DEF InMemory, TimesOf

LEMMA IntervalStep ==
  ASSUME MonitorTypeOK, IntervalInv, MonitorNext
  PROVE  IntervalInv' /\ meta <= meta'
<1> USE DEF process, disk, storeVars, outside
<1>1. meta \in Nat /\ Intervals \subseteq Nat \ {0}
  BY MonitorAssumption DEF MonitorTypeOK, StoreTypeOK
<1>2. CASE Boot \/ BootFails
  <2>1. PICK i \in Intervals : /\ PreparePersistence(i)
                               /\ \/ interval' = i
                                  \/ phase = "down" /\ phase' = phase
    BY <1>2 DEF Boot, BootFails
  <2> QED
    BY <1>1, <2>1 DEF IntervalInv, PreparePersistence
<1>3. CASE ~(Boot \/ BootFails)
  <2>1. meta' = meta /\ (phase' = "down" \/ (phase # "down" /\ interval' = interval)
                           \/ UNCHANGED <<phase, interval>>)
    BY <1>3 DEF MonitorNext, RunStep, Tick, Signal, Crash, Exit, Collect, FlushBegin,
       FinalFlush, StopIdle, FlushCommit, FlushFail, AfterFlush, TakeBatch, AddBatch,
       ArchiveBegin, SkipWeek, QueryWeek, RenameWeek, DeleteWeek, ArchiveEnd, InArchive,
       ArchiveNothing, ArchiveStart, ArchiveReturn, ArchiveError, ArchiveSkip, ArchiveQuery,
       ArchiveRename, ArchiveDelete
  <2> QED
    BY <1>1, <2>1 DEF IntervalInv
<1> QED
  BY <1>2, <1>3

-----------------------------------------------------------------------------
LEMMA OrderStep ==
  ASSUME NEW R, SafeInv, OrderInv(R), MonitorNext
  PROVE  OrderInv(R)'
<1> USE DEF storeVars, clock, process, memory, ghosts
<1>0. /\ MonitorTypeOK /\ StoreTypeOK /\ JobInv /\ OrderInv(R)
      /\ pending \in Seq(Sample) /\ batch \in Seq(Sample)
      /\ last \in Nat /\ now \in Nat /\ DOMAIN taken \subseteq Nat
  BY DEF SafeInv, MonitorTypeOK
(* Most steps leave the memory alone and put nothing into the store.       *)
<1>1. ASSUME Stored' \subseteq Stored, UNCHANGED <<last, pending, batch, taken, late>>,
             last <= now',
             phase' \notin {"flush", "final"} => batch = <<>>,
             phase' \in {"flush", "final", "down"} => pending = <<>>
      PROVE  OrderInv(R)'
  BY <1>0, <1>1 DEF OrderInv, InMemory, TimesOf, Ordered
<1>2. ASSUME UNCHANGED storeVars PROVE Stored' = Stored
  BY <1>2 DEF Stored, Archived, disk
<1>3. CASE Tick
  <2>1. last <= now'
    BY <1>0, <1>3 DEF Tick, OrderInv
  <2> QED
    BY <1>0, <1>1, <1>2, <1>3, <2>1 DEF Tick, OrderInv
<1>4. CASE Signal
  BY <1>0, <1>1, <1>2, <1>4 DEF Signal, OrderInv
<1>5. CASE Boot \/ BootFails
  <2>1. PICK i \in Intervals : PreparePersistence(i)
    BY <1>5 DEF Boot, BootFails
  <2>2. DOMAIN db' \subseteq DOMAIN db /\ archive' = archive
    BY <1>0, <2>1, PrepareShape DEF PreparePersistence
  <2>3. Stored' \subseteq Stored
    BY <2>2 DEF Stored, Archived
  <2> QED
    BY <1>0, <1>1, <1>5, <2>3 DEF Boot, BootFails, OrderInv
<1>6. CASE Crash \/ Exit
  <2>1. /\ pending' = <<>> /\ batch' = <<>> /\ UNCHANGED <<last, now, taken, late>>
        /\ db' = db /\ archive' = archive
    BY <1>6 DEF Crash, Exit, ForgetMemory, disk
  <2>2. InMemory' = {} /\ Stored' = Stored
    BY <2>1 DEF InMemory, TimesOf, Stored, Archived
  <2> QED
    BY <1>0, <2>1, <2>2 DEF OrderInv, Ordered
<1>7. CASE Collect
  <2>1. /\ DOMAIN pending' = DOMAIN pending \cup {Len(pending) + 1}
        /\ DOMAIN pending = 1..Len(pending) /\ Len(pending) \in Nat
        /\ \A i \in DOMAIN pending : pending'[i] = pending[i]
        /\ pending'[Len(pending) + 1].t = now
        /\ InMemory' = InMemory \cup {now}
        /\ DOMAIN taken' = DOMAIN taken \cup {now}
    BY <1>0, <1>7, CollectTakes
  <2>2. /\ last < now /\ last' = now /\ now' = now /\ batch' = batch /\ batch = <<>>
        /\ phase' = "select" /\ Stored' = Stored /\ late' = late
    BY <1>0, <1>2, <1>7 DEF Collect, OrderInv
  <2>3. \A k \in DOMAIN taken \ R : k < now
    BY <1>0, <2>2 DEF OrderInv
  <2>4. \A i \in DOMAIN pending : pending[i].t < now \/ pending[i].t \in R
    <3>1. \A i \in DOMAIN pending : pending[i].t \in DOMAIN taken
      BY <1>0, MemoryTimes DEF OrderInv
    <3> QED
      BY <2>3, <3>1
  <2>5. Ordered(pending', R)
    BY <1>0, <2>1, <2>4 DEF Ordered, OrderInv
  <2>6. InMemory' \cap (Stored' \cup DOMAIN late') \subseteq R
    BY <1>0, <2>1, <2>2, <2>3 DEF OrderInv
  <2>7. InMemory' \cup Stored' \cup DOMAIN late' \subseteq DOMAIN taken'
    BY <1>0, <2>1, <2>2 DEF OrderInv
  <2>8. \A k \in DOMAIN taken' \ R : k <= now
    BY <1>0, <2>1, <2>3
  <2>9. Ordered(batch', R)
    BY <2>2 DEF Ordered
  <2> QED
    BY <1>0, <2>2, <2>5, <2>6, <2>7, <2>8, <2>9 DEF OrderInv
<1>8. CASE FlushBegin \/ FinalFlush
  <2>1. /\ batch = <<>> /\ batch' = pending /\ pending' = <<>>
        /\ UNCHANGED <<last, now, taken, late>>
        /\ phase' \in {"flush", "final"} /\ Stored' = Stored
    BY <1>0, <1>2, <1>8 DEF FlushBegin, FinalFlush, TakeBatch, OrderInv
  <2>2. InMemory' = InMemory
    BY <2>1 DEF InMemory, TimesOf
  <2> QED
    BY <1>0, <2>1, <2>2 DEF OrderInv, Ordered
<1>9. CASE StopIdle
  BY <1>0, <1>1, <1>2, <1>9 DEF StopIdle, OrderInv
<1>10. CASE FlushCommit
  <2>1. PICK stored : stored = CompactByInterval(batch, interval)
    OBVIOUS
  <2>2. /\ IsRowSlice(stored) /\ TimesOf(stored) \subseteq TimesOf(batch)
        /\ IsRowSlice(LateRows(stored)) /\ TimesOf(LateRows(stored)) \subseteq TimesOf(stored)
    BY <1>0, <2>1, FlushRows
  <2>3. AddBatch(stored) /\ late' = Upsert(late, LateRows(stored))
    BY <1>10, <2>1 DEF FlushCommit
  <2>4. DOMAIN db' = DOMAIN db \cup TimesOf(stored) /\ archive' = archive
    BY <1>0, <2>2, <2>3, AddBatchShape DEF AddBatch
  <2>5. DOMAIN late' = DOMAIN late \cup TimesOf(LateRows(stored))
    BY <1>0, <2>2, <2>3, UpsertAdds DEF MonitorTypeOK
  <2>6. Stored' \subseteq Stored \cup InMemory /\ DOMAIN late' \subseteq DOMAIN late \cup InMemory
    BY <2>2, <2>4, <2>5 DEF Stored, Archived, InMemory
  <2>7. /\ pending' = <<>> /\ batch' = <<>> /\ UNCHANGED <<last, now, taken>>
        /\ phase' \in {"select", "stopped"}
    BY <1>0, <1>10 DEF FlushCommit, AfterFlush, OrderInv
  <2>8. InMemory' = {}
    BY <2>7 DEF InMemory, TimesOf
  <2> QED
    BY <1>0, <2>6, <2>7, <2>8 DEF OrderInv, Ordered
<1>11. CASE FlushFail
  <2>1. /\ pending = <<>> /\ batch' = <<>> /\ UNCHANGED <<last, now, taken, late>>
        /\ phase' \in {"select", "stopped"} /\ Stored' = Stored
        /\ pending' = batch \o pending
    BY <1>0, <1>2, <1>11 DEF FlushFail, AfterFlush, OrderInv
  <2>2. pending' = batch
    BY <1>0, <2>1
  <2>3. InMemory' = InMemory
    BY <2>1, <2>2 DEF InMemory, TimesOf
  <2> QED
    BY <1>0, <2>1, <2>2, <2>3 DEF OrderInv, Ordered
<1>12. CASE ArchiveBegin \/ SkipWeek \/ QueryWeek \/ RenameWeek \/ DeleteWeek \/ ArchiveEnd
  <2>1. /\ ArchiveAny /\ UNCHANGED outside
        /\ phase \in {"init", "select", "archive"}
        /\ phase' \in {"init", "first", "select", "archive"}
    BY <1>12 DEF ArchiveAny, ArchiveBegin, SkipWeek, QueryWeek, RenameWeek, DeleteWeek,
                 InArchive, ArchiveEnd
  <2>2. Stored' \subseteq Stored
    BY <1>0, <2>1, ArchiveStored
  <2> QED
    BY <1>0, <1>1, <2>1, <2>2 DEF outside, OrderInv
<1> QED
  BY <1>3, <1>4, <1>5, <1>6, <1>7, <1>8, <1>9, <1>10, <1>11, <1>12 DEF MonitorNext, RunStep

(* A batch keeps its samples' values; so do the rows made of it.           *)
LEMMA MemoryValuesStep ==
  ASSUME NEW R, SafeInv, OrderInv(R), MemoryValuesInv(R), MonitorNext
  PROVE  MemoryValuesInv(R)'
<1>0. /\ MonitorTypeOK /\ pending \in Seq(Sample) /\ batch \in Seq(Sample)
      /\ last \in Nat /\ now \in Nat
  BY DEF SafeInv, MonitorTypeOK
<1>1. ASSUME taken' = taken, batch' \in {batch, pending, <<>>}, pending' \in {batch, pending, <<>>}
      PROVE  MemoryValuesInv(R)'
  BY <1>1 DEF MemoryValuesInv
<1>2. CASE Collect
  <2>1. PICK v \in Levels :
          /\ pending' = Append(pending, [t |-> now, v |-> v])
          /\ taken' = [k \in DOMAIN taken \cup {now} |-> IF k = now THEN v ELSE taken[k]]
    BY <1>2 DEF Collect
  <2>2. last < now /\ batch' = batch
    BY <1>2 DEF Collect
  <2>3. /\ DOMAIN pending' = DOMAIN pending \cup {Len(pending) + 1}
        /\ \A i \in DOMAIN pending : pending'[i] = pending[i]
        /\ pending'[Len(pending) + 1] = [t |-> now, v |-> v]
    BY <1>0, <2>1
  <2>4. \A t \in InMemory \ R : t \in DOMAIN taken /\ t # now
    BY <1>0, <2>2 DEF OrderInv
  <2>5. \A t \in InMemory \ R : taken'[t] = taken[t]
    BY <2>1, <2>4
  <2>6. taken'[now] = v
    BY <2>1
  <2> QED
    BY <1>0, <2>2, <2>3, <2>5, <2>6, MemoryTimes DEF MemoryValuesInv
<1>3. CASE FlushFail
  <2>1. pending' = batch \o pending /\ pending = <<>> /\ batch' = <<>> /\ taken' = taken
    BY <1>0, <1>3 DEF FlushFail, OrderInv, ghosts
  <2>2. pending' = batch
    BY <1>0, <2>1
  <2> QED
    BY <1>1, <2>1, <2>2
<1>4. CASE ~(Collect \/ FlushFail)
  <2>1. /\ taken' = taken /\ batch' \in {batch, pending, <<>>}
        /\ pending' \in {batch, pending, <<>>}
    BY <1>4 DEF MonitorNext, RunStep, Tick, Boot, BootFails, Signal, Crash, Exit, ForgetMemory,
       FlushBegin, FinalFlush, StopIdle, FlushCommit, TakeBatch, ArchiveBegin, SkipWeek,
       QueryWeek, RenameWeek, DeleteWeek, ArchiveEnd, InArchive, outside, memory, ghosts
  <2> QED
    BY <1>1, <2>1
<1> QED
  BY <1>2, <1>3, <1>4

(* What a flush writes for a time is the value the sample was taken with,  *)
(* and it overwrites nothing.                                              *)
LEMMA FlushValues ==
  ASSUME NEW R, SafeInv, OrderInv(R), MemoryValuesInv(R), FlushCommit,
         NEW stored, stored = CompactByInterval(batch, interval)
  PROVE  /\ TimesOf(stored) \subseteq InMemory
         /\ DOMAIN db' = DOMAIN db \cup TimesOf(stored)
         /\ DOMAIN late' = DOMAIN late \cup TimesOf(LateRows(stored))
         /\ TimesOf(LateRows(stored)) \subseteq TimesOf(stored)
         /\ TimesOf(stored) \cap (DOMAIN db \cup DOMAIN late) \subseteq R
         /\ \A k \in TimesOf(stored) \ R : db'[k].v = taken[k] /\ db'[k].t = k
         /\ \A k \in TimesOf(LateRows(stored)) \ R : late'[k].v = taken[k]
         /\ \A k \in DOMAIN db \ R : db'[k] = db[k]
         /\ \A k \in DOMAIN late \ R : late'[k] = late[k]
         /\ archive' = archive /\ meta' = meta /\ taken' = taken
<1>0. /\ StoreTypeOK /\ IsTable(db) /\ IsTable(late) /\ batch \in Seq(Sample)
  BY DEF SafeInv, MonitorTypeOK, StoreTypeOK
<1>1. /\ IsRowSlice(stored) /\ IsRowSlice(LateRows(stored))
      /\ TimesOf(stored) \subseteq TimesOf(batch)
      /\ TimesOf(LateRows(stored)) \subseteq TimesOf(stored)
  BY <1>0, FlushRows
<1>2. /\ AddBatch(stored) /\ db' = Upsert(db, stored) /\ late' = Upsert(late, LateRows(stored))
      /\ archive' = archive /\ meta' = meta /\ taken' = taken
  BY DEF FlushCommit, AddBatch
<1>3. /\ DOMAIN db' = DOMAIN db \cup TimesOf(stored) /\ Holds(db', stored) /\ IsTable(db')
      /\ \A k \in DOMAIN db \ TimesOf(stored) : db'[k] = db[k]
  BY <1>0, <1>1, <1>2, UpsertAdds
<1>4. /\ DOMAIN late' = DOMAIN late \cup TimesOf(LateRows(stored))
      /\ Holds(late', LateRows(stored))
      /\ \A k \in DOMAIN late \ TimesOf(LateRows(stored)) : late'[k] = late[k]
  BY <1>0, <1>1, <1>2, UpsertAdds
<1>5. TimesOf(stored) \subseteq InMemory
  BY <1>1 DEF InMemory
<1>6. \A i \in DOMAIN stored : stored[i].v = taken[stored[i].t] \/ stored[i].t \in R
  <2>1. \A i \in DOMAIN stored : /\ i \in DOMAIN batch /\ stored[i].t = batch[i].t
                                 /\ stored[i].v = batch[i].v
    BY <1>0, BatchIsSlice, CompactKeepsSome
  <2> QED
    BY <2>1 DEF MemoryValuesInv
<1>7. \A k \in TimesOf(stored) \ R : db'[k].v = taken[k] /\ db'[k].t = k
  BY <1>3, <1>6 DEF Holds
<1>8. \A k \in TimesOf(LateRows(stored)) \ R : late'[k].v = taken[k]
  <2>1. /\ DOMAIN LateRows(stored) \subseteq DOMAIN stored
        /\ \A i \in DOMAIN LateRows(stored) : LateRows(stored)[i] = stored[i]
    BY DEF LateRows
  <2> QED
    BY <1>4, <1>6, <2>1 DEF Holds
<1>9. TimesOf(stored) \cap (DOMAIN db \cup DOMAIN late) \subseteq R
  BY <1>5 DEF OrderInv, Stored
<1>10. /\ \A k \in DOMAIN db \ R : db'[k] = db[k]
       /\ \A k \in DOMAIN late \ R : late'[k] = late[k]
  BY <1>1, <1>3, <1>4, <1>9
<1> QED
  BY <1>1, <1>2, <1>3, <1>4, <1>5, <1>7, <1>8, <1>9, <1>10

LEMMA LateValuesStep ==
  ASSUME NEW R, SafeInv, OrderInv(R), MemoryValuesInv(R), LateValuesInv(R), MonitorNext
  PROVE  LateValuesInv(R)'
<1> USE DEF storeVars, disk, outside, ghosts
<1>0. StoreTypeOK /\ IsTable(db)
  BY DEF SafeInv, MonitorTypeOK, StoreTypeOK
<1>1. ASSUME late' = late, DOMAIN db' \subseteq DOMAIN db, \A k \in DOMAIN db' : db'[k].v = db[k].v
      PROVE  LateValuesInv(R)'
  BY <1>1 DEF LateValuesInv
<1>2. CASE Boot \/ BootFails
  BY <1>0, <1>1, <1>2, PrepareShape DEF Boot, BootFails
<1>3. CASE FlushCommit
  <2>1. PICK stored : stored = CompactByInterval(batch, interval)
    OBVIOUS
  <2>2. /\ DOMAIN db' = DOMAIN db \cup TimesOf(stored)
        /\ DOMAIN late' = DOMAIN late \cup TimesOf(LateRows(stored))
        /\ TimesOf(LateRows(stored)) \subseteq TimesOf(stored)
        /\ TimesOf(stored) \cap (DOMAIN db \cup DOMAIN late) \subseteq R
        /\ \A k \in TimesOf(stored) \ R : db'[k].v = taken[k]
        /\ \A k \in TimesOf(LateRows(stored)) \ R : late'[k].v = taken[k]
        /\ \A k \in DOMAIN db \ R : db'[k] = db[k]
        /\ \A k \in DOMAIN late \ R : late'[k] = late[k]
    BY <1>3, <2>1, FlushValues
  <2>3. SUFFICES ASSUME NEW k \in (DOMAIN late' \cap DOMAIN db') \ R PROVE late'[k].v = db'[k].v
    BY DEF LateValuesInv
  <2>4. CASE k \in DOMAIN late
    BY <2>2, <2>3, <2>4 DEF LateValuesInv
  <2>5. CASE k \notin DOMAIN late
    BY <2>2, <2>3, <2>5
  <2> QED
    BY <2>4, <2>5
<1>4. CASE DeleteWeek
  <2>1. /\ late' = late /\ db' = RowsIn(db, {k \in DOMAIN db : Week(k) # cursor})
    BY <1>4 DEF DeleteWeek, InArchive, ArchiveDelete
  <2>2. DOMAIN db' \subseteq DOMAIN db /\ \A k \in DOMAIN db' : db'[k] = db[k]
    BY <1>0, <2>1, SubTable
  <2> QED
    BY <1>1, <2>1, <2>2
<1>5. CASE ~(Boot \/ BootFails \/ FlushCommit \/ DeleteWeek)
  <2>1. late' = late /\ db' = db
    BY <1>5 DEF MonitorNext, RunStep, Tick, Signal, Crash, Exit, Collect, FlushBegin,
       FinalFlush, StopIdle, FlushFail, TakeBatch, ArchiveBegin, SkipWeek, QueryWeek,
       RenameWeek, ArchiveEnd, InArchive, ArchiveNothing, ArchiveStart, ArchiveReturn,
       ArchiveError, ArchiveSkip, ArchiveQuery, ArchiveRename
  <2> QED
    BY <1>1, <2>1
<1> QED
  BY <1>2, <1>3, <1>4, <1>5

-----------------------------------------------------------------------------
(* A row that stands for a sample leaves another one that does.            *)
LEMMA RowsKept ==
  ASSUME NEW R, SafeInv, SafeInv', OrderInv(R),
         IntervalInv, MemoryValuesInv(R), LateValuesInv(R),
         MonitorNext, NEW t \in Nat, NEW v \in Int, Clear(t, R), NEW row \in StoredRows,
         Close(row, t, v, meta)
  PROVE  \E next \in StoredRows' : Close(next, t, v, meta')
<1> USE DEF storeVars, disk, outside, ghosts
<1>0. /\ StoreTypeOK /\ StoreTypeOK' /\ IsTable(db) /\ IsTable(late) /\ IsTable(db')
      /\ JobInv /\ ArchiveCoversRows
  BY DEF SafeInv, MonitorTypeOK, StoreTypeOK
<1>1. row \in Row /\ meta \in Nat /\ row.t \notin R
  <2>1. row \in Row /\ meta \in Nat /\ row.t \in Nat
    BY <1>0, RowTypes DEF StoreTypeOK, Row
  <2>2. row.t \notin R
    BY <2>1, ClearRow, CloseReaches
  <2> QED
    BY <2>1, <2>2
<1>2. ASSUME row \in StoredRows', meta' = meta
      PROVE  \E next \in StoredRows' : Close(next, t, v, meta')
  BY <1>2
<1>3. CASE Boot \/ BootFails
  <2>1. PICK i \in Intervals : PreparePersistence(i)
    BY <1>3 DEF Boot, BootFails
  <2>2. i \in Nat
    BY MonitorAssumption
  <2>3. UNCHANGED <<archive, late>>
    BY <1>3, <2>1 DEF Boot, BootFails, PreparePersistence
  <2>4. CASE meta >= i
    <3>1. UNCHANGED <<db, meta>>
      BY <2>1, <2>4 DEF PreparePersistence
    <3> QED
      BY <1>2, <2>3, <3>1 DEF StoredRows
  <2>5. CASE ~(meta >= i)
    <3>1. meta < i /\ meta' = i /\ db' = Upsert(NoRows, CompactByInterval(db, i))
      BY <1>1, <2>1, <2>2, <2>5 DEF PreparePersistence
(* A row of a file stays; it is close by the larger interval, too.         *)
    <3>2. CASE row \in StoredRows'
      <4>1. Close(row, t, v, i)
        <5>1. row.v - row.v <= 2 * Threshold /\ row.t <= row.t
          BY <1>1, SamplesAssumption DEF Row
        <5> QED
          BY <1>1, <3>1, <5>1, CloseMerged DEF IntervalInv
      <4> QED
        BY <3>1, <3>2, <4>1
    <3>3. CASE row \notin StoredRows'
      <4>1. PICK k \in DOMAIN db : row = db[k]
        BY <2>3, <3>3 DEF StoredRows
      <4>2. IsSlice(db) /\ DOMAIN db \subseteq Nat
        BY <1>0, TableIsSlice DEF IsTable, Row
      <4>3. PICK m \in DOMAIN CompactByInterval(db, i) :
              /\ k <= m
              /\ k = m \/ Bucket(db[m].t, i) = Bucket(db[k].t, i)
              /\ db[m].v - db[k].v <= 2 * Threshold /\ db[k].v - db[m].v <= 2 * Threshold
        BY <4>2, CompactRepresents
      <4>4. m \in DOMAIN db /\ m \in DOMAIN db' /\ db'[m].v = db[m].v
        BY <1>0, <3>1, <4>3, CompactedTable
      <4>5. /\ db[k].t = k /\ db[m].t = m /\ db'[m].t = m /\ db'[m] \in Row
            /\ db'[m] \in StoredRows'
        BY <1>0, <4>1, <4>4 DEF IsTable, StoredRows
      <4>6. Close(db'[m], t, v, i)
        <5>1. PICK next \in Row : next = db'[m]
          BY <4>5
        <5>2. /\ row.t <= next.t
              /\ row.t = next.t \/ Bucket(row.t, i) = Bucket(next.t, i)
              /\ next.v - row.v <= 2 * Threshold /\ row.v - next.v <= 2 * Threshold
          BY <4>1, <4>3, <4>4, <4>5, <5>1
        <5>3. meta \in Intervals \cup {0}
          BY DEF IntervalInv
        <5>4. Close(next, t, v, i)
          BY <1>1, <3>1, <5>2, <5>3, CloseMerged
        <5> QED
          BY <5>1, <5>4
      <4> QED
        BY <3>1, <4>5, <4>6
    <3> QED
      BY <3>2, <3>3
  <2> QED
    BY <2>4, <2>5
<1>4. CASE FlushCommit
  <2>1. PICK stored : stored = CompactByInterval(batch, interval)
    OBVIOUS
  <2>2. /\ DOMAIN db \subseteq DOMAIN db' /\ DOMAIN late \subseteq DOMAIN late'
        /\ \A k \in DOMAIN db \ R : db'[k] = db[k]
        /\ \A k \in DOMAIN late \ R : late'[k] = late[k]
        /\ archive' = archive /\ meta' = meta
    BY <1>4, <2>1, FlushValues
  <2>3. row \in StoredRows'
    <3>1. \/ row.t \in DOMAIN db /\ row = db[row.t]
          \/ row.t \in DOMAIN late /\ row = late[row.t]
          \/ \E w \in DOMAIN archive : \E k \in DOMAIN archive[w] : row = archive[w][k]
      BY <1>0 DEF StoredRows, IsTable
    <3> QED
      BY <1>1, <2>2, <3>1 DEF StoredRows
  <2> QED
    BY <1>2, <2>2, <2>3
<1>5. CASE RenameWeek
  <2>1. /\ db' = db /\ late' = late /\ meta' = meta
        /\ \A w \in DOMAIN archive : w \in DOMAIN archive' /\ archive'[w] = archive[w]
    BY <1>0, <1>5 DEF RenameWeek, InArchive, ArchiveRename, JobInv
  <2>2. row \in StoredRows'
    BY <2>1 DEF StoredRows
  <2> QED
    BY <1>2, <2>1, <2>2
(* A row that is deleted is in its file with the same value, or was late.  *)
<1>6. CASE DeleteWeek
  <2>1. /\ archive' = archive /\ late' = late /\ meta' = meta
        /\ cursor \in DOMAIN archive \/ DOMAIN WeekRows(cursor) = {}
        /\ db' = RowsIn(db, {k \in DOMAIN db : Week(k) # cursor})
    BY <1>0, <1>6 DEF DeleteWeek, InArchive, ArchiveDelete, JobInv
  <2>2. CASE row \in StoredRows'
    BY <1>2, <2>1, <2>2
  <2>3. CASE row \notin StoredRows'
    <3>1. PICK k \in DOMAIN db : row = db[k] /\ row.t = k
      BY <1>0, <2>1, <2>3 DEF StoredRows, IsTable
    <3>2. Week(k) = cursor
      <4> DEFINE rest == {n \in DOMAIN db : Week(n) # cursor}
      <4>1. DOMAIN db' = DOMAIN db \cap rest /\ \A n \in DOMAIN db' : db'[n] = db[n]
        <5>1. IsTable(db) /\ db' = RowsIn(db, rest)
          BY <1>0, <2>1
        <5> QED
          BY <5>1, SubTable
      <4>2. k \notin DOMAIN db'
        <5>1. ASSUME k \in DOMAIN db' PROVE FALSE
          <6>1. db'[k] = row
            BY <3>1, <4>1, <5>1
          <6> QED
            BY <2>3, <5>1, <6>1 DEF StoredRows
        <5> QED
          BY <5>1
      <4> QED
        BY <4>1, <4>2
    <3>3. cursor \in DOMAIN archive
      BY <1>0, <2>1, <3>1, <3>2, WeekRowsTable
    <3>4. PICK next \in StoredRows' : next.t = row.t /\ next.v = row.v
      <4>1. CASE k \in DOMAIN late
        <5>1. late[k].t = k /\ late[k].v = db[k].v /\ late[k] \in StoredRows'
          BY <1>0, <1>1, <2>1, <3>1, <4>1 DEF IsTable, LateValuesInv, StoredRows
        <5> QED
          BY <3>1, <5>1
      <4>2. CASE k \notin DOMAIN late
        <5>1. k \in DOMAIN archive[cursor] /\ archive[cursor][k].v = db[k].v
          BY <1>0, <3>2, <3>3, <4>2 DEF ArchiveCoversRows
        <5>2. archive[cursor][k].t = k /\ archive[cursor][k] \in StoredRows'
          BY <1>0, <2>1, <3>3, <5>1 DEF StoreTypeOK, IsTable, StoredRows
        <5> QED
          BY <3>1, <5>1, <5>2
      <4> QED
        BY <4>1, <4>2
    <3>5. Close(next, t, v, meta')
      BY <2>1, <3>4 DEF Close
    <3> QED
      BY <3>5
  <2> QED
    BY <2>2, <2>3
<1>7. CASE ~(Boot \/ BootFails \/ FlushCommit \/ RenameWeek \/ DeleteWeek)
  <2>1. UNCHANGED <<db, meta, archive, late>>
    BY <1>7 DEF MonitorNext, RunStep, Tick, Signal, Crash, Exit, Collect, FlushBegin,
       FinalFlush, StopIdle, FlushFail, TakeBatch, ArchiveBegin, SkipWeek, QueryWeek,
       ArchiveEnd, InArchive, ArchiveNothing, ArchiveStart, ArchiveReturn,
       ArchiveError, ArchiveSkip, ArchiveQuery
  <2> QED
    BY <1>2, <2>1 DEF StoredRows
<1> QED
  BY <1>3, <1>4, <1>5, <1>6, <1>7

(* A flush leaves a row for every sample of its batch.                     *)
LEMMA FlushStands ==
  ASSUME NEW R, SafeInv, SafeInv', OrderInv(R), IntervalInv,
         MemoryValuesInv(R), FlushCommit, NEW t \in InMemory, Clear(t, R)
  PROVE  \E next \in StoredRows' : Close(next, t, taken[t], meta')
<1>0. /\ MonitorTypeOK /\ batch \in Seq(Sample) /\ IsTable(db')
      /\ phase \in {"flush", "final"} /\ meta \in Nat
  BY DEF SafeInv, MonitorTypeOK, StoreTypeOK, FlushCommit
<1>1. PICK stored : stored = CompactByInterval(batch, interval)
  OBVIOUS
<1>2. /\ DOMAIN db' = DOMAIN db \cup TimesOf(stored) /\ meta' = meta
      /\ \A k \in TimesOf(stored) \ R : db'[k].v = taken[k] /\ db'[k].t = k
  BY <1>1, FlushValues
<1>3. PICK i \in DOMAIN batch : batch[i].t = t
  BY <1>0 DEF OrderInv, InMemory, TimesOf
<1>4. IsSlice(batch) /\ DOMAIN batch \subseteq Nat
  BY <1>0, BatchIsSlice
<1>5. PICK m \in DOMAIN stored :
        /\ i <= m
        /\ i = m \/ Bucket(batch[m].t, interval) = Bucket(batch[i].t, interval)
        /\ batch[m].v - batch[i].v <= 2 * Threshold /\ batch[i].v - batch[m].v <= 2 * Threshold
  BY <1>1, <1>4, CompactRepresents
<1>6. m \in DOMAIN batch /\ stored[m].t = batch[m].t
  BY <1>1, <1>4, <1>5, CompactKeepsSome
<1>7. PICK u \in TimesOf(stored) : u = batch[m].t
  BY <1>5, <1>6 DEF TimesOf
<1>8. /\ interval \in Intervals /\ interval <= meta /\ meta \in Intervals
      /\ interval \in Nat \ {0} /\ meta \in Nat \ {0}
      /\ NestedIntervals => meta % interval = 0
  <2>1. interval \in Intervals /\ interval <= meta /\ meta \in Intervals \cup {0}
    BY <1>0 DEF IntervalInv
  <2>2. interval \in Nat \ {0}
    BY <2>1, MonitorAssumption
  <2>3. meta \in Intervals /\ meta \in Nat \ {0}
    BY <1>0, <2>1, <2>2
  <2> QED
    BY <2>1, <2>2, <2>3 DEF NestedIntervals
(* The row is later than the sample, and near enough not to be of R.       *)
<1>9. /\ u \in Nat /\ t \in Nat /\ t \notin R
      /\ t <= u /\ (t = u \/ Bucket(u, interval) = Bucket(t, interval))
  <2>1. u \in Nat /\ t \in Nat
    BY <1>3, <1>4, <1>6, <1>7 DEF IsSlice
  <2>2. t \notin R
    BY <2>1, ClearRow, ReachesItself
  <2>3. i = m \/ i < m
    BY <1>4, <1>5, <1>6
  <2> QED
    BY <1>3, <1>5, <1>6, <1>7, <2>1, <2>2, <2>3 DEF OrderInv, Ordered
<1>10. \/ u = t
       \/ /\ u - t <= (meta - 1) * Compactions(meta)
          /\ NestedIntervals => Bucket(u, meta) = Bucket(t, meta)
  <2>1. u - t < interval
    BY <1>8, <1>9, SameBucketNear
  <2>2. PICK a \in Nat : a = Compactions(meta) /\ a >= 1
    BY <1>8, CompactionsBounded
  <2>3. PICK h \in Nat : h = meta - 1
    BY <1>8
  <2>4. u - t <= h * a
    <3>1. h <= h * a
      BY <2>2, <2>3
    <3>2. PICK ha \in Int : ha = h * a
      BY <2>2, <2>3
    <3> QED
      BY <1>8, <1>9, <2>1, <2>3, <3>1, <3>2
  <2>5. ASSUME NestedIntervals PROVE u = t \/ Bucket(u, meta) = Bucket(t, meta)
    BY <1>8, <1>9, <2>5, BucketsNest
  <2> QED
    BY <2>2, <2>3, <2>4, <2>5
<1>11. /\ u \notin R /\ taken[u] = batch[m].v /\ taken[t] = batch[i].v
       /\ taken[u] \in Int /\ taken[t] \in Int
  <2>1. PICK row : row = [t |-> u, v |-> 0]
    OBVIOUS
  <2>2. Close(row, t, 0, meta)
    <3>1. 0 - 0 <= 2 * Threshold * Compactions(meta)
      <4>1. PICK a \in Nat, h \in Nat : a = Compactions(meta) /\ h = 2 * Threshold
        BY <1>0, CompactionsBounded, SamplesAssumption
      <4>2. 0 <= h * a
        BY <4>1
      <4> QED
        BY <4>1, <4>2
    <3> QED
      BY <1>8, <1>9, <1>10, <2>1, <3>1 DEF Close
  <2>3. u \notin R
    BY <1>9, <2>1, <2>2, CloseReaches, ClearRow
  <2> QED
    BY <1>3, <1>4, <1>6, <1>7, <1>9, <2>3 DEF MemoryValuesInv, IsSlice
<1>12. 2 * Threshold <= 2 * Threshold * Compactions(meta)
  <2>1. PICK a \in Nat \ {0} : a = Compactions(meta)
    BY <1>8, CompactionsBounded
  <2>2. Threshold \in Nat
    BY SamplesAssumption
  <2>3. 2 * Threshold * 1 <= 2 * Threshold * a
    BY <2>1, <2>2
  <2> QED
    BY <2>1, <2>2, <2>3
<1>13. 2 * Threshold * Compactions(meta) \in Int /\ 2 * Threshold \in Int
  BY <1>0, CompactionsBounded, SamplesAssumption
<1>14. db'[u] \in StoredRows' /\ db'[u].t = u /\ db'[u].v = taken[u]
  BY <1>2, <1>7, <1>11 DEF StoredRows
<1>15. /\ taken[u] - taken[t] <= 2 * Threshold * Compactions(meta)
       /\ taken[t] - taken[u] <= 2 * Threshold * Compactions(meta)
  BY <1>5, <1>11, <1>12, <1>13
<1>16. Close(db'[u], t, taken[t], meta)
  BY <1>8, <1>9, <1>10, <1>14, <1>15 DEF Close
<1> QED
  BY <1>2, <1>14, <1>16

LEMMA RowsStep ==
  ASSUME NEW R, AccountInv(R), SafeInv', MonitorNext
  PROVE  RowsInv(R)'
<1>1. /\ SafeInv /\ OrderInv(R) /\ MonitorTypeOK
      /\ IntervalInv /\ MemoryValuesInv(R) /\ LateValuesInv(R) /\ RowsInv(R)
  BY DEF AccountInv, ValuesInv, SafeInv
<1>2. SUFFICES ASSUME NEW t \in DOMAIN taken' \ (lost' \cup InMemory'), Clear(t, R)
               PROVE  \E row \in StoredRows' : Close(row, t, taken'[t], meta')
  BY DEF RowsInv
<1>3. CASE FlushCommit /\ t \in InMemory
  <2>1. taken' = taken
    BY <1>3 DEF FlushCommit
  <2> QED
    BY <1>1, <1>2, <1>3, <2>1, FlushStands
(* Samples come into memory and leave it for lost, but for a commit.       *)
<1>4. CASE ~(FlushCommit /\ t \in InMemory)
  <2>1. t \in DOMAIN taken \ (lost \cup InMemory) /\ taken'[t] = taken[t]
    <3>1. CASE Collect
      <4>1. PICK v \in Levels :
              taken' = [k \in DOMAIN taken \cup {now} |-> IF k = now THEN v ELSE taken[k]]
        BY <3>1 DEF Collect
      <4>2. lost' = lost /\ InMemory' = InMemory \cup {now}
        BY <1>1, <3>1, CollectTakes DEF Collect
      <4> QED
        BY <1>2, <4>1, <4>2
    <3>2. CASE FlushCommit
      BY <1>2, <1>4, <3>2 DEF FlushCommit
    <3>3. CASE ~(Collect \/ FlushCommit)
      <4>1. taken' = taken /\ (lost' = lost \/ lost' = lost \cup InMemory)
        BY <3>3 DEF MonitorNext, RunStep, Tick, Boot, BootFails, Signal, Crash, Exit,
           ForgetMemory, FlushBegin, FinalFlush, StopIdle, FlushFail, TakeBatch, ArchiveBegin,
           SkipWeek, QueryWeek, RenameWeek, DeleteWeek, ArchiveEnd, InArchive, outside, ghosts
      <4>2. InMemory \subseteq InMemory' \cup lost'
        <5>1. CASE Crash \/ Exit
          BY <5>1 DEF Crash, Exit, ForgetMemory
        <5>2. CASE ~(Crash \/ Exit)
          <6>1. \/ batch' = batch /\ pending' = pending
                \/ FlushBegin \/ FinalFlush
                \/ FlushFail
            BY <3>3, <5>2 DEF MonitorNext, RunStep, Tick, Boot, BootFails, Signal, StopIdle,
               ArchiveBegin, SkipWeek, QueryWeek, RenameWeek, DeleteWeek, ArchiveEnd,
               InArchive, outside, memory
          <6>2. CASE FlushBegin \/ FinalFlush
            <7>1. batch = <<>> /\ batch' = pending
              BY <1>1, <6>2 DEF FlushBegin, FinalFlush, TakeBatch, OrderInv
            <7> QED
              BY <7>1 DEF InMemory, TimesOf
          <6>3. CASE FlushFail
            <7>1. pending = <<>> /\ pending' = batch \o pending /\ batch \in Seq(Sample)
              BY <1>1, <6>3 DEF FlushFail, OrderInv, MonitorTypeOK
            <7>2. pending' = batch
              BY <7>1
            <7> QED
              BY <7>1, <7>2 DEF InMemory, TimesOf
          <6> QED
            BY <6>1, <6>2, <6>3 DEF InMemory, TimesOf
        <5> QED
          BY <5>1, <5>2
      <4> QED
        BY <1>2, <4>1, <4>2
    <3> QED
      BY <3>1, <3>2, <3>3
  <2>2. PICK row \in StoredRows : Close(row, t, taken[t], meta)
    BY <1>1, <1>2, <2>1 DEF RowsInv
  <2>3. t \in Nat /\ taken[t] \in Int
    BY <1>1, <2>1 DEF MonitorTypeOK
  <2> QED
    BY <1>1, <1>2, <2>1, <2>2, <2>3, RowsKept
<1> QED
  BY <1>3, <1>4

LEMMA AccountInit == MonitorInit => AccountInv({})
<1> SUFFICES ASSUME MonitorInit PROVE AccountInv({})
  OBVIOUS
<1>0. FateInv /\ IInv /\ MemoryInv /\ PlacesInv /\ MonitorTypeOK
  BY FateInit DEF FateInv, IInv
<1>1. OrderInv({})
  <2>1. \A m \in InMemory : m \notin Stored
    BY <1>0, StoredNat DEF MemoryInv, MonitorTypeOK
  <2>2. \A k \in DOMAIN taken : k <= last
    BY <1>0 DEF PlacesInv, MonitorTypeOK
  <2>3. Ordered(batch, {}) /\ Ordered(pending, {})
    BY <1>0 DEF MemoryInv, InOrder, Ordered
  <2> QED
    BY <1>0, <2>1, <2>2, <2>3 DEF OrderInv, PlacesInv, MemoryInv
<1> USE DEF MonitorInit, StoreInit
<1>2. IntervalInv
  BY DEF IntervalInv
<1>3. MemoryValuesInv({})
  BY DEF MemoryValuesInv
<1>4. LateValuesInv({})
  BY EmptyTable DEF LateValuesInv
<1>5. RowsInv({})
  <2>1. SUFFICES ASSUME NEW t \in DOMAIN taken
                 PROVE  \E row \in StoredRows : Close(row, t, taken[t], meta)
    BY DEF RowsInv
  <2>2. IsTable(db) /\ t \in DOMAIN db
    BY <1>0 DEF MonitorTypeOK, StoreTypeOK
  <2>3. db[t].t = t /\ db[t].v = taken[t] /\ t \in Nat /\ db[t].v \in Int /\ db[t] \in StoredRows
    BY <2>2 DEF IsTable, Row, StoredRows
  <2>4. 0 <= 2 * Threshold * Compactions(meta)
    <3>1. PICK a \in Nat : a = Compactions(meta)
      BY CompactionsBounded
    <3>2. Threshold \in Nat
      BY SamplesAssumption
    <3>3. 0 <= 2 * Threshold * a
      BY <3>2
    <3> QED
      BY <3>1, <3>3
  <2>5. Close(db[t], t, taken[t], meta)
    BY <2>3, <2>4 DEF Close
  <2> QED
    BY <2>3, <2>5
<1>6. SafeInv
  BY <1>0 DEF IInv, SafeInv
<1> QED
  BY <1>1, <1>2, <1>3, <1>4, <1>5, <1>6 DEF AccountInv, ValuesInv

LEMMA AccountStep ==
  ASSUME NEW R, AccountInv(R), [MonitorNext]_monitorVars
  PROVE  AccountInv(R)'
<1>1. SafeInv /\ OrderInv(R) /\ ValuesInv(R) /\ MonitorTypeOK
  BY DEF AccountInv, SafeInv
<1>2. CASE MonitorNext
  <2>1. SafeInv'
    BY <1>1, <1>2, TypeStep, JobStep, CoverStep DEF SafeInv
  <2> QED
    BY <1>1, <1>2, <2>1, OrderStep, IntervalStep, MemoryValuesStep, LateValuesStep, RowsStep
       DEF AccountInv, ValuesInv
<1>3. CASE UNCHANGED monitorVars
  <2>1. UNCHANGED <<db, meta, archive, tmp, step, cursor, cutoff, points, now, last, phase,
                    cancelled, interval, current, pending, batch, subscribers, taken, lost,
                    late>>
        /\ InMemory' = InMemory /\ Stored' = Stored
    BY <1>3, MonitorStutter
  <2>2. SafeInv'
    BY <1>1, <2>1 DEF SafeInv, MonitorTypeOK, StoreTypeOK, JobInv, WeekRows, ArchiveCoversRows
  <2>3. OrderInv(R)'
    BY <1>1, <2>1 DEF OrderInv, Ordered
  <2>4. IntervalInv' /\ MemoryValuesInv(R)' /\ LateValuesInv(R)'
    BY <1>1, <2>1 DEF ValuesInv, IntervalInv, MemoryValuesInv, LateValuesInv
  <2>5. RowsInv(R)'
    BY <1>1, <2>1 DEF ValuesInv, RowsInv, StoredRows
  <2> QED
    BY <2>2, <2>3, <2>4, <2>5 DEF AccountInv, ValuesInv
<1> QED
  BY <1>2, <1>3

LEMMA AccountImplies ==
  ASSUME NEW R, AccountInv(R), NEW t \in DOMAIN taken, t \notin lost \cup InMemory, Clear(t, R)
  PROVE  \E row \in StoredRows : StandsFor(row, t)
<1>1. MonitorTypeOK /\ StoreTypeOK /\ IntervalInv /\ RowsInv(R) /\ IsTable(late) /\ meta \in Nat
  BY DEF AccountInv, SafeInv, ValuesInv, MonitorTypeOK, StoreTypeOK
<1>2. PICK row \in StoredRows : Close(row, t, taken[t], meta)
  BY <1>1 DEF RowsInv
<1>3. row \in Row /\ row.t \in Nat /\ row.v \in Int /\ t \in Nat /\ taken[t] \in Int
  BY <1>1, RowTypes DEF MonitorTypeOK, Row
<1>4. Reaches(row.t, t)
  BY <1>2, <1>3, CloseReaches
<1>5. 2 * Threshold * Compactions(meta) <= Drift
  <2>1. PICK a \in Nat, c \in Nat : /\ a = Compactions(meta) /\ c = Cardinality(Intervals)
                                    /\ a <= c
    BY <1>1, CompactionsBounded
  <2>2. Threshold \in Nat
    BY SamplesAssumption
  <2>3. 2 * Threshold * a <= 2 * Threshold * c
    BY <2>1, <2>2
  <2> QED
    BY <2>1, <2>3 DEF Drift
<1>6. 2 * Threshold * Compactions(meta) \in Int /\ Drift \in Int
  BY <1>1, CompactionsBounded, SamplesAssumption DEF Drift
<1>7. row.v - taken[t] <= Drift /\ taken[t] - row.v <= Drift
  BY <1>2, <1>3, <1>5, <1>6 DEF Close
<1> QED
  BY <1>4, <1>7 DEF StandsFor

(* No sample disappears without a trace: it was lost with a process, or is *)
(* in memory, or a row of its own time or of a later one near it has a     *)
(* value that is close, whatever fails, crashes, is restarted, compacted   *)
(* again with whatever intervals, or archived.                             *)
THEOREM Accounted == MonitorSpec => []EverySampleAccountedFor
<1>1. AccountInv({}) /\ [MonitorNext]_monitorVars => AccountInv({})'
  BY AccountStep
<1>2. AccountInv({}) => EverySampleAccountedFor
  BY AccountImplies DEF EverySampleAccountedFor, Clear
<1> QED
  BY <1>1, <1>2, AccountInit, PTL DEF MonitorSpec

(* The ticks that will come again are those from the new time on.          *)
LEMMA SetBackAccount ==
  ASSUME AccountInv(repeated), SetBack
  PROVE  AccountInv(repeated)'
<1>1. /\ UNCHANGED <<db, meta, archive, tmp, step, cursor, cutoff, points, phase, cancelled,
                     interval, current, pending, batch, subscribers, taken, lost, late>>
      /\ InMemory' = InMemory /\ Stored' = Stored /\ StoredRows' = StoredRows
  BY DEF SetBack, storeVars, disk, job, process, memory, ghosts, InMemory, TimesOf, Stored,
         Archived, StoredRows
<1>2. PICK t \in 1..now : now' = t /\ last' = t - 1 /\ repeated' = repeated \cup t..now
  BY DEF SetBack
<1>3. /\ SafeInv /\ OrderInv(repeated) /\ ValuesInv(repeated)
      /\ now \in Nat /\ last \in Nat /\ DOMAIN taken \subseteq Nat
  BY DEF AccountInv, SafeInv, MonitorTypeOK
<1>4. SafeInv'
  BY <1>3, SetBackStep
<1>5. OrderInv(repeated)'
  <2>1. last' <= now'
    BY <1>2, <1>3
  <2>2. \A k \in DOMAIN taken \ repeated' : k <= last'
    <3> SUFFICES ASSUME NEW k \in DOMAIN taken, k \notin repeated, k \notin t..now
                 PROVE  k <= t - 1
      BY <1>2
    <3>1. k <= last /\ last <= now /\ k \in Nat
      BY <1>3 DEF OrderInv
    <3> QED
      BY <1>3, <3>1
  <2>3. Ordered(batch', repeated') /\ Ordered(pending', repeated')
    BY <1>1, <1>2, <1>3 DEF OrderInv, Ordered
  <2> QED
    BY <1>1, <1>2, <1>3, <2>1, <2>2, <2>3 DEF OrderInv
<1>6. IntervalInv' /\ MemoryValuesInv(repeated)' /\ LateValuesInv(repeated)'
  BY <1>1, <1>2, <1>3 DEF ValuesInv, IntervalInv, MemoryValuesInv, LateValuesInv
<1>7. RowsInv(repeated)'
  BY <1>1, <1>2, <1>3 DEF ValuesInv, RowsInv, Clear
<1> QED
  BY <1>4, <1>5, <1>6, <1>7 DEF AccountInv, ValuesInv

(* Also when the clock is set back, any number of times, a sample whose    *)
(* row cannot be of a tick that came twice is accounted for.               *)
THEOREM OthersAccounted == ClockSpec => []OtherSamplesAccountedFor
<1>1. ClockInit => AccountInv(repeated)
  BY AccountInit DEF ClockInit
<1>2. AccountInv(repeated) /\ [ClockNext]_clockStepsVars => AccountInv(repeated)'
  <2> SUFFICES ASSUME AccountInv(repeated), [ClockNext]_clockStepsVars
               PROVE  AccountInv(repeated)'
    OBVIOUS
  <2>1. CASE [MonitorNext]_monitorVars /\ repeated' = repeated
    <3>1. PICK R : R = repeated
      OBVIOUS
    <3>2. AccountInv(R)
      BY <3>1
    <3>3. AccountInv(R)'
      BY <2>1, <3>2, AccountStep
    <3> QED
      BY <2>1, <3>1, <3>3
  <2>2. CASE SetBack
    BY <2>2, SetBackAccount
  <2> QED
    BY <2>1, <2>2 DEF ClockNext, clockStepsVars
<1>3. AccountInv(repeated) => OtherSamplesAccountedFor
  <2> SUFFICES ASSUME AccountInv(repeated), NEW t \in DOMAIN taken, t \notin lost \cup InMemory,
                      ~InRepeatedTime(t)
               PROVE  \E row \in StoredRows : StandsFor(row, t)
    BY DEF OtherSamplesAccountedFor
  <2>1. PICK R : R = repeated
    OBVIOUS
  <2>2. AccountInv(R) /\ Clear(t, R)
    BY <2>1 DEF Clear, InRepeatedTime
  <2> QED
    BY <2>2, AccountImplies
<1> QED
  BY <1>1, <1>2, <1>3, PTL DEF ClockSpec

-----------------------------------------------------------------------------
(* Types, and what SQLite may be found as: tables no younger than the last *)
(* sample, the present one among them.                                     *)
IsImage(i) == IsTable(i.db) /\ i.meta \in Nat /\ \A k \in DOMAIN i.db : k <= last

ImagesInv == Image(db, meta) \in images /\ \A i \in images : IsImage(i)

(* A file that has its name is synced, and has only rows of its week.      *)
FilesInv ==
  /\ cached \cap DOMAIN archive = {}
  /\ \A w \in DOMAIN archive : \A k \in DOMAIN archive[w] : Week(k) = w

(* A row of an image that was neither merged away nor late is stored, and  *)
(* when its week has a file it is in the file: a power loss cannot bring   *)
(* back a row that the file should have had.                               *)
Covered(i) ==
  \A k \in DOMAIN i.db \ (gone \cup DOMAIN late) :
    /\ k \in Stored
    /\ Week(k) \in DOMAIN archive => k \in DOMAIN archive[Week(k)]

(* No image lacks a durable row that no file has.                          *)
Complete(i) == durable \ DOMAIN late \subseteq DOMAIN i.db \cup Archived

ImageRowsInv ==
  /\ durable \cap gone = {}
  /\ \A i \in images : Covered(i) /\ Complete(i)

ProcessInv == MonitorTypeOK /\ MemoryInv /\ JobInv

DurableInv == ProcessInv /\ ImagesInv /\ FilesInv /\ ImageRowsInv

-----------------------------------------------------------------------------
(* A step that moves or merges rows: what is neither merged away nor late  *)
(* stays stored; a row that is new in SQLite is late, or its week has no   *)
(* file; and a new file has every row of its week.                         *)
Moves ==
  /\ DOMAIN late \subseteq DOMAIN late' /\ gone \subseteq gone'
  /\ Archived \subseteq Archived'
  /\ Stored \ (gone' \cup DOMAIN late') \subseteq Stored'
  /\ \A k \in DOMAIN db' \ DOMAIN db : k \in DOMAIN late' \/ Week(k) \notin DOMAIN archive'
  /\ \A w \in DOMAIN archive' :
       \/ w \in DOMAIN archive /\ archive'[w] = archive[w]
       \/ w \notin DOMAIN archive /\ \A k \in DOMAIN db : Week(k) = w => k \in DOMAIN archive'[w]

LEMMA ImageFields == \A table, n : Image(table, n).db = table /\ Image(table, n).meta = n
BY DEF Image

(* The images after a commit, whether or not a checkpoint comes with it.   *)
LEMMA CommitKeepsRows ==
  ASSUME DurableInv, Moves, Checkpoint \/ NoCheckpoint
  PROVE  ImageRowsInv'
<1>1. /\ images' \subseteq images \cup {Image(db', meta')}
      /\ Image(db, meta) \in images
      /\ Covered(Image(db, meta)) /\ Complete(Image(db, meta))
  BY DEF DurableInv, ImagesInv, ImageRowsInv, Checkpoint, NoCheckpoint
<1>2. \A k \in DOMAIN db \ (gone \cup DOMAIN late) :
        Week(k) \in DOMAIN archive => k \in DOMAIN archive[Week(k)]
  BY <1>1, ImageFields DEF Covered
<1>3. \A k \in Archived : Week(k) \in DOMAIN archive
  BY DEF DurableInv, FilesInv, Archived
<1>4. durable' \cap gone' = {}
  BY DEF Checkpoint, NoCheckpoint
<1>5. ASSUME NEW i \in images, NEW k \in DOMAIN i.db \ (gone' \cup DOMAIN late')
      PROVE  /\ k \in Stored'
             /\ Week(k) \in DOMAIN archive' => k \in DOMAIN archive'[Week(k)]
  <2>1. k \in DOMAIN i.db \ (gone \cup DOMAIN late)
    BY DEF Moves
  <2>2. k \in Stored /\ (Week(k) \in DOMAIN archive => k \in DOMAIN archive[Week(k)])
    BY <2>1 DEF DurableInv, ImageRowsInv, Covered
  <2>3. k \in Stored'
    BY <1>5, <2>2 DEF Moves
  <2>4. ASSUME Week(k) \in DOMAIN archive', Week(k) \notin DOMAIN archive
        PROVE  k \in DOMAIN archive'[Week(k)]
    <3>1. k \in DOMAIN db
      BY <1>3, <2>2, <2>4 DEF Stored
    <3> QED
      BY <2>4, <3>1 DEF Moves
  <2>5. ASSUME Week(k) \in DOMAIN archive', Week(k) \in DOMAIN archive
        PROVE  k \in DOMAIN archive'[Week(k)]
    BY <2>2, <2>5 DEF Moves
  <2> QED
    BY <2>3, <2>4, <2>5
<1>6. ASSUME NEW k \in DOMAIN db' \ (gone' \cup DOMAIN late')
      PROVE  /\ k \in Stored'
             /\ Week(k) \in DOMAIN archive' => k \in DOMAIN archive'[Week(k)]
  <2>1. k \in Stored'
    BY DEF Stored
  <2>2. CASE k \in DOMAIN db
    BY <1>1, <1>5, <2>2, ImageFields
  <2>3. CASE k \notin DOMAIN db
    BY <2>1, <2>3 DEF Moves
  <2> QED
    BY <2>2, <2>3
<1>7. ASSUME NEW i \in images'
      PROVE  Covered(i)'
  <2>1. i \in images \/ i.db = db'
    BY <1>1, ImageFields
  <2> QED
    BY <1>5, <1>6, <2>1 DEF Covered
<1>8. CASE Checkpoint
  <2>1. \A i \in images' : i.db = db' /\ durable' \subseteq Stored'
    BY <1>8, ImageFields DEF Checkpoint
  <2>2. \A i \in images' : Complete(i)'
    BY <2>1 DEF Complete, Stored
  <2> QED
    BY <1>4, <1>7, <2>2 DEF ImageRowsInv
<1>9. CASE NoCheckpoint
  <2>1. durable' = (durable \cup Archived') \ gone'
    BY <1>9 DEF NoCheckpoint
  <2>2. ASSUME NEW i \in images, NEW k \in durable' \ DOMAIN late', k \notin Archived'
        PROVE  k \in DOMAIN i.db
    <3>1. k \in durable \ DOMAIN late /\ k \notin Archived
      BY <2>1, <2>2 DEF Moves
    <3> QED
      BY <3>1 DEF DurableInv, ImageRowsInv, Complete
  <2>3. ASSUME NEW k \in durable' \ DOMAIN late', k \notin Archived'
        PROVE  k \in DOMAIN db'
    <3>1. k \in DOMAIN db
      BY <1>1, <2>2, <2>3, ImageFields
    <3>2. k \notin gone' /\ k \in Stored
      BY <2>1, <3>1 DEF Stored
    <3> QED
      BY <2>3, <3>2 DEF Moves, Stored
  <2>4. ASSUME NEW i \in images'
        PROVE  Complete(i)'
    <3>1. i \in images \/ i.db = db'
      BY <1>1, ImageFields
    <3> QED
      BY <2>2, <2>3, <3>1 DEF Complete
  <2> QED
    BY <1>4, <1>7, <2>4 DEF ImageRowsInv
<1> QED
  BY <1>8, <1>9

(* The image a commit adds.                                                *)
LEMMA CommitKeepsImages ==
  ASSUME DurableInv, ProcessInv', last <= last', Checkpoint \/ NoCheckpoint
  PROVE  ImagesInv'
<1>1. IsTable(db') /\ meta' \in Nat /\ \A k \in DOMAIN db' : k <= last'
  BY DEF ProcessInv, MonitorTypeOK, StoreTypeOK, MemoryInv, Stored
<1>2. /\ images' \subseteq images \cup {Image(db', meta')}
      /\ Image(db', meta') \in images'
  BY DEF Checkpoint, NoCheckpoint
<1>3. ASSUME NEW i \in images
      PROVE  IsImage(i)'
  <2>1. IsTable(i.db) /\ i.meta \in Nat /\ \A k \in DOMAIN i.db : k <= last
    BY DEF DurableInv, ImagesInv, IsImage
  <2>2. last \in Nat /\ last' \in Nat /\ DOMAIN i.db \subseteq Nat
    <3>1. last \in Nat /\ last' \in Nat
      BY DEF DurableInv, ProcessInv, MonitorTypeOK
    <3>2. \A k \in DOMAIN i.db : i.db[k] \in Row /\ i.db[k].t = k
      BY <2>1 DEF IsTable
    <3>3. DOMAIN i.db \subseteq Nat
      BY <3>2 DEF Row
    <3> QED
      BY <3>1, <3>3
  <2>3. \A k \in DOMAIN i.db : k <= last'
    BY <2>1, <2>2
  <2> QED
    BY <2>1, <2>3 DEF IsImage
<1>4. ASSUME NEW i, i = Image(db', meta')
      PROVE  IsImage(i)'
  BY <1>1, <1>4, ImageFields DEF IsImage
<1>5. \A i \in images' : IsImage(i)'
  BY <1>2, <1>3, <1>4
<1> QED
  BY <1>2, <1>5 DEF ImagesInv

-----------------------------------------------------------------------------
(* Steps of the monitor keep its part of the invariant.                    *)
LEMMA ProcessStep ==
  ASSUME ProcessInv, MonitorNext
  PROVE  ProcessInv'
BY TypeStep, MemoryStep, JobStep DEF ProcessInv

LEMMA PrepareMoves ==
  ASSUME DurableInv, Prepare
  PROVE  Moves /\ FilesInv' /\ last' = last
<1>1. PICK n \in Intervals : PreparePersistence(n)
  BY DEF Prepare, Boot, BootFails
<1>2. StoreTypeOK
  BY DEF DurableInv, ProcessInv, MonitorTypeOK
<1>3. DOMAIN db' \subseteq DOMAIN db /\ archive' = archive
  BY <1>1, <1>2, PrepareShape DEF PreparePersistence
<1>4. UNCHANGED <<late, last, cached>> /\ gone' = gone \cup (DOMAIN db \ DOMAIN db')
  BY DEF Prepare, Boot, BootFails, clock, ghosts
<1> QED
  BY <1>3, <1>4 DEF Moves, DurableInv, FilesInv, Stored, Archived

LEMMA FlushMoves ==
  ASSUME DurableInv, Commit, FlushCommit
  PROVE  Moves /\ FilesInv' /\ last' = last
<1>1. PICK stored : stored = CompactByInterval(batch, interval)
  OBVIOUS
<1>2. StoreTypeOK /\ IsTable(late) /\ batch \in Seq(Sample) /\ InOrder(batch)
  BY DEF DurableInv, ProcessInv, MonitorTypeOK, MemoryInv
<1>3. /\ IsRowSlice(stored) /\ IsRowSlice(LateRows(stored))
      /\ TimesOf(LateRows(stored)) = {k \in TimesOf(stored) : Week(k) \in DOMAIN archive}
  BY <1>1, <1>2, FlushRows
<1>4. AddBatch(stored) /\ late' = Upsert(late, LateRows(stored)) /\ last' = last
  BY <1>1 DEF FlushCommit, clock
<1>5. DOMAIN db' = DOMAIN db \cup TimesOf(stored) /\ archive' = archive
  BY <1>2, <1>3, <1>4, AddBatchShape DEF AddBatch
<1>6. DOMAIN late' = DOMAIN late \cup {k \in TimesOf(stored) : Week(k) \in DOMAIN archive}
  BY <1>2, <1>3, <1>4, UpsertAdds
<1>7. UNCHANGED <<gone, cached>>
  BY DEF Commit
<1> QED
  BY <1>4, <1>5, <1>6, <1>7 DEF Moves, DurableInv, FilesInv, Stored, Archived

LEMMA DeleteMoves ==
  ASSUME DurableInv, Commit, DeleteWeek
  PROVE  Moves /\ FilesInv' /\ last' = last
<1>1. /\ archive' = archive /\ step = "delete"
      /\ UNCHANGED <<late, last, gone, cached>>
  BY DEF Commit, DeleteWeek, InArchive, ArchiveDelete, outside, ghosts, clock
<1>2. DOMAIN db' = {k \in DOMAIN db : Week(k) # cursor}
  <2> DEFINE rest == {k \in DOMAIN db : Week(k) # cursor}
  <2>1. db' = RowsIn(db, rest)
    BY DEF DeleteWeek, ArchiveDelete
  <2>2. DOMAIN RowsIn(db, rest) = DOMAIN db \cap rest
    BY DEF RowsIn
  <2> QED
    BY <2>1, <2>2
<1>3. ASSUME NEW k \in DOMAIN db \ (gone \cup DOMAIN late), Week(k) = cursor
      PROVE  k \in Archived
  <2>1. k \in DOMAIN WeekRows(cursor)
    BY <1>3, WeekRowsTable DEF DurableInv, ProcessInv, MonitorTypeOK, StoreTypeOK
  <2>2. cursor \in DOMAIN archive
    BY <1>1, <2>1 DEF DurableInv, ProcessInv, JobInv
  <2>3. Covered(Image(db, meta))
    BY DEF DurableInv, ImagesInv, ImageRowsInv
  <2>4. k \in DOMAIN archive[cursor]
    BY <1>3, <2>2, <2>3, ImageFields DEF Covered
  <2> QED
    BY <2>2, <2>4 DEF Archived
<1>4. Archived' = Archived
  BY <1>1 DEF Archived
<1> QED
  BY <1>1, <1>2, <1>3, <1>4 DEF Moves, DurableInv, FilesInv, Stored

LEMMA RenameMoves ==
  ASSUME DurableInv, SyncAndRename
  PROVE  Moves /\ FilesInv' /\ last' = last
<1>1. /\ db' = db /\ UNCHANGED <<late, last, gone>>
      /\ points = WeekRows(cursor) /\ cursor \notin DOMAIN archive
      /\ archive' = [w \in DOMAIN archive \cup {cursor} |->
                       IF w = cursor THEN points ELSE archive[w]]
      /\ cached' = cached \ {cursor}
  BY DEF SyncAndRename, FileSync, RenameWeek, InArchive, ArchiveRename, outside, ghosts, clock,
         DurableInv, ProcessInv, JobInv
<1>2. DOMAIN points = {k \in DOMAIN db : Week(k) = cursor}
  BY <1>1, WeekRowsTable DEF DurableInv, ProcessInv, MonitorTypeOK, StoreTypeOK
<1>3. \A w \in DOMAIN archive : w \in DOMAIN archive' /\ archive'[w] = archive[w]
  BY <1>1
<1>4. Archived \subseteq Archived'
  BY <1>3 DEF Archived
<1>5. cursor \in DOMAIN archive' /\ archive'[cursor] = points
      /\ DOMAIN archive' = DOMAIN archive \cup {cursor}
  BY <1>1
<1>6. FilesInv'
  BY <1>1, <1>2, <1>3, <1>5 DEF DurableInv, FilesInv
<1>7. Moves
  BY <1>1, <1>2, <1>3, <1>4, <1>5 DEF Moves, Stored
<1> QED
  BY <1>1, <1>6, <1>7

(* The end of an archive call and of a process: nothing moves.             *)
LEMMA EndMoves ==
  ASSUME DurableInv, Commit, ArchiveEnd \/ Exit
  PROVE  Moves /\ FilesInv' /\ last' = last
<1>1. UNCHANGED <<db, archive, late, last, gone, cached>>
  BY DEF Commit, ArchiveEnd, ArchiveNothing, ArchiveReturn, ArchiveError, Exit, outside,
         storeVars, disk, clock, ghosts
<1> QED
  BY <1>1 DEF Moves, DurableInv, FilesInv, Stored, Archived

(* The other steps: a sample may be taken, or a file written.              *)
LEMMA OtherSteps ==
  ASSUME DurableInv, ProcessInv', WriteFile \/ ElseInMonitor
  PROVE  DurableInv'
<1>1. UNCHANGED <<db, meta, archive, late, images, gone, durable>>
  BY DEF WriteFile, ElseInMonitor, QueryWeek, InArchive, ArchiveQuery, outside,
         Tick, Signal, Crash, Collect, FlushBegin, FinalFlush, TakeBatch, StopIdle, FlushFail,
         ArchiveBegin, ArchiveStart, SkipWeek, ArchiveSkip, storeVars, disk, ghosts
<1>2. last' = last \/ (last < now /\ last' = now)
  BY DEF WriteFile, ElseInMonitor, QueryWeek, InArchive, outside, clock,
         Tick, Signal, Crash, Collect, FlushBegin, FinalFlush, TakeBatch, StopIdle, FlushFail,
         ArchiveBegin, SkipWeek
<1>3. last \in Nat /\ now \in Nat
  BY DEF DurableInv, ProcessInv, MonitorTypeOK
<1>4. cached' = cached \/ (cached' = cached \cup {cursor} /\ cursor \notin DOMAIN archive)
  BY DEF WriteFile, ElseInMonitor, QueryWeek, ArchiveQuery
<1>5. ASSUME NEW i \in images
      PROVE  IsImage(i)'
  <2>1. IsTable(i.db) /\ i.meta \in Nat /\ \A k \in DOMAIN i.db : k <= last
    BY DEF DurableInv, ImagesInv, IsImage
  <2>2. DOMAIN i.db \subseteq Nat
    BY <2>1 DEF IsTable, Row
  <2>3. \A k \in DOMAIN i.db : k <= last'
    BY <1>2, <1>3, <2>1, <2>2
  <2> QED
    BY <2>1, <2>3 DEF IsImage
<1>6. ImagesInv'
  BY <1>1, <1>5 DEF DurableInv, ImagesInv
<1>7. FilesInv'
  BY <1>1, <1>4 DEF DurableInv, FilesInv
<1>8. ImageRowsInv'
  BY <1>1 DEF DurableInv, ImageRowsInv, Covered, Complete, Stored, Archived
<1> QED
  BY <1>6, <1>7, <1>8 DEF DurableInv

-----------------------------------------------------------------------------
(* SQLite is found as one of its images; no file that has its name is      *)
(* emptied.                                                                *)
LEMMA PowerLossStep ==
  ASSUME DurableInv, PowerLoss
  PROVE  DurableInv'
<1>1. PICK i \in images, emptied \in SUBSET cached :
        /\ db' = i.db /\ meta' = i.meta
        /\ archive' = [w \in DOMAIN archive |-> IF w \in emptied THEN NoRows ELSE archive[w]]
  BY DEF PowerLoss
<1>2. /\ DOMAIN archive' = DOMAIN archive
      /\ \A w \in DOMAIN archive : archive'[w] = archive[w]
  BY <1>1 DEF DurableInv, FilesInv
<1>3. /\ UNCHANGED <<tmp, now, last, taken, late, gone, durable>>
      /\ step' = "idle" /\ cursor' = 0 /\ cutoff' = 0 /\ points' = NoRows
      /\ phase' = "down" /\ cancelled' = FALSE /\ interval' = 0
      /\ current' = <<>> /\ pending' = <<>> /\ batch' = <<>> /\ subscribers' = NoRows
      /\ lost' = lost \cup InMemory \cup (Stored \ Stored')
      /\ images' = {Image(db', meta')} /\ cached' = {}
  BY DEF PowerLoss, NoJob, clock
<1>4. IsTable(i.db) /\ i.meta \in Nat /\ \A k \in DOMAIN i.db : k <= last
  BY DEF DurableInv, ImagesInv, IsImage
<1>5. MonitorTypeOK /\ StoreTypeOK /\ MemoryInv
  BY DEF DurableInv, ProcessInv, MonitorTypeOK
<1>6. Archived' = Archived
  BY <1>2 DEF Archived
<1>7. StoreTypeOK'
  BY <1>1, <1>2, <1>3, <1>4, <1>5, EmptyTable DEF StoreTypeOK
<1>8. MonitorTypeOK'
  <2>1. lost' \subseteq Nat
    <3>1. InMemory \subseteq Nat
      BY <1>5, TimesNat DEF MonitorTypeOK, InMemory
    <3> QED
      BY <1>3, <1>5, <3>1, StoredNat DEF MonitorTypeOK
  <2>2. /\ current' \in Seq(Sample) /\ Len(current') <= 1
        /\ pending' \in Seq(Sample) /\ batch' \in Seq(Sample)
    BY <1>3
  <2>3. DOMAIN subscribers' = {}
    BY <1>3, EmptyTable
  <2> QED
    BY <1>3, <1>5, <1>7, <2>1, <2>2, <2>3 DEF MonitorTypeOK
<1>9. MemoryInv'
  <2>1. InMemory' = {}
    BY <1>3 DEF InMemory, TimesOf
  <2>2. \A k \in Stored' : k <= last'
    <3>1. \A k \in Archived : k <= last
      BY <1>5 DEF MemoryInv, Stored
    <3> QED
      BY <1>1, <1>3, <1>4, <1>6, <3>1 DEF Stored
  <2>3. InOrder(batch)' /\ InOrder(pending)'
    BY <1>3 DEF InOrder
  <2> QED
    BY <1>3, <2>1, <2>2, <2>3 DEF MemoryInv
<1>10. JobInv'
  BY <1>3 DEF JobInv
<1>11. ImagesInv'
  <2>1. ASSUME NEW j, j = Image(db', meta')
        PROVE  IsImage(j)'
    BY <1>1, <1>3, <1>4, <2>1, ImageFields DEF IsImage
  <2> QED
    BY <1>3, <2>1 DEF ImagesInv
<1>12. FilesInv'
  BY <1>2, <1>3 DEF DurableInv, FilesInv
<1>13. ImageRowsInv'
  <2>1. \A j \in images' : DOMAIN j.db = DOMAIN i.db
    BY <1>1, <1>3, ImageFields
  <2>2. Covered(i) /\ Complete(i) /\ durable \cap gone = {}
    BY DEF DurableInv, ImageRowsInv
  <2>3. Stored' = DOMAIN i.db \cup Archived
    BY <1>1, <1>6 DEF Stored
  <2>4. \A j \in images' : Covered(j)'
    BY <1>2, <1>3, <2>1, <2>2, <2>3 DEF Covered
  <2>5. \A j \in images' : Complete(j)'
    BY <1>3, <1>6, <2>1, <2>2 DEF Complete
  <2> QED
    BY <1>3, <2>2, <2>4, <2>5 DEF ImageRowsInv
<1> QED
  BY <1>8, <1>9, <1>10, <1>11, <1>12, <1>13 DEF DurableInv, ProcessInv

LEMMA DurableStep ==
  ASSUME DurableInv, [DurabilityNext]_durabilityVars
  PROVE  DurableInv'
<1>1. ASSUME MonitorNext, Moves, FilesInv', last' = last, Checkpoint \/ NoCheckpoint
      PROVE  DurableInv'
  <2>1. ProcessInv'
    BY <1>1, ProcessStep DEF DurableInv
  <2>2. last <= last'
    BY <1>1 DEF DurableInv, ProcessInv, MonitorTypeOK
  <2> QED
    BY <1>1, <2>1, <2>2, CommitKeepsRows, CommitKeepsImages DEF DurableInv
<1>2. CASE Prepare
  <2>1. MonitorNext /\ (Checkpoint \/ NoCheckpoint)
    BY <1>2 DEF Prepare, MonitorNext
  <2> QED
    BY <1>1, <1>2, <2>1, PrepareMoves
<1>3. CASE Commit
  <2>1. MonitorNext /\ (Checkpoint \/ NoCheckpoint)
    BY <1>3 DEF Commit, MonitorNext, RunStep
  <2>2. Moves /\ FilesInv' /\ last' = last
    BY <1>3, FlushMoves, DeleteMoves, EndMoves DEF Commit
  <2> QED
    BY <1>1, <2>1, <2>2
<1>4. CASE SyncAndRename
  <2>1. MonitorNext /\ NoCheckpoint
    BY <1>4 DEF SyncAndRename, MonitorNext, RunStep
  <2> QED
    BY <1>1, <1>4, <2>1, RenameMoves
<1>5. CASE WriteFile \/ ElseInMonitor
  <2>1. MonitorNext
    BY <1>5 DEF WriteFile, ElseInMonitor, MonitorNext, RunStep
  <2>2. ProcessInv'
    BY <2>1, ProcessStep DEF DurableInv
  <2> QED
    BY <1>5, <2>2, OtherSteps
<1>6. CASE PowerLoss
  BY <1>6, PowerLossStep
<1>7. CASE UNCHANGED durabilityVars
  <2>1. UNCHANGED <<monitorVars, images, cached, gone, durable>>
    BY <1>7 DEF durabilityVars
  <2>2. UNCHANGED <<db, meta, archive, tmp, step, cursor, cutoff, points, now, last, phase,
                    cancelled, interval, current, pending, batch, subscribers, taken, lost,
                    late>>
    BY <2>1 DEF monitorVars, storeVars, disk, job, clock, process, memory, ghosts
  <2>3. MonitorTypeOK'
    BY <2>2 DEF DurableInv, ProcessInv, MonitorTypeOK, StoreTypeOK
  <2>4. MemoryInv'
    BY <2>2 DEF DurableInv, ProcessInv, MemoryInv, InMemory, Stored, Archived, InOrder, TimesOf
  <2>5. JobInv'
    BY <2>2 DEF DurableInv, ProcessInv, JobInv, WeekRows
  <2>6. ImagesInv' /\ FilesInv' /\ ImageRowsInv'
    BY <2>1, <2>2 DEF DurableInv, ImagesInv, IsImage, FilesInv, ImageRowsInv, Covered, Complete,
                      Stored, Archived
  <2> QED
    BY <2>3, <2>4, <2>5, <2>6 DEF DurableInv, ProcessInv
<1> QED
  BY <1>2, <1>3, <1>4, <1>5, <1>6, <1>7 DEF DurabilityNext

LEMMA DurableInit == DurabilityInit => DurableInv
<1> SUFFICES ASSUME DurabilityInit PROVE DurableInv
  OBVIOUS
<1>1. IInv
  BY InitInv DEF DurabilityInit
<1>2. /\ images = {Image(db, meta)} /\ cached = {} /\ gone = {} /\ durable = DOMAIN db
      /\ DOMAIN archive = {}
  BY EmptyTable DEF DurabilityInit, MonitorInit, StoreInit
<1>3. Stored = DOMAIN db
  BY <1>2 DEF Stored, Archived
<1>4. IsTable(db) /\ meta \in Nat /\ \A k \in DOMAIN db : k <= last
  BY <1>1, <1>3 DEF IInv, MonitorTypeOK, StoreTypeOK, MemoryInv
<1>5. \A i \in images : i.db = db /\ i.meta = meta
  BY <1>2, ImageFields
<1>6. ImagesInv
  BY <1>2, <1>4, <1>5 DEF ImagesInv, IsImage
<1>7. FilesInv /\ ImageRowsInv
  BY <1>2, <1>3, <1>5 DEF FilesInv, ImageRowsInv, Covered, Complete
<1> QED
  BY <1>1, <1>6, <1>7 DEF IInv, DurableInv, ProcessInv

(* DurableRowsSurvive: through power losses and crashes at any point, a    *)
(* row that was checkpointed or archived is in SQLite or in an archive.    *)
THEOREM DurableRowsStay == DurabilitySpec => []DurableRowsSurvive
<1>1. DurableInv /\ [DurabilityNext]_durabilityVars => DurableInv'
  BY DurableStep
<1>2. DurableInv => DurableRowsSurvive
  <2> SUFFICES ASSUME DurableInv PROVE DurableRowsSurvive
    OBVIOUS
  <2>1. Complete(Image(db, meta))
    BY DEF DurableInv, ImagesInv, ImageRowsInv
  <2> QED
    BY <2>1, ImageFields DEF Complete, DurableRowsSurvive, Stored
<1> QED
  BY <1>1, <1>2, DurableInit, PTL DEF DurabilitySpec
-----------------------------------------------------------------------------
(* A power loss takes the newest part of the store.  The weeks before the  *)
(* one an archive call has come to are out of SQLite.                      *)
OldestInv == step # "idle" => \A k \in DOMAIN db : cursor <= Week(k)

(* What SQLite may be found as is older than memory, and what it lacks of  *)
(* the table is younger than all it has, and than all that is archived.    *)
Suffix(i) ==
  /\ \A k \in DOMAIN i.db, m \in InMemory : k < m
  /\ \A k \in DOMAIN db \ (DOMAIN i.db \cup Archived \cup DOMAIN late) :
       \A j \in DOMAIN i.db \cup Archived : j < k

SuffixInv == DurableInv /\ OldestInv /\ \A i \in images : Suffix(i)

LEMMA WeekOrder ==
  ASSUME NEW j \in Nat, NEW k \in Nat
  PROVE  /\ Week(j) < Week(k) => j < k
         /\ j <= k => Week(j) <= Week(k)
<1> DEFINE p == j \div WeekLen
           q == k \div WeekLen
<1>1. WeekLen \in Nat \ {0}
  BY SamplesAssumption
<1>2. /\ p \in Nat /\ q \in Nat
      /\ WeekLen * p <= j /\ j < WeekLen * p + WeekLen
      /\ WeekLen * q <= k /\ k < WeekLen * q + WeekLen
  BY <1>1
<1>3. Week(j) = p /\ Week(k) = q
  BY DEF Week
<1> HIDE DEF p, q
<1>4. ASSUME q < p PROVE k < j
  <2>1. WeekLen * (q + 1) <= WeekLen * p
    BY <1>1, <1>2, <1>4
  <2>2. WeekLen * (q + 1) = WeekLen * q + WeekLen
    BY <1>1, <1>2
  <2> QED
    BY <1>1, <1>2, <2>1, <2>2
<1>5. ASSUME p < q PROVE j < k
  <2>1. WeekLen * (p + 1) <= WeekLen * q
    BY <1>1, <1>2, <1>5
  <2>2. WeekLen * (p + 1) = WeekLen * p + WeekLen
    BY <1>1, <1>2
  <2> QED
    BY <1>1, <1>2, <2>1, <2>2
<1> QED
  BY <1>2, <1>3, <1>4, <1>5

LEMMA OldestStep ==
  ASSUME ProcessInv, OldestInv, MonitorNext
  PROVE  OldestInv'
<1> USE DEF storeVars, disk, job, OldestInv
<1>1. /\ IsTable(db) /\ IsTable(db)' /\ cursor \in Nat
      /\ phase \notin {"init", "archive"} => step = "idle"
  BY ProcessStep DEF ProcessInv, JobInv, MonitorTypeOK, StoreTypeOK
<1>2. \A k \in DOMAIN db : k \in Nat /\ Week(k) \in Nat
  BY <1>1, WeekNat DEF IsTable, Row
<1>3. CASE step' = "idle"
  BY <1>3
<1>4. CASE UNCHANGED <<db, cursor>> /\ step # "idle"
  BY <1>4
<1>5. CASE ArchiveBegin
  <2>1. PICK oldest \in DOMAIN db : (\A k \in DOMAIN db : oldest <= k) /\ cursor' = Week(oldest)
    BY <1>5 DEF ArchiveBegin, ArchiveStart
  <2>2. db' = db
    BY <1>5 DEF ArchiveBegin, ArchiveStart
  <2> QED
    BY <1>2, <2>1, <2>2, WeekOrder
<1>6. CASE DeleteWeek
  <2>1. /\ cursor' = cursor + 1 /\ step # "idle"
        /\ DOMAIN db' = {k \in DOMAIN db : Week(k) # cursor}
    <3>1. DOMAIN RowsIn(db, {k \in DOMAIN db : Week(k) # cursor})
            = {k \in DOMAIN db : Week(k) # cursor}
      BY DEF RowsIn
    <3> QED
      BY <1>6, <3>1 DEF DeleteWeek, ArchiveDelete
  <2> QED
    BY <1>1, <1>2, <2>1
<1>7. CASE MonitorNext /\ ~ArchiveBegin /\ ~DeleteWeek
  <2>1. step' = "idle" \/ (UNCHANGED <<db, cursor>> /\ step # "idle")
    BY <1>1, <1>7 DEF MonitorNext, RunStep, Tick, Boot, BootFails, PreparePersistence, Signal,
       Crash, Exit, Collect, FlushBegin, FinalFlush, TakeBatch, StopIdle, FlushCommit, AddBatch,
       FlushFail, SkipWeek, ArchiveSkip, QueryWeek, ArchiveQuery, RenameWeek, ArchiveRename,
       ArchiveEnd, ArchiveNothing, ArchiveReturn, ArchiveError, NoJob, InArchive
  <2> QED
    BY <1>3, <1>4, <2>1
<1> QED
  BY <1>5, <1>6, <1>7

(* SQLite as it is.                                                        *)
LEMMA PresentSuffix ==
  ASSUME MemoryInv, NEW i, i.db = db
  PROVE  Suffix(i)
BY DEF MemoryInv, Suffix, Stored

(* Steps that put nothing into SQLite, the archives or memory.             *)
LEMMA LessSuffix ==
  ASSUME NEW i, Suffix(i), DOMAIN db' \subseteq DOMAIN db, Archived' = Archived,
         InMemory' \subseteq InMemory, DOMAIN late \subseteq DOMAIN late'
  PROVE  Suffix(i)'
BY DEF Suffix

LEMMA SameMemory ==
  ASSUME UNCHANGED <<pending, batch>>
  PROVE  InMemory' = InMemory
BY DEF InMemory, TimesOf

LEMMA SameArchived ==
  ASSUME archive' = archive
  PROVE  Archived' = Archived
BY DEF Archived

LEMMA SuffixCommit ==
  ASSUME SuffixInv, Commit \/ Prepare, NEW i \in images
  PROVE  Suffix(i)'
<1>0. /\ Suffix(i) /\ MonitorTypeOK /\ StoreTypeOK /\ MemoryInv
      /\ batch \in Seq(Sample)
  BY DEF SuffixInv, DurableInv, ProcessInv, MonitorTypeOK
<1>1. CASE Prepare
  <2>1. PICK n \in Intervals : PreparePersistence(n)
    BY <1>1 DEF Prepare, Boot, BootFails
  <2>2. DOMAIN db' \subseteq DOMAIN db /\ archive' = archive
    BY <1>0, <2>1, PrepareShape DEF PreparePersistence
  <2>3. UNCHANGED <<late, pending, batch>>
    BY <1>1 DEF Prepare, Boot, BootFails, memory, ghosts
  <2> QED
    BY <1>0, <2>2, <2>3, LessSuffix, SameMemory, SameArchived
<1>2. CASE DeleteWeek
  <2>1. UNCHANGED <<archive, late, pending, batch>> /\ DOMAIN db' \subseteq DOMAIN db
    BY <1>2 DEF DeleteWeek, InArchive, ArchiveDelete, outside, memory, ghosts, RowsIn
  <2> QED
    BY <1>0, <2>1, LessSuffix, SameMemory, SameArchived
<1>3. CASE ArchiveEnd
  <2>1. UNCHANGED <<db, archive, late, pending, batch>>
    BY <1>3 DEF ArchiveEnd, ArchiveNothing, ArchiveReturn, ArchiveError, outside, storeVars,
                disk, memory, ghosts
  <2> QED
    BY <1>0, <2>1, LessSuffix, SameMemory, SameArchived
<1>4. CASE Exit
  <2>1. UNCHANGED <<db, archive, late>> /\ pending' = <<>> /\ batch' = <<>>
    BY <1>4 DEF Exit, ForgetMemory, storeVars, disk
  <2>2. InMemory' = {}
    BY <2>1 DEF InMemory, TimesOf
  <2> QED
    BY <1>0, <2>1, <2>2, LessSuffix, SameArchived
<1>5. CASE FlushCommit
  <2>1. PICK stored : stored = CompactByInterval(batch, interval)
    OBVIOUS
  <2>2. /\ IsRowSlice(stored) /\ TimesOf(stored) \subseteq InMemory
        /\ IsRowSlice(LateRows(stored))
    BY <1>0, <2>1, FlushRows DEF InMemory
  <2>3. AddBatch(stored) /\ late' = Upsert(late, LateRows(stored))
        /\ pending = <<>> /\ pending' = <<>> /\ batch' = <<>>
    BY <1>0, <1>5, <2>1 DEF FlushCommit, MemoryInv
  <2>4. DOMAIN db' = DOMAIN db \cup TimesOf(stored) /\ archive' = archive
    BY <1>0, <2>2, <2>3, AddBatchShape DEF AddBatch
  <2>5. DOMAIN late \subseteq DOMAIN late'
    BY <1>0, <2>2, <2>3, UpsertAdds DEF MonitorTypeOK
  <2>6. InMemory' = {}
    BY <2>3 DEF InMemory, TimesOf
  <2>7. \A k \in TimesOf(stored) : \A j \in DOMAIN i.db \cup Archived : j < k
    BY <1>0, <2>2 DEF Suffix, MemoryInv, Stored
  <2> QED
    BY <1>0, <2>4, <2>5, <2>6, <2>7, SameArchived DEF Suffix
<1> QED
  BY <1>1, <1>2, <1>3, <1>4, <1>5 DEF Commit

(* The file that is new has the oldest week that SQLite still has.         *)
LEMMA SuffixRename ==
  ASSUME SuffixInv, SyncAndRename, NEW i \in images
  PROVE  Suffix(i)'
<1>0. /\ Suffix(i) /\ StoreTypeOK /\ JobInv /\ OldestInv /\ IsTable(db) /\ cursor \in Nat
  BY DEF SuffixInv, DurableInv, ProcessInv, MonitorTypeOK, StoreTypeOK
<1>1. /\ UNCHANGED <<db, late, pending, batch>> /\ step = "write"
      /\ points = WeekRows(cursor) /\ cursor \notin DOMAIN archive
      /\ archive' = [w \in DOMAIN archive \cup {cursor} |->
                       IF w = cursor THEN points ELSE archive[w]]
  BY <1>0 DEF SyncAndRename, RenameWeek, InArchive, ArchiveRename, outside, ghosts, memory, JobInv
<1>2. DOMAIN points = {k \in DOMAIN db : Week(k) = cursor}
  BY <1>0, <1>1, WeekRowsTable
<1>3. Archived' = Archived \cup DOMAIN points
  BY <1>1 DEF Archived
<1>4. ASSUME NEW k \in DOMAIN db \ DOMAIN points, NEW j \in DOMAIN points
      PROVE  j < k
  <2>1. j \in Nat /\ k \in Nat /\ Week(j) = cursor /\ Week(k) # cursor /\ cursor <= Week(k)
    BY <1>0, <1>1, <1>2 DEF OldestInv, IsTable, Row
  <2>2. Week(j) < Week(k)
    BY <1>0, <2>1, WeekNat
  <2> QED
    BY <2>1, <2>2, WeekOrder
<1> QED
  BY <1>0, <1>1, <1>3, <1>4, SameMemory DEF Suffix

LEMMA SuffixElse ==
  ASSUME SuffixInv, WriteFile \/ ElseInMonitor, NEW i \in images
  PROVE  Suffix(i)'
<1>0. /\ Suffix(i) /\ MonitorTypeOK /\ MemoryInv /\ IsImage(i) /\ last \in Nat /\ now \in Nat
      /\ pending \in Seq(Sample) /\ batch \in Seq(Sample)
  BY DEF SuffixInv, DurableInv, ImagesInv, ProcessInv, MonitorTypeOK
<1>1. UNCHANGED <<db, archive, late>>
  BY DEF WriteFile, ElseInMonitor, QueryWeek, InArchive, ArchiveQuery, outside,
         Tick, Signal, Crash, Collect, FlushBegin, FinalFlush, TakeBatch, StopIdle, FlushFail,
         ArchiveBegin, ArchiveStart, SkipWeek, ArchiveSkip, storeVars, disk, ghosts
<1>2. CASE Collect
  <2>1. PICK v \in Levels : pending' = Append(pending, [t |-> now, v |-> v])
    BY <1>2 DEF Collect
  <2>2. last < now /\ batch' = batch
    BY <1>2 DEF Collect
  <2>3. /\ DOMAIN pending' = DOMAIN pending \cup {Len(pending) + 1}
        /\ \A n \in DOMAIN pending : pending'[n] = pending[n] /\ n # Len(pending) + 1
        /\ pending'[Len(pending) + 1].t = now
    BY <1>0, <2>1
  <2>4. TimesOf(pending') = TimesOf(pending) \cup {now}
    BY <2>3 DEF TimesOf
  <2>5. InMemory' = InMemory \cup {now}
    BY <2>2, <2>4 DEF InMemory
  <2>6. \A k \in DOMAIN i.db : k < now
    <3>1. \A k \in DOMAIN i.db : k \in Nat /\ k <= last
      BY <1>0 DEF IsImage, IsTable, Row
    <3> QED
      BY <1>0, <2>2, <3>1
  <2> QED
    BY <1>0, <1>1, <2>5, <2>6, SameArchived DEF Suffix
<1>3. CASE ~Collect
  <2>1. InMemory' \subseteq InMemory
    <3>1. CASE Crash
      BY <3>1 DEF Crash, ForgetMemory, InMemory, TimesOf
    <3>2. CASE FlushBegin \/ FinalFlush
      BY <3>2 DEF FlushBegin, FinalFlush, TakeBatch, InMemory, TimesOf
    <3>3. CASE FlushFail
      <4>1. pending = <<>> /\ pending' = batch \o pending /\ batch' = <<>>
        BY <1>0, <3>3 DEF FlushFail, MemoryInv
      <4>2. pending' = batch
        BY <1>0, <4>1
      <4> QED
        BY <4>1, <4>2 DEF InMemory, TimesOf
    <3>4. CASE QueryWeek \/ Tick \/ Signal \/ StopIdle \/ ArchiveBegin \/ SkipWeek
      <4>1. UNCHANGED <<pending, batch>>
        BY <3>4 DEF QueryWeek, Tick, Signal, StopIdle, ArchiveBegin, SkipWeek, InArchive,
                    outside, memory
      <4> QED
        BY <4>1, SameMemory
    <3> QED
      BY <1>3, <3>1, <3>2, <3>3, <3>4 DEF WriteFile, ElseInMonitor
  <2> QED
    BY <1>0, <1>1, <2>1, LessSuffix, SameArchived
<1> QED
  BY <1>2, <1>3

LEMMA SuffixStep ==
  ASSUME SuffixInv, [DurabilityNext]_durabilityVars
  PROVE  SuffixInv'
<1>1. DurableInv' /\ MemoryInv' /\ ProcessInv
  BY DurableStep DEF SuffixInv, DurableInv, ProcessInv
<1>2. \A i : i.db = db' => Suffix(i)'
  <2> SUFFICES ASSUME NEW i, i.db = db' PROVE Suffix(i)'
    OBVIOUS
  <2> QED
    BY <1>1 DEF MemoryInv, Suffix, Stored
<1>3. ASSUME images' \subseteq images \cup {Image(db', meta')}, \A i \in images : Suffix(i)'
      PROVE  \A i \in images' : Suffix(i)'
  BY <1>2, <1>3, ImageFields
<1>4. CASE Prepare \/ Commit \/ SyncAndRename
  <2>1. MonitorNext /\ images' \subseteq images \cup {Image(db', meta')}
    BY <1>4 DEF Prepare, Commit, SyncAndRename, Checkpoint, NoCheckpoint, MonitorNext, RunStep
  <2>2. \A i \in images : Suffix(i)'
    BY <1>4, SuffixCommit, SuffixRename
  <2> QED
    BY <1>1, <1>3, <2>1, <2>2, OldestStep DEF SuffixInv
<1>5. CASE WriteFile \/ ElseInMonitor
  <2>1. MonitorNext /\ images' = images
    BY <1>5 DEF WriteFile, ElseInMonitor, MonitorNext, RunStep
  <2> QED
    BY <1>1, <1>5, <2>1, SuffixElse, OldestStep DEF SuffixInv
<1>6. CASE PowerLoss
  <2>1. images' = {Image(db', meta')} /\ step' = "idle"
    BY <1>6 DEF PowerLoss, NoJob
  <2> QED
    BY <1>1, <1>2, <2>1, ImageFields DEF SuffixInv, OldestInv
<1>7. CASE UNCHANGED durabilityVars
  <2>1. UNCHANGED <<db, archive, step, cursor, late, pending, batch, images>>
    BY <1>7 DEF durabilityVars, monitorVars, storeVars, disk, job, memory, ghosts
  <2>2. \A i \in images : Suffix(i)'
    BY <2>1, LessSuffix, SameMemory, SameArchived DEF SuffixInv
  <2> QED
    BY <1>1, <2>1, <2>2 DEF SuffixInv, OldestInv
<1> QED
  BY <1>4, <1>5, <1>6, <1>7 DEF DurabilityNext

LEMMA SuffixInit == DurabilityInit => SuffixInv
<1> SUFFICES ASSUME DurabilityInit PROVE SuffixInv
  OBVIOUS
<1>1. DurableInv /\ MemoryInv
  BY DurableInit DEF DurableInv, ProcessInv
<1>2. \A i \in images : i.db = db
  BY ImageFields DEF DurabilityInit
<1>3. step = "idle"
  BY DEF DurabilityInit, MonitorInit, StoreInit
<1> QED
  BY <1>1, <1>2, <1>3, PresentSuffix DEF SuffixInv, OldestInv

(* PowerLossLeavesNoHole: no sample a power loss takes is older than one   *)
(* it leaves.                                                              *)
THEOREM PowerLossTakesNewest == DurabilitySpec => PowerLossLeavesNoHole
<1>1. ASSUME SuffixInv, PowerLoss
      PROVE  \A k \in Stored \ (Stored' \cup DOMAIN late) : \A j \in Stored' : j < k
  <2>1. PICK i \in images, emptied \in SUBSET cached :
          /\ db' = i.db
          /\ archive' = [w \in DOMAIN archive |-> IF w \in emptied THEN NoRows ELSE archive[w]]
    BY <1>1 DEF PowerLoss
  <2>2. DOMAIN archive' = DOMAIN archive /\ \A w \in DOMAIN archive : archive'[w] = archive[w]
    BY <1>1, <2>1 DEF SuffixInv, DurableInv, FilesInv
  <2>3. Archived' = Archived
    BY <2>2 DEF Archived
  <2>4. Stored' = DOMAIN i.db \cup Archived
    BY <2>1, <2>3 DEF Stored
  <2>5. Suffix(i)
    BY <1>1 DEF SuffixInv
  <2> QED
    BY <2>4, <2>5 DEF Suffix, Stored
<1>2. SuffixInv =>
        [PowerLoss => \A k \in Stored \ (Stored' \cup DOMAIN late) : \A j \in Stored' : j < k]_durabilityVars
  BY <1>1
<1>3. SuffixInv /\ [DurabilityNext]_durabilityVars => SuffixInv'
  BY SuffixStep
<1> QED
  BY <1>2, <1>3, SuffixInit, PTL DEF DurabilitySpec, PowerLossLeavesNoHole
=============================================================================
