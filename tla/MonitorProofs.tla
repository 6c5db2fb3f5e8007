--------------------------- MODULE MonitorProofs ---------------------------
(***************************************************************************)
(* Theorems about Monitor, for every value of its constants.               *)
(*                                                                         *)
(* The inductive invariant, IInv of Monitor, has four parts: the types;    *)
(* the order of memory and store (MemoryInv); what the running archive     *)
(* call knows (JobInv); and ArchiveCoversRows.  On it rests that Monitor   *)
(* implements SampleFate.                                                  *)
(***************************************************************************)
EXTENDS Monitor, SamplesProofs

-----------------------------------------------------------------------------
(* Facts about tables and batches.                                         *)
LEMMA SubTable ==
  ASSUME NEW f, NEW T, IsTable(f)
  PROVE  /\ IsTable(RowsIn(f, T))
         /\ DOMAIN RowsIn(f, T) = DOMAIN f \cap T
         /\ \A k \in DOMAIN RowsIn(f, T) : RowsIn(f, T)[k] = f[k]
<1>1. IsFiniteSet(DOMAIN f \cap T)
  BY FS_Subset DEF IsTable
<1> QED
  BY <1>1 DEF IsTable, RowsIn

LEMMA SampleFields == \A s \in Sample : s.t \in Nat /\ s.v \in Int
BY DEF Sample

LEMMA BatchIsSlice ==
  ASSUME NEW samples \in Seq(Sample)
  PROVE  IsSlice(samples)
<1>1. DOMAIN samples = 1..Len(samples) /\ Len(samples) \in Nat
  OBVIOUS
<1>2. IsFiniteSet(1..Len(samples))
  BY <1>1, FS_Interval
<1>3. \A i \in DOMAIN samples : samples[i].t \in Nat /\ samples[i].v \in Int
  <2>1. \A i \in DOMAIN samples : samples[i] \in Sample
    OBVIOUS
  <2> QED
    BY <2>1, SampleFields
<1> QED
  BY <1>1, <1>2, <1>3 DEF IsSlice

LEMMA TableTimes ==
  ASSUME NEW f, IsTable(f)
  PROVE  TimesOf(f) = DOMAIN f
BY DEF IsTable, TimesOf

-----------------------------------------------------------------------------
(* Type correctness of the store's operations.                             *)
LEMMA PrepareShape ==
  ASSUME StoreTypeOK, NEW i \in Intervals, PreparePersistence(i)
  PROVE  /\ StoreTypeOK'
         /\ DOMAIN db' \subseteq DOMAIN db
         /\ \A k \in DOMAIN db' : db'[k].v = db[k].v
<1>1. i \in Nat
  BY MonitorAssumption
<1>2. CASE meta >= i
  BY <1>2 DEF PreparePersistence, StoreTypeOK, job
<1>3. CASE ~(meta >= i)
  <2>1. /\ db' = Upsert(NoRows, CompactByInterval(db, i))
        /\ meta' = i
        /\ UNCHANGED <<archive, tmp, job>>
    BY <1>3 DEF PreparePersistence
  <2>2. IsTable(db)
    BY DEF StoreTypeOK
  <2>3. /\ IsTable(db')
        /\ DOMAIN db' \subseteq DOMAIN db
        /\ \A k \in DOMAIN db' : db'[k].v = db[k].v
    BY <2>1, <2>2, CompactedTable
  <2> QED
    BY <1>1, <2>1, <2>3 DEF StoreTypeOK, job
<1> QED
  BY <1>2, <1>3

LEMMA AddBatchShape ==
  ASSUME StoreTypeOK, NEW rows, IsRowSlice(rows),
         AddBatch(rows)
  PROVE  /\ StoreTypeOK'
         /\ DOMAIN db' = DOMAIN db \cup TimesOf(rows)
         /\ \A k \in DOMAIN db \ TimesOf(rows) : db'[k] = db[k]
<1>1. db' = Upsert(db, rows) /\ UNCHANGED <<meta, archive, tmp, job>>
  BY DEF AddBatch
<1> QED
  BY <1>1, UpsertAdds DEF StoreTypeOK, job

(* The steps of ArchiveCompletedWeeks keep the types of the store.         *)
ArchiveAny ==
  \/ ArchiveNothing \/ ArchiveStart(now) \/ ArchiveReturn \/ ArchiveError
  \/ ArchiveSkip \/ ArchiveQuery \/ ArchiveRename \/ ArchiveDelete

LEMMA WeekRowsTable ==
  ASSUME IsTable(db), NEW w
  PROVE  /\ IsTable(WeekRows(w))
         /\ DOMAIN WeekRows(w) = {k \in DOMAIN db : Week(k) = w}
         /\ \A k \in DOMAIN WeekRows(w) : WeekRows(w)[k] = db[k]
<1> DEFINE T == {k \in DOMAIN db : Week(k) = w}
<1>1. /\ IsTable(RowsIn(db, T))
      /\ DOMAIN RowsIn(db, T) = DOMAIN db \cap T
      /\ \A k \in DOMAIN RowsIn(db, T) : RowsIn(db, T)[k] = db[k]
  BY SubTable
<1> QED
  BY <1>1 DEF WeekRows

LEMMA ArchiveTypes ==
  ASSUME StoreTypeOK, now \in Nat, ArchiveAny
  PROVE  StoreTypeOK'
<1> USE DEF StoreTypeOK, disk, job, storeVars
<1>1. CASE ArchiveNothing
  BY <1>1 DEF ArchiveNothing
<1>2. CASE ArchiveStart(now)
  <2>1. \A k \in DOMAIN db : k \in Nat
    BY DEF IsTable, Row
  <2> QED
    BY <1>2, <2>1, WeekNat DEF ArchiveStart
<1>3. CASE ArchiveReturn
  BY <1>3, EmptyTable DEF ArchiveReturn, NoJob
<1>4. CASE ArchiveError
  BY <1>4, EmptyTable DEF ArchiveError, NoJob
<1>5. CASE ArchiveSkip
  BY <1>5 DEF ArchiveSkip
<1>6. CASE ArchiveQuery
  BY <1>6, WeekRowsTable DEF ArchiveQuery
<1>7. CASE ArchiveRename
  BY <1>7, EmptyTable DEF ArchiveRename
<1>8. CASE ArchiveDelete
  <2>1. IsTable(db')
    BY <1>8, SubTable DEF ArchiveDelete
  <2> QED
    BY <1>8, <2>1 DEF ArchiveDelete
<1> QED
  BY <1>1, <1>2, <1>3, <1>4, <1>5, <1>6, <1>7, <1>8 DEF ArchiveAny

LEMMA StoreFrame ==
  ASSUME StoreTypeOK, UNCHANGED storeVars
  PROVE  StoreTypeOK'
BY DEF StoreTypeOK, storeVars, disk, job

LEMMA CrashTypes ==
  ASSUME StoreTypeOK, UNCHANGED disk, NoJob
  PROVE  StoreTypeOK'
BY EmptyTable DEF StoreTypeOK, disk, NoJob

LEMMA TimesNat ==
  ASSUME NEW samples \in Seq(Sample)
  PROVE  TimesOf(samples) \subseteq Nat
<1>1. \A i \in DOMAIN samples : samples[i] \in Sample
  OBVIOUS
<1> QED
  BY <1>1, SampleFields DEF TimesOf

(* What a flush hands to AddBatch, and the late part of it.                *)
LEMMA FlushRows ==
  ASSUME batch \in Seq(Sample)
  PROVE  LET stored == CompactByInterval(batch, interval)
         IN  /\ IsRowSlice(stored) /\ IsRowSlice(LateRows(stored))
             /\ TimesOf(stored) \subseteq TimesOf(batch)
             /\ TimesOf(LateRows(stored))
                  = {k \in TimesOf(stored) : Week(k) \in DOMAIN archive}
<1>1. IsSlice(batch)
  BY BatchIsSlice
<1>2. PICK stored : stored = CompactByInterval(batch, interval)
  OBVIOUS
<1>3. /\ IsRowSlice(stored) /\ DOMAIN stored \subseteq DOMAIN batch
      /\ \A i \in DOMAIN stored : stored[i].t = batch[i].t
  BY <1>1, <1>2, CompactKeepsSome
<1>4. TimesOf(stored) \subseteq TimesOf(batch)
  BY <1>3 DEF TimesOf
<1>5. PICK rows : rows = LateRows(stored)
  OBVIOUS
<1>6. /\ DOMAIN rows = {j \in DOMAIN stored : Week(stored[j].t) \in DOMAIN archive}
      /\ \A i \in DOMAIN rows : rows[i] = stored[i]
  BY <1>5 DEF LateRows
<1>7. IsFiniteSet(DOMAIN rows)
  BY <1>3, <1>6, FS_Subset DEF IsRowSlice, IsSlice
<1>8. IsRowSlice(rows)
  BY <1>3, <1>6, <1>7 DEF IsRowSlice, IsSlice
<1>9. TimesOf(rows) = {k \in TimesOf(stored) : Week(k) \in DOMAIN archive}
  BY <1>6 DEF TimesOf
<1> QED
  BY <1>2, <1>3, <1>4, <1>5, <1>8, <1>9

(* Every step but the ones named here keeps the type of everything it      *)
(* touches by inspection.                                                  *)
LEMMA TypeStep ==
  ASSUME MonitorTypeOK, MonitorNext
  PROVE  MonitorTypeOK'
<1> USE DEF MonitorTypeOK, storeVars, clock, process, memory, ghosts
<1>1. CASE Tick
  BY <1>1, StoreFrame DEF Tick
<1>2. CASE Boot
  <2>1. PICK i \in Intervals : PreparePersistence(i) /\ interval' = i
    BY <1>2 DEF Boot
  <2>2. StoreTypeOK' /\ i \in Nat
    BY <2>1, PrepareShape, MonitorAssumption
  <2> QED
    BY <1>2, <2>1, <2>2 DEF Boot
<1>3. CASE BootFails
  <2>1. StoreTypeOK'
    BY <1>3, PrepareShape DEF BootFails
  <2> QED
    BY <1>3, <2>1 DEF BootFails
<1>4. CASE Signal
  BY <1>4, StoreFrame DEF Signal
<1>5. CASE Crash
  <2>1. StoreTypeOK'
    BY <1>5, CrashTypes DEF Crash
  <2>2. InMemory \subseteq Nat
    BY TimesNat DEF InMemory
  <2>3. /\ current' = <<>> /\ pending' = <<>> /\ batch' = <<>>
        /\ subscribers' = NoRows /\ lost' = lost \cup InMemory
        /\ cancelled' = FALSE /\ interval' = 0 /\ phase' = "down"
    BY <1>5 DEF Crash, ForgetMemory
  <2>4. UNCHANGED <<clock, taken, late>>
    BY <1>5 DEF Crash
  <2>5. IsTable(late')
    BY <2>4
  <2>6. /\ current' \in Seq(Sample) /\ Len(current') <= 1
        /\ pending' \in Seq(Sample) /\ batch' \in Seq(Sample)
    BY <2>3
  <2>7. DOMAIN subscribers' = {}
    BY <2>3, EmptyTable
  <2>8. lost' \subseteq Nat
    BY <2>2, <2>3
  <2> QED
    BY <2>1, <2>3, <2>4, <2>5, <2>6, <2>7, <2>8
<1>6. CASE Exit
  <2>1. StoreTypeOK'
    BY <1>6, StoreFrame DEF Exit
  <2>2. InMemory \subseteq Nat
    BY TimesNat DEF InMemory
  <2>3. /\ current' = <<>> /\ pending' = <<>> /\ batch' = <<>>
        /\ subscribers' = NoRows /\ lost' = lost \cup InMemory
        /\ cancelled' = FALSE /\ interval' = 0 /\ phase' = "down"
    BY <1>6 DEF Exit, ForgetMemory
  <2>4. UNCHANGED <<clock, taken, late>>
    BY <1>6 DEF Exit
  <2>5. IsTable(late')
    BY <2>4
  <2>6. /\ current' \in Seq(Sample) /\ Len(current') <= 1
        /\ pending' \in Seq(Sample) /\ batch' \in Seq(Sample)
    BY <2>3
  <2>7. DOMAIN subscribers' = {}
    BY <2>3, EmptyTable
  <2>8. lost' \subseteq Nat
    BY <2>2, <2>3
  <2> QED
    BY <2>1, <2>3, <2>4, <2>5, <2>6, <2>7, <2>8
<1>7. CASE Collect
  <2>1. StoreTypeOK' /\ IsTable(late')
    BY <1>7, StoreFrame DEF Collect
  <2>2. PICK v \in Levels :
          /\ current' = <<[t |-> now, v |-> v]>>
          /\ pending' = Append(pending, [t |-> now, v |-> v])
          /\ taken' = [k \in DOMAIN taken \cup {now} |-> IF k = now THEN v ELSE taken[k]]
    BY <1>7 DEF Collect
  <2>3. v \in Int /\ [t |-> now, v |-> v] \in Sample
    BY MonitorAssumption DEF Sample
  <2>4. /\ current' \in Seq(Sample) /\ Len(current') <= 1
        /\ pending' \in Seq(Sample)
        /\ DOMAIN taken' \subseteq Nat /\ \A k \in DOMAIN taken' : taken'[k] \in Int
    BY <2>2, <2>3
  <2>5. \A c \in DOMAIN subscribers' :
          subscribers'[c] \in Seq(Nat) /\ Len(subscribers'[c]) <= BufferCap
    <3> SUFFICES ASSUME NEW c \in DOMAIN subscribers
                 PROVE  /\ Offer(subscribers[c], now) \in Seq(Nat)
                        /\ Len(Offer(subscribers[c], now)) <= BufferCap
      BY <1>7 DEF Collect
    <3> QED
      BY MonitorAssumption DEF Offer
  <2> QED
    BY <1>7, <2>1, <2>4, <2>5 DEF Collect
<1>8. CASE FlushBegin \/ FinalFlush
  <2>1. StoreTypeOK'
    BY <1>8, StoreFrame DEF FlushBegin, FinalFlush, TakeBatch
  <2>2. /\ batch' = pending /\ pending' = <<>> /\ phase' \in {"flush", "final"}
        /\ UNCHANGED <<clock, cancelled, interval, current, subscribers, ghosts>>
    BY <1>8 DEF FlushBegin, FinalFlush, TakeBatch
  <2>3. IsTable(late')
    BY <2>2
  <2> QED
    BY <2>1, <2>2, <2>3
<1>9. CASE StopIdle
  BY <1>9, StoreFrame DEF StopIdle
<1>10. CASE FlushCommit
  <2>1. PICK stored : stored = CompactByInterval(batch, interval)
    OBVIOUS
  <2>2. IsRowSlice(stored) /\ IsRowSlice(LateRows(stored))
    BY <2>1, FlushRows
  <2>3. AddBatch(stored) /\ late' = Upsert(late, LateRows(stored))
    BY <1>10, <2>1 DEF FlushCommit
  <2>4. StoreTypeOK'
    BY <2>2, <2>3, AddBatchShape
  <2>5. IsTable(late')
    BY <2>2, <2>3, UpsertAdds
  <2> QED
    BY <1>10, <2>4, <2>5 DEF FlushCommit, AfterFlush
<1>11. CASE FlushFail
  <2>1. StoreTypeOK'
    BY <1>11, StoreFrame DEF FlushFail
  <2> QED
    BY <1>11, <2>1 DEF FlushFail, AfterFlush
<1>12. CASE ArchiveBegin \/ SkipWeek \/ QueryWeek \/ RenameWeek \/ DeleteWeek \/ ArchiveEnd
  <2>1. ArchiveAny /\ UNCHANGED outside
    BY <1>12 DEF ArchiveAny, ArchiveBegin, SkipWeek, QueryWeek, RenameWeek, DeleteWeek,
                 InArchive, ArchiveEnd
  <2>2. StoreTypeOK'
    BY <2>1, ArchiveTypes
  <2>3. phase' \in {"init", "first", "select", "archive"}
    BY <1>12 DEF ArchiveBegin, SkipWeek, QueryWeek, RenameWeek, DeleteWeek,
                 InArchive, ArchiveEnd
  <2> QED
    BY <2>1, <2>2, <2>3 DEF outside
<1> QED
  BY <1>1, <1>2, <1>3, <1>4, <1>5, <1>6, <1>7, <1>8, <1>9, <1>10, <1>11, <1>12
     DEF MonitorNext, RunStep

-----------------------------------------------------------------------------
(* The order of memory and store.                                          *)
LEMMA ArchiveStored ==
  ASSUME StoreTypeOK, JobInv, ArchiveAny
  PROVE  Stored' \subseteq Stored
<1> USE DEF Stored, Archived, disk, job, storeVars
<1>1. CASE ArchiveNothing \/ ArchiveStart(now) \/ ArchiveReturn \/ ArchiveError
            \/ ArchiveSkip \/ ArchiveQuery
  BY <1>1 DEF ArchiveNothing, ArchiveStart, ArchiveReturn, ArchiveError, ArchiveSkip,
              ArchiveQuery
<1>2. CASE ArchiveRename
  <2>1. DOMAIN points \subseteq DOMAIN db
    BY <1>2, WeekRowsTable DEF JobInv, ArchiveRename, StoreTypeOK
  <2>2. \A w \in DOMAIN archive' :
          archive'[w] = points \/ (w \in DOMAIN archive /\ archive'[w] = archive[w])
    BY <1>2 DEF ArchiveRename
  <2> QED
    BY <1>2, <2>1, <2>2 DEF ArchiveRename
<1>3. CASE ArchiveDelete
  <2>1. DOMAIN db' \subseteq DOMAIN db /\ archive' = archive
    BY <1>3, SubTable DEF ArchiveDelete, StoreTypeOK
  <2> QED
    BY <2>1
<1> QED
  BY <1>1, <1>2, <1>3 DEF ArchiveAny

LEMMA StoredNat ==
  ASSUME StoreTypeOK
  PROVE  Stored \subseteq Nat
<1>1. \A f : IsTable(f) => DOMAIN f \subseteq Nat
  BY DEF IsTable, Row
<1> QED
  BY <1>1 DEF Stored, Archived, StoreTypeOK

(* What collect adds to memory.                                            *)
LEMMA CollectTakes ==
  ASSUME MonitorTypeOK, Collect
  PROVE  /\ DOMAIN pending = 1..Len(pending) /\ Len(pending) \in Nat
         /\ DOMAIN pending' = DOMAIN pending \cup {Len(pending) + 1}
         /\ \A i \in DOMAIN pending : pending'[i] = pending[i] /\ i # Len(pending) + 1
         /\ pending'[Len(pending) + 1].t = now
         /\ InMemory' = InMemory \cup {now}
         /\ DOMAIN taken' = DOMAIN taken \cup {now}
<1>1. PICK v \in Levels :
        /\ pending' = Append(pending, [t |-> now, v |-> v])
        /\ DOMAIN taken' = DOMAIN taken \cup {now}
  BY DEF Collect
<1>2. batch' = batch /\ pending \in Seq(Sample)
  BY DEF Collect, MonitorTypeOK
<1>3. /\ DOMAIN pending = 1..Len(pending) /\ Len(pending) \in Nat
      /\ DOMAIN pending' = DOMAIN pending \cup {Len(pending) + 1}
      /\ \A i \in DOMAIN pending : pending'[i] = pending[i] /\ i # Len(pending) + 1
      /\ pending'[Len(pending) + 1].t = now
  BY <1>1, <1>2
<1>4. TimesOf(pending') = TimesOf(pending) \cup {now}
  BY <1>3 DEF TimesOf
<1> QED
  BY <1>1, <1>2, <1>3, <1>4 DEF InMemory

LEMMA MemoryStep ==
  ASSUME MonitorTypeOK, MemoryInv, JobInv, MonitorNext
  PROVE  MemoryInv'
<1> USE DEF storeVars, clock, process, memory, ghosts
<1>0. /\ MonitorTypeOK /\ StoreTypeOK /\ MemoryInv /\ JobInv
      /\ pending \in Seq(Sample) /\ batch \in Seq(Sample)
      /\ last \in Nat /\ now \in Nat
  BY DEF MonitorTypeOK
(* Most steps leave the memory alone and put nothing into the store.       *)
<1>1. ASSUME Stored' \subseteq Stored, UNCHANGED <<last, pending, batch>>,
             phase' \notin {"flush", "final"} => batch = <<>>,
             phase' \in {"flush", "final", "down"} => pending = <<>>
      PROVE  MemoryInv'
  BY <1>0, <1>1 DEF MemoryInv, InMemory, TimesOf, InOrder
<1>2. ASSUME UNCHANGED storeVars PROVE Stored' = Stored
  BY <1>2 DEF Stored, Archived, disk
<1>3. CASE Tick \/ Signal
  BY <1>0, <1>1, <1>2, <1>3 DEF Tick, Signal, MemoryInv
<1>4. CASE Boot \/ BootFails
  <2>1. PICK i \in Intervals : PreparePersistence(i)
    BY <1>4 DEF Boot, BootFails
  <2>2. DOMAIN db' \subseteq DOMAIN db /\ archive' = archive
    BY <1>0, <2>1, PrepareShape DEF PreparePersistence
  <2>3. Stored' \subseteq Stored
    BY <2>2 DEF Stored, Archived
  <2> QED
    BY <1>0, <1>1, <1>4, <2>3 DEF Boot, BootFails, MemoryInv
<1>5. CASE Crash \/ Exit
  <2>1. /\ pending' = <<>> /\ batch' = <<>> /\ last' = last
        /\ db' = db /\ archive' = archive
    BY <1>5 DEF Crash, Exit, ForgetMemory, disk
  <2>2. InMemory' = {} /\ Stored' = Stored
    BY <2>1 DEF InMemory, TimesOf, Stored, Archived
  <2> QED
    BY <1>0, <2>1, <2>2 DEF MemoryInv, InOrder
<1>6. CASE Collect
  <2>2. /\ last < now /\ last' = now /\ batch' = batch /\ batch = <<>>
        /\ phase' = "select" /\ Stored' = Stored
    BY <1>0, <1>2, <1>6 DEF Collect, MemoryInv
  <2>3. /\ DOMAIN pending' = DOMAIN pending \cup {Len(pending) + 1}
        /\ Len(pending) \in Nat /\ DOMAIN pending = 1..Len(pending)
        /\ \A i \in DOMAIN pending : pending'[i] = pending[i]
        /\ pending'[Len(pending) + 1].t = now
        /\ InMemory' = InMemory \cup {now}
    BY <1>0, <1>6, CollectTakes
  <2>6. \A i \in DOMAIN pending : pending[i].t \in Nat /\ pending[i].t <= last
    <3>1. \A i \in DOMAIN pending : pending[i].t \in InMemory
      BY DEF InMemory, TimesOf
    <3> QED
      BY <1>0, <3>1, TimesNat DEF MemoryInv, InMemory, TimesOf
  <2>7. InOrder(pending')
    BY <1>0, <2>2, <2>3, <2>6 DEF InOrder, MemoryInv
  <2>8. \A k \in Stored : k \in Nat /\ k < now
    BY <1>0, <2>2, StoredNat DEF MemoryInv
  <2>9. InMemory \subseteq Nat
    BY <1>0, TimesNat DEF InMemory
  <2>10. InOrder(batch')
    BY <1>0, <2>2 DEF MemoryInv
  <2>11. \A m \in InMemory' : m <= last' /\ \A k \in Stored' : k < m
    BY <1>0, <2>2, <2>3, <2>8, <2>9 DEF MemoryInv
  <2> QED
    BY <1>0, <2>2, <2>7, <2>8, <2>10, <2>11 DEF MemoryInv
<1>7. CASE FlushBegin \/ FinalFlush
  <2>1. /\ batch = <<>> /\ batch' = pending /\ pending' = <<>> /\ last' = last
        /\ phase' \in {"flush", "final"} /\ Stored' = Stored
    BY <1>0, <1>2, <1>7 DEF FlushBegin, FinalFlush, TakeBatch, MemoryInv
  <2>2. InMemory' = InMemory
    BY <2>1 DEF InMemory, TimesOf
  <2> QED
    BY <1>0, <2>1, <2>2 DEF MemoryInv, InOrder
<1>8. CASE StopIdle
  BY <1>0, <1>1, <1>2, <1>8 DEF StopIdle, MemoryInv
<1>9. CASE FlushCommit
  <2>1. PICK stored : stored = CompactByInterval(batch, interval)
    OBVIOUS
  <2>2. IsRowSlice(stored) /\ TimesOf(stored) \subseteq TimesOf(batch)
    BY <1>0, <2>1, FlushRows
  <2>3. AddBatch(stored)
    BY <1>9, <2>1 DEF FlushCommit
  <2>4. DOMAIN db' = DOMAIN db \cup TimesOf(stored) /\ archive' = archive
    BY <1>0, <2>2, <2>3, AddBatchShape DEF AddBatch
  <2>5. Stored' \subseteq Stored \cup InMemory
    BY <2>2, <2>4 DEF Stored, Archived, InMemory
  <2>6. /\ pending = <<>> /\ pending' = <<>> /\ batch' = <<>> /\ last' = last
        /\ phase' \in {"select", "stopped"}
    BY <1>0, <1>9 DEF FlushCommit, AfterFlush, MemoryInv
  <2>7. InMemory' = {}
    BY <2>6 DEF InMemory, TimesOf
  <2> QED
    BY <1>0, <2>5, <2>6, <2>7 DEF MemoryInv, InOrder
<1>10. CASE FlushFail
  <2>1. /\ pending = <<>> /\ batch' = <<>> /\ last' = last
        /\ phase' \in {"select", "stopped"} /\ Stored' = Stored
        /\ pending' = batch \o pending
    BY <1>0, <1>2, <1>10 DEF FlushFail, AfterFlush, MemoryInv
  <2>2. pending' = batch
    BY <1>0, <2>1
  <2>3. InMemory' = InMemory
    BY <2>1, <2>2 DEF InMemory, TimesOf
  <2> QED
    BY <1>0, <2>1, <2>2, <2>3 DEF MemoryInv, InOrder
<1>11. CASE ArchiveBegin \/ SkipWeek \/ QueryWeek \/ RenameWeek \/ DeleteWeek \/ ArchiveEnd
  <2>1. /\ ArchiveAny /\ UNCHANGED outside
        /\ phase \in {"init", "select", "archive"}
        /\ phase' \in {"init", "first", "select", "archive"}
    BY <1>11 DEF ArchiveAny, ArchiveBegin, SkipWeek, QueryWeek, RenameWeek, DeleteWeek,
                 InArchive, ArchiveEnd
  <2>2. Stored' \subseteq Stored
    BY <1>0, <2>1, ArchiveStored
  <2> QED
    BY <1>0, <1>1, <2>1, <2>2 DEF outside, MemoryInv
<1> QED
  BY <1>3, <1>4, <1>5, <1>6, <1>7, <1>8, <1>9, <1>10, <1>11 DEF MonitorNext, RunStep

-----------------------------------------------------------------------------
(* What the running archive call knows, and why its DELETE is safe.        *)
LEMMA JobStep ==
  ASSUME MonitorTypeOK, JobInv, MonitorNext
  PROVE  JobInv'
<1> USE DEF storeVars, disk, job, JobInv
<1>0. StoreTypeOK /\ JobInv
  BY DEF MonitorTypeOK
<1>1. ASSUME UNCHANGED storeVars, phase' \notin {"init", "archive"} => step = "idle"
      PROVE  JobInv'
  BY <1>0, <1>1 DEF WeekRows
<1>2. ASSUME step' = "idle"
      PROVE  JobInv'
  BY <1>2
<1>3. CASE Tick \/ Signal
  BY <1>0, <1>1, <1>3 DEF Tick, Signal, process
<1>4. CASE Boot \/ BootFails
  BY <1>0, <1>2, <1>4 DEF Boot, BootFails, PreparePersistence
<1>5. CASE Crash
  BY <1>2, <1>5 DEF Crash, NoJob
<1>6. CASE Exit \/ Collect \/ FlushBegin \/ FinalFlush \/ StopIdle \/ FlushCommit \/ FlushFail
  BY <1>0, <1>2, <1>6 DEF Exit, Collect, FlushBegin, FinalFlush, TakeBatch, StopIdle,
                          FlushCommit, FlushFail, AddBatch
<1>7. CASE ArchiveBegin
  BY <1>7 DEF ArchiveBegin, ArchiveStart
<1>8. CASE SkipWeek
  BY <1>8 DEF SkipWeek, ArchiveSkip, InArchive
<1>9. CASE QueryWeek
  <2>1. /\ db' = db /\ archive' = archive /\ cursor' = cursor /\ phase' = phase
        /\ phase \in {"init", "archive"} /\ cursor \notin DOMAIN archive
        /\ \/ step' = "delete" /\ DOMAIN WeekRows(cursor) = {}
           \/ step' = "write" /\ points' = WeekRows(cursor)
    BY <1>9 DEF QueryWeek, ArchiveQuery, InArchive
  <2>2. WeekRows(cursor)' = WeekRows(cursor)
    BY <2>1 DEF WeekRows
  <2> QED
    BY <2>1, <2>2
<1>10. CASE RenameWeek
  BY <1>10 DEF RenameWeek, ArchiveRename, InArchive
<1>11. CASE DeleteWeek
  BY <1>11 DEF DeleteWeek, ArchiveDelete, InArchive
<1>12. CASE ArchiveEnd
  BY <1>0, <1>2, <1>12 DEF ArchiveEnd, ArchiveNothing, ArchiveReturn, ArchiveError, NoJob
<1> QED
  BY <1>3, <1>4, <1>5, <1>6, <1>7, <1>8, <1>9, <1>10, <1>11, <1>12 DEF MonitorNext, RunStep

(* The rows of weeks that have a file stay covered by the file.            *)
LEMMA CoverStep ==
  ASSUME MonitorTypeOK, JobInv, ArchiveCoversRows, MonitorNext
  PROVE  ArchiveCoversRows'
<1>0. /\ MonitorTypeOK /\ StoreTypeOK /\ JobInv /\ ArchiveCoversRows
      /\ batch \in Seq(Sample) /\ IsTable(db) /\ IsTable(late)
  BY DEF MonitorTypeOK, StoreTypeOK
(* Rows may leave SQLite, or lose their neighbours, as long as the         *)
(* archives are left alone.                                                *)
<1>1. ASSUME DOMAIN db' \subseteq DOMAIN db, \A k \in DOMAIN db' : db'[k].v = db[k].v,
             archive' = archive, late' = late
      PROVE  ArchiveCoversRows'
  BY <1>0, <1>1 DEF ArchiveCoversRows
<1>2. CASE Tick \/ Signal \/ Crash \/ Exit \/ Collect \/ FlushBegin \/ FinalFlush
             \/ StopIdle \/ FlushFail
  <2>1. db' = db /\ archive' = archive /\ late' = late
    BY <1>2 DEF Tick, Signal, Crash, Exit, Collect, FlushBegin, FinalFlush, TakeBatch,
                StopIdle, FlushFail, storeVars, disk, ghosts
  <2> QED
    BY <1>1, <2>1
<1>3. CASE Boot \/ BootFails
  <2>1. PICK i \in Intervals : PreparePersistence(i)
    BY <1>3 DEF Boot, BootFails
  <2>2. archive' = archive /\ late' = late
    BY <1>3, <2>1 DEF Boot, BootFails, PreparePersistence, ghosts
  <2>3. DOMAIN db' \subseteq DOMAIN db /\ \A k \in DOMAIN db' : db'[k].v = db[k].v
    BY <1>0, <2>1, PrepareShape
  <2> QED
    BY <1>1, <2>2, <2>3
<1>4. CASE FlushCommit
  <2>1. PICK stored : stored = CompactByInterval(batch, interval)
    OBVIOUS
  <2>2. /\ IsRowSlice(stored) /\ IsRowSlice(LateRows(stored))
        /\ TimesOf(LateRows(stored)) = {k \in TimesOf(stored) : Week(k) \in DOMAIN archive}
    BY <1>0, <2>1, FlushRows
  <2>3. AddBatch(stored) /\ late' = Upsert(late, LateRows(stored))
    BY <1>4, <2>1 DEF FlushCommit
  <2>4. /\ DOMAIN db' = DOMAIN db \cup TimesOf(stored) /\ archive' = archive
        /\ \A k \in DOMAIN db \ TimesOf(stored) : db'[k] = db[k]
    BY <1>0, <2>2, <2>3, AddBatchShape DEF AddBatch
  <2>5. DOMAIN late' = DOMAIN late \cup TimesOf(LateRows(stored))
    BY <1>0, <2>2, <2>3, UpsertAdds
  <2>6. SUFFICES ASSUME NEW k \in DOMAIN db' \ DOMAIN late', Week(k) \in DOMAIN archive
                 PROVE  k \in DOMAIN archive[Week(k)] /\ archive[Week(k)][k].v = db'[k].v
    BY <2>4 DEF ArchiveCoversRows
  <2>7. k \notin TimesOf(stored) /\ k \notin DOMAIN late
    BY <2>2, <2>5, <2>6
  <2>8. k \in DOMAIN db /\ db'[k] = db[k]
    BY <2>4, <2>6, <2>7
  <2> QED
    BY <1>0, <2>6, <2>7, <2>8 DEF ArchiveCoversRows
<1>5. CASE ArchiveBegin \/ SkipWeek \/ QueryWeek \/ ArchiveEnd
  <2>1. db' = db /\ archive' = archive /\ late' = late
    BY <1>5 DEF ArchiveBegin, SkipWeek, QueryWeek, ArchiveEnd, InArchive, ArchiveNothing,
                ArchiveStart, ArchiveSkip, ArchiveQuery, ArchiveReturn, ArchiveError,
                outside, storeVars, disk, ghosts
  <2> QED
    BY <1>1, <2>1
<1>6. CASE RenameWeek
  <2>1. /\ db' = db /\ late' = late /\ points = WeekRows(cursor)
        /\ archive' = [w \in DOMAIN archive \cup {cursor} |->
                         IF w = cursor THEN points ELSE archive[w]]
    BY <1>0, <1>6 DEF RenameWeek, InArchive, ArchiveRename, outside, ghosts, JobInv
  <2>2. SUFFICES ASSUME NEW k \in DOMAIN db \ DOMAIN late, Week(k) \in DOMAIN archive'
                 PROVE  k \in DOMAIN archive'[Week(k)] /\ archive'[Week(k)][k].v = db[k].v
    BY <2>1 DEF ArchiveCoversRows
  <2>3. CASE Week(k) = cursor
    <3>1. k \in DOMAIN WeekRows(cursor) /\ WeekRows(cursor)[k] = db[k]
      BY <1>0, <2>2, <2>3, WeekRowsTable
    <3> QED
      BY <2>1, <2>2, <2>3, <3>1
  <2>4. CASE Week(k) # cursor
    BY <1>0, <2>1, <2>2, <2>4 DEF ArchiveCoversRows
  <2> QED
    BY <2>3, <2>4
<1>7. CASE DeleteWeek
  <2>1. archive' = archive /\ late' = late
    BY <1>7 DEF DeleteWeek, InArchive, ArchiveDelete, outside, ghosts
  <2>2. DOMAIN db' \subseteq DOMAIN db /\ \A k \in DOMAIN db' : db'[k] = db[k]
    BY <1>0, <1>7, SubTable DEF DeleteWeek, ArchiveDelete
  <2> QED
    BY <1>1, <2>1, <2>2
<1> QED
  BY <1>2, <1>3, <1>4, <1>5, <1>6, <1>7 DEF MonitorNext, RunStep

-----------------------------------------------------------------------------
LEMMA InitInv == MonitorInit => IInv
<1> SUFFICES ASSUME MonitorInit PROVE IInv
  OBVIOUS
<1> USE DEF MonitorInit, StoreInit
<1>1. IsTable(db)
  BY StoreAssumption
<1>2. DOMAIN archive = {} /\ Stored = DOMAIN db
  BY EmptyTable DEF Stored, Archived
<1>3. InMemory = {}
  BY DEF InMemory, TimesOf
<1>4. StoreTypeOK
  BY <1>1, <1>2, EmptyTable DEF StoreTypeOK
<1>5. DOMAIN db \subseteq Nat /\ \A k \in DOMAIN db : db[k].v \in Int
  BY <1>1 DEF IsTable, Row
<1>6. MonitorTypeOK
  <2>1. DOMAIN taken \subseteq Nat /\ \A k \in DOMAIN taken : taken[k] \in Int
    BY <1>5
  <2>2. /\ current \in Seq(Sample) /\ Len(current) <= 1
        /\ pending \in Seq(Sample) /\ batch \in Seq(Sample)
    OBVIOUS
  <2>3. DOMAIN subscribers = {} /\ IsTable(late)
    BY EmptyTable
  <2> QED
    BY <1>4, <2>1, <2>2, <2>3, MonitorAssumption DEF MonitorTypeOK
<1>7. MemoryInv
  BY <1>2, <1>3, MonitorAssumption DEF MemoryInv, InOrder
<1>8. JobInv
  BY DEF JobInv
<1>9. ArchiveCoversRows
  BY <1>2 DEF ArchiveCoversRows
<1> QED
  BY <1>6, <1>7, <1>8, <1>9 DEF IInv

LEMMA InvStep == IInv /\ [MonitorNext]_monitorVars => IInv'
<1> SUFFICES ASSUME IInv, [MonitorNext]_monitorVars PROVE IInv'
  OBVIOUS
<1>1. CASE MonitorNext
  <2>1. MonitorTypeOK'
    BY <1>1, TypeStep DEF IInv
  <2> QED
    BY <1>1, <2>1, MemoryStep, JobStep, CoverStep DEF IInv
<1>2. CASE UNCHANGED monitorVars
  <2>1. UNCHANGED <<db, meta, archive, tmp, step, cursor, cutoff, points, now, last, phase,
                    cancelled, interval, current, pending, batch, subscribers, taken, lost,
                    late>>
    BY <1>2 DEF monitorVars, storeVars, disk, job, clock, process, memory, ghosts
  <2>2. MonitorTypeOK'
    BY <2>1 DEF IInv, MonitorTypeOK, StoreTypeOK
  <2>3. MemoryInv'
    BY <2>1 DEF IInv, MemoryInv, InMemory, Stored, Archived, InOrder, TimesOf
  <2>4. JobInv'
    BY <2>1 DEF IInv, JobInv, WeekRows
  <2>5. ArchiveCoversRows'
    BY <2>1 DEF IInv, ArchiveCoversRows
  <2> QED
    BY <2>2, <2>3, <2>4, <2>5 DEF IInv
<1> QED
  BY <1>1, <1>2

(* The invariant holds in every state of every run of the service.         *)
THEOREM Invariant == MonitorSpec => []IInv
BY InitInv, InvStep, PTL DEF MonitorSpec

(* Every variable keeps its type, through crashes and restarts.            *)
THEOREM TypeCorrect == MonitorSpec => []MonitorTypeOK
<1>1. IInv => MonitorTypeOK
  BY DEF IInv
<1> QED
  BY <1>1, Invariant, PTL

(* Whatever memory holds is in order and younger than the store.           *)
THEOREM MemoryOrder == MonitorSpec => []MemoryNewerThanStore
<1>1. IInv => MemoryNewerThanStore
  <2> SUFFICES ASSUME IInv PROVE MemoryNewerThanStore
    OBVIOUS
  <2>1. MemoryInv /\ batch \in Seq(Sample) /\ pending \in Seq(Sample)
    BY DEF IInv, MonitorTypeOK
  <2>2. batch \o pending = batch \/ batch \o pending = pending
    BY <2>1 DEF MemoryInv
  <2> QED
    BY <2>1, <2>2 DEF MemoryInv, MemoryNewerThanStore
<1> QED
  BY <1>1, Invariant, PTL

(* A week's file covers the rows of that week still in SQLite.             *)
THEOREM ArchivesCover == MonitorSpec => []ArchiveCoversRows
<1>1. IInv => ArchiveCoversRows
  BY DEF IInv
<1> QED
  BY <1>1, Invariant, PTL

LEMMA StayStep ==
  ASSUME MonitorTypeOK, JobInv, ArchiveCoversRows, MonitorNext, meta' = meta
  PROVE  Stored \ DOMAIN late \subseteq Stored'
<1> USE DEF storeVars, disk, job
<1>1. StoreTypeOK /\ JobInv /\ ArchiveCoversRows /\ IsTable(db) /\ meta \in Nat
      /\ batch \in Seq(Sample)
  BY DEF MonitorTypeOK, StoreTypeOK
<1>2. ASSUME DOMAIN db \subseteq DOMAIN db', archive' = archive
      PROVE  Stored \subseteq Stored'
  BY <1>2 DEF Stored, Archived
<1>3. CASE Tick \/ Signal \/ Crash \/ Exit \/ Collect \/ FlushBegin \/ FinalFlush
             \/ StopIdle \/ FlushFail \/ ArchiveBegin \/ SkipWeek \/ QueryWeek \/ ArchiveEnd
  <2>1. db' = db /\ archive' = archive
    BY <1>3 DEF Tick, Signal, Crash, Exit, Collect, FlushBegin, FinalFlush, TakeBatch,
                StopIdle, FlushFail, ArchiveBegin, SkipWeek, QueryWeek, ArchiveEnd,
                InArchive, ArchiveNothing, ArchiveStart, ArchiveSkip, ArchiveQuery,
                ArchiveReturn, ArchiveError
  <2> QED
    BY <1>2, <2>1
<1>4. CASE Boot \/ BootFails
  <2>1. PICK i \in Intervals : PreparePersistence(i)
    BY <1>4 DEF Boot, BootFails
  <2>2. i \in Nat
    BY MonitorAssumption
  <2>3. db' = db /\ archive' = archive
    BY <1>1, <2>1, <2>2 DEF PreparePersistence
  <2> QED
    BY <1>2, <2>3
<1>5. CASE FlushCommit
  <2>1. PICK stored : stored = CompactByInterval(batch, interval)
    OBVIOUS
  <2>2. AddBatch(stored) /\ IsRowSlice(stored)
    BY <1>1, <1>5, <2>1, FlushRows DEF FlushCommit
  <2>3. DOMAIN db \subseteq DOMAIN db' /\ archive' = archive
    BY <1>1, <2>2, AddBatchShape DEF AddBatch
  <2> QED
    BY <1>2, <2>3
<1>6. CASE RenameWeek
  <2>1. /\ db' = db /\ cursor \notin DOMAIN archive
        /\ DOMAIN archive' = DOMAIN archive \cup {cursor}
        /\ \A w \in DOMAIN archive : w # cursor => archive'[w] = archive[w]
    BY <1>1, <1>6 DEF RenameWeek, ArchiveRename, JobInv
  <2>2. \A w \in DOMAIN archive : w \in DOMAIN archive' /\ archive'[w] = archive[w]
    BY <2>1
  <2> QED
    BY <2>1, <2>2 DEF Stored, Archived
<1>7. CASE DeleteWeek
  <2>1. /\ archive' = archive
        /\ cursor \in DOMAIN archive \/ DOMAIN WeekRows(cursor) = {}
    BY <1>1, <1>7 DEF DeleteWeek, ArchiveDelete, JobInv
  <2>2. DOMAIN db' = {k \in DOMAIN db : Week(k) # cursor}
    <3> DEFINE rest == {k \in DOMAIN db : Week(k) # cursor}
    <3>1. db' = RowsIn(db, rest)
      BY <1>7 DEF DeleteWeek, ArchiveDelete
    <3>2. DOMAIN RowsIn(db, rest) = DOMAIN db \cap rest
      BY DEF RowsIn
    <3> QED
      BY <3>1, <3>2
  <2>3. SUFFICES ASSUME NEW k \in DOMAIN db \ DOMAIN late, Week(k) = cursor
                 PROVE  k \in Archived
    BY <2>1, <2>2 DEF Stored, Archived
  <2>4. k \in DOMAIN WeekRows(cursor)
    BY <1>1, <2>3, WeekRowsTable
  <2> QED
    BY <1>1, <2>1, <2>3, <2>4 DEF ArchiveCoversRows, Archived
<1> QED
  BY <1>3, <1>4, <1>5, <1>6, <1>7 DEF MonitorNext, RunStep

(* No step but the compaction of a start takes a row that was in time out  *)
(* of the store: the DELETE of the archiver only removes rows a file has.  *)
THEOREM RowsStay == MonitorSpec => StoredRowsStay
<1>1. IInv /\ [MonitorNext]_monitorVars
        => [meta' = meta => Stored \ DOMAIN late \subseteq Stored']_monitorVars
  BY StayStep DEF IInv
<1> QED
  BY <1>1, Invariant, PTL DEF MonitorSpec, StoredRowsStay

-----------------------------------------------------------------------------
(* Where every sample ends up.                                             *)
(* No sample is in two places, or in one before it was taken.              *)
PlacesInv ==
  /\ last <= now /\ now <= MaxTime
  /\ DOMAIN taken \subseteq 0..last
  /\ InMemory \cup Stored \cup lost \cup DOMAIN late \subseteq DOMAIN taken
  /\ lost \cap (InMemory \cup Stored \cup DOMAIN late) = {}
  /\ InMemory \cap DOMAIN late = {}

(* A file has a row, and only rows of its week; one that came too late for *)
(* it is younger than some row of the file.                                *)
WeeksInv ==
  /\ \A w \in DOMAIN archive :
       DOMAIN archive[w] # {} /\ \A k \in DOMAIN archive[w] : Week(k) = w
  /\ step = "write" => DOMAIN points # {}
  /\ \A k \in DOMAIN late :
       Week(k) \in DOMAIN archive /\ \E u \in DOMAIN archive[Week(k)] : u < k

FateInv == IInv /\ PlacesInv /\ WeeksInv

-----------------------------------------------------------------------------
(* What a step may do to the places.                                       *)
places == <<DOMAIN taken, InMemory, Stored, lost, DOMAIN late>>

NoEffect == UNCHANGED places /\ UNCHANGED last

TakeEffect ==
  /\ last < now /\ last' = now
  /\ DOMAIN taken' = DOMAIN taken \cup {now}
  /\ InMemory' = InMemory \cup {now}
  /\ Stored' = Stored /\ lost' = lost /\ DOMAIN late' = DOMAIN late

FlushEffect ==
  \E S \in SUBSET InMemory : \E L \in SUBSET S :
    /\ InMemory' = {} /\ Stored' = Stored \cup S /\ DOMAIN late' = DOMAIN late \cup L
    /\ \A t \in InMemory \ S : \E u \in S : t < u
    /\ DOMAIN taken' = DOMAIN taken /\ lost' = lost /\ last' = last

LoseEffect ==
  /\ InMemory' = {} /\ lost' = lost \cup InMemory
  /\ DOMAIN taken' = DOMAIN taken /\ Stored' = Stored
  /\ DOMAIN late' = DOMAIN late /\ last' = last

ShrinkEffect ==
  /\ Stored' \subseteq Stored
  /\ \A t \in Stored \ Stored' :
       IF t \in DOMAIN late THEN \E u \in Stored' : u < t ELSE \E u \in Stored' : u > t
  /\ DOMAIN taken' = DOMAIN taken /\ InMemory' = InMemory /\ lost' = lost
  /\ DOMAIN late' = DOMAIN late /\ last' = last

-----------------------------------------------------------------------------
(* A sample that a flush drops has a younger one among the rows it stores. *)
LEMMA FlushKeepsLater ==
  ASSUME batch \in Seq(Sample), InOrder(batch),
         NEW t \in TimesOf(batch) \ TimesOf(CompactByInterval(batch, interval))
  PROVE  \E u \in TimesOf(CompactByInterval(batch, interval)) : t < u
<1>1. IsSlice(batch) /\ DOMAIN batch \subseteq Nat
  BY BatchIsSlice
<1>2. PICK stored : stored = CompactByInterval(batch, interval)
  OBVIOUS
<1>3. PICK i \in DOMAIN batch : batch[i].t = t
  BY DEF TimesOf
<1>4. PICK m \in DOMAIN stored : i <= m
  BY <1>1, <1>2, CompactRepresents
<1>5. m \in DOMAIN batch /\ stored[m].t = batch[m].t
  BY <1>1, <1>2, CompactKeepsSome
<1>6. i # m
  BY <1>2, <1>3, <1>5 DEF TimesOf
<1>7. batch[i].t < batch[m].t
  BY <1>1, <1>4, <1>5, <1>6 DEF InOrder
<1> QED
  BY <1>2, <1>3, <1>5, <1>7 DEF TimesOf

(* A row that the compaction of a start drops has a younger one that stays.*)
LEMMA PrepareKeepsLater ==
  ASSUME IsTable(db), NEW i \in Intervals, PreparePersistence(i),
         NEW t \in DOMAIN db \ DOMAIN db'
  PROVE  \E u \in DOMAIN db' : t < u
<1>1. IsSlice(db) /\ DOMAIN db \subseteq Nat
  BY TableIsSlice DEF IsTable, Row
<1>2. DOMAIN db' = DOMAIN CompactByInterval(db, i) /\ DOMAIN db' \subseteq DOMAIN db
  BY CompactedTable DEF PreparePersistence
<1>3. PICK m \in DOMAIN CompactByInterval(db, i) : t <= m
  BY <1>1, CompactRepresents
<1> QED
  BY <1>1, <1>2, <1>3

(* Every step of the monitor has one of the five effects.                  *)
LEMMA Effects ==
  ASSUME IInv, WeeksInv, MonitorNext
  PROVE  NoEffect \/ TakeEffect \/ FlushEffect \/ LoseEffect \/ ShrinkEffect
<1> USE DEF storeVars, clock, process, memory, ghosts
<1>0. /\ MonitorTypeOK /\ StoreTypeOK /\ MemoryInv /\ JobInv /\ ArchiveCoversRows
      /\ IsTable(db) /\ IsTable(late)
      /\ pending \in Seq(Sample) /\ batch \in Seq(Sample)
  BY DEF IInv, MonitorTypeOK, StoreTypeOK
<1>1. ASSUME UNCHANGED <<db, archive, taken, lost, late, last>>, InMemory' = InMemory
      PROVE  NoEffect
  BY <1>1 DEF NoEffect, places, Stored, Archived
(* A row leaves the store for a younger one, or because it was late.       *)
<1>2. ASSUME Stored' \subseteq Stored, archive' = archive,
             UNCHANGED <<taken, pending, batch, lost, late, last>>,
             \A t \in Stored \ Stored' : t \in DOMAIN late \/ \E u \in Stored' : u > t
      PROVE  ShrinkEffect
  <2>1. InMemory' = InMemory
    BY <1>2 DEF InMemory, TimesOf
  <2>2. ASSUME NEW t \in DOMAIN late PROVE \E u \in Stored' : u < t
    BY <1>2 DEF WeeksInv, Stored, Archived
  <2> QED
    BY <1>2, <2>1, <2>2 DEF ShrinkEffect
<1>3. CASE Tick \/ Signal \/ StopIdle
  BY <1>1, <1>3 DEF Tick, Signal, StopIdle, InMemory, TimesOf, disk
<1>4. CASE Boot \/ BootFails
  <2>1. PICK i \in Intervals : PreparePersistence(i)
    BY <1>4 DEF Boot, BootFails
  <2>2. archive' = archive /\ UNCHANGED <<taken, pending, batch, lost, late, last>>
    BY <1>4, <2>1 DEF Boot, BootFails, PreparePersistence
  <2>3. DOMAIN db' \subseteq DOMAIN db
    BY <1>0, <2>1, PrepareShape
  <2>4. \A t \in DOMAIN db \ DOMAIN db' : \E u \in DOMAIN db' : t < u
    BY <1>0, <2>1, PrepareKeepsLater
  <2>5. \A t \in Stored \ Stored' : \E u \in Stored' : u > t
    <3>1. Stored \subseteq Nat /\ Stored' \subseteq Stored
      BY <1>0, <2>2, <2>3, StoredNat DEF Stored, Archived
    <3> QED
      BY <2>2, <2>4, <3>1 DEF Stored, Archived
  <2> QED
    BY <1>2, <2>2, <2>3, <2>5 DEF Stored, Archived
<1>5. CASE Crash \/ Exit
  <2>1. /\ pending' = <<>> /\ batch' = <<>> /\ lost' = lost \cup InMemory
        /\ UNCHANGED <<db, archive, taken, late, last>>
    BY <1>5 DEF Crash, Exit, ForgetMemory, disk
  <2> QED
    BY <2>1 DEF LoseEffect, InMemory, TimesOf, Stored, Archived
<1>6. CASE Collect
  <2>1. PICK v \in Levels :
          /\ pending' = Append(pending, [t |-> now, v |-> v])
          /\ DOMAIN taken' = DOMAIN taken \cup {now}
    BY <1>6 DEF Collect
  <2>2. /\ last < now /\ last' = now
        /\ UNCHANGED <<batch, db, archive, lost, late>>
    BY <1>6 DEF Collect, disk
  <2>3. /\ DOMAIN pending' = DOMAIN pending \cup {Len(pending) + 1}
        /\ \A i \in DOMAIN pending : pending'[i] = pending[i] /\ i # Len(pending) + 1
        /\ pending'[Len(pending) + 1].t = now
    BY <1>0, <2>1
  <2>4. TimesOf(pending') = TimesOf(pending) \cup {now}
    BY <2>3 DEF TimesOf
  <2> QED
    BY <2>1, <2>2, <2>4 DEF TakeEffect, InMemory, TimesOf, Stored, Archived
<1>7. CASE FlushBegin \/ FinalFlush
  <2>1. /\ batch = <<>> /\ batch' = pending /\ pending' = <<>>
        /\ UNCHANGED <<db, archive, taken, lost, late, last>>
    BY <1>0, <1>7 DEF FlushBegin, FinalFlush, TakeBatch, MemoryInv, disk
  <2> QED
    BY <1>1, <2>1 DEF InMemory, TimesOf
<1>8. CASE FlushCommit
  <2>1. PICK stored : stored = CompactByInterval(batch, interval)
    OBVIOUS
  <2>2. /\ IsRowSlice(stored) /\ IsRowSlice(LateRows(stored))
        /\ TimesOf(stored) \subseteq TimesOf(batch)
        /\ TimesOf(LateRows(stored)) \subseteq TimesOf(stored)
    BY <1>0, <2>1, FlushRows
  <2>3. /\ AddBatch(stored) /\ late' = Upsert(late, LateRows(stored))
        /\ pending = <<>> /\ pending' = <<>> /\ batch' = <<>>
        /\ UNCHANGED <<taken, lost, last>>
    BY <1>0, <1>8, <2>1 DEF FlushCommit, MemoryInv
  <2>4. DOMAIN db' = DOMAIN db \cup TimesOf(stored) /\ archive' = archive
    BY <1>0, <2>2, <2>3, AddBatchShape DEF AddBatch
  <2>5. DOMAIN late' = DOMAIN late \cup TimesOf(LateRows(stored))
    BY <1>0, <2>2, <2>3, UpsertAdds
  <2>6. InMemory = TimesOf(batch) /\ InMemory' = {}
    BY <2>3 DEF InMemory, TimesOf
  <2>7. Stored' = Stored \cup TimesOf(stored)
    BY <2>4 DEF Stored, Archived
  <2>8. \A t \in InMemory \ TimesOf(stored) : \E u \in TimesOf(stored) : t < u
    BY <1>0, <2>1, <2>6, FlushKeepsLater DEF MemoryInv
  <2> QED
    BY <2>2, <2>3, <2>5, <2>6, <2>7, <2>8 DEF FlushEffect
<1>9. CASE FlushFail
  <2>1. /\ pending = <<>> /\ batch' = <<>> /\ pending' = batch \o pending
        /\ UNCHANGED <<db, archive, taken, lost, late, last>>
    BY <1>0, <1>9 DEF FlushFail, MemoryInv, disk
  <2>2. pending' = batch
    BY <1>0, <2>1
  <2> QED
    BY <1>1, <2>1, <2>2 DEF InMemory, TimesOf
<1>10. CASE ArchiveBegin \/ SkipWeek \/ QueryWeek \/ ArchiveEnd
  BY <1>1, <1>10 DEF ArchiveBegin, SkipWeek, QueryWeek, ArchiveEnd, InArchive, outside,
       ArchiveNothing, ArchiveStart, ArchiveSkip, ArchiveQuery, ArchiveReturn, ArchiveError,
       InMemory, TimesOf, disk
<1>11. CASE RenameWeek \/ DeleteWeek
  <2>1. /\ ArchiveAny /\ meta' = meta
        /\ UNCHANGED <<taken, pending, batch, lost, late, last>>
    BY <1>11 DEF ArchiveAny, RenameWeek, DeleteWeek, InArchive, ArchiveRename, ArchiveDelete,
                 outside
  <2>2. Stored' \subseteq Stored
    BY <1>0, <2>1, ArchiveStored
  <2>3. Stored \ DOMAIN late \subseteq Stored'
    BY <1>0, <2>1, StayStep
  <2>4. CASE DeleteWeek
    <3>1. archive' = archive
      BY <2>4 DEF DeleteWeek, ArchiveDelete
    <3> QED
      BY <1>2, <2>1, <2>2, <2>3, <3>1
  <2>5. CASE RenameWeek
    <3>1. /\ db' = db /\ cursor \notin DOMAIN archive
          /\ DOMAIN archive' = DOMAIN archive \cup {cursor}
          /\ \A w \in DOMAIN archive : w # cursor => archive'[w] = archive[w]
      BY <1>0, <2>5 DEF RenameWeek, ArchiveRename, JobInv
    <3>2. Stored \subseteq Stored'
      <4>1. \A w \in DOMAIN archive : w \in DOMAIN archive' /\ archive'[w] = archive[w]
        BY <3>1
      <4> QED
        BY <3>1, <4>1 DEF Stored, Archived
    <3>3. Stored' = Stored /\ InMemory' = InMemory
      BY <2>1, <2>2, <3>2 DEF InMemory, TimesOf
    <3> QED
      BY <2>1, <3>3 DEF NoEffect, places
  <2> QED
    BY <1>11, <2>4, <2>5
<1> QED
  BY <1>3, <1>4, <1>5, <1>6, <1>7, <1>8, <1>9, <1>10, <1>11 DEF MonitorNext, RunStep

-----------------------------------------------------------------------------
(* The invariant.                                                          *)
LEMMA PlacesStep ==
  ASSUME FateInv, MonitorNext
  PROVE  PlacesInv'
<1>1. /\ now \in Nat /\ last \in Nat /\ MaxTime \in Nat /\ PlacesInv /\ WeeksInv /\ IInv
      /\ MemoryInv
  BY MonitorAssumption DEF FateInv, IInv, MonitorTypeOK
<1>2. now' \in Nat /\ now <= now' /\ now' <= MaxTime
  <2>1. CASE Tick
    BY <1>1, <2>1 DEF Tick, PlacesInv
  <2>2. CASE ~Tick
    <3>1. now' = now
      BY <2>2 DEF MonitorNext, RunStep, Boot, BootFails, Signal, Crash, Exit, Collect,
         FlushBegin, FinalFlush, StopIdle, FlushCommit, FlushFail, TakeBatch, ArchiveBegin,
         SkipWeek, QueryWeek, RenameWeek, DeleteWeek, ArchiveEnd, InArchive, outside, clock
    <3> QED
      BY <1>1, <3>1 DEF PlacesInv
  <2> QED
    BY <2>1, <2>2
<1>3. InMemory \cap Stored = {} /\ InMemory \subseteq DOMAIN taken
  BY <1>1, StoredNat DEF PlacesInv, MemoryInv, IInv, MonitorTypeOK
<1>4. CASE NoEffect
  BY <1>1, <1>2, <1>4 DEF NoEffect, places, PlacesInv
<1>5. CASE TakeEffect
  <2>1. last' \in Nat /\ last' <= now' /\ DOMAIN taken' \subseteq 0..last'
    BY <1>1, <1>2, <1>5 DEF TakeEffect, PlacesInv
  <2>2. now \notin DOMAIN taken
    BY <1>1, <1>5 DEF TakeEffect, PlacesInv
  <2> QED
    BY <1>1, <1>2, <1>5, <2>1, <2>2 DEF TakeEffect, PlacesInv
<1>6. CASE FlushEffect
  BY <1>1, <1>2, <1>3, <1>6 DEF FlushEffect, PlacesInv
<1>7. CASE LoseEffect
  BY <1>1, <1>2, <1>3, <1>7 DEF LoseEffect, PlacesInv
<1>8. CASE ShrinkEffect
  BY <1>1, <1>2, <1>8 DEF ShrinkEffect, PlacesInv
<1> QED
  BY <1>1, <1>4, <1>5, <1>6, <1>7, <1>8, Effects

LEMMA WeeksStep ==
  ASSUME FateInv, MonitorNext
  PROVE  WeeksInv'
<1> USE DEF storeVars, disk, job, ghosts
<1>0. /\ MonitorTypeOK /\ StoreTypeOK /\ MemoryInv /\ JobInv /\ WeeksInv
      /\ IsTable(db) /\ IsTable(late) /\ batch \in Seq(Sample)
  BY DEF FateInv, IInv, MonitorTypeOK, StoreTypeOK
<1>1. ASSUME archive' = archive, late' = late, step' = "write" => DOMAIN points' # {}
      PROVE  WeeksInv'
  BY <1>0, <1>1 DEF WeeksInv
<1>2. CASE Tick \/ Signal \/ Boot \/ BootFails \/ Crash \/ Exit \/ Collect \/ FlushBegin
             \/ FinalFlush \/ StopIdle \/ FlushFail
  BY <1>0, <1>1, <1>2 DEF WeeksInv, Tick, Signal, Boot, BootFails, PreparePersistence, Crash,
     Exit, NoJob, Collect, FlushBegin, FinalFlush, TakeBatch, StopIdle, FlushFail
<1>3. CASE ArchiveBegin \/ SkipWeek \/ QueryWeek \/ DeleteWeek \/ ArchiveEnd
  BY <1>0, <1>1, <1>3 DEF WeeksInv, ArchiveBegin, SkipWeek, QueryWeek, DeleteWeek, ArchiveEnd,
     InArchive, outside, ArchiveNothing, ArchiveStart, ArchiveSkip, ArchiveQuery,
     ArchiveDelete, ArchiveReturn, ArchiveError, NoJob
<1>4. CASE RenameWeek
  <2>1. /\ late' = late /\ step' = "delete" /\ cursor \notin DOMAIN archive
        /\ DOMAIN archive' = DOMAIN archive \cup {cursor} /\ archive'[cursor] = points
        /\ \A w \in DOMAIN archive : archive'[w] = archive[w]
    BY <1>0, <1>4 DEF RenameWeek, InArchive, outside, ArchiveRename, JobInv
  <2>2. DOMAIN points # {} /\ \A k \in DOMAIN points : Week(k) = cursor
    <3>1. step = "write" /\ points = WeekRows(cursor)
      BY <1>0, <1>4 DEF RenameWeek, ArchiveRename, JobInv
    <3>2. DOMAIN WeekRows(cursor) = {k \in DOMAIN db : Week(k) = cursor}
      BY <1>0, WeekRowsTable
    <3> QED
      BY <1>0, <3>1, <3>2 DEF WeeksInv
  <2> QED
    BY <1>0, <2>1, <2>2 DEF WeeksInv
<1>5. CASE FlushCommit
  <2>1. PICK stored : stored = CompactByInterval(batch, interval)
    OBVIOUS
  <2>2. /\ IsRowSlice(stored) /\ IsRowSlice(LateRows(stored))
        /\ TimesOf(stored) \subseteq TimesOf(batch)
        /\ TimesOf(LateRows(stored)) = {k \in TimesOf(stored) : Week(k) \in DOMAIN archive}
    BY <1>0, <2>1, FlushRows
  <2>3. /\ late' = Upsert(late, LateRows(stored))
        /\ archive' = archive /\ step' = step /\ points' = points
    BY <1>5, <2>1 DEF FlushCommit, AddBatch
  <2>4. DOMAIN late' = DOMAIN late \cup TimesOf(LateRows(stored))
    BY <1>0, <2>2, <2>3, UpsertAdds
(* The file has a row, and what the file has is older than the batch.      *)
  <2>5. ASSUME NEW k \in TimesOf(LateRows(stored))
        PROVE  Week(k) \in DOMAIN archive /\ \E u \in DOMAIN archive[Week(k)] : u < k
    <3>1. k \in InMemory /\ Week(k) \in DOMAIN archive
      BY <2>2 DEF InMemory
    <3>2. PICK u : u \in DOMAIN archive[Week(k)]
      BY <1>0, <3>1 DEF WeeksInv
    <3>3. u < k
      BY <1>0, <3>1, <3>2 DEF MemoryInv, Stored, Archived
    <3> QED
      BY <3>1, <3>2, <3>3
  <2> QED
    BY <1>0, <2>3, <2>4, <2>5 DEF WeeksInv
<1> QED
  BY <1>2, <1>3, <1>4, <1>5 DEF MonitorNext, RunStep

LEMMA FateInit == MonitorInit => FateInv
<1> SUFFICES ASSUME MonitorInit PROVE FateInv
  OBVIOUS
<1> USE DEF MonitorInit, StoreInit
<1>1. IInv /\ StoreTypeOK
  BY InitInv DEF IInv, MonitorTypeOK
<1>2. DOMAIN archive = {} /\ Stored = DOMAIN db /\ DOMAIN late = {} /\ InMemory = {}
  <2>1. DOMAIN archive = {} /\ Stored = DOMAIN db /\ DOMAIN late = {}
    BY EmptyTable DEF Stored, Archived
  <2>2. InMemory = {}
    BY DEF InMemory, TimesOf
  <2> QED
    BY <2>1, <2>2
<1>3. DOMAIN taken = DOMAIN db /\ DOMAIN db \subseteq Nat
  BY <1>1, <1>2, StoredNat
<1>4. PlacesInv
  BY <1>2, <1>3, MonitorAssumption DEF PlacesInv
<1>5. WeeksInv
  BY <1>2 DEF WeeksInv
<1> QED
  BY <1>1, <1>4, <1>5 DEF FateInv

LEMMA MonitorStutter ==
  ASSUME UNCHANGED monitorVars
  PROVE  /\ UNCHANGED <<db, meta, archive, tmp, step, cursor, cutoff, points, now, last, phase,
                        cancelled, interval, current, pending, batch, subscribers, taken, lost,
                        late>>
         /\ InMemory' = InMemory /\ Stored' = Stored /\ fates' = fates
<1>1. UNCHANGED <<db, meta, archive, tmp, step, cursor, cutoff, points, now, last, phase,
                  cancelled, interval, current, pending, batch, subscribers, taken, lost, late>>
  BY DEF monitorVars, storeVars, disk, job, clock, process, memory, ghosts
<1>2. InMemory' = InMemory /\ Stored' = Stored
  BY <1>1 DEF InMemory, TimesOf, Stored, Archived
<1> QED
  BY <1>1, <1>2 DEF fates, FateOf

LEMMA FateInvStep == FateInv /\ [MonitorNext]_monitorVars => FateInv'
<1> SUFFICES ASSUME FateInv, [MonitorNext]_monitorVars PROVE FateInv'
  OBVIOUS
<1>1. IInv'
  BY InvStep DEF FateInv
<1>2. CASE MonitorNext
  BY <1>1, <1>2, PlacesStep, WeeksStep DEF FateInv
<1>3. CASE UNCHANGED monitorVars
  <2>1. PlacesInv'
    BY <1>3, MonitorStutter DEF FateInv, PlacesInv
  <2>2. WeeksInv'
    BY <1>3, MonitorStutter DEF FateInv, WeeksInv
  <2> QED
    BY <1>1, <2>1, <2>2 DEF FateInv
<1> QED
  BY <1>2, <1>3

-----------------------------------------------------------------------------
(* The refinement: each effect is a step of SampleFate, or none.           *)
Times == 0..MaxTime

(* The fate of a sample is its place.                                      *)
LEMMA FateOfPlace ==
  ASSUME NEW t
  PROVE  /\ FateOf(t) \in Fate!Fates
         /\ FateOf(t) = "none" <=> t \notin DOMAIN taken
         /\ FateOf(t) = "memory" <=> t \in DOMAIN taken /\ t \in InMemory
         /\ FateOf(t) = "stored" <=>
              t \in DOMAIN taken /\ t \notin InMemory /\ t \in Stored
<1>1. CASE t \notin DOMAIN taken
  BY <1>1 DEF FateOf, Fate!Fates
<1>2. CASE t \in DOMAIN taken /\ t \in InMemory
  BY <1>2 DEF FateOf, Fate!Fates
<1>3. CASE t \in DOMAIN taken /\ t \notin InMemory
  BY <1>3 DEF FateOf, Fate!Fates
<1> QED
  BY <1>1, <1>2, <1>3

LEMMA FateMapped ==
  /\ fates = [t \in Times |-> FateOf(t)]
  /\ fates \in [Times -> Fate!Fates]
  /\ DOMAIN fates = Times
  /\ \A t \in Times : fates[t] = FateOf(t)
BY FateOfPlace DEF fates, Times

LEMMA FateStep == FateInv /\ FateInv' /\ [MonitorNext]_monitorVars => [Fate!Next]_fates
<1> SUFFICES ASSUME FateInv, FateInv', MonitorNext
             PROVE  Fate!Next \/ fates' = fates
  BY MonitorStutter
<1>1. IInv /\ PlacesInv /\ WeeksInv /\ PlacesInv' /\ MemoryInv /\ MemoryInv'
  BY DEF FateInv, IInv
<1>2. /\ fates = [t \in Times |-> FateOf(t)] /\ fates' = [t \in Times |-> FateOf(t)']
      /\ Times \subseteq Nat /\ now \in Times /\ last \in Nat
  BY <1>1, MonitorAssumption DEF fates, Times, PlacesInv, FateInv, IInv, MonitorTypeOK
<1>3. InMemory \cap Stored = {}
  BY <1>1, StoredNat DEF MemoryInv, FateInv, IInv, MonitorTypeOK
<1>4. fates \in [Times -> Fate!Fates] /\ fates' \in [Times -> Fate!Fates]
  <2>1. \A t \in Times : FateOf(t)' \in Fate!Fates
    BY DEF FateOf, Fate!Fates
  <2> QED
    BY <1>2, <2>1, FateMapped
<1>5. 0..last \subseteq Times
  BY <1>1, <1>2, MonitorAssumption DEF PlacesInv, Times
<1>6. CASE NoEffect
  BY <1>2, <1>6 DEF NoEffect, places, FateOf
<1>7. CASE TakeEffect
  <2>1. PICK n \in Times : n = now /\ last < n
    BY <1>2, <1>7 DEF TakeEffect
  <2>2. \A u \in Times : u >= n => FateOf(u) = "none"
    BY <1>1, <1>2, <2>1 DEF FateOf, PlacesInv
  <2>3. FateOf(n)' = "memory" /\ \A t \in Times \ {n} : FateOf(t)' = FateOf(t)
    BY <1>7, <2>1 DEF TakeEffect, FateOf
  <2>4. fates' = [fates EXCEPT ![n] = "memory"]
    BY <1>2, <2>3
  <2>5. fates[n] = "none" /\ \A u \in Times : u > n => fates[u] = "none"
    BY <1>2, <2>1, <2>2
  <2>6. Fate!Take(n)
    BY <2>4, <2>5 DEF Fate!Take, Times
  <2> QED
    BY <2>6 DEF Fate!Next, Times
<1>8. CASE FlushEffect
  <2>1. PICK S \in SUBSET InMemory, L \in SUBSET InMemory :
          /\ L \subseteq S
          /\ InMemory' = {} /\ Stored' = Stored \cup S /\ DOMAIN late' = DOMAIN late \cup L
          /\ \A t \in InMemory \ S : \E u \in S : t < u
          /\ DOMAIN taken' = DOMAIN taken /\ lost' = lost
    BY <1>8 DEF FlushEffect
  <2>2. InMemory \subseteq Times /\ InMemory \subseteq DOMAIN taken
    BY <1>1, <1>5 DEF PlacesInv
  <2>3. Fate!Having("memory") = InMemory
    BY <1>2, <2>2, FateMapped, FateOfPlace DEF Fate!Having, Times
  <2>4. \A t \in S : FateOf(t)' = "stored"
    BY <2>1, <2>2 DEF FateOf
  <2>5. \A t \in InMemory \ S : FateOf(t)' = "merged"
    BY <1>1, <1>3, <2>1, <2>2 DEF FateOf, PlacesInv
  <2>6. \A t \in Times \ InMemory : FateOf(t)' = FateOf(t)
    BY <2>1 DEF FateOf
  <2>7. \A t \in InMemory : \/ fates'[t] = "stored"
                            \/ fates'[t] = "merged" /\ \E u \in InMemory : u > t /\ fates'[u] = "stored"
    <3> SUFFICES ASSUME NEW t \in InMemory \ S
                 PROVE  fates'[t] = "merged" /\ \E u \in InMemory : u > t /\ fates'[u] = "stored"
      BY <1>2, <2>1, <2>2, <2>4
    <3>1. PICK u \in S : t < u
      BY <2>1
    <3>2. t \in Nat /\ u \in Nat /\ u \in InMemory /\ fates'[u] = "stored" /\ fates'[t] = "merged"
      BY <1>2, <2>1, <2>2, <2>4, <2>5, <3>1
    <3> QED
      BY <3>1, <3>2
  <2>8. Fate!Flush(InMemory)
    BY <1>4, <1>2, <2>2, <2>3, <2>6, <2>7 DEF Fate!Flush, Times
  <2> QED
    BY <2>3, <2>8 DEF Fate!Next
<1>9. CASE LoseEffect
  <2>1. \A t \in InMemory : t \in DOMAIN taken /\ t \notin Stored
    BY <1>1, <1>3 DEF PlacesInv
  <2>2. \A t \in Times : FateOf(t)' = IF FateOf(t) = "memory" THEN "lost" ELSE FateOf(t)
    BY <1>9, <2>1 DEF LoseEffect, FateOf
  <2>3. Fate!Lose
    BY <1>2, <2>2, FateMapped DEF Fate!Lose, Times
  <2> QED
    BY <2>3 DEF Fate!Next
<1>10. CASE ShrinkEffect
  <2>1. \A t \in Times : t \notin Stored \ Stored' => FateOf(t)' = FateOf(t)
    BY <1>10 DEF ShrinkEffect, FateOf
  <2>2. ASSUME NEW t \in Times, t \in Stored \ Stored'
        PROVE  /\ FateOf(t) = "stored"
               /\ FateOf(t)' = IF t \in DOMAIN late THEN "erased" ELSE "merged"
    BY <1>1, <1>3, <1>10, <2>2 DEF ShrinkEffect, FateOf, PlacesInv
  <2>3. \A u \in Stored' : u \in Times /\ fates'[u] = "stored"
    <3>1. \A u \in Stored' : u \in Stored /\ u \in DOMAIN taken /\ u \notin InMemory
      BY <1>1, <1>3, <1>10 DEF ShrinkEffect, PlacesInv
    <3>2. \A u \in Stored' : u \in Times /\ FateOf(u)' = "stored"
      BY <1>1, <1>5, <1>10, <3>1 DEF ShrinkEffect, FateOf, PlacesInv
    <3> QED
      BY <1>2, <3>2
  <2>4. ASSUME NEW t \in Times
        PROVE  \/ fates'[t] = fates[t]
               \/ fates[t] = "stored" /\ fates'[t] = "merged"
                    /\ \E u \in Times : u > t /\ fates'[u] = "stored"
               \/ fates[t] = "stored" /\ fates'[t] = "erased"
                    /\ \E u \in Times : u < t /\ fates'[u] = "stored"
    <3>1. CASE t \notin Stored \ Stored'
      BY <1>2, <2>1, <3>1
    <3>2. CASE t \in (Stored \ Stored') \cap DOMAIN late
      BY <1>2, <1>10, <2>2, <2>3, <3>2 DEF ShrinkEffect
    <3>3. CASE t \in (Stored \ Stored') \ DOMAIN late
      BY <1>2, <1>10, <2>2, <2>3, <3>3 DEF ShrinkEffect
    <3> QED
      BY <3>1, <3>2, <3>3
  <2>5. Fate!Shrink
    BY <1>4, <2>4 DEF Fate!Shrink, Times
  <2> QED
    BY <2>5 DEF Fate!Next
<1> QED
  BY <1>1, <1>6, <1>7, <1>8, <1>9, <1>10, Effects

LEMMA FateStart == FateInv /\ MonitorInit => Fate!Init
<1> SUFFICES ASSUME FateInv, MonitorInit PROVE Fate!Init
  OBVIOUS
<1>1. DOMAIN taken = DOMAIN db /\ InMemory = {}
  BY DEF MonitorInit, InMemory, TimesOf
<1>2. DOMAIN taken \subseteq Stored
  BY <1>1 DEF Stored
<1>3. \A t \in Times : FateOf(t) \in {"none", "stored"}
  BY <1>1, <1>2 DEF FateOf
<1> QED
  BY <1>3, FateMapped DEF Fate!Init, Times

(* Where a sample is follows the life that SampleFate describes: it is     *)
(* settled in the order of time and once, merged only into a later sample  *)
(* that is stored, erased only when it came too late for its archive, and  *)
(* never comes back.                                                       *)
THEOREM Refinement == MonitorSpec => SamplesMeetTheirFate
<1>1. MonitorSpec => []FateInv
  BY FateInit, FateInvStep, PTL DEF MonitorSpec
<1>2. MonitorSpec => Fate!Init
  BY FateInit, FateStart DEF MonitorSpec
<1> QED
  BY <1>1, <1>2, FateStep, PTL DEF MonitorSpec, SamplesMeetTheirFate, Fate!Spec
=============================================================================
