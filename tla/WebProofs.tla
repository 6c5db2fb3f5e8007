----------------------------- MODULE WebProofs -----------------------------
(***************************************************************************)
(* Proofs about Web, for any number of readers and clients.  What a        *)
(* history request has read stays disjoint from memory, and the rows it    *)
(* still looks for stay where it has yet to look.  What a stream has       *)
(* subscribed to is written, buffered or refused.                          *)
(***************************************************************************)
EXTENDS Web, MonitorProofs

(* One request beside the monitor.  Before its first read, every row due   *)
(* is in the store; after SQLite, what it has not found is in an archive;  *)
(* after the archives, it has found all.  What it has found is older than  *)
(* anything memory will ever hold.                                         *)
Request == [at : 0..4, range : SUBSET Nat, found : SUBSET Nat, live : SUBSET Nat,
            due : SUBSET Nat, dueInMemory : SUBSET Nat]

Sought(q) == q.due \ DOMAIN late

Searching(q) ==
  /\ q.at # 0 => phase # "down"
  /\ q.due \subseteq q.range
  /\ q.at = 1 => Sought(q) \subseteq Stored
  /\ q.at = 2 => Sought(q) \subseteq q.found \cup Archived
  /\ q.at \in {3, 4} => Sought(q) \subseteq q.found

Older(q) ==
  /\ \A k \in q.found : k <= last /\ \A m \in InMemory : k < m
  /\ q.at # 4 => q.live = {}
  /\ q.found \cap q.live = {}

HistoryInv ==
  /\ request \in [Readers -> Request]
  /\ \A r \in Readers : Searching(request[r]) /\ Older(request[r])

-----------------------------------------------------------------------------
(* What a step of the monitor may do to the things a request relies on.    *)
LEMMA LateGrows ==
  ASSUME IInv, MonitorNext
  PROVE  DOMAIN late \subseteq DOMAIN late'
<1>1. CASE FlushCommit
  <2>1. PICK stored : stored = CompactByInterval(batch, interval)
    OBVIOUS
  <2>2. IsRowSlice(LateRows(stored))
    BY <2>1, FlushRows DEF IInv, MonitorTypeOK, MemoryInv
  <2>3. late' = Upsert(late, LateRows(stored))
    BY <1>1, <2>1 DEF FlushCommit
  <2>4. DOMAIN late' = DOMAIN late \cup TimesOf(LateRows(stored))
    BY <2>2, <2>3, UpsertAdds DEF IInv, MonitorTypeOK
  <2> QED
    BY <2>4
<1>2. CASE ~FlushCommit
  <2>1. late' = late
    BY <1>2 DEF MonitorNext, RunStep, Tick, Boot, BootFails, Signal, Crash, Exit, Collect,
                FlushBegin, FinalFlush, TakeBatch, StopIdle, FlushFail, ArchiveBegin,
                SkipWeek, QueryWeek, RenameWeek, DeleteWeek, ArchiveEnd, InArchive,
                outside, ghosts
  <2> QED
    BY <2>1
<1> QED
  BY <1>1, <1>2

LEMMA ArchivedGrows ==
  ASSUME IInv, MonitorNext
  PROVE  Archived \subseteq Archived'
<1>1. CASE RenameWeek
  <2>1. /\ cursor \notin DOMAIN archive
        /\ DOMAIN archive' = DOMAIN archive \cup {cursor}
        /\ \A w \in DOMAIN archive : w # cursor => archive'[w] = archive[w]
    BY <1>1 DEF IInv, RenameWeek, ArchiveRename, JobInv
  <2>2. \A w \in DOMAIN archive : w \in DOMAIN archive' /\ archive'[w] = archive[w]
    BY <2>1
  <2> QED
    BY <2>2 DEF Archived
<1>2. CASE ~RenameWeek
  <2>1. archive' = archive
    BY <1>2 DEF MonitorNext, RunStep, Tick, Boot, BootFails, Signal, Crash, Exit, Collect,
                FlushBegin, FinalFlush, TakeBatch, StopIdle, FlushCommit, FlushFail,
                ArchiveBegin, SkipWeek, QueryWeek, DeleteWeek, ArchiveEnd, InArchive,
                PreparePersistence, AddBatch, ArchiveNothing, ArchiveStart, ArchiveSkip,
                ArchiveQuery, ArchiveDelete, ArchiveReturn, ArchiveError,
                storeVars, disk
  <2> QED
    BY <2>1 DEF Archived
<1> QED
  BY <1>1, <1>2

(* Only samples of the present enter memory.                               *)
LEMMA MemoryFresh ==
  ASSUME IInv, MonitorNext
  PROVE  last <= last' /\ \A m \in InMemory' : m \in InMemory \/ last < m
<1> USE DEF storeVars, clock, process, memory, ghosts
<1>0. /\ pending \in Seq(Sample) /\ batch \in Seq(Sample)
      /\ last \in Nat /\ now \in Nat
      /\ phase \in {"flush", "final"} => pending = <<>>
  BY DEF IInv, MonitorTypeOK, MemoryInv
<1>1. CASE Collect
  <2>1. PICK v \in Levels : pending' = Append(pending, [t |-> now, v |-> v])
    BY <1>1 DEF Collect
  <2>2. last < now /\ last' = now /\ batch' = batch
    BY <1>1 DEF Collect
  <2>3. /\ DOMAIN pending' = DOMAIN pending \cup {Len(pending) + 1}
        /\ \A i \in DOMAIN pending : pending'[i] = pending[i]
        /\ pending'[Len(pending) + 1].t = now
    BY <1>0, <2>1
  <2>4. TimesOf(pending') = TimesOf(pending) \cup {now}
    BY <2>3 DEF TimesOf
  <2> QED
    BY <1>0, <2>2, <2>4 DEF InMemory
<1>2. CASE FlushFail
  <2>1. last' = last /\ batch' = <<>> /\ pending' = batch
    BY <1>0, <1>2 DEF FlushFail
  <2> QED
    BY <1>0, <2>1 DEF InMemory, TimesOf
<1>3. CASE FlushBegin \/ FinalFlush
  <2>1. last' = last /\ batch' = pending /\ pending' = <<>>
    BY <1>3 DEF FlushBegin, FinalFlush, TakeBatch
  <2> QED
    BY <1>0, <2>1 DEF InMemory, TimesOf
<1>4. CASE Crash \/ Exit \/ FlushCommit
  <2>1. last' = last /\ batch' = <<>> /\ (pending' = pending \/ pending' = <<>>)
    BY <1>4 DEF Crash, Exit, ForgetMemory, FlushCommit
  <2> QED
    BY <1>0, <2>1 DEF InMemory, TimesOf
<1>5. CASE ~(Collect \/ FlushFail \/ FlushBegin \/ FinalFlush \/ Crash \/ Exit \/ FlushCommit)
  <2>1. UNCHANGED <<last, pending, batch>>
    BY <1>5 DEF MonitorNext, RunStep, Tick, Boot, BootFails, Signal, StopIdle,
                ArchiveBegin, SkipWeek, QueryWeek, RenameWeek, DeleteWeek, ArchiveEnd,
                InArchive, outside
  <2> QED
    BY <1>0, <2>1 DEF InMemory, TimesOf
<1> QED
  BY <1>1, <1>2, <1>3, <1>4, <1>5

(* The compaction of a start is over before there are any requests.        *)
LEMMA RunningMeta ==
  ASSUME MonitorNext, phase # "down"
  PROVE  meta' = meta
BY DEF MonitorNext, RunStep, Tick, Boot, BootFails, Signal, Crash, Exit, Collect,
       FlushBegin, FinalFlush, TakeBatch, StopIdle, FlushCommit, FlushFail,
       ArchiveBegin, SkipWeek, QueryWeek, RenameWeek, DeleteWeek, ArchiveEnd, InArchive,
       AddBatch, ArchiveNothing, ArchiveStart, ArchiveSkip, ArchiveRename,
       ArchiveQuery, ArchiveDelete, ArchiveReturn, ArchiveError, storeVars, disk

(* A request that makes no step itself stays on its way.                   *)
LEMMA RequestWaits ==
  ASSUME IInv, HistoryInv, MonitorNext, request' = request, NEW r \in Readers,
         phase' # "down" \/ request[r].at = 0
  PROVE  Searching(request[r])' /\ Older(request[r])'
<1> DEFINE q == request[r]
<1>0. q \in Request /\ Searching(q) /\ Older(q) /\ q' = q
  BY DEF HistoryInv
<1>1. DOMAIN late \subseteq DOMAIN late' /\ Archived \subseteq Archived'
  BY LateGrows, ArchivedGrows
<1>2. last <= last' /\ \A m \in InMemory' : m \in InMemory \/ last < m
  BY MemoryFresh
<1>3. last \in Nat /\ last' \in Nat /\ InMemory' \subseteq Nat
  <2>1. MonitorTypeOK /\ MonitorTypeOK'
    BY InvStep DEF IInv
  <2>2. \A samples \in Seq(Sample) : TimesOf(samples) \subseteq Nat
    BY TimesNat
  <2> QED
    BY <2>1, <2>2 DEF MonitorTypeOK, InMemory
<1>4. q.at # 0 => Stored \ DOMAIN late \subseteq Stored'
  BY <1>0, StayStep, RunningMeta DEF IInv, Searching
<1> HIDE DEF q
<1>5. Searching(q)'
  BY <1>0, <1>1, <1>4 DEF Searching, Sought, q
<1>6. Older(q)'
  <2>1. q.found \subseteq Nat
    BY <1>0 DEF Request
  <2>2. SUFFICES ASSUME NEW k \in q.found
                 PROVE  k <= last' /\ \A m \in InMemory' : k < m
    BY <1>0 DEF Older
  <2>3. k \in Nat /\ k <= last /\ \A m \in InMemory : k < m
    BY <1>0, <2>1, <2>2 DEF Older
  <2> QED
    BY <1>2, <1>3, <2>3
<1> QED
  BY <1>5, <1>6 DEF q

(* The steps of the request itself.                                        *)
Has(q, at, range, found, live, due) ==
  /\ q \in Request
  /\ q.at = at /\ q.range = range /\ q.found = found /\ q.live = live /\ q.due = due

LEMMA Advance ==
  ASSUME NEW q \in Request, q.at \in 1..3, NEW seen \in SUBSET Nat
  PROVE  /\ Has([q EXCEPT !.at = @ + 1, !.found = @ \cup seen],
                q.at + 1, q.range, q.found \cup seen, q.live, q.due)
         /\ Has([q EXCEPT !.at = @ + 1, !.live = seen],
                q.at + 1, q.range, q.found, seen, q.due)
<1>1. PICK n, s : n = q.at + 1 /\ s = q.found \cup seen
  OBVIOUS
<1>2. n \in 0..4
  BY <1>1
<1>3. q.found \in SUBSET Nat
  BY DEF Request
<1>4. s \in SUBSET Nat
  BY <1>1, <1>3
<1>5. Has([q EXCEPT !.at = n, !.found = s], n, q.range, s, q.live, q.due)
  <2>1. PICK p : p = [q EXCEPT !.at = n, !.found = s]
    OBVIOUS
  <2>2. p \in Request
    BY <1>2, <1>4, <2>1 DEF Request
  <2>3. p.at = n /\ p.range = q.range /\ p.found = s /\ p.live = q.live /\ p.due = q.due
    BY <2>1 DEF Request
  <2>4. Has(p, n, q.range, s, q.live, q.due)
    BY <2>2, <2>3 DEF Has
  <2> QED
    BY <2>1, <2>4
<1>6. Has([q EXCEPT !.at = n, !.live = seen], n, q.range, q.found, seen, q.due)
  <2>1. PICK p : p = [q EXCEPT !.at = n, !.live = seen]
    OBVIOUS
  <2>2. p \in Request
    BY <1>2, <2>1 DEF Request
  <2>3. p.at = n /\ p.range = q.range /\ p.found = q.found /\ p.live = seen /\ p.due = q.due
    BY <2>1 DEF Request
  <2>4. Has(p, n, q.range, q.found, seen, q.due)
    BY <2>2, <2>3 DEF Has
  <2> QED
    BY <2>1, <2>4
<1> QED
  BY <1>1, <1>5, <1>6

LEMMA RequestMoves ==
  ASSUME IInv, HistoryInv, UNCHANGED monitorVars, NEW r \in Readers,
         HistoryCall(r) \/ HistoryRead(r) \/ HistoryEnd(r)
  PROVE  HistoryInv'
<1> DEFINE q == request[r]
           p == request'[r]
<1>0. q \in Request /\ Searching(q) /\ Older(q) /\ request \in [Readers -> Request]
  BY DEF HistoryInv
<1>1. UNCHANGED <<late, db, archive, phase, last, pending, batch>>
  BY DEF monitorVars, storeVars, disk, clock, process, memory, ghosts
<1>2. UNCHANGED <<Stored, Archived, InMemory>>
  BY <1>1 DEF Stored, Archived, InMemory
<1>3. /\ Stored \subseteq Nat /\ InMemory \subseteq Nat
      /\ TimesOf(pending) \subseteq InMemory
      /\ DOMAIN db \subseteq Stored /\ Archived \subseteq Stored
      /\ Stored \subseteq DOMAIN db \cup Archived
  BY StoredNat, TimesNat DEF IInv, MonitorTypeOK, InMemory, Stored
<1>4. \A k \in Stored : k <= last /\ \A m \in InMemory : k < m
  BY DEF IInv, MemoryInv
<1>5. q.found \subseteq Nat /\ q.at \in 0..4
  BY <1>0 DEF Request
<1>6. /\ Searching(p) /\ Older(p) /\ p \in Request
      /\ \A s \in Readers : s # r => request'[s] = request[s]
      /\ DOMAIN request' = Readers
  <2>1. CASE HistoryCall(r)
    <3>1. PICK range \in Ranges :
            request' = [request EXCEPT ![r] =
                          [NoRequest EXCEPT !.at = 1, !.range = range,
                                            !.due = Stored \cap range,
                                            !.dueInMemory = InMemory \cap range]]
      BY <2>1 DEF HistoryCall
    <3>2. PICK due, inMemory : due = Stored \cap range /\ inMemory = InMemory \cap range
      OBVIOUS
    <3>3. p = [at |-> 1, range |-> range, found |-> {}, live |-> {},
               due |-> due, dueInMemory |-> inMemory]
      BY <1>0, <3>1, <3>2 DEF NoRequest
    <3>4. range \in SUBSET Nat /\ due \in SUBSET Nat /\ inMemory \in SUBSET Nat
      BY <1>3, <3>2, WebAssumption
    <3>5. Has(p, 1, range, {}, {}, due)
      BY <3>3, <3>4 DEF Has, Request
    <3>6. phase # "down"
      BY <2>1 DEF HistoryCall
    <3>7. /\ \A s \in Readers : s # r => request'[s] = request[s]
          /\ DOMAIN request' = Readers
      BY <1>0, <3>1
    <3> HIDE DEF p
    <3> QED
      BY <3>2, <3>5, <3>6, <3>7 DEF Searching, Sought, Older, Has
  <2>2. CASE HistoryRead(r)
    <3>1. /\ q.at \in {1, 2, 3}
          /\ q.at = 1 => Reads[q.at] = "sqlite"
          /\ q.at = 2 => Reads[q.at] = "archives"
          /\ q.at = 3 => Reads[q.at] = "memory"
      BY <2>2 DEF HistoryRead, Reads
    <3>2. phase # "down"
      BY <1>0, <3>1 DEF Searching
    <3>3. CASE q.at = 1
      <4>1. PICK seen : seen = DOMAIN db \cap q.range
        OBVIOUS
      <4>2. request' = [request EXCEPT ![r] = [q EXCEPT !.at = @ + 1, !.found = @ \cup seen]]
        BY <2>2, <3>1, <3>3, <4>1 DEF HistoryRead, Finds
      <4>3. p = [q EXCEPT !.at = @ + 1, !.found = @ \cup seen]
        BY <1>0, <4>2
      <4>4. seen \in SUBSET Nat /\ \A k \in seen : k \in Stored
        BY <1>3, <4>1
      <4>5. /\ \A s \in Readers : s # r => request'[s] = request[s]
            /\ DOMAIN request' = Readers
        BY <1>0, <4>2
      <4> HIDE DEF p, q
      <4>6. Has(p, 2, q.range, q.found \cup seen, q.live, q.due)
        <5>1. q.at \in 1..3 /\ q.at + 1 = 2
          BY <3>3
        <5> QED
          BY <1>0, <4>3, <4>4, <5>1, Advance
      <4>7. Searching(p)
        <5>1. Sought(q) \subseteq seen \cup Archived
          BY <1>0, <1>3, <3>3, <4>1 DEF Searching, Sought
        <5>2. q.due \subseteq q.range
          BY <1>0 DEF Searching
        <5> QED
          BY <3>2, <4>6, <5>1, <5>2 DEF Searching, Sought, Has
      <4>8. Older(p)
        <5>1. \A t \in q.found \cup seen : t <= last /\ \A m \in InMemory : t < m
          BY <1>0, <1>4, <4>4 DEF Older
        <5>2. q.live = {}
          BY <1>0, <3>3 DEF Older
        <5> QED
          BY <4>6, <5>1, <5>2 DEF Older, Has
      <4> QED
        BY <4>5, <4>6, <4>7, <4>8 DEF Has
    <3>4. CASE q.at = 2
      <4>1. PICK seen : seen = Archived \cap q.range
        OBVIOUS
      <4>2. request' = [request EXCEPT ![r] = [q EXCEPT !.at = @ + 1, !.found = @ \cup seen]]
        BY <2>2, <3>1, <3>4, <4>1 DEF HistoryRead, Finds
      <4>3. p = [q EXCEPT !.at = @ + 1, !.found = @ \cup seen]
        BY <1>0, <4>2
      <4>4. seen \in SUBSET Nat /\ \A k \in seen : k \in Stored
        BY <1>3, <4>1
      <4>5. /\ \A s \in Readers : s # r => request'[s] = request[s]
            /\ DOMAIN request' = Readers
        BY <1>0, <4>2
      <4> HIDE DEF p, q
      <4>6. Has(p, 3, q.range, q.found \cup seen, q.live, q.due)
        <5>1. q.at \in 1..3 /\ q.at + 1 = 3
          BY <3>4
        <5> QED
          BY <1>0, <4>3, <4>4, <5>1, Advance
      <4>7. Searching(p)
        BY <1>0, <3>2, <3>4, <4>1, <4>6 DEF Searching, Sought, Has
      <4>8. Older(p)
        <5>1. \A t \in q.found \cup seen : t <= last /\ \A m \in InMemory : t < m
          BY <1>0, <1>4, <4>4 DEF Older
        <5>2. q.live = {}
          BY <1>0, <3>4 DEF Older
        <5> QED
          BY <4>6, <5>1, <5>2 DEF Older, Has
      <4> QED
        BY <4>5, <4>6, <4>7, <4>8 DEF Has
    <3>5. CASE q.at = 3
      <4>1. PICK seen : seen = TimesOf(pending) \cap q.range
        OBVIOUS
      <4>2. request' = [request EXCEPT ![r] = [q EXCEPT !.at = @ + 1, !.live = seen]]
        BY <2>2, <3>1, <3>5, <4>1 DEF HistoryRead
      <4>3. p = [q EXCEPT !.at = @ + 1, !.live = seen]
        BY <1>0, <4>2
      <4>4. seen \in SUBSET Nat /\ \A m \in seen : m \in InMemory
        BY <1>3, <4>1
      <4>5. /\ \A s \in Readers : s # r => request'[s] = request[s]
            /\ DOMAIN request' = Readers
        BY <1>0, <4>2
      <4> HIDE DEF p, q
      <4>6. Has(p, 4, q.range, q.found, seen, q.due)
        <5>1. q.at \in 1..3 /\ q.at + 1 = 4
          BY <3>5
        <5> QED
          BY <1>0, <4>3, <4>4, <5>1, Advance
      <4>7. Searching(p)
        BY <1>0, <3>2, <3>5, <4>6 DEF Searching, Sought, Has
      <4>8. Older(p)
        <5>1. \A k \in q.found : k \in Nat /\ k <= last /\ \A m \in InMemory : k < m
          BY <1>0, <1>5 DEF Older
        <5>2. q.found \cap seen = {}
          BY <4>4, <5>1
        <5> QED
          BY <4>6, <5>1, <5>2 DEF Older, Has
      <4> QED
        BY <4>5, <4>6, <4>7, <4>8 DEF Has
    <3> QED
      BY <3>1, <3>3, <3>4, <3>5
  <2>3. CASE HistoryEnd(r)
    <3>1. p = NoRequest
      BY <1>0, <2>3 DEF HistoryEnd
    <3>2. Has(p, 0, {}, {}, {}, {})
      BY <3>1 DEF NoRequest, Has, Request
    <3>3. /\ \A s \in Readers : s # r => request'[s] = request[s]
          /\ DOMAIN request' = Readers
      BY <1>0, <2>3 DEF HistoryEnd
    <3> HIDE DEF p
    <3> QED
      BY <3>2, <3>3 DEF Searching, Sought, Older, Has
  <2> QED
    BY <2>1, <2>2, <2>3
<1>7. request' = [s \in Readers |-> request'[s]]
  BY <1>6, <1>0 DEF HistoryCall, HistoryRead, Finds, HistoryEnd
<1> HIDE DEF q
<1>8. \A s \in Readers : /\ Searching(request'[s]) /\ Older(request'[s])
                         /\ request'[s] \in Request
  BY <1>6 DEF HistoryInv
<1>9. request' \in [Readers -> Request]
  BY <1>7, <1>8
<1> QED
  BY <1>1, <1>2, <1>8, <1>9 DEF HistoryInv, Searching, Sought, Older

-----------------------------------------------------------------------------
(* A stream touches nothing of the monitor but its own channel.            *)
LEMMA StreamKeeps ==
  ASSUME IInv, HistoryInv, NEW c \in Clients,
         StreamSubscribe(c) \/ StreamFirst(c) \/ StreamNext(c) \/ StreamEnd(c)
  PROVE  IInv' /\ HistoryInv'
<1>1. UNCHANGED <<db, meta, archive, tmp, step, cursor, cutoff, points, now, last, phase,
                  cancelled, interval, current, pending, batch, taken, lost, late, request>>
  BY DEF StreamSubscribe, StreamFirst, StreamNext, StreamEnd, storeAndRun, monitorVars,
         storeVars, disk, job, clock, process, memory, ghosts
<1>2. \A d \in DOMAIN subscribers' :
        subscribers'[d] \in Seq(Nat) /\ Len(subscribers'[d]) <= BufferCap
  <2>0. /\ \A d \in DOMAIN subscribers :
             subscribers[d] \in Seq(Nat) /\ Len(subscribers[d]) <= BufferCap
        /\ BufferCap \in Nat
    BY MonitorAssumption DEF IInv, MonitorTypeOK
  <2>1. CASE StreamSubscribe(c)
    <3>1. <<>> \in Seq(Nat) /\ Len(<<>>) <= BufferCap
      BY <2>0
    <3> QED
      BY <2>0, <2>1, <3>1 DEF StreamSubscribe
  <2>2. CASE StreamFirst(c)
    BY <2>0, <2>2 DEF StreamFirst, monitorVars, memory
  <2>3. CASE StreamNext(c)
    <3>1. /\ subscribers' = [subscribers EXCEPT ![c] = Tail(@)]
          /\ subscribers[c] # <<>>
      BY <2>3 DEF StreamNext
    <3>2. SUFFICES ASSUME NEW d \in DOMAIN subscribers
                   PROVE  subscribers'[d] \in Seq(Nat) /\ Len(subscribers'[d]) <= BufferCap
      BY <3>1
    <3>3. CASE d = c
      BY <2>0, <3>1, <3>3
    <3>4. CASE d # c
      BY <2>0, <3>1, <3>4
    <3> QED
      BY <3>3, <3>4
  <2>4. CASE StreamEnd(c)
    BY <2>0, <2>4 DEF StreamEnd
  <2> QED
    BY <2>1, <2>2, <2>3, <2>4
<1>3. MonitorTypeOK'
  BY <1>1, <1>2 DEF IInv, MonitorTypeOK, StoreTypeOK
<1>4. MemoryInv'
  BY <1>1 DEF IInv, MemoryInv, InMemory, Stored, Archived, InOrder, TimesOf
<1>5. JobInv'
  BY <1>1 DEF IInv, JobInv, WeekRows
<1>6. ArchiveCoversRows'
  BY <1>1 DEF IInv, ArchiveCoversRows
<1>7. HistoryInv'
  <2>1. UNCHANGED <<Stored, Archived, InMemory>>
    BY <1>1 DEF Stored, Archived, InMemory
  <2> QED
    BY <1>1, <2>1 DEF HistoryInv, Searching, Sought, Older
<1> QED
  BY <1>3, <1>4, <1>5, <1>6, <1>7 DEF IInv

LEMMA WebInitInv == WebInit => IInv /\ HistoryInv
<1> SUFFICES ASSUME WebInit PROVE IInv /\ HistoryInv
  OBVIOUS
<1>1. IInv
  BY InitInv DEF WebInit
<1>2. NoRequest \in Request
  BY DEF NoRequest, Request
<1>3. Searching(NoRequest) /\ Older(NoRequest)
  BY DEF Searching, Sought, Older, NoRequest
<1> QED
  BY <1>1, <1>2, <1>3 DEF WebInit, HistoryInv

LEMMA WebStep == IInv /\ HistoryInv /\ [Next]_vars => IInv' /\ HistoryInv'
<1> SUFFICES ASSUME IInv, HistoryInv, [Next]_vars PROVE IInv' /\ HistoryInv'
  OBVIOUS
<1>1. CASE MonitorStep
  <2>1. MonitorNext /\ request' = request
    BY <1>1 DEF MonitorStep, MonitorNext
  <2>2. IInv'
    BY <2>1, InvStep
  <2>3. phase # "down" => phase' # "down"
    BY <1>1 DEF MonitorStep, RunStep, Tick, Boot, BootFails, Signal, Collect, FlushBegin,
                FinalFlush, TakeBatch, StopIdle, FlushCommit, FlushFail, AfterFlush,
                ArchiveBegin, SkipWeek, QueryWeek, RenameWeek, DeleteWeek, ArchiveEnd,
                InArchive, process
  <2>4. \A r \in Readers : request[r].at # 0 => phase # "down"
    BY DEF HistoryInv, Searching
  <2>5. \A r \in Readers : Searching(request[r])' /\ Older(request[r])'
    BY <2>1, <2>3, <2>4, RequestWaits
  <2> QED
    BY <2>1, <2>2, <2>5 DEF HistoryInv
<1>2. CASE ProcessEnds
  <2>1. IInv'
    BY <1>2, InvStep DEF ProcessEnds, MonitorNext
  <2>2. request' = [r \in Readers |-> NoRequest]
    BY <1>2 DEF ProcessEnds
  <2>3. NoRequest \in Request
    BY DEF NoRequest, Request
  <2> QED
    BY <2>1, <2>2, <2>3 DEF HistoryInv, Searching, Sought, Older, NoRequest
<1>3. CASE HistoryStep
  <2>1. UNCHANGED monitorVars
    BY <1>3 DEF HistoryStep, HistoryCall, HistoryRead, HistoryEnd
  <2> QED
    BY <1>3, <2>1, InvStep, RequestMoves DEF HistoryStep
<1>4. CASE StreamStep
  BY <1>4, StreamKeeps DEF StreamStep
<1>5. CASE UNCHANGED vars
  <2>1. UNCHANGED monitorVars /\ request' = request
    BY <1>5 DEF vars, webVars
  <2>2. UNCHANGED <<late, db, archive, phase, last, pending, batch>>
    BY <2>1 DEF monitorVars, storeVars, disk, clock, process, memory, ghosts
  <2>3. UNCHANGED <<Stored, Archived, InMemory>>
    BY <2>2 DEF Stored, Archived, InMemory
  <2> QED
    BY <2>1, <2>2, <2>3, InvStep DEF HistoryInv, Searching, Sought, Older
<1> QED
  BY <1>1, <1>2, <1>3, <1>4, <1>5 DEF Next

(* The invariant of the monitor holds beside any number of handlers, and   *)
(* requests are on their way as HistoryInv says.                           *)
THEOREM RequestInvariant == Spec => [](IInv /\ HistoryInv)
BY WebInitInv, WebStep, PTL DEF Spec

(* An answer has every row that was stored when its request came, wherever *)
(* the archiver moved it between the reads of Store.Query.                 *)
THEOREM HistoryComplete == Spec => []HistoryKeepsStoredRows
<1>1. HistoryInv => HistoryKeepsStoredRows
  BY DEF HistoryInv, Searching, Sought, HistoryKeepsStoredRows, Answered, Reads
<1> QED
  BY <1>1, RequestInvariant, PTL

(* An answer never has a sample both from the store and from memory,       *)
(* though History does not look for duplicates.                            *)
THEOREM HistoryDistinct == Spec => []HistoryHasNoDuplicates
<1>1. HistoryInv => HistoryHasNoDuplicates
  BY DEF HistoryInv, Older, HistoryHasNoDuplicates
<1> QED
  BY <1>1, RequestInvariant, PTL
-----------------------------------------------------------------------------
(* Streams: any number of clients, any capacity of the channels.           *)

Connection == [at : {"closed", "subscribed", "open"}, since : Nat, events : Seq(Nat)]

(* What has come to a stream since it subscribed.                          *)
Reached(c) == ElementsOf(conn[c].events) \cup ElementsOf(subscribers[c]) \cup dropped[c]

(* A subscribed stream has written nothing yet, so its first event may     *)
(* replace what it has written; and no sample is ahead of the clock's last,*)
(* so nothing is missing when a client subscribes.                         *)
StreamTypes ==
  /\ conn \in [Clients -> Connection]
  /\ dropped \in [Clients -> SUBSET Nat]
  /\ DOMAIN subscribers = {c \in Clients : conn[c].at # "closed"}
  /\ phase = "down" => \A c \in Clients : conn[c].at = "closed"

StreamInv ==
  /\ StreamTypes
  /\ \A t \in DOMAIN taken : t <= last
  /\ \A c \in Clients : conn[c].at = "subscribed" => conn[c].events = <<>>
  /\ \A c \in Clients : conn[c].at # "closed" =>
       \A t \in DOMAIN taken : t > conn[c].since => t \in Reached(c)

-----------------------------------------------------------------------------
(* Channels and event lists as sets.                                       *)
LEMMA AppendElements ==
  ASSUME NEW s \in Seq(Nat), NEW t \in Nat
  PROVE  ElementsOf(Append(s, t)) = ElementsOf(s) \cup {t}
<1>1. /\ Append(s, t) \in Seq(Nat) /\ Len(Append(s, t)) = Len(s) + 1
      /\ \A i \in 1..Len(s) : Append(s, t)[i] = s[i]
      /\ Append(s, t)[Len(s) + 1] = t
  OBVIOUS
<1>2. DOMAIN s = 1..Len(s) /\ DOMAIN Append(s, t) = 1..(Len(s) + 1) /\ Len(s) \in Nat
  OBVIOUS
<1>3. \A i : i \in 1..(Len(s) + 1) <=> i \in 1..Len(s) \/ i = Len(s) + 1
  BY <1>2
<1>4. \A x \in ElementsOf(Append(s, t)) : x \in ElementsOf(s) \cup {t}
  BY <1>1, <1>2, <1>3 DEF ElementsOf
<1>5. \A x \in ElementsOf(s) : x \in ElementsOf(Append(s, t))
  BY <1>1, <1>2, <1>3 DEF ElementsOf
<1>6. t \in ElementsOf(Append(s, t))
  BY <1>1, <1>2, <1>3 DEF ElementsOf
<1> QED
  BY <1>4, <1>5, <1>6

LEMMA HeadOrTail ==
  ASSUME NEW s \in Seq(Nat), s # <<>>
  PROVE  Head(s) \in Nat /\ Tail(s) \in Seq(Nat)
         /\ ElementsOf(s) \subseteq ElementsOf(Tail(s)) \cup {Head(s)}
<1>1. Len(s) \in Nat /\ Len(s) > 0 /\ DOMAIN s = 1..Len(s) /\ Head(s) = s[1] /\ Head(s) \in Nat
  OBVIOUS
<1>2. Tail(s) \in Seq(Nat) /\ DOMAIN Tail(s) = 1..(Len(s) - 1)
      /\ \A i \in 1..(Len(s) - 1) : Tail(s)[i] = s[i + 1]
  OBVIOUS
<1>3. ASSUME NEW i \in 1..Len(s), i # 1
      PROVE  s[i] \in ElementsOf(Tail(s))
  <2>1. i - 1 \in 1..(Len(s) - 1) /\ (i - 1) + 1 = i
    BY <1>1, <1>3
  <2> QED
    BY <1>2, <2>1 DEF ElementsOf
<1>4. \A x \in ElementsOf(s) : x = s[1] \/ x \in ElementsOf(Tail(s))
  BY <1>1, <1>3 DEF ElementsOf
<1> QED
  BY <1>1, <1>2, <1>4

-----------------------------------------------------------------------------
LEMMA StreamInit == WebInit => StreamInv
<1> SUFFICES ASSUME WebInit PROVE StreamInv
  OBVIOUS
<1>1. NoConn \in Connection /\ NoConn.at = "closed"
  BY DEF NoConn, Connection
<1>2. /\ conn = [c \in Clients |-> NoConn] /\ dropped = [c \in Clients |-> {}]
      /\ DOMAIN subscribers = {}
  BY DEF WebInit, MonitorInit, NoRows
<1>3. \A t \in DOMAIN taken : t <= last
  <2>1. IInv
    BY WebInitInv
  <2>2. DOMAIN taken = DOMAIN db
    BY DEF WebInit, MonitorInit
  <2> QED
    BY <2>1, <2>2 DEF IInv, MemoryInv, Stored
<1> QED
  BY <1>1, <1>2, <1>3 DEF StreamInv, StreamTypes

(* A step of the monitor either collects or leaves the channels alone.     *)
LEMMA MonitorQuiet ==
  ASSUME MonitorStep, ~Collect
  PROVE  /\ UNCHANGED <<taken, last, subscribers, conn>>
         /\ dropped' = [c \in Clients |-> dropped[c]]
<1>1. UNCHANGED <<taken, last, subscribers, conn>>
  BY DEF MonitorStep, RunStep, Tick, Boot, BootFails, Signal, FlushBegin, FinalFlush, TakeBatch,
         StopIdle, FlushCommit, FlushFail, ArchiveBegin, SkipWeek, QueryWeek, RenameWeek,
         DeleteWeek, ArchiveEnd, InArchive, outside, clock, memory, ghosts
<1>2. dropped' = [c \in Clients |->
         IF c \in DOMAIN subscribers /\ last' # last /\ Len(subscribers[c]) = BufferCap
           THEN dropped[c] \cup {last'} ELSE dropped[c]]
  BY DEF MonitorStep
<1> QED
  BY <1>1, <1>2

(* A sample is put into each channel that is not full.                     *)
LEMMA SampleReaches ==
  ASSUME IInv, StreamInv, MonitorStep, Collect
  PROVE  StreamInv'
<1>1. /\ last < now /\ last' = now /\ DOMAIN taken' = DOMAIN taken \cup {now}
      /\ subscribers' = [c \in DOMAIN subscribers |-> Offer(subscribers[c], now)]
      /\ phase # "down" /\ phase' = "select"
  BY DEF Collect
<1>2. /\ conn' = conn
      /\ dropped' = [c \in Clients |->
           IF c \in DOMAIN subscribers /\ last' # last /\ Len(subscribers[c]) = BufferCap
             THEN dropped[c] \cup {last'} ELSE dropped[c]]
  BY DEF MonitorStep
<1>3. now \in Nat /\ last \in Nat /\ last' # last
  BY <1>1 DEF IInv, MonitorTypeOK
<1>4. StreamTypes'
  <2>1. dropped \in [Clients -> SUBSET Nat]
    BY DEF StreamInv, StreamTypes
  <2>2. dropped' \in [Clients -> SUBSET Nat]
    BY <1>1, <1>2, <1>3, <2>1
  <2>3. DOMAIN subscribers' = DOMAIN subscribers
    BY <1>1
  <2> QED
    BY <1>1, <1>2, <2>2, <2>3 DEF StreamInv, StreamTypes
<1>5. \A t \in DOMAIN taken' : t <= last'
  BY <1>1, <1>3 DEF StreamInv, IInv, MonitorTypeOK
<1>6. ASSUME NEW c \in Clients, conn[c].at # "closed"
      PROVE  Reached(c) \cup {now} \subseteq Reached(c)'
  <2>1. c \in DOMAIN subscribers
    BY <1>6 DEF StreamInv, StreamTypes
  <2>2. subscribers[c] \in Seq(Nat) /\ Len(subscribers[c]) <= BufferCap
    BY <2>1 DEF IInv, MonitorTypeOK
  <2>3. subscribers'[c] = Offer(subscribers[c], now)
    BY <1>1, <2>1
  <2>4. dropped[c] \subseteq dropped'[c]
    BY <1>2
  <2>5. CASE Len(subscribers[c]) < BufferCap
    <3>1. subscribers'[c] = Append(subscribers[c], now)
      BY <2>3, <2>5 DEF Offer
    <3>2. ElementsOf(subscribers[c])' = ElementsOf(subscribers[c]) \cup {now}
      <4>1. ElementsOf(subscribers[c])' = ElementsOf(Append(subscribers[c], now))
        BY <3>1 DEF ElementsOf
      <4> QED
        BY <1>3, <2>2, <4>1, AppendElements
    <3> QED
      BY <1>2, <2>4, <3>2 DEF Reached
  <2>6. CASE ~(Len(subscribers[c]) < BufferCap)
    <3>1. subscribers'[c] = subscribers[c]
      BY <2>3, <2>6 DEF Offer
    <3>2. now \in dropped'[c]
      <4>1. Len(subscribers[c]) = BufferCap
        BY <2>2, <2>6, MonitorAssumption
      <4> QED
        BY <1>1, <1>2, <1>3, <2>1, <4>1
    <3>3. ElementsOf(subscribers[c])' = ElementsOf(subscribers[c])
      BY <3>1 DEF ElementsOf
    <3> QED
      BY <1>2, <2>4, <3>2, <3>3 DEF Reached
  <2> QED
    BY <2>5, <2>6
<1>7. ASSUME NEW c \in Clients, conn'[c].at # "closed", NEW t \in DOMAIN taken', t > conn'[c].since
      PROVE  t \in Reached(c)'
  <2>1. t = now \/ t \in Reached(c)
    BY <1>1, <1>2, <1>7 DEF StreamInv
  <2> QED
    BY <1>2, <1>6, <1>7, <2>1
<1> QED
  BY <1>2, <1>4, <1>5, <1>7 DEF StreamInv

-----------------------------------------------------------------------------
(* A step of one stream; the other streams do not notice.                  *)
Undisturbed(c) ==
  \A d \in Clients \ {c} :
    /\ conn'[d] = conn[d] /\ dropped'[d] = dropped[d]
    /\ d \in DOMAIN subscribers' <=> d \in DOMAIN subscribers
    /\ d \in DOMAIN subscribers => subscribers'[d] = subscribers[d]

LEMMA OneStream ==
  ASSUME StreamInv, NEW c \in Clients, Undisturbed(c),
         UNCHANGED <<taken, last, phase>>, phase # "down" \/ conn'[c].at = "closed",
         conn' \in [Clients -> Connection], dropped' \in [Clients -> SUBSET Nat],
         DOMAIN subscribers' \subseteq Clients,
         c \in DOMAIN subscribers' <=> conn'[c].at # "closed",
         conn'[c].at = "subscribed" => conn'[c].events = <<>>,
         conn'[c].at # "closed" =>
           \A t \in DOMAIN taken : t > conn'[c].since => t \in Reached(c)'
  PROVE  StreamInv'
<1>1. \A d \in Clients : d \in DOMAIN subscribers' <=> conn'[d].at # "closed"
  BY DEF StreamInv, StreamTypes, Undisturbed
<1>2. StreamTypes'
  BY <1>1 DEF StreamInv, StreamTypes, Undisturbed
<1>3. ASSUME NEW d \in Clients, conn'[d].at # "closed", d # c
      PROVE  Reached(d)' = Reached(d)
  <2>1. conn'[d] = conn[d] /\ dropped'[d] = dropped[d] /\ subscribers'[d] = subscribers[d]
    BY <1>3 DEF Undisturbed, StreamInv, StreamTypes
  <2> QED
    BY <2>1 DEF Reached, ElementsOf
<1>4. ASSUME NEW d \in Clients, conn'[d].at # "closed", NEW t \in DOMAIN taken, t > conn'[d].since
      PROVE  t \in Reached(d)'
  <2>1. CASE d = c
    BY <1>4, <2>1
  <2>2. CASE d # c
    BY <1>3, <1>4, <2>2 DEF StreamInv, Undisturbed
  <2> QED
    BY <2>1, <2>2
<1>5. \A d \in Clients : conn'[d].at = "subscribed" => conn'[d].events = <<>>
  BY DEF StreamInv, Undisturbed
<1> QED
  BY <1>2, <1>4, <1>5 DEF StreamInv

LEMMA StreamMoves ==
  ASSUME IInv, StreamInv, NEW c \in Clients,
         StreamSubscribe(c) \/ StreamFirst(c) \/ StreamNext(c) \/ StreamEnd(c)
  PROVE  StreamInv'
<1>1. UNCHANGED <<taken, last, phase>>
  BY DEF StreamSubscribe, StreamFirst, StreamNext, StreamEnd, storeAndRun, monitorVars,
         clock, process, ghosts
<1>2. /\ conn \in [Clients -> Connection] /\ conn[c] \in Connection
      /\ dropped \in [Clients -> SUBSET Nat]
      /\ DOMAIN subscribers = {d \in Clients : conn[d].at # "closed"}
      /\ conn[c].at # "closed" => phase # "down"
      /\ last \in Nat /\ \A t \in DOMAIN taken : t \in Nat /\ t <= last
  BY DEF StreamInv, StreamTypes, IInv, MonitorTypeOK
<1>3. CASE StreamSubscribe(c)
  <2> DEFINE new == [at |-> "subscribed", since |-> last, events |-> <<>>]
  <2>1. /\ conn' = [conn EXCEPT ![c] = new] /\ dropped' = [dropped EXCEPT ![c] = {}]
        /\ subscribers' = [d \in DOMAIN subscribers \cup {c} |->
                             IF d = c THEN <<>> ELSE subscribers[d]]
        /\ phase # "down"
    BY <1>3 DEF StreamSubscribe
  <2>2. new \in Connection /\ new.at = "subscribed" /\ new.since = last /\ new.events = <<>>
    BY <1>2 DEF Connection
  <2> HIDE DEF new
  <2>3. conn'[c] = new /\ conn' \in [Clients -> Connection]
        /\ dropped' \in [Clients -> SUBSET Nat]
    BY <1>2, <2>1, <2>2
  <2>4. Undisturbed(c)
    BY <1>2, <2>1 DEF Undisturbed
  <2>5. \A t \in DOMAIN taken : ~(t > last)
    BY <1>2
  <2>6. DOMAIN subscribers' = DOMAIN subscribers \cup {c}
    BY <2>1
  <2> QED
    BY <1>1, <1>2, <2>1, <2>2, <2>3, <2>4, <2>5, <2>6, OneStream
<1>4. CASE StreamFirst(c)
  <2> DEFINE first == IF current = <<>> THEN conn[c].events ELSE <<current[1].t>>
  <2>1. /\ conn[c].at = "subscribed" /\ subscribers' = subscribers /\ dropped' = dropped
        /\ conn' = [conn EXCEPT ![c] = [conn[c] EXCEPT !.at = "open", !.events = first]]
    BY <1>2, <1>4 DEF StreamFirst, monitorVars, memory, Connection
  <2>2. first \in Seq(Nat)
    BY <1>2, SampleFields DEF IInv, MonitorTypeOK, Connection
  <2>3. conn[c].events = <<>>
    BY <2>1 DEF StreamInv
  <2> HIDE DEF first
  <2>4. /\ conn'[c].at = "open" /\ conn'[c].since = conn[c].since
        /\ conn' \in [Clients -> Connection]
    BY <1>2, <2>1, <2>2 DEF Connection
  <2>5. Undisturbed(c)
    BY <1>2, <2>1 DEF Undisturbed
  <2>6. Reached(c) \subseteq Reached(c)'
    BY <2>1, <2>3 DEF Reached, ElementsOf
  <2>7. \A t \in DOMAIN taken : t > conn'[c].since => t \in Reached(c)'
    BY <2>1, <2>4, <2>6 DEF StreamInv
  <2> QED
    BY <1>1, <1>2, <2>1, <2>4, <2>5, <2>7, OneStream
<1>5. CASE StreamNext(c)
  <2>1. /\ conn[c].at = "open" /\ subscribers[c] # <<>> /\ dropped' = dropped
        /\ conn' = [conn EXCEPT ![c].events = Append(@, Head(subscribers[c]))]
        /\ subscribers' = [subscribers EXCEPT ![c] = Tail(@)]
    BY <1>5 DEF StreamNext
  <2>2. c \in DOMAIN subscribers /\ subscribers[c] \in Seq(Nat) /\ conn[c].events \in Seq(Nat)
    BY <1>2, <2>1 DEF IInv, MonitorTypeOK, Connection
  <2>3. /\ Head(subscribers[c]) \in Nat
        /\ ElementsOf(subscribers[c]) \subseteq ElementsOf(Tail(subscribers[c]))
                                                  \cup {Head(subscribers[c])}
    BY <2>1, <2>2, HeadOrTail
  <2>4. /\ conn'[c].at = "open" /\ conn'[c].since = conn[c].since
        /\ conn'[c].events = Append(conn[c].events, Head(subscribers[c]))
        /\ conn' \in [Clients -> Connection]
    <3> DEFINE written == Append(conn[c].events, Head(subscribers[c]))
    <3>1. written \in Seq(Nat)
      BY <2>2, <2>3
    <3>2. conn' = [conn EXCEPT ![c] = [conn[c] EXCEPT !.events = written]]
      BY <1>2, <2>1
    <3> HIDE DEF written
    <3>3. [conn[c] EXCEPT !.events = written] \in Connection
      BY <1>2, <3>1 DEF Connection
    <3>4. conn'[c] = [conn[c] EXCEPT !.events = written]
      BY <1>2, <3>2
    <3>5. conn'[c].at = "open" /\ conn'[c].since = conn[c].since /\ conn'[c].events = written
      BY <1>2, <2>1, <3>4 DEF Connection
    <3> QED
      BY <1>2, <3>2, <3>3, <3>5 DEF written
  <2>5. subscribers'[c] = Tail(subscribers[c]) /\ DOMAIN subscribers' = DOMAIN subscribers
    BY <2>1, <2>2
  <2>6. Undisturbed(c)
    BY <1>2, <2>1 DEF Undisturbed
  <2>7. ElementsOf(conn[c].events)' = ElementsOf(conn[c].events) \cup {Head(subscribers[c])}
    <3>1. ElementsOf(conn[c].events)' = ElementsOf(Append(conn[c].events, Head(subscribers[c])))
      BY <2>4 DEF ElementsOf
    <3> QED
      BY <2>2, <2>3, <3>1, AppendElements
  <2>8. ElementsOf(subscribers[c])' = ElementsOf(Tail(subscribers[c]))
    BY <2>5 DEF ElementsOf
  <2>9. Reached(c) \subseteq Reached(c)'
    BY <2>1, <2>3, <2>7, <2>8 DEF Reached
  <2>10. \A t \in DOMAIN taken : t > conn'[c].since => t \in Reached(c)'
    BY <2>1, <2>4, <2>9 DEF StreamInv
  <2> QED
    BY <1>1, <1>2, <2>1, <2>2, <2>4, <2>5, <2>6, <2>10, OneStream
<1>6. CASE StreamEnd(c)
  <2>1. /\ conn' = [conn EXCEPT ![c] = NoConn] /\ dropped' = [dropped EXCEPT ![c] = {}]
        /\ subscribers' = [d \in DOMAIN subscribers \ {c} |-> subscribers[d]]
    BY <1>6 DEF StreamEnd
  <2>2. NoConn \in Connection /\ NoConn.at = "closed"
    BY DEF NoConn, Connection
  <2>3. conn'[c] = NoConn /\ conn' \in [Clients -> Connection]
        /\ dropped' \in [Clients -> SUBSET Nat]
    BY <1>2, <2>1, <2>2
  <2>4. Undisturbed(c)
    BY <1>2, <2>1 DEF Undisturbed
  <2>5. DOMAIN subscribers' = DOMAIN subscribers \ {c}
    BY <2>1
  <2> QED
    BY <1>1, <1>2, <2>2, <2>3, <2>4, <2>5, OneStream
<1> QED
  BY <1>3, <1>4, <1>5, <1>6

LEMMA StreamStays == IInv /\ StreamInv /\ [Next]_vars => StreamInv'
<1> SUFFICES ASSUME IInv, StreamInv, [Next]_vars PROVE StreamInv'
  OBVIOUS
<1>1. CASE MonitorStep
  <2>1. CASE Collect
    BY <1>1, <2>1, SampleReaches
  <2>2. CASE ~Collect
    <3>1. /\ UNCHANGED <<taken, last, subscribers, conn>>
          /\ dropped' = [c \in Clients |-> dropped[c]]
      BY <1>1, <2>2, MonitorQuiet
    <3>2. dropped' = dropped
      BY <3>1 DEF StreamInv, StreamTypes
    <3>3. phase' = "down" => phase = "down"
      BY <1>1 DEF MonitorStep, RunStep, Tick, Boot, BootFails, Signal, Collect, FlushBegin,
                  FinalFlush, TakeBatch, StopIdle, FlushCommit, FlushFail, AfterFlush,
                  ArchiveBegin, SkipWeek, QueryWeek, RenameWeek, DeleteWeek, ArchiveEnd,
                  InArchive, process
    <3>4. \A c : Reached(c)' = Reached(c)
      BY <3>1, <3>2 DEF Reached, ElementsOf
    <3> QED
      BY <3>1, <3>2, <3>3, <3>4 DEF StreamInv, StreamTypes
  <2> QED
    BY <2>1, <2>2
<1>2. CASE ProcessEnds
  <2>1. /\ conn' = [c \in Clients |-> NoConn] /\ dropped' = [c \in Clients |-> {}]
        /\ DOMAIN subscribers' = {} /\ UNCHANGED <<taken, last>>
    BY <1>2 DEF ProcessEnds, Crash, Exit, ForgetMemory, NoRows, clock
  <2>2. NoConn \in Connection /\ NoConn.at = "closed"
    BY DEF NoConn, Connection
  <2> QED
    BY <2>1, <2>2 DEF StreamInv, StreamTypes
<1>3. CASE HistoryStep \/ UNCHANGED vars
  <2>1. UNCHANGED <<taken, last, subscribers, conn, dropped, phase>>
    BY <1>3 DEF HistoryStep, HistoryCall, HistoryRead, HistoryEnd, vars, webVars, monitorVars,
                clock, process, memory, ghosts
  <2>2. \A c : Reached(c)' = Reached(c)
    BY <2>1 DEF Reached, ElementsOf
  <2> QED
    BY <2>1, <2>2 DEF StreamInv, StreamTypes
<1>4. CASE StreamStep
  BY <1>4, StreamMoves DEF StreamStep
<1> QED
  BY <1>1, <1>2, <1>3, <1>4 DEF Next

LEMMA Streams == Spec => [](IInv /\ HistoryInv /\ StreamInv)
<1>1. WebInit => IInv /\ HistoryInv /\ StreamInv
  BY WebInitInv, StreamInit
<1>2. IInv /\ HistoryInv /\ StreamInv /\ [Next]_vars => IInv' /\ HistoryInv' /\ StreamInv'
  BY WebStep, StreamStays
<1> QED
  BY <1>1, <1>2, PTL DEF Spec

(* WebTypeOK: the types, and the registered channels are those of the      *)
(* connections that are open.                                              *)
THEOREM WebTypes == Spec => []WebTypeOK
<1>1. IInv /\ HistoryInv /\ StreamInv => WebTypeOK
  BY DEF IInv, HistoryInv, Request, StreamInv, StreamTypes, Connection, WebTypeOK, Reads
<1> QED
  BY <1>1, Streams, PTL

(* StreamMissesOnlyOverflow: no sample falls between Subscribe, Current    *)
(* and the channel.                                                        *)
THEOREM StreamsComplete == Spec => []StreamMissesOnlyOverflow
<1>1. StreamInv => StreamMissesOnlyOverflow
  BY DEF StreamInv, Reached, StreamMissesOnlyOverflow
<1> QED
  BY <1>1, Streams, PTL
=============================================================================
