-------------------------------- MODULE Web --------------------------------
(***************************************************************************)
(* internal/web: the handlers of /api/history and /api/stream, which run   *)
(* in goroutines of their own beside Monitor.Run and share its memory and  *)
(* its store.                                                              *)
(*                                                                         *)
(* A history request reads SQLite, the archives and the pending samples    *)
(* one after the other; anything may happen between two of the reads.  The *)
(* archives are read in one step: a file never changes once it has its     *)
(* name, and the directory is listed once.                                 *)
(***************************************************************************)
EXTENDS Monitor

CONSTANTS
  Readers,   (* concurrent calls of /api/history                           *)
  Ranges,    (* the sets of timestamps they ask for                        *)
  Clients    (* concurrent calls of /api/stream                            *)

ASSUME WebAssumption == Ranges \subseteq SUBSET Nat

VARIABLES
  request,   (* reader -> its progress and what it has found               *)
  conn,      (* client -> the state of its stream and the events written   *)
  dropped    (* client -> samples that found its channel full (history)    *)

webVars == <<request, conn, dropped>>
vars == <<monitorVars, webVars>>

(* What a request has read is kept as sets of timestamps: Query sorts and  *)
(* deduplicates, so found, the result of the store, is a set; the pending  *)
(* samples are appended to it without looking for duplicates.  due and     *)
(* dueInMemory record what there was in its range when it started.         *)
NoRequest == [at |-> 0, range |-> {}, found |-> {}, live |-> {},
              due |-> {}, dueInMemory |-> {}]
NoConn == [at |-> "closed", since |-> 0, events |-> <<>>]

WebInit ==
  /\ MonitorInit
  /\ request = [r \in Readers |-> NoRequest]
  /\ conn = [c \in Clients |-> NoConn]
  /\ dropped = [c \in Clients |-> {}]

(* Mutants: the archives, or the memory, are read before SQLite.           *)
Reads_ArchivesFirst == <<"archives", "sqlite", "memory">>
Reads_MemoryFirst == <<"memory", "sqlite", "archives">>

(* The order in which History, and Store.Query in it, read their sources.  *)
Reads == <<"sqlite", "archives", "memory">>

WebTypeOK ==
  /\ MonitorTypeOK
  /\ request \in [Readers -> [at : 0..Len(Reads) + 1,
                              range : SUBSET Nat, found : SUBSET Nat, live : SUBSET Nat,
                              due : SUBSET Nat, dueInMemory : SUBSET Nat]]
  /\ conn \in [Clients -> [at : {"closed", "subscribed", "open"}, since : Nat,
                           events : Seq(Nat)]]
  /\ DOMAIN subscribers = {c \in Clients : conn[c].at # "closed"}
  /\ dropped \in [Clients -> SUBSET Nat]

-----------------------------------------------------------------------------
(* GET /api/history: the request arrives with from and to.                 *)
HistoryCall(r) ==
  /\ phase # "down"
  /\ request[r].at = 0
  /\ \E range \in Ranges :
       request' = [request EXCEPT ![r] =
                     [NoRequest EXCEPT !.at = 1, !.range = range,
                                       !.due = Stored \cap range,
                                       !.dueInMemory = InMemory \cap range]]
  /\ UNCHANGED <<monitorVars, conn, dropped>>

(* The next source of the request.                                         *)
Finds(r, times) ==
  request' = [request EXCEPT ![r].at = @ + 1,
                             ![r].found = @ \cup (times \cap request[r].range)]

HistoryRead(r) ==
  /\ request[r].at \in 1..Len(Reads)
  /\ LET source == Reads[request[r].at]
     IN  \/ source = "sqlite" /\ Finds(r, DOMAIN db)
         \/ source = "archives" /\ Finds(r, Archived)
         \/ /\ source = "memory"
            /\ request' = [request EXCEPT ![r].at = @ + 1,
                             ![r].live = TimesOf(pending) \cap request[r].range]
  /\ UNCHANGED <<monitorVars, conn, dropped>>

(* The response is written, or the query failed or the client went away.   *)
HistoryEnd(r) ==
  /\ request[r].at # 0
  /\ request' = [request EXCEPT ![r] = NoRequest]
  /\ UNCHANGED <<monitorVars, conn, dropped>>

-----------------------------------------------------------------------------
storeAndRun == <<storeVars, clock, process, current, pending, batch, ghosts>>

(* GET /api/stream: Subscribe.                                             *)
StreamSubscribe(c) ==
  /\ phase # "down"
  /\ conn[c].at = "closed"
  /\ conn' = [conn EXCEPT ![c] = [at |-> "subscribed", since |-> last, events |-> <<>>]]
  /\ subscribers' = [d \in DOMAIN subscribers \cup {c} |->
                       IF d = c THEN <<>> ELSE subscribers[d]]
  /\ dropped' = [dropped EXCEPT ![c] = {}]
  /\ UNCHANGED <<storeAndRun, request>>

(* Mutant: what the channel buffered before the first event is discarded.  *)
StreamFirst_Drains(c) ==
  /\ conn[c].at = "subscribed"
  /\ conn' = [conn EXCEPT ![c].at = "open",
                          ![c].events = IF current = <<>> THEN @ ELSE <<current[1].t>>]
  /\ subscribers' = [subscribers EXCEPT ![c] = <<>>]
  /\ UNCHANGED <<storeAndRun, request, dropped>>

(* Then Current, for the first event.                                      *)
StreamFirst(c) ==
  /\ conn[c].at = "subscribed"
  /\ conn' = [conn EXCEPT ![c].at = "open",
                          ![c].events = IF current = <<>> THEN @ ELSE <<current[1].t>>]
  /\ UNCHANGED <<monitorVars, request, dropped>>

(* Then the channel.                                                       *)
StreamNext(c) ==
  /\ conn[c].at = "open"
  /\ subscribers[c] # <<>>
  /\ conn' = [conn EXCEPT ![c].events = Append(@, Head(subscribers[c]))]
  /\ subscribers' = [subscribers EXCEPT ![c] = Tail(@)]
  /\ UNCHANGED <<storeAndRun, request, dropped>>

(* The client goes away: the deferred unsubscribe.                         *)
StreamEnd(c) ==
  /\ conn[c].at # "closed"
  /\ conn' = [conn EXCEPT ![c] = NoConn]
  /\ subscribers' = [d \in DOMAIN subscribers \ {c} |-> subscribers[d]]
  /\ dropped' = [dropped EXCEPT ![c] = {}]
  /\ UNCHANGED <<storeAndRun, request>>

-----------------------------------------------------------------------------
(* A step of the monitor beside the handlers.  The samples that may go     *)
(* missing are those that find the channel full when they are collected,   *)
(* whatever is then done with them.                                        *)
MonitorStep ==
  /\ Tick \/ Boot \/ BootFails \/ Signal \/ RunStep
  /\ dropped' = [c \in Clients |->
       IF c \in DOMAIN subscribers /\ last' # last /\ Len(subscribers[c]) = BufferCap
         THEN dropped[c] \cup {last'} ELSE dropped[c]]
  /\ UNCHANGED <<request, conn>>

(* The end of the process ends the handlers.                               *)
ProcessEnds ==
  /\ Crash \/ Exit
  /\ request' = [r \in Readers |-> NoRequest]
  /\ conn' = [c \in Clients |-> NoConn]
  /\ dropped' = [c \in Clients |-> {}]

HistoryStep == \E r \in Readers : HistoryCall(r) \/ HistoryRead(r) \/ HistoryEnd(r)
StreamStep ==
  \E c \in Clients : StreamSubscribe(c) \/ StreamFirst(c) \/ StreamNext(c) \/ StreamEnd(c)

Next == MonitorStep \/ ProcessEnds \/ HistoryStep \/ StreamStep

Spec == WebInit /\ [][Next]_vars

-----------------------------------------------------------------------------
Answered(r) == request[r].at = Len(Reads) + 1

(* A row that was in SQLite or an archive when the request came is in the  *)
(* answer, wherever the archiver moved it in the meantime; rows that came  *)
(* late are excepted, for the archiver deletes them.                       *)
HistoryKeepsStoredRows ==
  \A r \in Readers : Answered(r) =>
    request[r].due \ DOMAIN late \subseteq request[r].found

(* No sample is in the answer twice, once from the store and once from     *)
(* memory: History does not look for duplicates between the two.           *)
HistoryHasNoDuplicates ==
  \A r \in Readers : request[r].found \cap request[r].live = {}

(* README.md:67, "History queries merge SQLite, the current memory batch   *)
(* and relevant Parquet archives": a sample that was in memory when the    *)
(* request came is in the answer, itself or the row that stands for it.    *)
(* The code breaks it: a batch that is committed between its two reads is  *)
(* in neither, and a detached batch is in no place it reads.               *)
HistoryMergesMemory ==
  \A r \in Readers : Answered(r) =>
    \A t \in request[r].dueInMemory :
      {u \in 0..MaxTime : Bucket(u, interval) = Bucket(t, interval)} \subseteq request[r].range
        => \E u \in request[r].found \cup request[r].live :
             u >= t /\ Bucket(u, interval) = Bucket(t, interval)

(* A stream misses a sample only when its channel was full: every sample   *)
(* taken since the client subscribed was written, is buffered, or came     *)
(* when BufferCap others were waiting.  There is no gap between Subscribe  *)
(* and the first event.                                                    *)
ElementsOf(seq) == {seq[i] : i \in DOMAIN seq}

StreamMissesOnlyOverflow ==
  \A c \in Clients : conn[c].at = "open" =>
    \A t \in DOMAIN taken : t > conn[c].since =>
      t \in ElementsOf(conn[c].events) \cup ElementsOf(subscribers[c]) \cup dropped[c]
=============================================================================
