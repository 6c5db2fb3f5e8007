----------------------------- MODULE Lifecycle -----------------------------
(***************************************************************************)
(* cmd/pi-monitor: one process from its start to its exit, as far as time  *)
(* matters.  main waits for a signal, the listener or the monitor; Run     *)
(* waits for its tickers and samples, flushes and archives in one          *)
(* goroutine; the HTTP server has streams that end when their clients      *)
(* leave; and /healthz compares the age of the current sample with a       *)
(* limit.  What is written where is the subject of Monitor.                *)
(*                                                                         *)
(* Time is counted down and up in small timers; there is no clock.  Only   *)
(* the operations named in Limit take time, and a goroutine that can go on *)
(* does so before time passes (Urgent).  A tick is the resolution of that  *)
(* assumption, half a second or so.  Durations are those of a wall clock   *)
(* that nobody sets: time.Since of the current sample's timestamp, which   *)
(* UTC() has stripped of its monotonic reading, is then the time elapsed.  *)
(***************************************************************************)
EXTENDS Integers

CONSTANTS
  SampleInterval, FlushInterval, ArchiveInterval,
  CollectTime,      (* most a sample takes: two vcgencmd that time out     *)
  OperationTime,    (* bound: most a flush or an archive call takes        *)
  ShutdownTimeout,  (* of httpServer.Shutdown, 20 s                        *)
  FlushTimeout,     (* of the last flush, 20 s                             *)
  StaleAfter,       (* of /healthz, 10 s                                   *)
  MaxStreams,       (* bound: open streams                                 *)
  Horizon           (* bound: ages and waiting times are counted up to it  *)

ASSUME LifecycleAssumption ==
  /\ {SampleInterval, FlushInterval, ArchiveInterval} \subseteq Nat \ {0}
  /\ {CollectTime, OperationTime, ShutdownTimeout, FlushTimeout} \subseteq Nat
  /\ {StaleAfter, MaxStreams, Horizon} \subseteq Nat

VARIABLES
  main,         (* where run() is                                          *)
  signalled,    (* signalCtx is done                                       *)
  stopped,      (* cancel() was called                                     *)
  server,       (* "up", "failed" (serverDone has an error), "closed"      *)
  streams,      (* requests to /api/stream that are open                   *)
  waited,       (* how long Shutdown has been waiting for them             *)
  serverErr,    (* Shutdown gave up                                        *)
  store,        (* "open", "closed"                                        *)
  status,       (* the exit code                                           *)
  run,          (* where Run is; "done" when monitorDone has its result    *)
  spent,        (* how long the running operation takes already            *)
  timer,        (* ticks until each ticker fires                           *)
  ready,        (* the tickers with a tick in their channel, of capacity 1 *)
  unsaved,      (* m.pending or the batch of a flush is not empty          *)
  flushError,   (* what the last Flush returned                            *)
  sampled,      (* m.current is not nil                                    *)
  age,          (* the time since its timestamp                            *)
  blocked,      (* history: the part of age that flushes and archives took *)
  since         (* history: the time since the signal or cancel()          *)

mainVars == <<main, signalled, stopped, server, streams, waited, serverErr, store, status>>
runVars == <<run, spent, timer, ready, unsaved, flushError>>
healthVars == <<sampled, age, blocked>>
lifecycleVars == <<mainVars, runVars, healthVars, since>>

Tickers == {"sample", "flush", "archive"}
Interval == [sample |-> SampleInterval, flush |-> FlushInterval, archive |-> ArchiveInterval]

Capped(n) == IF n > Horizon THEN Horizon ELSE n

LifecycleInit ==
  /\ main = "prepare" /\ signalled = FALSE /\ stopped = FALSE
  /\ server = "closed" /\ streams = 0 /\ waited = 0 /\ serverErr = FALSE
  /\ store = "open" /\ status = 0
  /\ run = "none" /\ spent = 0 /\ timer = Interval /\ ready = {}
  /\ unsaved = FALSE /\ flushError = "none"
  /\ sampled = FALSE /\ age = 0 /\ blocked = 0
  /\ since = 0

(* Mutant: ctx does not come from signalCtx, and main cancels it after     *)
(* the HTTP shutdown.                                                      *)
CtxDone_AfterShutdown == stopped \/ main = "await"

(* ctx is derived from signalCtx.                                          *)
CtxDone == signalled \/ stopped

-----------------------------------------------------------------------------
(* storage.Open has succeeded; PreparePersistence does, and the goroutines *)
(* start: Run with its archive call.  (The time before is not counted.)    *)
Start ==
  /\ main = "prepare"
  /\ main' = "select" /\ server' = "up" /\ run' = "init"
  /\ UNCHANGED <<signalled, stopped, streams, waited, serverErr, store, status,
                 spent, timer, ready, unsaved, flushError, healthVars, since>>

Return(code) == main' = "exited" /\ store' = "closed" /\ status' = code

PrepareFails ==
  /\ main = "prepare"
  /\ Return(1)
  /\ UNCHANGED <<signalled, stopped, server, streams, waited, serverErr,
                 runVars, healthVars, since>>

(* SIGINT or SIGTERM; later ones change nothing.                           *)
Signal ==
  /\ main \notin {"prepare", "exited"} /\ ~signalled
  /\ signalled' = TRUE
  /\ UNCHANGED <<main, stopped, server, streams, waited, serverErr, store, status,
                 runVars, healthVars, since>>

ListenFails ==
  /\ main = "select" /\ server = "up"
  /\ server' = "failed"
  /\ UNCHANGED <<main, signalled, stopped, streams, waited, serverErr, store, status,
                 runVars, healthVars, since>>

StreamOpens ==
  /\ server = "up" /\ streams < MaxStreams
  /\ streams' = streams + 1
  /\ UNCHANGED <<main, signalled, stopped, server, waited, serverErr, store, status,
                 runVars, healthVars, since>>

StreamLeaves ==
  /\ streams > 0
  /\ streams' = streams - 1
  /\ UNCHANGED <<main, signalled, stopped, server, waited, serverErr, store, status,
                 runVars, healthVars, since>>

-----------------------------------------------------------------------------
unchangedByMain == <<signalled, streams, runVars, healthVars, since>>

(* The select of run(): three cases, in any order when several are ready.  *)
(* Shutdown closes the listener; ErrServerClosed stays in serverDone.      *)
OnSignal ==
  /\ main = "select" /\ signalled
  /\ main' = "shutdown" /\ server' = "closed" /\ waited' = 0
  /\ UNCHANGED <<stopped, serverErr, store, status, unchangedByMain>>

OnServerDone ==
  /\ main = "select" /\ server = "failed"
  /\ main' = "abandon" /\ stopped' = TRUE
  /\ UNCHANGED <<server, waited, serverErr, store, status, unchangedByMain>>

OnMonitorDone ==
  /\ main = "select" /\ run = "done"
  /\ main' = "drain" /\ stopped' = TRUE /\ server' = "closed" /\ waited' = 0
  /\ UNCHANGED <<serverErr, store, status, unchangedByMain>>

(* Mutant: Shutdown with a context that has no deadline.                   *)
ShutdownOver_NoDeadline == streams = 0

(* Shutdown returns when no request is left, or with an error in the end.  *)
ShutdownOver == streams = 0 \/ waited >= ShutdownTimeout

ShutdownReturns ==
  /\ main = "shutdown" /\ ShutdownOver
  /\ main' = "await" /\ serverErr' = (streams # 0)
  /\ UNCHANGED <<stopped, server, waited, store, status, unchangedByMain>>

(* Mutant: main returns after the HTTP shutdown.                           *)
AwaitMonitor_Skips ==
  /\ main = "await"
  /\ Return(IF serverErr \/ flushError # "none" THEN 1 ELSE 0)
  /\ UNCHANGED <<stopped, server, waited, serverErr, unchangedByMain>>

(* <-monitorDone, then errors.Join(serverErr, monitorErr).                 *)
AwaitMonitor ==
  /\ main = "await" /\ run = "done"
  /\ Return(IF serverErr \/ flushError # "none" THEN 1 ELSE 0)
  /\ UNCHANGED <<stopped, server, waited, serverErr, unchangedByMain>>

(* <-monitorDone after the listener failed; its error is returned.         *)
AbandonMonitor ==
  /\ main = "abandon" /\ run = "done"
  /\ Return(1)
  /\ UNCHANGED <<stopped, server, waited, serverErr, unchangedByMain>>

(* The Shutdown of the monitorDone case.                                   *)
DrainReturns ==
  /\ main = "drain" /\ ShutdownOver
  /\ serverErr' = (streams # 0)
  /\ Return(IF streams # 0 \/ flushError # "none" THEN 1 ELSE 0)
  /\ UNCHANGED <<stopped, server, waited, unchangedByMain>>

MainStep ==
  \/ OnSignal \/ OnServerDone \/ OnMonitorDone
  \/ ShutdownReturns \/ AwaitMonitor \/ AbandonMonitor \/ DrainReturns

-----------------------------------------------------------------------------
(* The first archive call returns; the tickers start, and the first sample *)
(* is taken.                                                               *)
InitReturns ==
  /\ run = "init"
  /\ run' = "collect" /\ spent' = 0 /\ timer' = Interval
  /\ UNCHANGED <<mainVars, ready, unsaved, flushError, healthVars, since>>

OnSampleTick ==
  /\ run = "select" /\ "sample" \in ready
  /\ run' = "collect" /\ spent' = 0 /\ ready' = ready \ {"sample"}
  /\ UNCHANGED <<mainVars, timer, unsaved, flushError, healthVars, since>>

(* Mutant: a partial sample, whose Collect returned an error, is dropped.  *)
CollectReturns_DropsPartial ==
  /\ run = "collect"
  /\ run' = "select" /\ spent' = 0
  /\ \/ UNCHANGED <<unsaved, sampled, age, blocked>>
     \/ unsaved' = TRUE /\ sampled' = TRUE /\ age' = Capped(spent) /\ blocked' = 0
  /\ UNCHANGED <<mainVars, timer, ready, flushError, since>>

(* Mutant: a timer that is set again after each sample, not a ticker.      *)
CollectReturns_ResetsTimer ==
  /\ run = "collect"
  /\ run' = "select" /\ spent' = 0
  /\ unsaved' = TRUE
  /\ sampled' = TRUE /\ age' = Capped(spent) /\ blocked' = 0
  /\ timer' = [timer EXCEPT !.sample = SampleInterval]
  /\ ready' = ready \ {"sample"}
  /\ UNCHANGED <<mainVars, flushError, since>>

(* The sample carries the time at which Collect began.                     *)
CollectReturns ==
  /\ run = "collect"
  /\ run' = "select" /\ spent' = 0
  /\ unsaved' = TRUE
  /\ sampled' = TRUE /\ age' = Capped(spent) /\ blocked' = 0
  /\ UNCHANGED <<mainVars, timer, ready, flushError, since>>

(* With ctx done, the transaction is refused and the batch put back; with  *)
(* nothing to write, Flush returns nil.                                    *)
OnFlushTick ==
  /\ run = "select" /\ "flush" \in ready
  /\ ready' = ready \ {"flush"}
  /\ IF unsaved /\ ~CtxDone
       THEN run' = "flush" /\ UNCHANGED flushError
       ELSE run' = "select" /\ flushError' = IF unsaved THEN "cancelled" ELSE "none"
  /\ UNCHANGED <<mainVars, spent, timer, unsaved, healthVars, since>>

(* With ctx done, the first query of the archiver is refused.              *)
OnArchiveTick ==
  /\ run = "select" /\ "archive" \in ready
  /\ ready' = ready \ {"archive"}
  /\ run' = IF CtxDone THEN "select" ELSE "archive"
  /\ UNCHANGED <<mainVars, spent, timer, unsaved, flushError, healthVars, since>>

ArchiveReturns ==
  /\ run = "archive"
  /\ run' = "select" /\ spent' = 0
  /\ UNCHANGED <<mainVars, timer, ready, unsaved, flushError, healthVars, since>>

(* ctx.Done: Run returns after one more Flush.                             *)
OnCtxDone ==
  /\ run = "select" /\ CtxDone
  /\ run' = IF unsaved THEN "final" ELSE "done"
  /\ flushError' = "none"
  /\ UNCHANGED <<mainVars, spent, timer, ready, unsaved, healthVars, since>>

(* Mutant: the last flush gets ctx, too.                                   *)
FlushCancelled_Final == CtxDone

(* The context of the flush: the last one has its own, without ctx.        *)
FlushCancelled == run = "flush" /\ CtxDone

FlushReturns ==
  /\ run \in {"flush", "final"}
  /\ flushError' \in
       CASE FlushCancelled -> {"cancelled"}
         [] ~FlushCancelled /\ run = "final" /\ spent >= FlushTimeout -> {"none", "disk", "timeout"}
         [] OTHER -> {"none", "disk"}
  /\ unsaved' = (flushError' # "none")
  /\ run' = IF run = "final" THEN "done" ELSE "select"
  /\ spent' = 0
  /\ UNCHANGED <<mainVars, timer, ready, healthVars, since>>

RunStep ==
  \/ InitReturns \/ OnSampleTick \/ CollectReturns
  \/ OnFlushTick \/ OnArchiveTick \/ ArchiveReturns \/ OnCtxDone \/ FlushReturns

-----------------------------------------------------------------------------
(* A cancelled context ends a vcgencmd and a transaction at once, but not  *)
(* the writing of a file.                                                  *)
Limit ==
  CASE run = "collect" -> IF CtxDone THEN 0 ELSE CollectTime
    [] run = "flush" -> IF CtxDone THEN 0 ELSE OperationTime
    [] run = "final" -> IF OperationTime < FlushTimeout THEN OperationTime ELSE FlushTimeout
    [] OTHER -> OperationTime

Operations == {"init", "collect", "flush", "archive", "final"}

Urgent ==
  \/ main = "prepare"
  \/ main = "select" /\ (signalled \/ server = "failed" \/ run = "done")
  \/ main \in {"shutdown", "drain"} /\ ShutdownOver
  \/ main \in {"await", "abandon"} /\ run = "done"
  \/ run = "select" /\ (ready # {} \/ CtxDone)
  \/ run \in Operations /\ spent >= Limit

Ticking == run \notin {"none", "init", "done"}

(* Mutant: the first tick is the only one, as of time.After.               *)
Fire_Once(t) == IF timer[t] > 0 THEN timer[t] - 1 ELSE 0

(* A ticker that fires starts again.                                       *)
Fire(t) == IF timer[t] > 1 THEN timer[t] - 1 ELSE Interval[t]

(* Time passes.  A ticker whose channel is full drops its tick.            *)
Pass ==
  /\ main # "exited" /\ ~Urgent
  /\ spent' = IF run \in Operations THEN spent + 1 ELSE 0
  /\ IF Ticking
       THEN /\ timer' = [t \in Tickers |-> Fire(t)]
            /\ ready' = ready \cup {t \in Tickers : timer[t] = 1}
       ELSE UNCHANGED <<timer, ready>>
  /\ waited' = IF main \in {"shutdown", "drain"} THEN Capped(waited + 1) ELSE waited
  /\ age' = IF sampled THEN Capped(age + 1) ELSE 0
  /\ blocked' = IF run \in {"flush", "archive"} THEN Capped(blocked + 1) ELSE blocked
  /\ since' = IF signalled \/ stopped THEN Capped(since + 1) ELSE 0
  /\ UNCHANGED <<main, signalled, stopped, server, streams, serverErr, store, status,
                 run, unsaved, flushError, sampled>>

LifecycleNext ==
  \/ Start \/ PrepareFails \/ Signal \/ ListenFails \/ StreamOpens \/ StreamLeaves
  \/ MainStep \/ RunStep \/ Pass

(* A goroutine that can go on does, an operation ends, and time passes.    *)
(* Nothing is said of clients, signals and the listener.                   *)
LifecycleSpec ==
  /\ LifecycleInit /\ [][LifecycleNext]_lifecycleVars
  /\ WF_lifecycleVars(MainStep) /\ WF_lifecycleVars(RunStep) /\ WF_lifecycleVars(Pass)

-----------------------------------------------------------------------------
LifecycleTypeOK ==
  /\ main \in {"prepare", "select", "shutdown", "await", "abandon", "drain", "exited"}
  /\ server \in {"up", "failed", "closed"}
  /\ {signalled, stopped, serverErr, unsaved, sampled} \subseteq BOOLEAN
  /\ streams \in 0..MaxStreams /\ waited \in 0..Horizon
  /\ store \in {"open", "closed"} /\ status \in {0, 1}
  /\ run \in {"none", "select", "done"} \cup Operations
  /\ spent \in 0..(OperationTime + CollectTime)
  /\ timer \in [Tickers -> Nat] /\ \A t \in Tickers : timer[t] \in 1..Interval[t]
  /\ ready \subseteq Tickers
  /\ flushError \in {"none", "disk", "timeout", "cancelled"}
  /\ {age, blocked, since} \subseteq 0..Horizon

(* The database is never closed under the monitor: main.go:105-106, "Wait  *)
(* for that flush before the deferred database close", in every case of    *)
(* the select and whichever of several ready ones is taken.                *)
StoreOutlivesMonitor == store = "closed" => run \in {"none", "done"}

(* An exit with samples still in memory has a reason, an error of the disk *)
(* or a last flush that ran out of its own 20 s, and reports it: the exit  *)
(* code is 1 whichever case of the select was taken.                       *)
ExitSavesMemory ==
  main = "exited" /\ unsaved => flushError \in {"disk", "timeout"} /\ status = 1

(* The two time limits run side by side: the process ends within the HTTP  *)
(* shutdown's limit or, if later, that of the running archive call and the *)
(* last flush, not their sum.  Streams whose clients never leave and ticks *)
(* that came with the signal cannot prolong it.                            *)
StopsInTime ==
  main # "exited" =>
    since <= IF ShutdownTimeout > OperationTime + FlushTimeout
             THEN ShutdownTimeout ELSE OperationTime + FlushTimeout

(* /healthz.                                                               *)
Stale == ~sampled \/ age > StaleAfter

(* While Run samples, only flushes and archive calls make the current      *)
(* sample old (and setting the clock, which this module leaves out):       *)
(* without them it is younger than one interval and the time a sample      *)
(* takes, however the ticks fall and although missed ones are dropped.     *)
(* /healthz is stale only when they took the difference; with hourly       *)
(* tickers that needs a slow flush and a slow archive call.                *)
FreshUnlessBlocked ==
  sampled /\ Ticking /\ ~CtxDone =>
    LET wait == IF SampleInterval > CollectTime THEN SampleInterval ELSE CollectTime
    IN  age <= wait + CollectTime + blocked

(* A signal, or the failure of the listener, ends the process.             *)
ShutdownEnds == CtxDone ~> main = "exited"

(* A service that is not stopped becomes healthy again, also after the     *)
(* longest blocking and after a start with a slow archive call.            *)
HealthRecovers == (main = "select" /\ Stale) ~> (~Stale \/ CtxDone \/ server # "up")
=============================================================================
