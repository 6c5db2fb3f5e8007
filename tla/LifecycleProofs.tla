-------------------------- MODULE LifecycleProofs --------------------------
(***************************************************************************)
(* What Lifecycle promises for every interval, time limit and duration:    *)
(* the database stays open under the monitor, an exit saves the memory or  *)
(* reports why not, the process stops in time, and only flushes and        *)
(* archive calls make the current sample old.                              *)
(***************************************************************************)
EXTENDS Lifecycle, TLAPS

LEMMA IntervalType == Interval \in [Tickers -> Nat \ {0}]
BY LifecycleAssumption DEF Interval, Tickers

LEMMA TypeInit == LifecycleInit => LifecycleTypeOK
<1> SUFFICES ASSUME LifecycleInit PROVE LifecycleTypeOK
  OBVIOUS
<1>1. timer \in [Tickers -> Nat] /\ \A t \in Tickers : timer[t] \in 1..Interval[t]
  BY IntervalType DEF LifecycleInit
<1>2. {signalled, stopped, serverErr, unsaved, sampled} \subseteq BOOLEAN
  BY DEF LifecycleInit
<1>3. {age, blocked, since} \subseteq 0..Horizon /\ streams \in 0..MaxStreams
      /\ waited \in 0..Horizon /\ spent \in 0..(OperationTime + CollectTime)
  BY LifecycleAssumption DEF LifecycleInit
<1> QED
  BY <1>1, <1>2, <1>3 DEF LifecycleInit, LifecycleTypeOK

LEMMA TypeStep ==
  ASSUME LifecycleTypeOK, [LifecycleNext]_lifecycleVars
  PROVE  LifecycleTypeOK'
<1> USE DEF LifecycleTypeOK, Operations
<1>1. CASE Start
    BY <1>1, LifecycleAssumption DEF Start, runVars, healthVars, Interval,
     Tickers
<1>2. CASE PrepareFails
  BY <1>2, LifecycleAssumption DEF PrepareFails, Return, runVars, healthVars
<1>3. CASE Signal
  BY <1>3, LifecycleAssumption DEF Signal, runVars, healthVars
<1>4. CASE ListenFails
  BY <1>4, LifecycleAssumption DEF ListenFails, runVars, healthVars
<1>5. CASE StreamOpens
  BY <1>5, LifecycleAssumption DEF StreamOpens, runVars, healthVars
<1>6. CASE StreamLeaves
  BY <1>6, LifecycleAssumption DEF StreamLeaves, runVars, healthVars
<1>7. CASE OnSignal
    BY <1>7, LifecycleAssumption DEF OnSignal, unchangedByMain, runVars,
     healthVars
<1>8. CASE OnServerDone
    BY <1>8, LifecycleAssumption DEF OnServerDone, unchangedByMain, runVars,
     healthVars
<1>9. CASE OnMonitorDone
    BY <1>9, LifecycleAssumption DEF OnMonitorDone, unchangedByMain,
     runVars, healthVars
<1>10. CASE ShutdownReturns
  BY <1>10, LifecycleAssumption
          DEF ShutdownReturns, unchangedByMain, runVars, healthVars
<1>11. CASE AwaitMonitor
  BY <1>11, LifecycleAssumption
          DEF AwaitMonitor, Return, unchangedByMain, runVars, healthVars
<1>12. CASE AbandonMonitor
  BY <1>12, LifecycleAssumption
          DEF AbandonMonitor, Return, unchangedByMain, runVars, healthVars
<1>13. CASE DrainReturns
  BY <1>13, LifecycleAssumption
          DEF DrainReturns, Return, unchangedByMain, runVars, healthVars
<1>14. CASE InitReturns
  BY <1>14, LifecycleAssumption
          DEF InitReturns, mainVars, healthVars, Interval, Tickers
<1>15. CASE OnSampleTick
  BY <1>15, LifecycleAssumption DEF OnSampleTick, mainVars, healthVars
<1>16. CASE CollectReturns
  BY <1>16, LifecycleAssumption
          DEF CollectReturns, mainVars, healthVars, Capped
<1>17. CASE OnFlushTick
  BY <1>17, LifecycleAssumption DEF OnFlushTick, mainVars, healthVars
<1>18. CASE OnArchiveTick
  BY <1>18, LifecycleAssumption DEF OnArchiveTick, mainVars, healthVars
<1>19. CASE ArchiveReturns
  BY <1>19, LifecycleAssumption DEF ArchiveReturns, mainVars, healthVars
<1>20. CASE OnCtxDone
  BY <1>20, LifecycleAssumption DEF OnCtxDone, mainVars, healthVars
<1>21. CASE FlushReturns
  BY <1>21, LifecycleAssumption
          DEF FlushReturns, mainVars, healthVars, FlushCancelled
<1>22. CASE Pass
  BY <1>22, LifecycleAssumption
          DEF Pass, Fire, Tickers, Interval, Capped, Urgent, Limit, Ticking
<1>23. CASE UNCHANGED lifecycleVars
  BY <1>23 DEF lifecycleVars, mainVars, runVars, healthVars
<1> QED
    BY <1>1, <1>2, <1>3, <1>4, <1>5, <1>6, <1>7, <1>8, <1>9, <1>10, <1>11,
     <1>12, <1>13, <1>14, <1>15, <1>16, <1>17, <1>18, <1>19, <1>20, <1>21,
     <1>22, <1>23 DEF LifecycleNext, MainStep, RunStep

(* LifecycleTypeOK: timers stay between 1 and their interval, and          *)
(* operations within their limits.                                         *)
THEOREM LifecycleTypes == LifecycleSpec => []LifecycleTypeOK
<1>1. LifecycleTypeOK /\ [LifecycleNext]_lifecycleVars => LifecycleTypeOK'
  BY TypeStep
<1> QED
  BY TypeInit, <1>1, PTL DEF LifecycleSpec

-----------------------------------------------------------------------------
(* Where main and Run can be together, and what a finished Run left.       *)
ControlInv ==
  /\ store = "closed" => main = "exited"
  /\ main = "prepare" => run = "none"
  /\ run = "none" => main \in {"prepare", "exited"}
  /\ main \in {"drain", "exited"} => run \in {"none", "done"}
  /\ run = "none" => ~unsaved
  /\ run = "done" /\ unsaved => flushError \in {"disk", "timeout"}
  /\ main = "exited" /\ unsaved => status = 1

LEMMA ControlStep ==
  ASSUME LifecycleTypeOK, ControlInv, [LifecycleNext]_lifecycleVars
  PROVE  ControlInv'
<1> USE DEF ControlInv, LifecycleTypeOK
<1>1. CASE Start
  BY <1>1 DEF Start, runVars, healthVars
<1>2. CASE PrepareFails
  BY <1>2 DEF PrepareFails, Return, runVars, healthVars
<1>3. CASE Signal
  BY <1>3 DEF Signal, runVars, healthVars
<1>4. CASE ListenFails
  BY <1>4 DEF ListenFails, runVars, healthVars
<1>5. CASE StreamOpens
  BY <1>5 DEF StreamOpens, runVars, healthVars
<1>6. CASE StreamLeaves
  BY <1>6 DEF StreamLeaves, runVars, healthVars
<1>7. CASE OnSignal
  BY <1>7 DEF OnSignal, unchangedByMain, runVars, healthVars
<1>8. CASE OnServerDone
  BY <1>8 DEF OnServerDone, unchangedByMain, runVars, healthVars
<1>9. CASE OnMonitorDone
  BY <1>9 DEF OnMonitorDone, unchangedByMain, runVars, healthVars
<1>10. CASE ShutdownReturns
  BY <1>10 DEF ShutdownReturns, unchangedByMain, runVars, healthVars
<1>11. CASE AwaitMonitor
  BY <1>11 DEF AwaitMonitor, Return, unchangedByMain, runVars, healthVars
<1>12. CASE AbandonMonitor
  BY <1>12 DEF AbandonMonitor, Return, unchangedByMain, runVars, healthVars
<1>13. CASE DrainReturns
  BY <1>13 DEF DrainReturns, Return, unchangedByMain, runVars, healthVars
<1>14. CASE InitReturns
  BY <1>14 DEF InitReturns, mainVars, healthVars
<1>15. CASE OnSampleTick
  BY <1>15 DEF OnSampleTick, mainVars, healthVars
<1>16. CASE CollectReturns
  BY <1>16 DEF CollectReturns, mainVars, healthVars
<1>17. CASE OnFlushTick
  BY <1>17 DEF OnFlushTick, mainVars, healthVars
<1>18. CASE OnArchiveTick
  BY <1>18 DEF OnArchiveTick, mainVars, healthVars
<1>19. CASE ArchiveReturns
  BY <1>19 DEF ArchiveReturns, mainVars, healthVars
<1>20. CASE OnCtxDone
  BY <1>20 DEF OnCtxDone, mainVars, healthVars
<1>21. CASE FlushReturns
  BY <1>21 DEF FlushReturns, mainVars, healthVars, FlushCancelled
<1>22. CASE Pass
  BY <1>22 DEF Pass
<1>23. CASE UNCHANGED lifecycleVars
  BY <1>23 DEF lifecycleVars, mainVars, runVars, healthVars
<1> QED
    BY <1>1, <1>2, <1>3, <1>4, <1>5, <1>6, <1>7, <1>8, <1>9, <1>10, <1>11,
     <1>12, <1>13, <1>14, <1>15, <1>16, <1>17, <1>18, <1>19, <1>20, <1>21,
     <1>22, <1>23 DEF LifecycleNext, MainStep, RunStep

LEMMA Control == LifecycleSpec => []ControlInv
<1>1. LifecycleInit => ControlInv
  BY DEF LifecycleInit, ControlInv
<1>2. LifecycleTypeOK /\ ControlInv /\ [LifecycleNext]_lifecycleVars => ControlInv'
  BY ControlStep
<1> QED
  BY <1>1, <1>2, LifecycleTypes, PTL DEF LifecycleSpec

(* StoreOutlivesMonitor: the database is not closed under a running        *)
(* monitor, whichever case main's select takes.                            *)
THEOREM StoreStaysOpen == LifecycleSpec => []StoreOutlivesMonitor
<1>1. ControlInv => StoreOutlivesMonitor
  BY DEF ControlInv, StoreOutlivesMonitor
<1> QED
  BY <1>1, Control, PTL

(* ExitSavesMemory: samples left in memory at the exit are there for an    *)
(* error of the last flush, and the exit code tells.                       *)
THEOREM ExitReportsLoss == LifecycleSpec => []ExitSavesMemory
<1>1. ControlInv => ExitSavesMemory
  BY DEF ControlInv, ExitSavesMemory
<1> QED
  BY <1>1, Control, PTL

-----------------------------------------------------------------------------
(* The time since the signal, told by the timers of what is going on.      *)
TimeLimit ==
  IF ShutdownTimeout > OperationTime + FlushTimeout
  THEN ShutdownTimeout ELSE OperationTime + FlushTimeout

StopInv ==
  /\ ~CtxDone => since = 0
  /\ main \in {"prepare", "select"} => since = 0 /\ ~stopped
  /\ main \in {"shutdown", "drain"} => since <= waited /\ waited <= ShutdownTimeout
  /\ main \in {"await", "abandon"} => since <= TimeLimit
  /\ run \in {"none", "select"} => spent = 0
  /\ run \in {"final", "done"} => CtxDone
  /\ run \in {"init", "archive"} => spent <= OperationTime /\ since <= spent
  /\ run \in {"select", "collect", "flush"} => since <= OperationTime
  /\ run = "final" => spent <= FlushTimeout /\ since <= OperationTime + spent

LEMMA StopStep ==
  ASSUME LifecycleTypeOK, ControlInv, StopInv, [LifecycleNext]_lifecycleVars
  PROVE  StopInv'
<1> USE DEF StopInv, ControlInv, LifecycleTypeOK, CtxDone, TimeLimit
<1>1. CASE Start
  BY <1>1, LifecycleAssumption DEF Start, runVars, healthVars
<1>2. CASE PrepareFails
  BY <1>2, LifecycleAssumption DEF PrepareFails, Return, runVars, healthVars
<1>3. CASE Signal
  BY <1>3, LifecycleAssumption DEF Signal, runVars, healthVars
<1>4. CASE ListenFails
  BY <1>4, LifecycleAssumption DEF ListenFails, runVars, healthVars
<1>5. CASE StreamOpens
  BY <1>5, LifecycleAssumption DEF StreamOpens, runVars, healthVars
<1>6. CASE StreamLeaves
  BY <1>6, LifecycleAssumption DEF StreamLeaves, runVars, healthVars
<1>7. CASE OnSignal
    BY <1>7, LifecycleAssumption DEF OnSignal, unchangedByMain, runVars,
     healthVars
<1>8. CASE OnServerDone
    BY <1>8, LifecycleAssumption DEF OnServerDone, unchangedByMain, runVars,
     healthVars
<1>9. CASE OnMonitorDone
    BY <1>9, LifecycleAssumption DEF OnMonitorDone, unchangedByMain,
     runVars, healthVars
<1>10. CASE ShutdownReturns
  BY <1>10, LifecycleAssumption
          DEF ShutdownReturns, unchangedByMain, runVars, healthVars,
         ShutdownOver
<1>11. CASE AwaitMonitor
  BY <1>11, LifecycleAssumption
          DEF AwaitMonitor, Return, unchangedByMain, runVars, healthVars
<1>12. CASE AbandonMonitor
  BY <1>12, LifecycleAssumption
          DEF AbandonMonitor, Return, unchangedByMain, runVars, healthVars
<1>13. CASE DrainReturns
  BY <1>13, LifecycleAssumption
          DEF DrainReturns, Return, unchangedByMain, runVars, healthVars,
         ShutdownOver
<1>14. CASE InitReturns
  BY <1>14, LifecycleAssumption DEF InitReturns, mainVars, healthVars
<1>15. CASE OnSampleTick
  BY <1>15, LifecycleAssumption DEF OnSampleTick, mainVars, healthVars
<1>16. CASE CollectReturns
  BY <1>16, LifecycleAssumption DEF CollectReturns, mainVars, healthVars
<1>17. CASE OnFlushTick
  BY <1>17, LifecycleAssumption DEF OnFlushTick, mainVars, healthVars
<1>18. CASE OnArchiveTick
  BY <1>18, LifecycleAssumption DEF OnArchiveTick, mainVars, healthVars
<1>19. CASE ArchiveReturns
  BY <1>19, LifecycleAssumption DEF ArchiveReturns, mainVars, healthVars
<1>20. CASE OnCtxDone
  BY <1>20, LifecycleAssumption DEF OnCtxDone, mainVars, healthVars
<1>21. CASE FlushReturns
  BY <1>21, LifecycleAssumption DEF FlushReturns, mainVars, healthVars
<1>22. CASE Pass
  BY <1>22, LifecycleAssumption
          DEF Pass, Capped, Urgent, Limit, ShutdownOver, Operations
<1>23. CASE UNCHANGED lifecycleVars
  BY <1>23 DEF lifecycleVars, mainVars, runVars, healthVars
<1> QED
    BY <1>1, <1>2, <1>3, <1>4, <1>5, <1>6, <1>7, <1>8, <1>9, <1>10, <1>11,
     <1>12, <1>13, <1>14, <1>15, <1>16, <1>17, <1>18, <1>19, <1>20, <1>21,
     <1>22, <1>23 DEF LifecycleNext, MainStep, RunStep

LEMMA Stops == LifecycleSpec => []StopInv
<1>1. LifecycleInit => StopInv
  BY LifecycleAssumption DEF LifecycleInit, StopInv, CtxDone, TimeLimit
<1>2. LifecycleTypeOK /\ ControlInv /\ StopInv /\ [LifecycleNext]_lifecycleVars => StopInv'
  BY StopStep
<1> QED
  BY <1>1, <1>2, LifecycleTypes, Control, PTL DEF LifecycleSpec

(* StopsInTime: the process ends within the longer of the two time limits, *)
(* not their sum.                                                          *)
THEOREM StopsWithinLimit == LifecycleSpec => []StopsInTime
<1>1. LifecycleTypeOK /\ ControlInv /\ StopInv => StopsInTime
  BY LifecycleAssumption
     DEF LifecycleTypeOK, ControlInv, StopInv, StopsInTime, TimeLimit, Operations
<1> QED
  BY <1>1, LifecycleTypes, Control, Stops, PTL

-----------------------------------------------------------------------------
(* The age of the current sample and, while the next one is collected, of  *)
(* that: what is left until the ticker fires, or that it has.              *)
Wait == IF SampleInterval > CollectTime THEN SampleInterval ELSE CollectTime

InTime(old, allowed) ==
  IF "sample" \in ready THEN old <= Wait + allowed
                        ELSE old + timer["sample"] <= SampleInterval + allowed

FreshInv ==
  /\ run = "collect" => spent <= CollectTime /\ InTime(spent, 0)
  /\ run = "collect" /\ sampled => age <= Wait + blocked + spent
  /\ run \in {"select", "flush", "archive"} /\ sampled => InTime(age, blocked)
  /\ run \in {"none", "init"} => ready = {} /\ ~sampled

LEMMA FreshStep ==
  ASSUME LifecycleTypeOK, ControlInv, FreshInv, [LifecycleNext]_lifecycleVars
  PROVE  FreshInv'
<1>0. timer["sample"] \in 1..SampleInterval
  BY DEF LifecycleTypeOK, Tickers, Interval
<1> USE DEF FreshInv, InTime, Wait, LifecycleTypeOK
<1>1. CASE Start
  BY <1>1, <1>0, LifecycleAssumption
          DEF Start, runVars, healthVars, ControlInv
<1>2. CASE PrepareFails
  BY <1>2, <1>0, LifecycleAssumption
          DEF PrepareFails, Return, runVars, healthVars
<1>3. CASE Signal
  BY <1>3, <1>0, LifecycleAssumption DEF Signal, runVars, healthVars
<1>4. CASE ListenFails
  BY <1>4, <1>0, LifecycleAssumption DEF ListenFails, runVars, healthVars
<1>5. CASE StreamOpens
  BY <1>5, <1>0, LifecycleAssumption DEF StreamOpens, runVars, healthVars
<1>6. CASE StreamLeaves
  BY <1>6, <1>0, LifecycleAssumption DEF StreamLeaves, runVars, healthVars
<1>7. CASE OnSignal
  BY <1>7, <1>0, LifecycleAssumption
          DEF OnSignal, unchangedByMain, runVars, healthVars
<1>8. CASE OnServerDone
  BY <1>8, <1>0, LifecycleAssumption
          DEF OnServerDone, unchangedByMain, runVars, healthVars
<1>9. CASE OnMonitorDone
  BY <1>9, <1>0, LifecycleAssumption
          DEF OnMonitorDone, unchangedByMain, runVars, healthVars
<1>10. CASE ShutdownReturns
  BY <1>10, <1>0, LifecycleAssumption
          DEF ShutdownReturns, unchangedByMain, runVars, healthVars
<1>11. CASE AwaitMonitor
  BY <1>11, <1>0, LifecycleAssumption
          DEF AwaitMonitor, Return, unchangedByMain, runVars, healthVars
<1>12. CASE AbandonMonitor
  BY <1>12, <1>0, LifecycleAssumption
          DEF AbandonMonitor, Return, unchangedByMain, runVars, healthVars
<1>13. CASE DrainReturns
  BY <1>13, <1>0, LifecycleAssumption
          DEF DrainReturns, Return, unchangedByMain, runVars, healthVars
<1>14. CASE InitReturns
  BY <1>14, <1>0, LifecycleAssumption
          DEF InitReturns, mainVars, healthVars, Interval, Tickers
<1>15. CASE OnSampleTick
  BY <1>15, <1>0, LifecycleAssumption DEF OnSampleTick, mainVars, healthVars
<1>16. CASE CollectReturns
  BY <1>16, <1>0, LifecycleAssumption
          DEF CollectReturns, mainVars, healthVars, Capped
<1>17. CASE OnFlushTick
  BY <1>17, <1>0, LifecycleAssumption DEF OnFlushTick, mainVars, healthVars
<1>18. CASE OnArchiveTick
  BY <1>18, <1>0, LifecycleAssumption
          DEF OnArchiveTick, mainVars, healthVars
<1>19. CASE ArchiveReturns
  BY <1>19, <1>0, LifecycleAssumption
          DEF ArchiveReturns, mainVars, healthVars
<1>20. CASE OnCtxDone
  BY <1>20, <1>0, LifecycleAssumption DEF OnCtxDone, mainVars, healthVars
<1>21. CASE FlushReturns
  BY <1>21, <1>0, LifecycleAssumption DEF FlushReturns, mainVars, healthVars
<1>22. CASE Pass
  <2>1. /\ ~Urgent
        /\ spent' = IF run \in Operations THEN spent + 1 ELSE 0
        /\ age' = IF sampled THEN Capped(age + 1) ELSE 0
        /\ blocked' = IF run \in {"flush", "archive"} THEN Capped(blocked + 1) ELSE blocked
        /\ UNCHANGED <<run, sampled>>
    BY <1>22 DEF Pass
  <2>2. Ticking =>
          /\ timer["sample"] > 1 => timer'["sample"] = timer["sample"] - 1
          /\ timer["sample"] = 1 => timer'["sample"] = SampleInterval
          /\ "sample" \in ready' <=> "sample" \in ready \/ timer["sample"] = 1
    BY <1>0, <1>22 DEF Pass, Fire, Tickers, Interval
  <2>3. ~Ticking => UNCHANGED <<timer, ready>>
    BY <1>22 DEF Pass
  <2>4. run = "collect" => spent < CollectTime
    BY <2>1, LifecycleAssumption DEF Urgent, Limit, Operations
  <2>5. run = "select" => "sample" \notin ready
    BY <2>1 DEF Urgent
  <2>6. CASE run = "collect"
    BY <1>0, <2>1, <2>2, <2>4, <2>6, LifecycleAssumption DEF Ticking, Operations, Capped
  <2>7. CASE run \in {"select", "flush", "archive"}
    BY <1>0, <2>1, <2>2, <2>5, <2>7, LifecycleAssumption DEF Ticking, Operations, Capped
  <2>8. CASE run \in {"none", "init", "final", "done"}
    BY <2>1, <2>3, <2>8, LifecycleAssumption DEF Ticking, Capped
  <2> QED
    BY <2>6, <2>7, <2>8 DEF Operations
<1>23. CASE UNCHANGED lifecycleVars
  BY <1>23 DEF lifecycleVars, mainVars, runVars, healthVars
<1> QED
    BY <1>1, <1>2, <1>3, <1>4, <1>5, <1>6, <1>7, <1>8, <1>9, <1>10, <1>11,
     <1>12, <1>13, <1>14, <1>15, <1>16, <1>17, <1>18, <1>19, <1>20, <1>21,
     <1>22, <1>23 DEF LifecycleNext, MainStep, RunStep

LEMMA Fresh == LifecycleSpec => []FreshInv
<1>1. LifecycleInit => FreshInv
  BY LifecycleAssumption DEF LifecycleInit, FreshInv
<1>2. LifecycleTypeOK /\ ControlInv /\ FreshInv /\ [LifecycleNext]_lifecycleVars => FreshInv'
  BY FreshStep
<1> QED
  BY <1>1, <1>2, LifecycleTypes, Control, PTL DEF LifecycleSpec

(* FreshUnlessBlocked: without flushes and archive calls the current       *)
(* sample is younger than one interval and one collection.                 *)
THEOREM OnlyBlockingMakesStale == LifecycleSpec => []FreshUnlessBlocked
<1>1. LifecycleTypeOK /\ ControlInv /\ StopInv /\ FreshInv => FreshUnlessBlocked
  <2> SUFFICES ASSUME LifecycleTypeOK, ControlInv, StopInv, FreshInv,
                      sampled, Ticking, ~CtxDone
               PROVE  age <= Wait + CollectTime + blocked
    BY DEF FreshUnlessBlocked, Wait
  <2>1. run \in {"select", "collect", "flush", "archive"}
    BY DEF LifecycleTypeOK, Operations, Ticking, StopInv
  <2>2. timer["sample"] \in Nat
    BY DEF LifecycleTypeOK, Tickers
  <2>3. {age, blocked, spent} \subseteq Nat
    BY DEF LifecycleTypeOK
  <2> QED
    BY <2>1, <2>2, <2>3, LifecycleAssumption DEF FreshInv, InTime, Wait
<1> QED
  BY <1>1, LifecycleTypes, Control, Stops, Fresh, PTL
=============================================================================
