---------------------------- MODULE ClockSteps ----------------------------
(***************************************************************************)
(* The monitor on a machine whose wall clock is set back while it runs, as *)
(* NTP does on a board that starts without a battery-backed clock.  The    *)
(* code takes time.Now().UTC() for a timestamp, the primary key of the     *)
(* table: the same ticks come again, and new samples can carry timestamps  *)
(* of stored ones.                                                         *)
(*                                                                         *)
(* In Monitor, last only says that the clock has moved since the last      *)
(* sample; setting the clock moves it just below the new time.             *)
(***************************************************************************)
EXTENDS Monitor

CONSTANT MaxSetBacks   (* bound: how often the clock is set back            *)

ASSUME ClockAssumption == MaxSetBacks \in Nat

VARIABLES
  setBacks,    (* how often that was                                       *)
  repeated     (* history: the ticks that come, or came, more than once    *)

clockStepsVars == <<monitorVars, setBacks, repeated>>

ClockInit == MonitorInit /\ setBacks = 0 /\ repeated = {}

SetBack ==
  /\ setBacks < MaxSetBacks
  /\ setBacks' = setBacks + 1
  /\ \E t \in 1..now :
       /\ now' = t /\ last' = t - 1
       /\ repeated' = repeated \cup t..now
  /\ UNCHANGED <<storeVars, process, memory, ghosts>>

ClockNext ==
  \/ MonitorNext /\ UNCHANGED <<setBacks, repeated>>
  \/ SetBack

ClockSpec == ClockInit /\ [][ClockNext]_clockStepsVars

-----------------------------------------------------------------------------
(* Setting the clock back costs samples of the time that came twice, where *)
(* INSERT OR REPLACE overwrites rows and a flush finds its batch out of    *)
(* order, and of no other time: a sample whose row cannot be of a repeated *)
(* tick is accounted for as ever.                                          *)
InRepeatedTime(t) == \E u \in repeated : Reaches(u, t)

OtherSamplesAccountedFor ==
  \A t \in DOMAIN taken :
    \/ t \in lost \cup InMemory \/ InRepeatedTime(t)
    \/ \E row \in StoredRows : StandsFor(row, t)
=============================================================================
