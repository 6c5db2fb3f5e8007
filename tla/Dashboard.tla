----------------------------- MODULE Dashboard -----------------------------
(***************************************************************************)
(* The page (internal/web/static/app.js) that draws one range of time from *)
(* two sources: the answers to /api/history, which replace its samples,    *)
(* and the events of /api/stream, which are pushed behind them.  Answers   *)
(* can overtake each other and events, fail, and come after another range  *)
(* was clicked; the stream drops samples, breaks and reconnects.           *)
(*                                                                         *)
(* The server is what the other modules show of it, in short: a sample at  *)
(* every tick, and a history that has them all.  Browser and server have   *)
(* the same clock.  A sample is its timestamp.                             *)
(***************************************************************************)
EXTENDS Integers, Sequences

CONSTANTS
  Ranges,      (* the lengths of time a button selects                     *)
  MaxPoints,   (* max_points=1600                                          *)
  Limit,       (* state.samples is halved when it has more than 2000       *)
  QueueCap,    (* events a stream holds between server and browser         *)
  Fetches,     (* bound: requests under way at a time                      *)
  MaxTime      (* bound: the clock stops there                             *)

ASSUME DashboardAssumption ==
  /\ Ranges \subseteq Nat \ {0}
  /\ MaxPoints \in Nat \ {0, 1}
  /\ Limit \in Nat /\ Limit % 2 = 0 /\ MaxPoints <= Limit
  /\ QueueCap \in Nat \ {0, 1}
  /\ MaxTime \in Nat \ {0}

VARIABLES
  now,         (* the clock, and the latest sample                         *)
  range,       (* state.range                                              *)
  samples,     (* state.samples                                            *)
  fetch,       (* request -> the time it asks for, or NoFetch              *)
  live,        (* the EventSource is connected                             *)
  queue        (* events that are on their way                             *)

vars == <<now, range, samples, fetch, live, queue>>

NoFetch == [from |-> 0, to |-> 0]

DashboardInit ==
  /\ now = 1
  /\ range \in Ranges
  /\ samples = <<>>
  /\ fetch = [f \in Fetches |-> NoFetch]
  /\ live = FALSE /\ queue = <<>>

DashboardTypeOK ==
  /\ now \in 1..MaxTime
  /\ range \in Ranges
  /\ samples \in Seq(1..MaxTime) /\ Len(samples) <= Limit
  /\ \A f \in Fetches : fetch[f].from < fetch[f].to \/ fetch[f] = NoFetch
  /\ live \in BOOLEAN
  /\ queue \in Seq(1..MaxTime) /\ Len(queue) <= QueueCap

-----------------------------------------------------------------------------
(* Downsample of the samples from first to last.                           *)
History(from, to) ==
  LET first == IF from < 1 THEN 1 ELSE from
      count == to - first + 1
      size  == IF count <= MaxPoints THEN count ELSE MaxPoints
  IN  [i \in 1..size |-> IF size = count THEN first + i - 1
                         ELSE first + ((i - 1) * (count - 1)) \div (MaxPoints - 1)]

(* loadHistory, up to the await: the time it asks for is fixed here.       *)
Ask(length) ==
  \E f \in Fetches :
    /\ fetch[f] = NoFetch
    /\ fetch' = [fetch EXCEPT ![f] = [from |-> now - length, to |-> now]]

Tick ==
  /\ now < MaxTime
  /\ now' = now + 1
  /\ queue' = IF live /\ Len(queue) < QueueCap THEN Append(queue, now') ELSE queue
  /\ UNCHANGED <<range, samples, fetch, live>>

Click ==
  /\ \E length \in Ranges \ {range} : range' = length /\ Ask(length)
  /\ UNCHANGED <<now, samples, live, queue>>

(* Mutant: the page reloads its history only while the stream is broken.   *)
Load_Offline ==
  /\ ~live
  /\ Ask(range)
  /\ UNCHANGED <<now, range, samples, live, queue>>

(* The first load, and setInterval's.                                      *)
Load ==
  /\ Ask(range)
  /\ UNCHANGED <<now, range, samples, live, queue>>

(* Mutant: the answer is pushed behind what is there.                      *)
Answered_Appends(f) == samples \o History(fetch[f].from, fetch[f].to)

(* Mutant: the answer is merged with the older samples that are there.     *)
Answered_Merges(f) ==
  SelectSeq(samples, LAMBDA t : t < fetch[f].from) \o History(fetch[f].from, fetch[f].to)

(* state.samples = d.samples, whatever was clicked or pushed meanwhile.    *)
Answered(f) == History(fetch[f].from, fetch[f].to)

Answer(f) ==
  /\ fetch[f] # NoFetch
  /\ samples' = Answered(f)
  /\ fetch' = [fetch EXCEPT ![f] = NoFetch]
  /\ UNCHANGED <<now, range, live, queue>>

(* An error status, or no connection: the samples stay.                    *)
AnswerFails(f) ==
  /\ fetch[f] # NoFetch
  /\ fetch' = [fetch EXCEPT ![f] = NoFetch]
  /\ UNCHANGED <<now, range, samples, live, queue>>

-----------------------------------------------------------------------------
(* The EventSource connects, or reconnects: the first event is the current *)
(* sample, after it come those since Subscribe (web.go:94-96), the current *)
(* one and older ones among them, as far as the channel holds them.        *)
Connect ==
  /\ ~live
  /\ live' = TRUE
  /\ \E first \in 1..now + 1 :
       LET count == now - first + 1
           size  == IF count < QueueCap THEN count ELSE QueueCap - 1
       IN  queue' = <<now>> \o [i \in 1..size |-> first + i - 1]
  /\ UNCHANGED <<now, range, samples, fetch>>

Disconnect ==
  /\ live
  /\ live' = FALSE /\ queue' = <<>>
  /\ UNCHANGED <<now, range, samples, fetch>>

(* Mutant: the other half is kept, samples with an odd index.              *)
Halve_Odd(list) == [i \in 1..(Len(list) \div 2) |-> list[2 * i]]

(* filter((_, i) => i % 2 === 0): the first, the third, and so on.         *)
Halve(list) == [i \in 1..((Len(list) + 1) \div 2) |-> list[2 * i - 1]]

(* filter(v => v.timestamp >= cutoff), whatever the order of the list.     *)
Since(list, cutoff) ==
  LET kept[n \in 0..Len(list)] ==
        IF n = 0 THEN <<>>
        ELSE IF list[n] >= cutoff THEN Append(kept[n - 1], list[n]) ELSE kept[n - 1]
  IN  kept[Len(list)]

(* events.onmessage: push, drop what is older than the range, halve.       *)
Message ==
  /\ queue # <<>>
  /\ queue' = Tail(queue)
  /\ LET recent == Since(Append(samples, Head(queue)), now - range)
     IN  samples' = IF Len(recent) > Limit THEN Halve(recent) ELSE recent
  /\ UNCHANGED <<now, range, fetch, live>>

DashboardNext ==
  \/ Tick \/ Click \/ Load
  \/ \E f \in Fetches : Answer(f) \/ AnswerFails(f)
  \/ Connect \/ Disconnect \/ Message

(* The interval timer keeps firing, requests come to an end, and the       *)
(* service is not out of reach for ever.                                   *)
DashboardSpec ==
  /\ DashboardInit /\ [][DashboardNext]_vars
  /\ WF_vars(Tick) /\ WF_vars(Message) /\ SF_vars(Load)
  /\ \A f \in Fetches : WF_vars(Answer(f) \/ AnswerFails(f)) /\ SF_vars(Answer(f))

-----------------------------------------------------------------------------
Shown(t) == \E i \in DOMAIN samples : samples[i] = t

(* The sample an event brings is drawn, and last: thinning out the samples *)
(* at the limit spares it.                                                 *)
MessageIsDrawn ==
  [][Message /\ Head(queue) >= now - range
       => samples' # <<>> /\ samples'[Len(samples')] = Head(queue)]_vars

RangeStays == \E length \in Ranges : <>[](range = length)

(* When nobody clicks any more, every sample of the range is drawn, and    *)
(* drawn again whenever it was lost: those an answer overwrote that was    *)
(* asked for before them, those a full queue or a broken stream dropped,   *)
(* those that were thinned out, and those the answer to an earlier click   *)
(* replaced.  This is about a range that time does not move past, whose    *)
(* answers have all samples.                                               *)
SamplesGetDrawn ==
  \A length \in Ranges :
    (length >= MaxTime /\ MaxPoints >= MaxTime /\ <>[](range = length))
      => \A t \in 1..MaxTime : now >= t ~> Shown(t)

(* The line of a chart goes from sample to sample in the order of the list.*)
Ordered ==
  \A i, j \in DOMAIN samples : i < j => samples[i] < samples[j]

(* Again and again the list is in order, without duplicates: a reconnect   *)
(* brings events that the list has already, and older ones behind newer    *)
(* ones, but they do not stay, whatever is clicked.                        *)
DisorderHeals == []<>Ordered

(* When nobody clicks any more, what is older than the range leaves the    *)
(* chart, be it from a late answer to an earlier click.                    *)
OldSamplesLeave ==
  RangeStays => \A t \in 1..MaxTime :
    Shown(t) /\ t < now - range ~> ~(Shown(t) /\ t < now - range)
=============================================================================
