----------------------------- MODULE Algorithms -----------------------------
(***************************************************************************)
(* The pure functions of internal/storage as the loops the code runs:      *)
(* CompactByInterval, deduplicate and Downsample, an iteration a step, and *)
(* stableWindow with its whole table of thresholds.  A behaviour is one    *)
(* call, on any of the given inputs.                                       *)
(*                                                                         *)
(* points is the array under the slice that was passed.  Only deduplicate  *)
(* writes to it: out := points[:1] shares it, and append writes the result *)
(* in place while the loop is still reading.  argument keeps what the      *)
(* array held when the function was called.                                *)
(***************************************************************************)
EXTENDS Samples, Thresholds

CONSTANTS
  Compactions,     (* CompactByInterval: pairs of points and bucketWidth   *)
  Queries,         (* deduplicate: sorted points, some with the same time  *)
  Responses,       (* Downsample: pairs of points, none twice, and max     *)
  Windows          (* stableWindow: sequences of readings                  *)

ASSUME AlgorithmsAssumption ==
  /\ \A c \in Compactions : c[1] \in Seq(Sample) /\ c[2] \in Nat \ {0}
  /\ Queries \subseteq Seq(Sample)
  /\ \A r \in Responses :
       /\ r[1] \in Seq(Sample) /\ r[2] \in Nat \ {1}
       /\ \A i, j \in DOMAIN r[1] : r[1][i] = r[1][j] => i = j
  /\ \A w \in Windows :
       /\ Len(w) \in Nat /\ DOMAIN w = 1..Len(w)
       /\ \A i \in DOMAIN w : IsReading(w[i])

VARIABLES
  call,            (* the function that runs                               *)
  argument,        (* its points as they were passed                       *)
  limit,           (* bucketWidth or max                                   *)
  points,          (* the array                                            *)
  begin, end,      (* the loop variables                                   *)
  out,             (* the result; deduplicate's has its elements in points *)
  returned

algorithmVars == <<call, argument, limit, points, begin, end, out, returned>>

-----------------------------------------------------------------------------
Call(name, slice, number) ==
  /\ call = name
  /\ argument = slice /\ points = slice
  /\ limit = number
  /\ returned = FALSE

AlgorithmsInit ==
  \/ /\ \E c \in Compactions : Call("CompactByInterval", c[1], c[2])
     /\ begin = 1 /\ end = 2 /\ out = <<>>
  \/ /\ \E q \in Queries : Call("deduplicate", q, 0)
     /\ begin = 1 /\ end = 2 /\ out = <<>>
  \/ /\ \E r \in Responses : Call("Downsample", r[1], r[2])
     /\ begin = 0 /\ end = 0 /\ out = <<>>
  \/ /\ \E w \in Windows : Call("stableWindow", w, 0)
     /\ begin = 0 /\ end = 0 /\ out = <<>>

Runs(name) == call = name /\ ~returned /\ UNCHANGED <<call, argument, limit>>

-----------------------------------------------------------------------------
(* CompactByInterval, "for end < len(points) && ... end++": the window     *)
(* grows while the next point is in the bucket of its first.               *)
InBucket ==
  end <= Len(points) /\ Bucket(points[end].t, limit) = Bucket(points[begin].t, limit)

GrowWindow ==
  /\ Runs("CompactByInterval")
  /\ begin <= Len(points) /\ InBucket
  /\ end' = end + 1
  /\ UNCHANGED <<points, begin, out, returned>>

Mark(point, representative) == [t |-> point.t, v |-> point.v, rep |-> representative]

(* Mutant: begin = end + 1, the first point after a window is passed over. *)
CloseWindow_Skips ==
  /\ Runs("CompactByInterval")
  /\ begin <= Len(points) /\ ~InBucket
  /\ LET window == SubSeq(points, begin, end - 1)
         stable == \A i \in DOMAIN window : ~Volatile(window[1], window[i])
     IN  out' = out \o IF stable THEN <<Mark(window[Len(window)], TRUE)>>
                       ELSE [i \in DOMAIN window |-> Mark(window[i], FALSE)]
  /\ begin' = end + 1 /\ end' = end + 2
  /\ UNCHANGED <<points, returned>>

(* The window is complete: its representative, or all of it; begin = end.  *)
CloseWindow ==
  /\ Runs("CompactByInterval")
  /\ begin <= Len(points) /\ ~InBucket
  /\ LET window == SubSeq(points, begin, end - 1)
         stable == \A i \in DOMAIN window : ~Volatile(window[1], window[i])
     IN  out' = out \o IF stable THEN <<Mark(window[Len(window)], TRUE)>>
                       ELSE [i \in DOMAIN window |-> Mark(window[i], FALSE)]
  /\ begin' = end /\ end' = end + 1
  /\ UNCHANGED <<points, returned>>

CompactReturn ==
  /\ Runs("CompactByInterval")
  /\ begin > Len(points)
  /\ returned' = TRUE
  /\ UNCHANGED <<points, begin, end, out>>

-----------------------------------------------------------------------------
(* Mutant: the first of several points with one time stays.                *)
ReplaceLast_KeepsFirst ==
  /\ Runs("deduplicate")
  /\ end <= Len(points)
  /\ points[end].t = points[begin].t
  /\ end' = end + 1
  /\ UNCHANGED <<points, begin, out, returned>>

(* deduplicate: out is points[1..begin], end the index of the next point   *)
(* read.  A point with the time of out's last replaces it.                 *)
ReplaceLast ==
  /\ Runs("deduplicate")
  /\ end <= Len(points)
  /\ points[end].t = points[begin].t
  /\ points' = [points EXCEPT ![begin] = points[end]]
  /\ end' = end + 1
  /\ UNCHANGED <<begin, out, returned>>

AppendPoint ==
  /\ Runs("deduplicate")
  /\ end <= Len(points)
  /\ points[end].t # points[begin].t
  /\ points' = [points EXCEPT ![begin + 1] = points[end]]
  /\ begin' = begin + 1
  /\ end' = end + 1
  /\ UNCHANGED <<out, returned>>

DeduplicateReturn ==
  /\ Runs("deduplicate")
  /\ end > Len(points)
  /\ out' = SubSeq(points, 1, IF points = <<>> THEN 0 ELSE begin)
  /\ returned' = TRUE
  /\ UNCHANGED <<points, begin, end>>

-----------------------------------------------------------------------------
(* Mutant: i*len(points)/max, which never reaches the last point.          *)
SourceIndex_Short(i) == (i * Len(points)) \div limit

(* i*last/(max-1), from 0.                                                 *)
SourceIndex(i) == (i * (Len(points) - 1)) \div (limit - 1)

(* Downsample: few points, or no limit, are returned as they are.          *)
AllFit == limit <= 0 \/ Len(points) <= limit

DownsampleAll ==
  /\ Runs("Downsample")
  /\ AllFit
  /\ out' = points
  /\ returned' = TRUE
  /\ UNCHANGED <<points, begin, end>>

PickPoint ==
  /\ Runs("Downsample")
  /\ ~AllFit /\ begin < limit
  /\ out' = Append(out, points[SourceIndex(begin) + 1])
  /\ begin' = begin + 1
  /\ UNCHANGED <<points, end, returned>>

DownsampleReturn ==
  /\ Runs("Downsample")
  /\ ~AllFit /\ begin = limit
  /\ returned' = TRUE
  /\ UNCHANGED <<points, begin, end, out>>

-----------------------------------------------------------------------------
(* stableWindow has no state to step through: out is what it returns.      *)
Judge ==
  /\ Runs("stableWindow")
  /\ out' = <<StableWindow(points)>>
  /\ returned' = TRUE
  /\ UNCHANGED <<points, begin, end>>

AlgorithmsNext ==
  \/ GrowWindow \/ CloseWindow \/ CompactReturn
  \/ ReplaceLast \/ AppendPoint \/ DeduplicateReturn
  \/ DownsampleAll \/ PickPoint \/ DownsampleReturn
  \/ Judge

AlgorithmsSpec == AlgorithmsInit /\ [][AlgorithmsNext]_algorithmVars

-----------------------------------------------------------------------------
Done(name) == call = name /\ returned

(* The values of a function on integers, in the order of its domain.       *)
Listed(f) ==
  [n \in 1..Cardinality(DOMAIN f) |->
     f[CHOOSE k \in DOMAIN f : Cardinality({j \in DOMAIN f : j <= k}) = n]]

(* The loop over the windows computes the operator that Flush and          *)
(* PreparePersistence are modelled with: the same points, in order, with   *)
(* the same flag.  A bound off by one at either end of a window, or a      *)
(* window taken up where the last one did not end, would lose or double a  *)
(* sample.                                                                 *)
CompactionLoopIsTheOperator ==
  Done("CompactByInterval") => out = Listed(CompactByInterval(argument, limit))

(* deduplicate overwrites the array it is reading.  Its result is still    *)
(* what a copy would have given: of each run of points with one time the   *)
(* last, in order.                                                         *)
LastOfEach(list) ==
  [i \in {j \in DOMAIN list : j = Len(list) \/ list[j].t # list[j + 1].t} |-> list[i]]

InPlaceDeduplicateIsPure == Done("deduplicate") => out = Listed(LastOfEach(argument))

(* A response has at most max points, from the first to the last of the    *)
(* range, none of them twice, and as evenly as integers allow: the steps   *)
(* between neighbours differ by one at most.                               *)
DownsampleSpansTheRange ==
  Done("Downsample") =>
    /\ Len(out) = IF AllFit THEN Len(argument) ELSE limit
    /\ out # <<>> => out[1] = argument[1] /\ out[Len(out)] = argument[Len(argument)]
    /\ LET at(i) == CHOOSE k \in DOMAIN argument : argument[k] = out[i]
           step(i) == at(i + 1) - at(i)
           inner == DOMAIN out \ {Len(out)}
       IN  \A i, j \in inner : step(i) >= 1 /\ Distance(step(i), step(j)) <= 1

(* What a stable window hides.  stableWindow compares with the first point *)
(* only, so the representative may be twice the threshold from a point it  *)
(* stands for, and no further: a slow drift through a window ends up in    *)
(* history too.  The same sensors, cores and interfaces are there in all   *)
(* of its points.  For a rate, the threshold grows with the rate.          *)
RateSlack(window, name) ==
  LET rates == {window[i].network[name].rx : i \in DOMAIN window}
                 \cup {window[i].network[name].tx : i \in DOMAIN window}
      peak == CHOOSE r \in rates : \A s \in rates : s <= r
  IN  Larger(100 * RateFloor, RatePercent * peak)

SpeaksFor(window, a, b) ==
  /\ \A m \in DOMAIN OptionalLimit :
       /\ Len(a.optional[m]) = Len(b.optional[m])
       /\ a.optional[m] # <<>> =>
            Distance(a.optional[m][1], b.optional[m][1]) <= 2 * OptionalLimit[m]
  /\ \A m \in DOMAIN PlainLimit : Distance(a.plain[m], b.plain[m]) <= 2 * PlainLimit[m]
  /\ Len(a.cores) = Len(b.cores)
  /\ \A i \in DOMAIN a.cores : Distance(a.cores[i], b.cores[i]) <= 2 * CoreLimit
  /\ DOMAIN a.network = DOMAIN b.network
  /\ \A name \in DOMAIN a.network :
       /\ 100 * Distance(a.network[name].rx, b.network[name].rx) <= 2 * RateSlack(window, name)
       /\ 100 * Distance(a.network[name].tx, b.network[name].tx) <= 2 * RateSlack(window, name)

RepresentativeSpeaksForWindow ==
  Done("stableWindow") /\ out = <<TRUE>> =>
    \A i, j \in DOMAIN argument : SpeaksFor(argument, argument[i], argument[j])
=============================================================================
