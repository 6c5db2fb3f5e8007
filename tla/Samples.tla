------------------------------ MODULE Samples ------------------------------
(***************************************************************************)
(* The data of the pipeline and the pure functions the storage package     *)
(* applies to it.                                                          *)
(*                                                                         *)
(* A sample keeps its timestamp t (a tick of the wall clock) and one       *)
(* number v that stands for everything stableWindow compares.  A stored    *)
(* row also carries is_representative.  A Go slice of samples, and a       *)
(* SELECT ... ORDER BY timestamp_ms, are functions from integers to        *)
(* samples, read in the order of their domain; the samples table is the    *)
(* function from its primary key, timestamp_ms, to the row.                *)
(***************************************************************************)
EXTENDS Integers, FiniteSets

CONSTANTS
  WeekLen,     (* ticks in an ISO week                                     *)
  Threshold    (* largest change of v a stable window shows                *)

ASSUME SamplesAssumption ==
  /\ WeekLen \in Nat \ {0}
  /\ Threshold \in Nat

Sample == [t : Nat, v : Int]
Row    == [t : Nat, v : Int, rep : BOOLEAN]

(* No rows, or an empty slice: the function with an empty domain.          *)
NoRows == [k \in {} |-> 0]

(* Tables and row sets: functions from some of the timestamps to rows that *)
(* carry their own key.                                                    *)
IsTable(f) ==
  /\ f = [k \in DOMAIN f |-> f[k]]
  /\ IsFiniteSet(DOMAIN f)
  /\ \A k \in DOMAIN f : f[k] \in Row /\ f[k].t = k

-----------------------------------------------------------------------------
(* Mutant: the Monday of the week before (a weekday rule off by seven).     *)
Week_Before(t) == t \div WeekLen - 1

(* weekStart and ArchiveFilename: the ISO week a timestamp falls in.       *)
Week(t) == t \div WeekLen

(* UnixMilli() / bucketWidth.                                              *)
Bucket(t, width) == t \div width

(* The window of point i in CompactByInterval: the longest run of adjacent *)
(* points around i that share i's wall-clock bucket.                       *)
Window(points, width, i) ==
  {j \in DOMAIN points : \A k \in DOMAIN points :
      (i <= k /\ k <= j) \/ (j <= k /\ k <= i)
        => Bucket(points[k].t, width) = Bucket(points[i].t, width)}

Volatile(base, point) ==
  base.v - point.v > Threshold \/ point.v - base.v > Threshold

(* stableWindow: no point of the window is far from its first one.         *)
Stable(points, window) ==
  \A i, j \in window : (\A k \in window : i <= k) => ~Volatile(points[i], points[j])

(* Mutant: the first point of a stable window represents it.               *)
CompactByInterval_KeepsFirst(points, width) ==
  LET stable(i) == Stable(points, Window(points, width, i))
      kept == {i \in DOMAIN points :
                 stable(i) => \A j \in Window(points, width, i) : i <= j}
  IN  [i \in kept |-> [t |-> points[i].t, v |-> points[i].v, rep |-> stable(i)]]

(* CompactByInterval: the last point of a stable window, every point of a  *)
(* volatile one; the result keeps the order of the input.                  *)
CompactByInterval(points, width) ==
  LET stable(i) == Stable(points, Window(points, width, i))
      kept == {i \in DOMAIN points :
                 stable(i) => \A j \in Window(points, width, i) : j <= i}
  IN  [i \in kept |-> [t |-> points[i].t, v |-> points[i].v, rep |-> stable(i)]]

(* The timestamps of a slice.                                              *)
TimesOf(points) == {points[i].t : i \in DOMAIN points}

(* INSERT OR REPLACE of rows, in order, into a table keyed by timestamp:   *)
(* the last of several rows with the same key stays.                       *)
Upsert(table, rows) ==
  [k \in DOMAIN table \cup TimesOf(rows) |->
     IF k \in TimesOf(rows)
       THEN rows[CHOOSE i \in DOMAIN rows :
                   /\ rows[i].t = k
                   /\ \A j \in DOMAIN rows : rows[j].t = k => j <= i]
       ELSE table[k]]

(* The rows of a table whose timestamps are in T.                          *)
RowsIn(table, T) == [k \in DOMAIN table \cap T |-> table[k]]
=============================================================================
