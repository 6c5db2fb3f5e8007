--------------------------- MODULE SamplesProofs ---------------------------
(***************************************************************************)
(* What the pure functions of Samples return, for every table and slice.   *)
(***************************************************************************)
EXTENDS Samples, FiniteSetTheorems, WellFoundedInduction, TLAPS

(* A slice as CompactByInterval and Upsert get it: a finite domain of      *)
(* integers, and samples.                                                  *)
IsSlice(points) ==
  /\ IsFiniteSet(DOMAIN points)
  /\ DOMAIN points \subseteq Int
  /\ \A i \in DOMAIN points : points[i].t \in Nat /\ points[i].v \in Int

(* A slice of rows, and a table that has under each of their keys the last *)
(* row with that key.                                                      *)
IsRowSlice(rows) == IsSlice(rows) /\ \A i \in DOMAIN rows : rows[i] \in Row

Holds(table, rows) ==
  \A k \in TimesOf(rows) : \E i \in DOMAIN rows :
    /\ rows[i].t = k /\ table[k] = rows[i]
    /\ \A j \in DOMAIN rows : rows[j].t = k => j <= i

(* The minimum principle.  WFMin has no operator parameter, so the provers *)
(* can use it, and it does the work of an induction.                       *)
LEMMA NatMinimum ==
  ASSUME NEW S, S \subseteq Nat, S # {}
  PROVE  \E m \in S : \A n \in S : m <= n
<1>1. PICK R : R = OpToRel(<, Nat)
  OBVIOUS
<1>2. IsWellFoundedOn(R, Nat)
  BY <1>1, NatLessThanWellFounded
<1>3. PICK m \in S : \A n \in S : ~(<<n, m>> \in R)
  BY <1>2, WFMin
<1>4. \A n \in S : <<n, m>> \in R <=> n < m
  BY <1>1 DEF OpToRel
<1>5. m \in Nat /\ \A n \in S : n \in Nat /\ ~(n < m)
  BY <1>3, <1>4
<1> QED
  BY <1>5

(* A smallest set without a maximum would have one after all.              *)
LEMMA FiniteMaximum ==
  ASSUME NEW S, S \subseteq Int, IsFiniteSet(S), S # {}
  PROVE  \E m \in S : \A n \in S : n <= m
<1> DEFINE HasMax(T) == \E m \in T : \A n \in T : n <= m
           Bad == {c \in Nat : \E T \in SUBSET S :
                     T # {} /\ IsFiniteSet(T) /\ Cardinality(T) = c /\ ~HasMax(T)}
<1>1. SUFFICES ASSUME ~HasMax(S) PROVE FALSE
  OBVIOUS
<1>2. Cardinality(S) \in Bad
  BY <1>1, FS_CardinalityType
<1>3. PICK c \in Bad : \A d \in Bad : c <= d
  <2>1. Bad \subseteq Nat /\ Bad # {}
    BY <1>2
  <2> HIDE DEF Bad
  <2> QED
    BY <2>1, NatMinimum
<1>4. PICK T \in SUBSET S : T # {} /\ IsFiniteSet(T) /\ Cardinality(T) = c /\ ~HasMax(T)
  OBVIOUS
<1>5. PICK x : x \in T
  BY <1>4
<1>6. IsFiniteSet(T \ {x}) /\ Cardinality(T \ {x}) = c - 1 /\ c - 1 \in Nat
  <2>1. IsFiniteSet(T \ {x}) /\ Cardinality(T \ {x}) = Cardinality(T) - 1
    BY <1>4, <1>5, FS_RemoveElement
  <2>2. Cardinality(T \ {x}) \in Nat
    BY <2>1, FS_CardinalityType
  <2> QED
    BY <1>4, <2>1, <2>2
<1>7. T \ {x} # {}
  <2> SUFFICES ASSUME T \ {x} = {} PROVE FALSE
    OBVIOUS
  <2>1. \A n \in T : n = x
    OBVIOUS
  <2> QED
    BY <1>4, <1>5, <2>1
<1>8. HasMax(T \ {x})
  <2>1. ~(c - 1 \in Bad)
    BY <1>3, <1>6
  <2> QED
    BY <1>6, <1>7, <2>1
<1>9. PICK m \in T \ {x} : \A n \in T \ {x} : n <= m
  BY <1>8
<1>10. x \in Int /\ m \in Int /\ T \subseteq Int
  BY <1>5
<1>11. CASE x <= m
  <2>1. \A n \in T : n <= m
    BY <1>9, <1>11
  <2> QED
    BY <1>4, <1>9, <2>1
<1>12. CASE m < x
  <2>1. \A n \in T : n <= x
    BY <1>9, <1>10, <1>12
  <2> QED
    BY <1>4, <1>5, <2>1
<1> QED
  BY <1>10, <1>11, <1>12
-----------------------------------------------------------------------------
(* The number of a week or a bucket is a natural number.                   *)
LEMMA DivisionNat ==
  ASSUME NEW t \in Nat, NEW n \in Nat \ {0}
  PROVE  t \div n \in Nat
OBVIOUS

LEMMA WeekNat == \A t \in Nat : Week(t) \in Nat
BY DivisionNat, SamplesAssumption DEF Week

(* A table is a slice.                                                     *)
LEMMA TableIsSlice ==
  ASSUME NEW f, IsTable(f)
  PROVE  IsSlice(f)
BY DEF IsTable, IsSlice, Row

(* Compaction keeps some of its points, as rows.                           *)
LEMMA CompactKeepsSome ==
  ASSUME NEW points, NEW width, IsSlice(points)
  PROVE  LET rows == CompactByInterval(points, width)
         IN  /\ IsSlice(rows) /\ IsRowSlice(rows)
             /\ DOMAIN rows \subseteq DOMAIN points
             /\ \A i \in DOMAIN rows : /\ rows[i] \in Row
                                       /\ rows[i].t = points[i].t
                                       /\ rows[i].v = points[i].v
<1> DEFINE rows == CompactByInterval(points, width)
           stable(i) == Stable(points, Window(points, width, i))
           kept == {i \in DOMAIN points :
                      stable(i) => \A j \in Window(points, width, i) : j <= i}
<1>1. rows = [i \in kept |-> [t |-> points[i].t, v |-> points[i].v, rep |-> stable(i)]]
  BY DEF CompactByInterval
<1>2. \A i : stable(i) \in BOOLEAN
  BY DEF Stable
<1> HIDE DEF stable
<1>3. DOMAIN rows = kept /\ kept \subseteq DOMAIN points
  BY <1>1
<1> HIDE DEF kept
<1>4. \A i \in DOMAIN rows : /\ rows[i].t = points[i].t
                             /\ rows[i].v = points[i].v
                             /\ rows[i].rep = stable(i)
                             /\ rows[i] \in Row
  BY <1>1, <1>2, <1>3 DEF IsSlice, Row
<1>5. IsFiniteSet(DOMAIN rows)
  BY <1>3, FS_Subset DEF IsSlice
<1>6. IsSlice(rows)
  BY <1>3, <1>4, <1>5 DEF IsSlice
<1> QED
  BY <1>3, <1>4, <1>6 DEF IsRowSlice

LEMMA TimesFinite ==
  ASSUME NEW rows, IsSlice(rows)
  PROVE  IsFiniteSet(TimesOf(rows))
<1> DEFINE time == [i \in DOMAIN rows |-> rows[i].t]
<1>1. time \in Surjection(DOMAIN rows, TimesOf(rows))
  BY DEF Surjection, TimesOf
<1> QED
  BY <1>1, FS_Surjection DEF IsSlice

(* Upsert adds the rows under their timestamps and keeps the others.       *)
LEMMA UpsertAdds ==
  ASSUME NEW table, NEW rows, IsTable(table), IsRowSlice(rows)
  PROVE  /\ IsTable(Upsert(table, rows))
         /\ DOMAIN Upsert(table, rows) = DOMAIN table \cup TimesOf(rows)
         /\ Holds(Upsert(table, rows), rows)
         /\ \A k \in DOMAIN table \ TimesOf(rows) : Upsert(table, rows)[k] = table[k]
<1> USE DEF IsRowSlice
<1> DEFINE new == Upsert(table, rows)
           pick(k) == CHOOSE i \in DOMAIN rows :
                        /\ rows[i].t = k
                        /\ \A j \in DOMAIN rows : rows[j].t = k => j <= i
<1>1. new = [k \in DOMAIN table \cup TimesOf(rows) |->
               IF k \in TimesOf(rows) THEN rows[pick(k)] ELSE table[k]]
  BY DEF Upsert
<1>2. ASSUME NEW k \in TimesOf(rows)
      PROVE  /\ pick(k) \in DOMAIN rows /\ rows[pick(k)].t = k
             /\ \A j \in DOMAIN rows : rows[j].t = k => j <= pick(k)
  <2> DEFINE same == {j \in DOMAIN rows : rows[j].t = k}
  <2>1. same \subseteq Int /\ IsFiniteSet(same) /\ same # {}
    <3>1. same \in SUBSET DOMAIN rows /\ same # {}
      BY DEF TimesOf
    <3> QED
      BY <3>1, FS_Subset DEF IsSlice
  <2>2. \E m \in same : \A n \in same : n <= m
    <3> HIDE DEF same
    <3> QED
      BY <2>1, FiniteMaximum
  <2> QED
    BY <2>2
<1> HIDE DEF pick
<1>3. DOMAIN new = DOMAIN table \cup TimesOf(rows)
  BY <1>1
<1>4. \A k \in TimesOf(rows) : new[k] = rows[pick(k)]
  BY <1>1
<1>5. \A k \in DOMAIN table \ TimesOf(rows) : new[k] = table[k]
  BY <1>1
<1>6. IsTable(new)
  <2>1. new = [k \in DOMAIN new |-> new[k]]
    BY <1>1
  <2>2. IsFiniteSet(DOMAIN new)
    <3>1. IsFiniteSet(DOMAIN table) /\ IsFiniteSet(TimesOf(rows))
      BY TimesFinite DEF IsTable
    <3> QED
      BY <1>3, <3>1, FS_Union
  <2>3. ASSUME NEW k \in DOMAIN new
        PROVE  new[k] \in Row /\ new[k].t = k
    <3>1. CASE k \in TimesOf(rows)
      BY <3>1, <1>2, <1>4
    <3>2. CASE k \notin TimesOf(rows)
      BY <3>2, <1>3, <1>5 DEF IsTable
    <3> QED
      BY <3>1, <3>2
  <2> QED
    BY <2>1, <2>2, <2>3 DEF IsTable
<1>7. Holds(new, rows)
  BY <1>2, <1>4 DEF Holds
<1> QED
  BY <1>3, <1>5, <1>6, <1>7

LEMMA EmptyTable == IsTable(NoRows) /\ DOMAIN NoRows = {}
BY FS_EmptySet DEF IsTable, NoRows

(* A table compacted in place is a part of the table, with its values.     *)
LEMMA CompactedTable ==
  ASSUME NEW f, NEW width, IsTable(f)
  PROVE  /\ IsTable(Upsert(NoRows, CompactByInterval(f, width)))
         /\ DOMAIN Upsert(NoRows, CompactByInterval(f, width))
              = DOMAIN CompactByInterval(f, width)
         /\ DOMAIN CompactByInterval(f, width) \subseteq DOMAIN f
         /\ \A k \in DOMAIN CompactByInterval(f, width) :
              Upsert(NoRows, CompactByInterval(f, width))[k].v = f[k].v
<1>1. IsSlice(f)
  BY TableIsSlice
<1>2. PICK rows : rows = CompactByInterval(f, width)
  OBVIOUS
<1>3. /\ IsSlice(rows)
      /\ DOMAIN rows \subseteq DOMAIN f
      /\ \A k \in DOMAIN rows : rows[k] \in Row /\ rows[k].t = f[k].t /\ rows[k].v = f[k].v
  BY <1>1, <1>2, CompactKeepsSome
<1>4. \A k \in DOMAIN rows : rows[k].t = k
  BY <1>3 DEF IsTable
<1>5. TimesOf(rows) = DOMAIN rows
  BY <1>4 DEF TimesOf
<1>6. IsRowSlice(rows)
  BY <1>3 DEF IsRowSlice
<1>7. PICK new : new = Upsert(NoRows, rows)
  OBVIOUS
<1>8. IsTable(new) /\ DOMAIN new = DOMAIN NoRows \cup TimesOf(rows) /\ Holds(new, rows)
  BY <1>6, <1>7, EmptyTable, UpsertAdds
<1>9. DOMAIN new = DOMAIN rows
  BY <1>5, <1>8, EmptyTable
<1>10. \A k \in DOMAIN rows : new[k].v = f[k].v
  BY <1>3, <1>4, <1>5, <1>8 DEF Holds
<1> QED
  BY <1>2, <1>3, <1>7, <1>8, <1>9, <1>10
-----------------------------------------------------------------------------
(* Compaction drops a point only for a later one that it keeps: one of the *)
(* same window, whose value is as close to that of the window's first      *)
(* point as the dropped one's.  A kept point stands for itself.            *)
LEMMA CompactRepresents ==
  ASSUME NEW points, NEW width, IsSlice(points), DOMAIN points \subseteq Nat,
         NEW i \in DOMAIN points
  PROVE  \E m \in DOMAIN CompactByInterval(points, width) :
           /\ i <= m
           /\ i = m \/ Bucket(points[m].t, width) = Bucket(points[i].t, width)
           /\ points[m].v - points[i].v <= 2 * Threshold
           /\ points[i].v - points[m].v <= 2 * Threshold
<1> DEFINE bucket(j) == Bucket(points[j].t, width)
           W == Window(points, width, i)
<1>0. Threshold \in Nat /\ \A j \in DOMAIN points : j \in Nat /\ points[j].v \in Int
  BY SamplesAssumption DEF IsSlice
<1>1. DOMAIN CompactByInterval(points, width)
        = {j \in DOMAIN points : Stable(points, Window(points, width, j))
                                   => \A n \in Window(points, width, j) : n <= j}
  BY DEF CompactByInterval
<1>2. \A n, j \in DOMAIN points : j \in Window(points, width, n) <=>
        \A k \in DOMAIN points : (n <= k /\ k <= j) \/ (j <= k /\ k <= n) => bucket(k) = bucket(n)
  BY DEF Window
<1>3. \A n : Window(points, width, n) \in SUBSET DOMAIN points
  BY DEF Window
<1> HIDE DEF bucket
<1>4. i \in W
  <2>1. \A k \in DOMAIN points : (i <= k /\ k <= i) \/ (i <= k /\ k <= i) => k = i
    BY <1>0
  <2> QED
    BY <1>2, <2>1
<1>5. W \in SUBSET Nat /\ W \in SUBSET DOMAIN points /\ IsFiniteSet(W) /\ W # {}
  BY <1>3, <1>4, FS_Subset DEF IsSlice
<1> HIDE DEF W
<1>6. PICK m \in W : \A n \in W : n <= m
  <2>1. W \subseteq Int
    BY <1>5
  <2> QED
    BY <1>5, <2>1, FiniteMaximum
<1>7. PICK first \in W : \A n \in W : first <= n
  BY <1>5, NatMinimum
<1>8. /\ m \in DOMAIN points /\ first \in DOMAIN points /\ i <= m /\ bucket(m) = bucket(i)
      /\ \A k \in DOMAIN points : i <= k /\ k <= m => bucket(k) = bucket(i)
  <2>1. m \in DOMAIN points /\ first \in DOMAIN points /\ i <= m
    BY <1>4, <1>5, <1>6, <1>7
  <2>2. \A k \in DOMAIN points : i <= k /\ k <= m => bucket(k) = bucket(i)
    BY <1>2, <1>6, <2>1 DEF W
  <2>3. m <= m
    BY <1>0, <2>1
  <2> QED
    BY <2>1, <2>2, <2>3
(* No point after m shares m's window: it would share that of i.           *)
<1>9. ASSUME NEW j \in Window(points, width, m) PROVE j <= m
  <2>1. SUFFICES ASSUME m < j PROVE FALSE
    BY <1>0, <1>3, <1>8
  <2>2. j \in DOMAIN points
    BY <1>3
  <2>3. \A k \in DOMAIN points : m <= k /\ k <= j => bucket(k) = bucket(i)
    BY <1>2, <1>8, <2>2
  <2>4. \A k \in DOMAIN points :
          (i <= k /\ k <= j) \/ (j <= k /\ k <= i) => bucket(k) = bucket(i)
    BY <1>0, <1>8, <2>1, <2>2, <2>3
  <2>5. j \in W
    BY <1>2, <2>2, <2>4 DEF W
  <2> QED
    BY <1>0, <1>6, <1>8, <2>1, <2>2, <2>5
<1>10. m \in DOMAIN CompactByInterval(points, width)
  BY <1>1, <1>8, <1>9
<1>11. CASE i \in DOMAIN CompactByInterval(points, width)
  BY <1>0, <1>11
<1>12. CASE i \notin DOMAIN CompactByInterval(points, width)
  <2>1. Stable(points, W)
    BY <1>1, <1>12 DEF W
  <2>2. ~Volatile(points[first], points[i]) /\ ~Volatile(points[first], points[m])
    BY <1>4, <1>6, <1>7, <2>1 DEF Stable
  <2>3. /\ points[m].v - points[i].v <= 2 * Threshold
        /\ points[i].v - points[m].v <= 2 * Threshold
    BY <1>0, <1>8, <2>2 DEF Volatile
  <2> QED
    BY <1>8, <1>10, <2>3 DEF bucket
<1> QED
  BY <1>11, <1>12

(* Timestamps of one window are of one window of any multiple of its width.*)
LEMMA BucketsNest ==
  ASSUME NEW a \in Nat, NEW b \in Nat, NEW i \in Nat \ {0}, NEW j \in Nat \ {0},
         j % i = 0, Bucket(a, i) = Bucket(b, i)
  PROVE  Bucket(a, j) = Bucket(b, j)
<1>1. PICK n \in Nat : j = i * n
  <2>1. j \div i \in Nat /\ j = i * (j \div i)
    OBVIOUS
  <2> QED
    BY <2>1
<1>2. PICK p \in Nat : p = a \div i /\ p = b \div i
  BY DEF Bucket
<1>3. i * p <= a /\ a < i * (p + 1) /\ i * p <= b /\ b < i * (p + 1)
  BY <1>2
<1>4. PICK q \in Nat : q = a \div j
  OBVIOUS
<1>5. j * q <= a /\ a < j * (q + 1)
  BY <1>4
<1>6. n * q <= p /\ p + 1 <= n * (q + 1)
  BY <1>1, <1>3, <1>5
<1>7. i * (n * q) <= i * p /\ i * (p + 1) <= i * (n * (q + 1))
  BY <1>6
<1>8. j * q <= b /\ b < j * (q + 1)
  BY <1>1, <1>3, <1>7
<1>9. b \div j = q
  BY <1>8
<1> QED
  BY <1>4, <1>9 DEF Bucket
=============================================================================
