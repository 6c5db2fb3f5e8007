-------------------------- MODULE AlgorithmsProofs --------------------------
(***************************************************************************)
(* The loops of Algorithms return what they should for every input.        *)
(*                                                                         *)
(* The result of a loop is compared with a function on some of the         *)
(* positions of its argument, read in order (Listed).  Listed counts; the  *)
(* loop invariants say the same with a strictly increasing sequence of     *)
(* positions (Lists), to which an iteration adds at the end.               *)
(***************************************************************************)
EXTENDS Algorithms, SamplesProofs

(* s is f in the order of its domain.                                      *)
Lists(s, f) ==
  \E at \in [1..Len(s) -> DOMAIN f] :
    /\ \A i, j \in 1..Len(s) : i < j => at[i] < at[j]
    /\ \A k \in DOMAIN f : \E i \in 1..Len(s) : at[i] = k
    /\ \A i \in 1..Len(s) : s[i] = f[at[i]]

(* What f has before position n, and from n on before m.                   *)
Before(f, n) == [k \in {j \in DOMAIN f : j < n} |-> f[k]]

Between(f, n, m) == [k \in {j \in DOMAIN f : n <= j /\ j < m} |-> f[k]]

(* The window from begin on is in one bucket, and no longer window could   *)
(* start there; all windows before it are done.                            *)
CompactionInv ==
  call = "CompactByInterval" =>
    /\ argument \in Seq(Sample) /\ points = argument /\ limit \in Nat \ {0}
    /\ begin \in 1..Len(argument) + 1 /\ end \in Nat /\ begin < end
    /\ begin <= Len(argument) =>
         /\ end <= Len(argument) + 1
         /\ \A k \in begin..end - 1 :
              Bucket(argument[k].t, limit) = Bucket(argument[begin].t, limit)
    /\ begin \in 2..Len(argument) =>
         Bucket(argument[begin - 1].t, limit) # Bucket(argument[begin].t, limit)
    /\ out \in Seq(Row)
    /\ Lists(out, Before(CompactByInterval(argument, limit), begin))
    /\ returned => begin = Len(argument) + 1

(* The array from end on is as it was; before begin it has the points that *)
(* the next one did not replace, and at begin the latest point read.       *)
DeduplicateInv ==
  call = "deduplicate" =>
    /\ argument \in Seq(Sample) /\ points \in Seq(Sample) /\ Len(points) = Len(argument)
    /\ begin \in Nat \ {0} /\ end \in Nat /\ begin < end
    /\ \A k \in DOMAIN points : k >= end => points[k] = argument[k]
    /\ points # <<>> =>
         /\ end <= Len(points) + 1
         /\ points[begin] = argument[end - 1]
         /\ Lists(SubSeq(points, 1, begin - 1), Before(LastOfEach(argument), end - 1))
    /\ returned => /\ end > Len(points)
                   /\ out = SubSeq(points, 1, IF points = <<>> THEN 0 ELSE begin)

DownsampleInv ==
  call = "Downsample" =>
    /\ argument \in Seq(Sample) /\ points = argument /\ limit \in Nat \ {1}
    /\ \A i, j \in DOMAIN argument : argument[i] = argument[j] => i = j
    /\ begin \in 0..limit
    /\ returned /\ AllFit => out = argument
    /\ ~AllFit => /\ out \in Seq(Sample) /\ Len(out) = begin
                  /\ \A i \in 1..begin : out[i] = argument[SourceIndex(i - 1) + 1]
                  /\ returned => begin = limit

JudgeInv ==
  call = "stableWindow" =>
    /\ points = argument /\ argument \in Windows
    /\ returned => out = <<StableWindow(argument)>>

LoopsInv == CompactionInv /\ DeduplicateInv /\ DownsampleInv /\ JudgeInv

-----------------------------------------------------------------------------
(* The i-th position has i positions up to it, so what Lists describes is  *)
(* what Listed counts.                                                     *)
LEMMA ListsIsListed ==
  ASSUME NEW S, NEW s \in Seq(S), NEW f, DOMAIN f \subseteq Int, Lists(s, f)
  PROVE  s = Listed(f)
<1> DEFINE upTo(k) == {j \in DOMAIN f : j <= k}
           place(i) == CHOOSE k \in DOMAIN f : Cardinality(upTo(k)) = i
<1>1. PICK at \in [1..Len(s) -> DOMAIN f] :
        /\ \A i, j \in 1..Len(s) : i < j => at[i] < at[j]
        /\ \A k \in DOMAIN f : \E i \in 1..Len(s) : at[i] = k
        /\ \A i \in 1..Len(s) : s[i] = f[at[i]]
  BY DEF Lists
<1>2. Len(s) \in Nat /\ s = [i \in 1..Len(s) |-> s[i]]
  OBVIOUS
<1>3. \A i, j \in 1..Len(s) : at[i] <= at[j] <=> i <= j
  <2> SUFFICES ASSUME NEW i \in 1..Len(s), NEW j \in 1..Len(s)
               PROVE  at[i] <= at[j] <=> i <= j
    OBVIOUS
  <2>1. at[i] \in Int /\ at[j] \in Int /\ i \in Int /\ j \in Int
    BY <1>1
  <2>2. (i < j => at[i] < at[j]) /\ (j < i => at[j] < at[i]) /\ (i = j => at[i] = at[j])
    BY <1>1
  <2> QED
    BY <2>1, <2>2
<1>4. ASSUME NEW i \in 0..Len(s), NEW T, T = {at[m] : m \in 1..i}
      PROVE  Cardinality(T) = i
  <2>1. i \in Nat /\ 1..i \subseteq 1..Len(s)
    BY <1>2
  <2>2. PICK g : g = [m \in 1..i |-> at[m]]
    OBVIOUS
  <2>3. g \in [1..i -> T] /\ \A t \in T : \E m \in 1..i : g[m] = t
    BY <1>4, <2>2
  <2>4. \A a, b \in 1..i : g[a] = g[b] => a = b
    <3> SUFFICES ASSUME NEW a \in 1..i, NEW b \in 1..i, g[a] = g[b] PROVE a = b
      OBVIOUS
    <3>1. at[a] = at[b] /\ at[a] \in Int /\ a \in 1..Len(s) /\ b \in 1..Len(s)
      BY <1>1, <2>1, <2>2
    <3> QED
      BY <1>3, <2>1, <3>1
  <2>5. g \in Bijection(1..i, T)
    BY <2>3, <2>4 DEF Bijection, Injection, Surjection, IsInjective
  <2> QED
    BY <2>1, <2>5, FS_CountingElements DEF ExistsBijection
<1>5. Cardinality(DOMAIN f) = Len(s)
  <2>1. PICK T : T = {at[m] : m \in 1..Len(s)}
    OBVIOUS
  <2>2. T = DOMAIN f
    BY <1>1, <2>1
  <2>3. Len(s) \in 0..Len(s)
    BY <1>2
  <2>4. Cardinality(T) = Len(s)
    BY <1>4, <2>1, <2>3
  <2> QED
    BY <2>2, <2>4
<1>6. \A i \in 1..Len(s) : Cardinality(upTo(at[i])) = i
  <2> SUFFICES ASSUME NEW i \in 1..Len(s) PROVE Cardinality(upTo(at[i])) = i
    OBVIOUS
  <2>1. \A m \in 1..Len(s) : at[m] <= at[i] <=> m \in 1..i
    BY <1>3
  <2>2. upTo(at[i]) = {at[m] : m \in 1..i}
    <3>1. 1..i \subseteq 1..Len(s)
      OBVIOUS
    <3>2. ASSUME NEW k \in upTo(at[i]) PROVE k \in {at[m] : m \in 1..i}
      BY <1>1, <2>1
    <3>3. ASSUME NEW m \in 1..i PROVE at[m] \in upTo(at[i])
      BY <1>1, <2>1, <3>1
    <3> QED
      BY <3>2, <3>3
  <2>3. i \in 0..Len(s)
    OBVIOUS
  <2>4. PICK T : T = {at[m] : m \in 1..i}
    OBVIOUS
  <2>5. Cardinality(T) = i
    BY <1>4, <2>3, <2>4
  <2> QED
    BY <2>2, <2>4, <2>5
<1>7. \A i \in 1..Len(s) : place(i) = at[i]
  <2> SUFFICES ASSUME NEW i \in 1..Len(s) PROVE place(i) = at[i]
    OBVIOUS
  <2>1. at[i] \in DOMAIN f /\ Cardinality(upTo(at[i])) = i
    BY <1>1, <1>6
  <2>2. place(i) \in DOMAIN f /\ Cardinality(upTo(place(i))) = i
    BY <2>1
  <2>3. PICK m \in 1..Len(s) : at[m] = place(i)
    BY <1>1, <2>2
  <2> QED
    BY <1>6, <2>2, <2>3
<1>8. Listed(f) = [i \in 1..Len(s) |-> f[place(i)]]
  BY <1>5 DEF Listed
<1>9. \A i \in 1..Len(s) : s[i] = f[place(i)]
  BY <1>1, <1>7
<1> HIDE DEF place
<1> QED
  BY <1>2, <1>8, <1>9

(* h is f followed by g.                                                   *)
Joined(f, g, h) ==
  /\ DOMAIN f \subseteq Int /\ DOMAIN g \subseteq Int
  /\ \A i \in DOMAIN f, j \in DOMAIN g : i < j
  /\ DOMAIN h = DOMAIN f \cup DOMAIN g
  /\ \A i \in DOMAIN f : h[i] = f[i]
  /\ \A j \in DOMAIN g : h[j] = g[j]

LEMMA ListsMore ==
  ASSUME NEW S, NEW s \in Seq(S), NEW r \in Seq(S), NEW f, NEW g, NEW h,
         Joined(f, g, h), Lists(s, f), Lists(r, g)
  PROVE  Lists(s \o r, h)
<1> USE DEF Joined
<1>1. PICK a \in [1..Len(s) -> DOMAIN f] :
        /\ \A i, j \in 1..Len(s) : i < j => a[i] < a[j]
        /\ \A k \in DOMAIN f : \E i \in 1..Len(s) : a[i] = k
        /\ \A i \in 1..Len(s) : s[i] = f[a[i]]
  BY DEF Lists
<1>2. PICK b \in [1..Len(r) -> DOMAIN g] :
        /\ \A i, j \in 1..Len(r) : i < j => b[i] < b[j]
        /\ \A k \in DOMAIN g : \E i \in 1..Len(r) : b[i] = k
        /\ \A i \in 1..Len(r) : r[i] = g[b[i]]
  BY DEF Lists
<1>3. /\ Len(s) \in Nat /\ Len(r) \in Nat /\ Len(s \o r) = Len(s) + Len(r)
      /\ \A i \in 1..Len(s) : (s \o r)[i] = s[i]
      /\ \A i \in 1..Len(r) : (s \o r)[Len(s) + i] = r[i]
  OBVIOUS
<1>4. PICK m, n : m = Len(s) /\ n = Len(r)
  OBVIOUS
<1>5. m \in Nat /\ n \in Nat /\ Len(s \o r) = m + n
  BY <1>3, <1>4
<1>6. PICK c : c = [i \in 1..m + n |-> IF i <= m THEN a[i] ELSE b[i - m]]
  OBVIOUS
<1>7. /\ \A i \in 1..m : i \in 1..m + n /\ c[i] = a[i] /\ c[i] \in DOMAIN f
      /\ \A i \in 1..n : m + i \in 1..m + n /\ c[m + i] = b[i] /\ c[m + i] \in DOMAIN g
  <2>1. ASSUME NEW i \in 1..m
        PROVE  i \in 1..m + n /\ c[i] = a[i] /\ a[i] \in DOMAIN f
    BY <1>1, <1>4, <1>5, <1>6
  <2>2. ASSUME NEW i \in 1..n
        PROVE  m + i \in 1..m + n /\ c[m + i] = b[i] /\ b[i] \in DOMAIN g
    <3>1. m + i \in 1..m + n /\ ~(m + i <= m) /\ (m + i) - m = i
      BY <1>5
    <3>2. c[m + i] = b[(m + i) - m]
      BY <1>6, <3>1
    <3> QED
      BY <1>2, <1>4, <3>1, <3>2
  <2> QED
    BY <2>1, <2>2
<1>8. \A i \in 1..m + n : i \in 1..m \/ \E j \in 1..n : i = m + j
  <2> SUFFICES ASSUME NEW i \in 1..m + n, i \notin 1..m
               PROVE  \E j \in 1..n : i = m + j
    OBVIOUS
  <2>1. i - m \in 1..n /\ i = m + (i - m)
    BY <1>5
  <2> QED
    BY <2>1
<1>9. c \in [1..m + n -> DOMAIN h]
  <2>1. ASSUME NEW i \in 1..m + n PROVE c[i] \in DOMAIN h
    <3>1. CASE i \in 1..m
      BY <1>7, <3>1
    <3>2. CASE \E j \in 1..n : i = m + j
      BY <1>7, <3>2
    <3> QED
      BY <1>8, <3>1, <3>2
  <2> QED
    BY <1>6, <2>1
<1>10. \A i, j \in 1..m + n : i < j => c[i] < c[j]
  <2> SUFFICES ASSUME NEW i \in 1..m + n, NEW j \in 1..m + n, i < j
               PROVE  c[i] < c[j]
    OBVIOUS
  <2>1. CASE j \in 1..m
    <3>1. i \in 1..m
      BY <1>5, <2>1
    <3>2. a[i] < a[j]
      BY <1>1, <1>4, <2>1, <3>1
    <3> QED
      BY <1>7, <2>1, <3>1, <3>2
  <2>2. CASE i \in 1..m /\ j \notin 1..m
    BY <1>7, <1>8, <2>2
  <2>3. CASE i \notin 1..m
    <3>1. PICK x \in 1..n : i = m + x
      BY <1>8, <2>3
    <3>2. PICK y \in 1..n : j = m + y
      BY <1>5, <1>8, <3>1
    <3>3. x < y
      BY <1>5, <3>1, <3>2
    <3> QED
      <4>1. b[x] < b[y]
        BY <1>2, <1>4, <3>3
      <4> QED
        BY <1>7, <3>1, <3>2, <4>1
  <2> QED
    BY <1>5, <2>1, <2>2, <2>3
<1>11. \A k \in DOMAIN h : \E i \in 1..m + n : c[i] = k
  <2>1. ASSUME NEW k \in DOMAIN f PROVE \E i \in 1..m + n : c[i] = k
    <3>1. PICK i \in 1..m : a[i] = k
      BY <1>1, <1>4
    <3> QED
      BY <1>7, <3>1
  <2>2. ASSUME NEW k \in DOMAIN g PROVE \E i \in 1..m + n : c[i] = k
    <3>1. PICK i \in 1..n : b[i] = k
      BY <1>2, <1>4
    <3> QED
      BY <1>7, <3>1
  <2> QED
    BY <2>1, <2>2
<1>12. \A i \in 1..m + n : (s \o r)[i] = h[c[i]]
  <2> SUFFICES ASSUME NEW i \in 1..m + n PROVE (s \o r)[i] = h[c[i]]
    OBVIOUS
  <2>1. CASE i \in 1..m
    <3>1. (s \o r)[i] = s[i] /\ c[i] = a[i] /\ a[i] \in DOMAIN f
      BY <1>3, <1>4, <1>7, <2>1
    <3>2. s[i] = f[a[i]]
      BY <1>1, <1>4, <2>1
    <3> QED
      BY <3>1, <3>2
  <2>2. CASE i \notin 1..m
    <3>1. PICK j \in 1..n : i = m + j
      BY <1>8, <2>2
    <3>2. (s \o r)[i] = r[j] /\ c[i] = b[j] /\ b[j] \in DOMAIN g
      BY <1>3, <1>4, <1>7, <3>1
    <3>3. r[j] = g[b[j]]
      BY <1>2, <1>4
    <3> QED
      BY <3>2, <3>3
  <2> QED
    BY <2>1, <2>2
<1>13. PICK u : u = s \o r
  OBVIOUS
<1>14. /\ Len(u) = m + n /\ c \in [1..Len(u) -> DOMAIN h]
       /\ \A i \in 1..Len(u) : u[i] = h[c[i]]
  BY <1>5, <1>9, <1>12, <1>13
<1>15. /\ \A i, j \in 1..Len(u) : i < j => c[i] < c[j]
       /\ \A k \in DOMAIN h : \E i \in 1..Len(u) : c[i] = k
  BY <1>10, <1>11, <1>14
<1>16. Lists(u, h)
  BY <1>14, <1>15 DEF Lists
<1> QED
  BY <1>13, <1>16

LEMMA ListsNothing ==
  ASSUME NEW f, DOMAIN f = {} PROVE Lists(<<>>, f)
<1>1. PICK at : at = [i \in 1..0 |-> 0]
  OBVIOUS
<1>2. at \in [1..Len(<<>>) -> DOMAIN f]
  BY <1>1
<1> QED
  BY <1>2 DEF Lists

LEMMA ListsOne ==
  ASSUME NEW x, NEW k \in Int, NEW f, DOMAIN f = {k}, f[k] = x
  PROVE  Lists(<<x>>, f)
<1>1. PICK at : at = [i \in 1..1 |-> k]
  OBVIOUS
<1>2. /\ at \in [1..Len(<<x>>) -> DOMAIN f] /\ at[1] = k
      /\ \A i \in 1..Len(<<x>>) : i = 1
  BY <1>1
<1> QED
  BY <1>2 DEF Lists
(* What comes next in a function.                                          *)
LEMMA ListsJoin ==
  ASSUME NEW S, NEW s \in Seq(S), NEW r \in Seq(S), NEW h, DOMAIN h \subseteq Int,
         NEW n \in Int, NEW m \in Int, n <= m,
         Lists(s, Before(h, n)), Lists(r, Between(h, n, m))
  PROVE  Lists(s \o r, Before(h, m))
<1>1. PICK f, g, w : f = Before(h, n) /\ g = Between(h, n, m) /\ w = Before(h, m)
  OBVIOUS
<1>2. /\ DOMAIN f = {j \in DOMAIN h : j < n} /\ \A j \in DOMAIN f : f[j] = h[j]
      /\ DOMAIN g = {j \in DOMAIN h : n <= j /\ j < m} /\ \A j \in DOMAIN g : g[j] = h[j]
      /\ DOMAIN w = {j \in DOMAIN h : j < m} /\ \A j \in DOMAIN w : w[j] = h[j]
  BY <1>1 DEF Before, Between
<1>3. /\ DOMAIN f \subseteq Int /\ DOMAIN g \subseteq Int
      /\ \A i \in DOMAIN f, j \in DOMAIN g : i < j
      /\ DOMAIN w = DOMAIN f \cup DOMAIN g
  BY <1>2
<1>4. (\A i \in DOMAIN f : w[i] = f[i]) /\ (\A j \in DOMAIN g : w[j] = g[j])
  BY <1>2, <1>3
<1>5. Lists(s, f) /\ Lists(r, g) /\ Joined(f, g, w)
  BY <1>1, <1>3, <1>4 DEF Joined
<1>6. Lists(s \o r, w)
  BY <1>5, ListsMore
<1> QED
  BY <1>1, <1>6

LEMMA ListsJoinOne ==
  ASSUME NEW S, NEW s \in Seq(S), NEW x \in S, NEW h, DOMAIN h \subseteq Int,
         NEW k \in DOMAIN h, h[k] = x, Lists(s, Before(h, k))
  PROVE  Lists(s \o <<x>>, Before(h, k + 1))
<1>1. PICK r : r = <<x>> /\ r \in Seq(S)
  BY <<x>> \in Seq(S)
<1>2. PICK g : g = Between(h, k, k + 1)
  OBVIOUS
<1>3. DOMAIN g = {k} /\ g[k] = x
  BY <1>2 DEF Between
<1>4. Lists(r, g)
  BY <1>1, <1>3, ListsOne
<1>5. PICK m \in Int : m = k + 1 /\ k <= m /\ k \in Int
  OBVIOUS
<1>6. Lists(s \o r, Before(h, m))
  BY <1>1, <1>2, <1>4, <1>5, ListsJoin
<1> QED
  BY <1>1, <1>5, <1>6

LEMMA SameFront ==
  ASSUME NEW S, NEW s \in Seq(S), NEW t \in Seq(S), NEW n \in Nat,
         n <= Len(s), n <= Len(t), \A k \in 1..n : s[k] = t[k]
  PROVE  SubSeq(s, 1, n) = SubSeq(t, 1, n)
OBVIOUS

-----------------------------------------------------------------------------
(* deduplicate.                                                            *)
LEMMA FrontAndLast ==
  ASSUME NEW S, NEW s \in Seq(S), NEW n \in 1..Len(s)
  PROVE  /\ SubSeq(s, 1, n - 1) \in Seq(S) /\ SubSeq(s, 1, n) \in Seq(S)
         /\ Len(SubSeq(s, 1, n - 1)) = n - 1
         /\ \A i \in 1..n - 1 : SubSeq(s, 1, n - 1)[i] = s[i]
         /\ SubSeq(s, 1, n) = SubSeq(s, 1, n - 1) \o <<s[n]>>
<1>1. n - 1 \in Nat /\ n \in Nat /\ Len(s) \in Nat
  OBVIOUS
<1> QED
  BY <1>1

LEMMA LastOfEachDomain ==
  ASSUME NEW list \in Seq(Sample)
  PROVE  /\ DOMAIN LastOfEach(list) =
              {j \in 1..Len(list) : j = Len(list) \/ list[j].t # list[j + 1].t}
         /\ \A j \in DOMAIN LastOfEach(list) : LastOfEach(list)[j] = list[j]
BY DEF LastOfEach

LEMMA DeduplicateStep ==
  ASSUME DeduplicateInv, [AlgorithmsNext]_algorithmVars
  PROVE  DeduplicateInv'
<1>1. CASE call # "deduplicate"
  <2>1. call' = call
    BY DEF AlgorithmsNext, algorithmVars, Runs, GrowWindow, CloseWindow, CompactReturn,
       ReplaceLast, AppendPoint, DeduplicateReturn, DownsampleAll, PickPoint,
       DownsampleReturn, Judge
  <2> QED
    BY <1>1, <2>1 DEF DeduplicateInv
<1>2. CASE UNCHANGED algorithmVars
  BY <1>2 DEF DeduplicateInv, algorithmVars
<1>3. CASE call = "deduplicate" /\ AlgorithmsNext
  <2>0. /\ argument \in Seq(Sample) /\ points \in Seq(Sample) /\ Len(points) = Len(argument)
        /\ begin \in Nat \ {0} /\ end \in Nat /\ begin < end
        /\ \A k \in DOMAIN points : k >= end => points[k] = argument[k]
        /\ points # <<>> =>
             /\ end <= Len(points) + 1
             /\ points[begin] = argument[end - 1]
             /\ Lists(SubSeq(points, 1, begin - 1), Before(LastOfEach(argument), end - 1))
    BY <1>3 DEF DeduplicateInv
  <2>1. ReplaceLast \/ AppendPoint \/ DeduplicateReturn
    BY <1>3 DEF AlgorithmsNext, Runs, GrowWindow, CloseWindow, CompactReturn, DownsampleAll,
       PickPoint, DownsampleReturn, Judge
  <2>2. PICK all : all = LastOfEach(argument)
    OBVIOUS
  <2>3. /\ DOMAIN all = {j \in 1..Len(argument) :
                           j = Len(argument) \/ argument[j].t # argument[j + 1].t}
        /\ \A j \in DOMAIN all : all[j] = argument[j]
    BY <2>0, <2>2, LastOfEachDomain
  <2>4. CASE ReplaceLast \/ AppendPoint
    <3>1. /\ end <= Len(points) /\ points # <<>> /\ Len(points) \in Nat
          /\ DOMAIN points = 1..Len(points)
          /\ end \in 2..Len(points) /\ begin \in 1..Len(points) /\ begin <= end - 1
          /\ end' = end + 1 /\ argument' = argument /\ ~returned /\ returned' = returned
          /\ points[end] = argument[end] /\ points[end] \in Sample
          /\ call' = call /\ out' = out
      BY <2>0, <2>4 DEF ReplaceLast, AppendPoint, Runs
    <3>2. Lists(SubSeq(points, 1, begin - 1), Before(all, end - 1))
      BY <2>0, <2>2, <3>1
    <3>3. CASE ReplaceLast
      <4>1. /\ points' = [points EXCEPT ![begin] = points[end]] /\ begin' = begin
            /\ argument[end].t = argument[end - 1].t
        BY <2>0, <3>1, <3>3 DEF ReplaceLast
      <4>2. Before(all, end) = Before(all, end - 1)
        <5>1. end - 1 \notin DOMAIN all
          BY <2>0, <2>3, <3>1, <4>1
        <5>2. \A j \in DOMAIN all : j < end <=> j < end - 1
          BY <2>3, <3>1, <5>1
        <5> QED
          BY <5>2 DEF Before
      <4>3. /\ points' \in Seq(Sample) /\ Len(points') = Len(points)
            /\ points'[begin] = points[end]
            /\ \A k \in DOMAIN points \ {begin} : points'[k] = points[k]
        BY <2>0, <3>1, <4>1
      <4>4. SubSeq(points', 1, begin - 1) = SubSeq(points, 1, begin - 1)
        <5>1. /\ begin - 1 \in Nat /\ begin - 1 <= Len(points)
              /\ 1..begin - 1 \subseteq DOMAIN points \ {begin}
          BY <3>1
        <5> QED
          BY <2>0, <4>3, <5>1, SameFront
      <4>5. Lists(SubSeq(points', 1, begin' - 1), Before(all, end' - 1))
        <5>1. end' - 1 = end
          BY <3>1
        <5> QED
          BY <3>2, <4>1, <4>2, <4>4, <5>1
      <4>6. points'[begin'] = argument[end' - 1]
        BY <3>1, <4>1, <4>3
      <4>7. \A k \in DOMAIN points' : k >= end' => points'[k] = argument'[k]
        BY <2>0, <3>1, <4>3
      <4> QED
        BY <1>3, <2>0, <2>2, <3>1, <4>1, <4>3, <4>5, <4>6, <4>7 DEF DeduplicateInv
    <3>4. CASE AppendPoint
      <4>1. /\ points' = [points EXCEPT ![begin + 1] = points[end]] /\ begin' = begin + 1
            /\ argument[end].t # argument[end - 1].t
        BY <2>0, <3>1, <3>4 DEF AppendPoint
      <4>2. /\ points' \in Seq(Sample) /\ Len(points') = Len(points)
            /\ points'[begin + 1] = points[end]
            /\ \A k \in DOMAIN points \ {begin + 1} : points'[k] = points[k]
        BY <2>0, <3>1, <4>1
      <4>3. SubSeq(points', 1, begin) = SubSeq(points, 1, begin)
        <5>1. /\ begin \in Nat /\ begin <= Len(points)
              /\ 1..begin \subseteq DOMAIN points \ {begin + 1}
          BY <3>1
        <5> QED
          BY <2>0, <4>2, <5>1, SameFront
      <4>4. /\ SubSeq(points, 1, begin) = SubSeq(points, 1, begin - 1) \o <<points[begin]>>
            /\ SubSeq(points, 1, begin - 1) \in Seq(Sample)
        BY <2>0, <3>1, FrontAndLast
      <4>5. /\ end - 1 \in DOMAIN all /\ all[end - 1] = points[begin]
            /\ points[begin] \in Sample /\ DOMAIN all \subseteq Int
        <5>1. points[begin] = argument[end - 1]
          BY <2>0, <3>1
        <5>2. PICK k \in 1..Len(argument) : k = end - 1 /\ k + 1 = end
          BY <2>0, <3>1
        <5>3. k \in DOMAIN all
          BY <2>3, <4>1, <5>2
        <5>4. points[begin] \in Sample
          BY <2>0, <3>1
        <5>5. DOMAIN all \subseteq Int
          BY <2>0, <2>3
        <5> QED
          BY <2>3, <5>1, <5>2, <5>3, <5>4, <5>5
      <4>6. Lists(SubSeq(points, 1, begin), Before(all, end))
        <5>1. PICK k \in Int : k = end - 1
          BY <3>1
        <5>2. k \in DOMAIN all /\ all[k] = points[begin] /\ k + 1 = end
          BY <2>0, <4>5, <5>1
        <5>3. Lists(SubSeq(points, 1, begin - 1), Before(all, k))
          BY <3>2, <5>1
        <5>4. Lists(SubSeq(points, 1, begin - 1) \o <<points[begin]>>, Before(all, k + 1))
          BY <4>4, <4>5, <5>2, <5>3, ListsJoinOne
        <5> QED
          BY <4>4, <5>2, <5>4
      <4>7. Lists(SubSeq(points', 1, begin' - 1), Before(all, end' - 1))
        <5>1. end' - 1 = end /\ begin' - 1 = begin
          BY <2>0, <3>1, <4>1
        <5> QED
          BY <4>3, <4>6, <5>1
      <4>8. points'[begin'] = argument[end' - 1]
        BY <3>1, <4>1, <4>2
      <4>9. \A k \in DOMAIN points' : k >= end' => points'[k] = argument'[k]
        BY <2>0, <3>1, <4>2
      <4> QED
        BY <1>3, <2>0, <2>2, <3>1, <4>1, <4>2, <4>7, <4>8, <4>9 DEF DeduplicateInv
    <3> QED
      BY <2>4, <3>3, <3>4
  <2>5. CASE DeduplicateReturn
    BY <1>3, <2>0, <2>5 DEF DeduplicateInv, DeduplicateReturn, Runs
  <2> QED
    BY <2>1, <2>4, <2>5
<1> QED
  BY <1>1, <1>2, <1>3

LEMMA DeduplicateImplies ==
  ASSUME DeduplicateInv PROVE InPlaceDeduplicateIsPure
<1> SUFFICES ASSUME Done("deduplicate") PROVE out = Listed(LastOfEach(argument))
  BY DEF InPlaceDeduplicateIsPure
<1>1. /\ argument \in Seq(Sample) /\ points \in Seq(Sample) /\ Len(points) = Len(argument)
      /\ begin \in Nat \ {0} /\ end \in Nat /\ begin < end
      /\ points # <<>> =>
           /\ end <= Len(points) + 1
           /\ points[begin] = argument[end - 1]
           /\ Lists(SubSeq(points, 1, begin - 1), Before(LastOfEach(argument), end - 1))
      /\ end > Len(points)
      /\ out = SubSeq(points, 1, IF points = <<>> THEN 0 ELSE begin)
  BY DEF DeduplicateInv, Done
<1>2. PICK all : all = LastOfEach(argument)
  OBVIOUS
<1>3. /\ DOMAIN all = {j \in 1..Len(argument) :
                         j = Len(argument) \/ argument[j].t # argument[j + 1].t}
      /\ \A j \in DOMAIN all : all[j] = argument[j]
      /\ all = [j \in DOMAIN all |-> all[j]]
  BY <1>1, <1>2, LastOfEachDomain DEF LastOfEach
<1>4. DOMAIN all \subseteq Int
  BY <1>1, <1>3
<1>5. CASE points = <<>>
  <2>1. out = <<>> /\ DOMAIN all = {} /\ out \in Seq(Sample)
    BY <1>1, <1>3, <1>5
  <2>2. Lists(out, all)
    BY <2>1, ListsNothing
  <2> QED
    BY <1>2, <1>4, <2>1, <2>2, ListsIsListed
<1>6. CASE points # <<>>
  <2>1. PICK k \in 1..Len(points) : k = end - 1 /\ k = Len(argument)
    BY <1>1, <1>6
  <2>2. k \in DOMAIN all /\ all[k] = points[begin] /\ begin \in 1..Len(points)
    BY <1>1, <1>3, <1>6, <2>1
  <2>3. /\ out = SubSeq(points, 1, begin - 1) \o <<points[begin]>>
        /\ SubSeq(points, 1, begin - 1) \in Seq(Sample) /\ out \in Seq(Sample)
        /\ points[begin] \in Sample
    <3>1. points \in Seq(Sample) /\ begin \in 1..Len(points) /\ out = SubSeq(points, 1, begin)
      BY <1>1, <1>6, <2>2
    <3>2. points[begin] \in Sample
      BY <3>1
    <3>3. PICK front, upTo : front = SubSeq(points, 1, begin - 1) /\ upTo = SubSeq(points, 1, begin)
      OBVIOUS
    <3>4. /\ front \in Seq(Sample) /\ upTo \in Seq(Sample)
          /\ upTo = front \o <<points[begin]>>
      BY <3>1, <3>3, FrontAndLast
    <3> QED
      BY <3>1, <3>2, <3>3, <3>4
  <2>4. Lists(SubSeq(points, 1, begin - 1), Before(all, k))
    BY <1>1, <1>2, <1>6, <2>1
  <2>5. Lists(out, Before(all, k + 1))
    BY <1>4, <2>2, <2>3, <2>4, ListsJoinOne
  <2>6. Before(all, k + 1) = all
    <3>1. {j \in DOMAIN all : j < k + 1} = DOMAIN all
      BY <1>1, <1>3, <2>1
    <3> QED
      BY <1>3, <3>1 DEF Before
  <2> QED
    BY <1>2, <1>4, <2>3, <2>5, <2>6, ListsIsListed
<1> QED
  BY <1>5, <1>6

-----------------------------------------------------------------------------
(* CompactByInterval.  The points from b on before e are a window: they    *)
(* are in one bucket, and their neighbours are not.                        *)
IsWindow(list, width, b, e) ==
  /\ b \in 1..Len(list) /\ e \in b + 1..Len(list) + 1
  /\ \A k \in b..e - 1 : Bucket(list[k].t, width) = Bucket(list[b].t, width)
  /\ b > 1 => Bucket(list[b - 1].t, width) # Bucket(list[b].t, width)
  /\ e <= Len(list) => Bucket(list[e].t, width) # Bucket(list[b].t, width)

IsStable(list, b, e) == \A j \in b..e - 1 : ~Volatile(list[b], list[j])

LEMMA WindowOfEach ==
  ASSUME NEW list \in Seq(Sample), NEW width, NEW b \in Int, NEW e \in Int,
         IsWindow(list, width, b, e), NEW i \in b..e - 1
  PROVE  Window(list, width, i) = b..e - 1
<1> DEFINE bucket(k) == Bucket(list[k].t, width)
<1>1. /\ Len(list) \in Nat /\ DOMAIN list = 1..Len(list)
      /\ b \in 1..Len(list) /\ e \in b + 1..Len(list) + 1
      /\ \A k \in b..e - 1 : bucket(k) = bucket(b)
      /\ b > 1 => bucket(b - 1) # bucket(b)
      /\ e <= Len(list) => bucket(e) # bucket(b)
  BY DEF IsWindow
<1>2. Window(list, width, i) =
        {j \in 1..Len(list) : \A k \in 1..Len(list) :
            (i <= k /\ k <= j) \/ (j <= k /\ k <= i) => bucket(k) = bucket(i)}
  BY <1>1 DEF Window
<1> HIDE DEF bucket
<1>3. bucket(i) = bucket(b)
  BY <1>1
<1>4. ASSUME NEW j \in b..e - 1, NEW k \in 1..Len(list),
             (i <= k /\ k <= j) \/ (j <= k /\ k <= i)
      PROVE  bucket(k) = bucket(i)
  <2>1. k \in b..e - 1
    BY <1>1, <1>4
  <2> QED
    BY <1>1, <1>3, <2>1
<1>5. ASSUME NEW j \in 1..Len(list), j \notin b..e - 1
      PROVE  \E k \in 1..Len(list) : /\ (i <= k /\ k <= j) \/ (j <= k /\ k <= i)
                                     /\ bucket(k) # bucket(i)
  <2>1. CASE j < b
    <3>1. b - 1 \in 1..Len(list) /\ j <= b - 1 /\ b - 1 <= i /\ b > 1
      BY <1>1, <2>1
    <3> QED
      BY <1>1, <1>3, <3>1
  <2>2. CASE j >= e
    <3>1. e \in 1..Len(list) /\ i <= e /\ e <= j
      BY <1>1, <2>2
    <3> QED
      BY <1>1, <1>3, <3>1
  <2> QED
    BY <1>1, <1>5, <2>1, <2>2
<1>6. b..e - 1 \subseteq 1..Len(list)
  BY <1>1
<1> QED
  BY <1>2, <1>4, <1>5, <1>6

(* Of a window CompactByInterval keeps its last point, or all of it.       *)
Kept(list, b, e, rows) ==
  /\ DOMAIN rows = IF IsStable(list, b, e) THEN {e - 1} ELSE b..e - 1
  /\ \A k \in DOMAIN rows : rows[k] = Mark(list[k], IsStable(list, b, e))

LEMMA WindowCompacted ==
  ASSUME NEW list \in Seq(Sample), NEW width, NEW b \in Int, NEW e \in Int,
         IsWindow(list, width, b, e), NEW rows, rows = CompactByInterval(list, width)
  PROVE  Kept(list, b, e, Between(rows, b, e))
<1>0. PICK stable : stable = IsStable(list, b, e)
  OBVIOUS
<1>1. /\ Len(list) \in Nat /\ DOMAIN list = 1..Len(list)
      /\ b \in 1..Len(list) /\ e \in b + 1..Len(list) + 1
      /\ b..e - 1 \subseteq 1..Len(list)
  BY DEF IsWindow
<1>2. PICK window : window = b..e - 1
  OBVIOUS
<1>3. \A k \in window : Window(list, width, k) = window
  BY <1>2, WindowOfEach
<1>4. Stable(list, window) = stable
  <2>1. \A i \in window : (\A k \in window : i <= k) <=> i = b
    BY <1>1, <1>2
  <2>2. Stable(list, window) <=> \A i, j \in window : i = b => ~Volatile(list[i], list[j])
    BY <2>1 DEF Stable
  <2>3. b \in window
    BY <1>1, <1>2
  <2>4. Stable(list, window) <=> \A j \in window : ~Volatile(list[b], list[j])
    BY <2>2, <2>3
  <2>5. Stable(list, window) \in BOOLEAN /\ stable \in BOOLEAN
    BY <1>0 DEF Stable, IsStable
  <2> QED
    BY <1>0, <1>2, <2>4, <2>5 DEF IsStable
<1>5. \A k \in window : k \in DOMAIN rows <=> (stable => \A j \in window : j <= k)
  BY <1>1, <1>2, <1>3, <1>4 DEF CompactByInterval
<1>6. \A k \in window \cap DOMAIN rows : rows[k] = Mark(list[k], stable)
  BY <1>3, <1>4 DEF CompactByInterval, Mark
<1>7. {k \in DOMAIN rows : b <= k /\ k < e} = window \cap DOMAIN rows
  <2>1. DOMAIN rows \subseteq 1..Len(list)
    BY <1>1 DEF CompactByInterval
  <2> QED
    BY <1>1, <1>2, <2>1
<1>8. \A k \in window : (\A j \in window : j <= k) <=> k = e - 1
  BY <1>1, <1>2
<1>9. window \cap DOMAIN rows = IF stable THEN {e - 1} ELSE window
  <2>1. e - 1 \in window
    BY <1>1, <1>2
  <2> QED
    BY <1>5, <1>8, <2>1
<1> QED
  BY <1>0, <1>2, <1>6, <1>7, <1>9 DEF Between, Kept
(* What an iteration appends for a window.                                 *)
Appended(window) ==
  IF \A i \in DOMAIN window : ~Volatile(window[1], window[i])
    THEN <<Mark(window[Len(window)], TRUE)>>
    ELSE [i \in DOMAIN window |-> Mark(window[i], FALSE)]

LEMMA WindowAppended ==
  ASSUME NEW list \in Seq(Sample), NEW width, NEW b \in Int, NEW e \in Int,
         IsWindow(list, width, b, e), NEW rows, rows = CompactByInterval(list, width),
         NEW window, window = SubSeq(list, b, e - 1)
  PROVE  Appended(window) \in Seq(Row) /\ Lists(Appended(window), Between(rows, b, e))
<1>0. PICK part : part = Appended(window)
  OBVIOUS
<1>1. PICK n : n = e - b
  OBVIOUS
<1>2. /\ Len(list) \in Nat /\ DOMAIN list = 1..Len(list)
      /\ b \in 1..Len(list) /\ e \in b + 1..Len(list) + 1 /\ n \in Nat /\ n >= 1
  BY <1>1 DEF IsWindow
<1>3. /\ Len(window) = n /\ DOMAIN window = 1..n
      /\ \A i \in 1..n : window[i] = list[b + i - 1] /\ b + i - 1 \in b..e - 1
  BY <1>1, <1>2
<1>4. \A k \in b..e - 1 : \E i \in 1..n : k = b + i - 1
  <2> SUFFICES ASSUME NEW k \in b..e - 1 PROVE \E i \in 1..n : k = b + i - 1
    OBVIOUS
  <2>1. k - b + 1 \in 1..n /\ k = b + (k - b + 1) - 1
    BY <1>1, <1>2
  <2> QED
    BY <2>1
<1>5. (\A i \in DOMAIN window : ~Volatile(window[1], window[i])) <=> IsStable(list, b, e)
  <2>1. window[1] = list[b]
    BY <1>2, <1>3
  <2>2. (\A i \in DOMAIN window : ~Volatile(window[1], window[i]))
          <=> \A i \in 1..n : ~Volatile(list[b], list[b + i - 1])
    BY <1>3, <2>1
  <2> QED
    BY <1>3, <1>4, <2>2 DEF IsStable
<1>6. PICK g : g = Between(rows, b, e)
  OBVIOUS
<1>7. /\ DOMAIN g = IF IsStable(list, b, e) THEN {e - 1} ELSE b..e - 1
      /\ \A k \in DOMAIN g : g[k] = Mark(list[k], IsStable(list, b, e))
  <2>1. Kept(list, b, e, Between(rows, b, e))
    BY WindowCompacted
  <2> QED
    BY <1>6, <2>1 DEF Kept
<1>8. ASSUME NEW k \in b..e - 1, NEW s \in BOOLEAN PROVE Mark(list[k], s) \in Row
  <2>1. k \in DOMAIN list
    BY <1>2
  <2>2. list[k] \in Sample
    BY <2>1
  <2> QED
    BY <2>2 DEF Mark, Row, Sample
<1>9. CASE IsStable(list, b, e)
  <2>1. e - 1 \in b..e - 1 /\ e - 1 \in Int /\ b + n - 1 = e - 1
    BY <1>1, <1>2
  <2>2. window[Len(window)] = list[e - 1]
    BY <1>2, <1>3, <2>1
  <2>3. PICK k \in b..e - 1 : k = e - 1 /\ k \in Int
    BY <2>1
  <2>4. PICK x : x = Mark(list[k], TRUE)
    OBVIOUS
  <2>5. x \in Row /\ part = <<x>>
    BY <1>0, <1>5, <1>8, <1>9, <2>2, <2>3, <2>4 DEF Appended
  <2>6. DOMAIN g = {k}
    BY <1>7, <1>9, <2>3
  <2>7. g[k] = Mark(list[k], IsStable(list, b, e)) /\ IsStable(list, b, e) = TRUE
    BY <1>7, <1>9, <2>6 DEF IsStable
  <2>8. g[k] = x
    BY <2>4, <2>7
  <2>9. Lists(<<x>>, g)
    BY <2>3, <2>6, <2>8, ListsOne
  <2>10. part \in Seq(Row)
    BY <2>5
  <2> QED
    BY <1>0, <1>6, <2>5, <2>9, <2>10
<1>10. CASE ~IsStable(list, b, e)
  <2>0. IsStable(list, b, e) = FALSE
    BY <1>10 DEF IsStable
  <2>1. /\ part \in Seq(Row) /\ Len(part) = n
        /\ \A i \in 1..n : part[i] = Mark(list[b + i - 1], FALSE)
    <3>1. part = [i \in 1..n |-> Mark(window[i], FALSE)]
      BY <1>0, <1>3, <1>5, <1>10 DEF Appended
    <3>2. \A i \in 1..n : Mark(window[i], FALSE) \in Row
      BY <1>3, <1>8
    <3>3. part \in [1..n -> Row]
      BY <3>1, <3>2
    <3>4. part \in Seq(Row) /\ Len(part) = n
      BY <1>2, <3>3
    <3> QED
      BY <1>3, <3>1, <3>4
  <2>2. PICK at : at = [i \in 1..n |-> b + i - 1]
    OBVIOUS
  <2>3. DOMAIN g = b..e - 1
    BY <1>7, <1>10
  <2>4. at \in [1..n -> DOMAIN g] /\ \A i \in 1..n : at[i] = b + i - 1
    BY <1>3, <2>2, <2>3
  <2>5. \A i, j \in 1..n : i < j => at[i] < at[j]
    BY <1>2, <2>4
  <2>6. \A k \in DOMAIN g : \E i \in 1..n : at[i] = k
    BY <1>4, <2>3, <2>4
  <2>7. \A i \in 1..n : part[i] = g[at[i]]
    <3> SUFFICES ASSUME NEW i \in 1..n PROVE part[i] = g[at[i]]
      OBVIOUS
    <3>1. PICK k \in DOMAIN g : k = at[i] /\ k = b + i - 1
      BY <2>4
    <3>2. g[k] = Mark(list[k], FALSE)
      BY <1>7, <2>0
    <3> QED
      BY <2>1, <3>1, <3>2
  <2>8. /\ at \in [1..Len(part) -> DOMAIN g]
        /\ \A i, j \in 1..Len(part) : i < j => at[i] < at[j]
        /\ \A k \in DOMAIN g : \E i \in 1..Len(part) : at[i] = k
        /\ \A i \in 1..Len(part) : part[i] = g[at[i]]
    BY <2>1, <2>4, <2>5, <2>6, <2>7
  <2>9. Lists(part, g)
    BY <2>8 DEF Lists
  <2> QED
    BY <1>0, <1>6, <2>1, <2>9
<1> QED
  BY <1>9, <1>10

LEMMA CompactionStep ==
  ASSUME CompactionInv, [AlgorithmsNext]_algorithmVars
  PROVE  CompactionInv'
<1>1. CASE call # "CompactByInterval"
  <2>1. call' = call
    BY DEF AlgorithmsNext, algorithmVars, Runs, GrowWindow, CloseWindow, CompactReturn,
       ReplaceLast, AppendPoint, DeduplicateReturn, DownsampleAll, PickPoint,
       DownsampleReturn, Judge
  <2> QED
    BY <1>1, <2>1 DEF CompactionInv
<1>2. CASE UNCHANGED algorithmVars
  BY <1>2 DEF CompactionInv, algorithmVars
<1>3. CASE call = "CompactByInterval" /\ AlgorithmsNext
  <2>0. /\ argument \in Seq(Sample) /\ points = argument /\ limit \in Nat \ {0}
        /\ begin \in 1..Len(argument) + 1 /\ end \in Nat /\ begin < end
        /\ begin <= Len(argument) =>
             /\ end <= Len(argument) + 1
             /\ \A k \in begin..end - 1 :
                  Bucket(argument[k].t, limit) = Bucket(argument[begin].t, limit)
        /\ begin \in 2..Len(argument) =>
             Bucket(argument[begin - 1].t, limit) # Bucket(argument[begin].t, limit)
        /\ out \in Seq(Row)
        /\ Lists(out, Before(CompactByInterval(argument, limit), begin))
        /\ Len(argument) \in Nat
    BY <1>3 DEF CompactionInv
  <2>1. GrowWindow \/ CloseWindow \/ CompactReturn
    BY <1>3 DEF AlgorithmsNext, Runs, ReplaceLast, AppendPoint, DeduplicateReturn,
       DownsampleAll, PickPoint, DownsampleReturn, Judge
  <2>2. CASE GrowWindow
    <3>1. /\ UNCHANGED <<call, argument, limit, points, begin, out, returned>> /\ ~returned
          /\ begin <= Len(argument) /\ end' = end + 1 /\ end <= Len(argument)
          /\ Bucket(argument[end].t, limit) = Bucket(argument[begin].t, limit)
      BY <2>0, <2>2 DEF GrowWindow, Runs, InBucket
    <3>2. \A k \in begin..end' - 1 :
            Bucket(argument[k].t, limit) = Bucket(argument[begin].t, limit)
      <4> SUFFICES ASSUME NEW k \in begin..end' - 1
                   PROVE  Bucket(argument[k].t, limit) = Bucket(argument[begin].t, limit)
        OBVIOUS
      <4>1. k \in begin..end - 1 \/ k = end
        BY <2>0, <3>1
      <4> QED
        BY <2>0, <3>1, <4>1
    <3> QED
      BY <2>0, <3>1, <3>2 DEF CompactionInv
  <2>3. CASE CloseWindow
    <3>1. /\ UNCHANGED <<call, argument, limit, points, returned>> /\ ~returned
          /\ begin <= Len(argument) /\ begin' = end /\ end' = end + 1
          /\ end <= Len(argument) =>
               Bucket(argument[end].t, limit) # Bucket(argument[begin].t, limit)
      BY <2>0, <2>3 DEF CloseWindow, Runs, InBucket
    <3>2. PICK rows, window, b, e :
            /\ rows = CompactByInterval(argument, limit)
            /\ window = SubSeq(argument, begin, end - 1)
            /\ b = begin /\ e = end
      OBVIOUS
    <3>4. PICK part : part = Appended(window)
      OBVIOUS
    <3>5. out' = out \o part
      BY <2>0, <2>3, <3>2, <3>4 DEF CloseWindow, Appended
    <3>6. IsWindow(argument, limit, b, e) /\ b \in Int /\ e \in Int /\ b <= e
      BY <2>0, <3>1, <3>2 DEF IsWindow
    <3>7. part \in Seq(Row) /\ Lists(part, Between(rows, b, e))
      <4>1. PICK list \in Seq(Sample), width \in {limit} : list = argument /\ width = limit
        BY <2>0
      <4>2. /\ IsWindow(list, width, b, e) /\ rows = CompactByInterval(list, width)
            /\ window = SubSeq(list, b, e - 1)
        BY <3>2, <3>6, <4>1
      <4> QED
        BY <3>4, <3>6, <4>2, WindowAppended
    <3>8. DOMAIN rows \subseteq Int
      BY <2>0, <3>2 DEF CompactByInterval
    <3>9. out \o part \in Seq(Row) /\ Lists(out \o part, Before(rows, e))
      <4>1. Lists(out, Before(rows, b)) /\ out \in Seq(Row)
        BY <2>0, <3>2
      <4>2. PICK done \in Seq(Row) : done = out
        BY <4>1
      <4>3. Lists(done \o part, Before(rows, e))
        BY <3>6, <3>7, <3>8, <4>1, <4>2, ListsJoin
      <4> QED
        BY <3>7, <4>2, <4>3
    <3>10. begin' <= Len(argument) => \A k \in begin'..end' - 1 :
             Bucket(argument[k].t, limit) = Bucket(argument[begin'].t, limit)
      <4>1. \A k \in begin'..end' - 1 : k = begin'
        BY <2>0, <3>1
      <4> QED
        BY <4>1
    <3>11. begin' \in 2..Len(argument) =>
             Bucket(argument[begin' - 1].t, limit) # Bucket(argument[begin'].t, limit)
      <4>1. end - 1 \in begin..end - 1
        BY <2>0
      <4>2. Bucket(argument[end - 1].t, limit) = Bucket(argument[begin].t, limit)
        BY <2>0, <3>1, <4>1
      <4> QED
        BY <3>1, <4>2
    <3>12. /\ begin' \in 1..Len(argument) + 1 /\ end' \in Nat /\ begin' < end'
           /\ begin' <= Len(argument) => end' <= Len(argument) + 1
      BY <2>0, <3>1
    <3>13. out' \in Seq(Row) /\ Lists(out', Before(CompactByInterval(argument, limit), begin'))
      BY <3>1, <3>2, <3>5, <3>9
    <3> QED
      BY <2>0, <3>1, <3>10, <3>11, <3>12, <3>13 DEF CompactionInv
  <2>4. CASE CompactReturn
    <3>1. /\ UNCHANGED <<call, argument, limit, points, begin, end, out>>
          /\ begin = Len(argument) + 1
      BY <2>0, <2>4 DEF CompactReturn, Runs
    <3> QED
      BY <2>0, <3>1 DEF CompactionInv
  <2> QED
    BY <2>1, <2>2, <2>3, <2>4
<1> QED
  BY <1>1, <1>2, <1>3

LEMMA CompactionImplies ==
  ASSUME CompactionInv PROVE CompactionLoopIsTheOperator
<1> SUFFICES ASSUME Done("CompactByInterval")
             PROVE  out = Listed(CompactByInterval(argument, limit))
  BY DEF CompactionLoopIsTheOperator
<1>1. PICK rows : rows = CompactByInterval(argument, limit)
  OBVIOUS
<1>2. /\ argument \in Seq(Sample) /\ out \in Seq(Row)
      /\ Lists(out, Before(rows, Len(argument) + 1))
  BY <1>1 DEF CompactionInv, Done
<1>3. DOMAIN rows \subseteq 1..Len(argument) /\ rows = [k \in DOMAIN rows |-> rows[k]]
  BY <1>1, <1>2 DEF CompactByInterval
<1>4. Before(rows, Len(argument) + 1) = rows
  <2>1. Len(argument) \in Nat
    BY <1>2
  <2>2. \A j \in DOMAIN rows : j < Len(argument) + 1
    BY <1>3, <2>1
  <2>3. {j \in DOMAIN rows : j < Len(argument) + 1} = DOMAIN rows
    BY <2>2
  <2> QED
    BY <1>3, <2>3 DEF Before
<1>5. PICK s \in Seq(Row) : s = out
  BY <1>2
<1>6. Lists(s, rows) /\ DOMAIN rows \subseteq Int
  BY <1>2, <1>3, <1>4, <1>5
<1>7. s = Listed(rows)
  BY <1>6, ListsIsListed
<1> QED
  BY <1>1, <1>5, <1>7
-----------------------------------------------------------------------------
(* Downsample.  floor(i*last/n) for a last of n at least.                  *)
LEMMA Quotient ==
  ASSUME NEW a \in Nat, NEW n \in Nat \ {0}
  PROVE  /\ a \div n \in Nat
         /\ n * (a \div n) <= a /\ a < n * (a \div n) + n
OBVIOUS

LEMMA QuotientUnique ==
  ASSUME NEW a \in Nat, NEW n \in Nat \ {0}, NEW q \in Int, n * q <= a, a < n * q + n
  PROVE  a \div n = q
OBVIOUS

(* Neighbouring points are at a distance of last \div n, or one more.      *)
LEMMA Spacing ==
  ASSUME NEW last \in Nat, NEW n \in Nat \ {0}, NEW i \in Nat
  PROVE  LET step == ((i + 1) * last) \div n - (i * last) \div n
         IN  step = last \div n \/ step = last \div n + 1
<1>1. PICK a \in Nat : a = i * last
  OBVIOUS
<1>2. (i + 1) * last = a + last
  BY <1>1
<1>3. PICK p \in Nat, q \in Nat, r \in Nat :
        p = a \div n /\ q = last \div n /\ r = (a + last) \div n
  <2>1. a \div n \in Nat /\ last \div n \in Nat
    BY Quotient
  <2>2. PICK b \in Nat : b = a + last
    OBVIOUS
  <2>3. b \div n \in Nat
    BY Quotient
  <2> QED
    BY <2>1, <2>2, <2>3
<1>4. PICK np \in Int, nq \in Int, nr \in Int : np = n * p /\ nq = n * q /\ nr = n * r
  OBVIOUS
<1>5. /\ np <= a /\ a < np + n /\ nq <= last /\ last < nq + n
      /\ nr <= a + last /\ a + last < nr + n
  BY <1>3, <1>4, Quotient
<1>6. /\ n * (p + q) = np + nq /\ n * (p + q + 1) = np + nq + n
  BY <1>4
<1>7. r = p + q \/ r = p + q + 1
  <2>1. PICK b \in Nat, m \in Int : b = a + last /\ m = np + nq
    OBVIOUS
  <2>2. CASE b < m + n
    <3>1. PICK s \in Int : s = p + q
      OBVIOUS
    <3>2. n * s <= b /\ b < n * s + n
      BY <1>5, <1>6, <2>1, <2>2, <3>1
    <3>3. b \div n = s
      BY <3>2, QuotientUnique
    <3> QED
      BY <1>3, <2>1, <3>1, <3>3
  <2>3. CASE ~(b < m + n)
    <3>1. PICK s \in Int : s = p + q + 1
      OBVIOUS
    <3>2. n * s = m + n
      BY <1>6, <2>1, <3>1
    <3>3. n * s <= b /\ b < n * s + n
      BY <1>5, <2>1, <2>3, <3>2
    <3>4. b \div n = s
      BY <3>3, QuotientUnique
    <3> QED
      BY <1>3, <2>1, <3>1, <3>4
  <2> QED
    BY <2>2, <2>3
<1>8. ((i + 1) * last) \div n = r /\ (i * last) \div n = p
  BY <1>1, <1>2, <1>3
<1> QED
  BY <1>3, <1>7, <1>8

LEMMA Endpoints ==
  ASSUME NEW last \in Nat, NEW n \in Nat \ {0}
  PROVE  (0 * last) \div n = 0 /\ (n * last) \div n = last
<1>1. 0 * last = 0 /\ n * 0 = 0
  OBVIOUS
<1>2. PICK a \in Nat : a = n * last
  OBVIOUS
<1> QED
  BY <1>1, <1>2, QuotientUnique

LEMMA QuotientBounded ==
  ASSUME NEW last \in Nat, NEW n \in Nat \ {0}, NEW i \in 0..n
  PROVE  (i * last) \div n \in 0..last
<1>1. PICK a \in Nat, b \in Nat : a = i * last /\ b = n * last
  OBVIOUS
<1>2. a <= b
  <2>1. b = a + (n - i) * last /\ n - i \in Nat
    BY <1>1
  <2>2. (n - i) * last \in Nat
    BY <2>1
  <2> QED
    BY <2>1, <2>2
<1>3. PICK q \in Nat : q = a \div n
  BY Quotient
<1>4. n * q <= n * last
  BY <1>1, <1>2, <1>3, Quotient
<1>5. q <= last
  BY <1>4
<1> QED
  BY <1>1, <1>3, <1>5

LEMMA SourceIndices ==
  ASSUME points \in Seq(Sample), limit \in Nat \ {1}, ~AllFit
  PROVE  /\ Len(points) \in Nat /\ limit \in Nat /\ limit >= 2 /\ Len(points) > limit
         /\ SourceIndex(0) = 0 /\ SourceIndex(limit - 1) = Len(points) - 1
         /\ \A i \in 0..limit - 1 :
              SourceIndex(i) \in Nat /\ SourceIndex(i) + 1 \in 1..Len(points)
         /\ \E q \in Nat \ {0} : \A i \in 0..limit - 2 :
              LET step == SourceIndex(i + 1) - SourceIndex(i)
              IN  step = q \/ step = q + 1
<1>1. Len(points) \in Nat /\ limit \in Nat /\ limit >= 2 /\ Len(points) > limit
  BY DEF AllFit
<1>2. PICK last \in Nat, n \in Nat \ {0} :
        last = Len(points) - 1 /\ n = limit - 1 /\ last >= n
  BY <1>1
<1>3. \A i \in Int : SourceIndex(i) = (i * last) \div n
  BY <1>2 DEF SourceIndex
<1>4. SourceIndex(0) = 0 /\ SourceIndex(n) = last
  BY <1>3, Endpoints
<1>5. ASSUME NEW i \in 0..n PROVE SourceIndex(i) \in 0..last
  <2>1. (i * last) \div n \in 0..last
    BY QuotientBounded
  <2>2. i \in Int
    OBVIOUS
  <2>3. SourceIndex(i) = (i * last) \div n
    BY <1>3, <2>2
  <2> QED
    BY <2>1, <2>3, Zenon
<1>6. last \div n \in Nat \ {0}
  <2>1. PICK q \in Nat : q = last \div n
    BY Quotient
  <2>2. last < n * q + n
    BY <2>1, Quotient
  <2>3. q # 0
    BY <1>2, <2>2
  <2> QED
    BY <2>1, <2>3
<1>7. \A i \in 0..n - 1 :
        LET step == SourceIndex(i + 1) - SourceIndex(i)
        IN  step = last \div n \/ step = last \div n + 1
  <2> SUFFICES ASSUME NEW i \in 0..n - 1
               PROVE  LET step == SourceIndex(i + 1) - SourceIndex(i)
                      IN  step = last \div n \/ step = last \div n + 1
    OBVIOUS
  <2>1. SourceIndex(i + 1) = ((i + 1) * last) \div n /\ SourceIndex(i) = (i * last) \div n
    BY <1>3
  <2>2. PICK k \in Nat : k = i
    OBVIOUS
  <2>3. LET step == ((k + 1) * last) \div n - (k * last) \div n
        IN  step = last \div n \/ step = last \div n + 1
    BY Spacing
  <2> QED
    BY <2>1, <2>2, <2>3
<1>8. PICK q \in Nat \ {0} : q = last \div n
  BY <1>6
<1>9. \A i \in 0..n : SourceIndex(i) \in Nat /\ SourceIndex(i) + 1 \in 1..Len(points)
  BY <1>2, <1>5
<1>10. \A i \in 0..limit - 2 :
         LET step == SourceIndex(i + 1) - SourceIndex(i)
         IN  step = q \/ step = q + 1
  BY <1>2, <1>7, <1>8
<1> QED
  BY <1>1, <1>2, <1>4, <1>9, <1>10
LEMMA DownsampleStep ==
  ASSUME DownsampleInv, [AlgorithmsNext]_algorithmVars
  PROVE  DownsampleInv'
<1>1. CASE call # "Downsample"
  <2>1. call' = call
    BY DEF AlgorithmsNext, algorithmVars, Runs, GrowWindow, CloseWindow, CompactReturn,
       ReplaceLast, AppendPoint, DeduplicateReturn, DownsampleAll, PickPoint,
       DownsampleReturn, Judge
  <2> QED
    BY <1>1, <2>1 DEF DownsampleInv
<1>2. CASE UNCHANGED algorithmVars
  BY <1>2 DEF DownsampleInv, algorithmVars, AllFit, SourceIndex
<1>3. CASE call = "Downsample" /\ AlgorithmsNext
  <2>0. /\ argument \in Seq(Sample) /\ points = argument /\ limit \in Nat \ {1}
        /\ \A i, j \in DOMAIN argument : argument[i] = argument[j] => i = j
        /\ begin \in 0..limit
        /\ ~AllFit => /\ out \in Seq(Sample) /\ Len(out) = begin
                      /\ \A i \in 1..begin : out[i] = argument[SourceIndex(i - 1) + 1]
    BY <1>3 DEF DownsampleInv
  <2>1. DownsampleAll \/ PickPoint \/ DownsampleReturn
    BY <1>3 DEF AlgorithmsNext, Runs, ReplaceLast, AppendPoint, DeduplicateReturn,
       GrowWindow, CloseWindow, CompactReturn, Judge
  <2>2. /\ UNCHANGED <<call, argument, limit, points>> /\ ~returned
        /\ AllFit' = AllFit /\ \A i \in Int : SourceIndex(i)' = SourceIndex(i)
    BY <2>1 DEF DownsampleAll, PickPoint, DownsampleReturn, Runs, AllFit, SourceIndex
  <2>3. CASE DownsampleAll
    BY <1>3, <2>0, <2>2, <2>3 DEF DownsampleInv, DownsampleAll
  <2>4. CASE PickPoint
    <3>1. /\ ~AllFit /\ begin < limit /\ begin' = begin + 1 /\ returned' = returned
          /\ out' = Append(out, argument[SourceIndex(begin) + 1])
      BY <2>0, <2>4 DEF PickPoint
    <3>2. SourceIndex(begin) + 1 \in 1..Len(argument)
      BY <2>0, <3>1, SourceIndices
    <3>3. PICK x \in Sample : x = argument[SourceIndex(begin) + 1]
      BY <2>0, <3>2
    <3>4. /\ out' \in Seq(Sample) /\ Len(out') = begin' /\ out'[begin'] = x
          /\ \A i \in 1..begin : out'[i] = out[i]
      BY <2>0, <3>1, <3>3
    <3>5. ASSUME NEW i \in 1..begin'
          PROVE  out'[i] = argument[SourceIndex(i - 1)' + 1]
      <4>1. i - 1 \in Int /\ (i \in 1..begin \/ i = begin + 1)
        BY <2>0, <3>1
      <4>2. SourceIndex(i - 1)' = SourceIndex(i - 1)
        BY <2>2, <4>1
      <4>3. CASE i \in 1..begin
        BY <2>0, <3>1, <3>4, <4>2, <4>3
      <4>4. CASE i = begin + 1
        <5>1. i - 1 = begin
          BY <2>0, <4>4
        <5> QED
          BY <3>1, <3>3, <3>4, <4>2, <4>4, <5>1
      <4> QED
        BY <4>1, <4>3, <4>4
    <3>6. begin' \in 0..limit'
      BY <2>0, <2>2, <3>1
    <3> QED
      BY <1>3, <2>0, <2>2, <3>1, <3>4, <3>5, <3>6 DEF DownsampleInv
  <2>5. CASE DownsampleReturn
    <3>1. ~AllFit /\ begin = limit /\ begin' = begin /\ out' = out
      BY <2>5 DEF DownsampleReturn
    <3>2. \A i \in 1..begin : SourceIndex(i - 1)' = SourceIndex(i - 1)
      BY <2>0, <2>2
    <3> QED
      BY <1>3, <2>0, <2>2, <3>1, <3>2 DEF DownsampleInv
  <2> QED
    BY <2>1, <2>3, <2>4, <2>5
<1> QED
  BY <1>1, <1>2, <1>3

(* Where the points of the result come from, and the steps between them.   *)
LEMMA DownsampleImplies ==
  ASSUME DownsampleInv PROVE DownsampleSpansTheRange
<1> DEFINE at(i) == CHOOSE k \in DOMAIN argument : argument[k] = out[i]
           step(i) == at(i + 1) - at(i)
           inner == DOMAIN out \ {Len(out)}
<1> SUFFICES ASSUME Done("Downsample")
             PROVE  /\ Len(out) = IF AllFit THEN Len(argument) ELSE limit
                    /\ out # <<>> => out[1] = argument[1]
                                     /\ out[Len(out)] = argument[Len(argument)]
                    /\ \A i, j \in inner : step(i) >= 1 /\ Distance(step(i), step(j)) <= 1
  BY DEF DownsampleSpansTheRange
<1>1. /\ argument \in Seq(Sample) /\ points = argument /\ limit \in Nat \ {1}
      /\ \A i, j \in DOMAIN argument : argument[i] = argument[j] => i = j
      /\ AllFit => out = argument
      /\ ~AllFit => /\ out \in Seq(Sample) /\ Len(out) = limit
                    /\ \A i \in 1..limit : out[i] = argument[SourceIndex(i - 1) + 1]
  BY DEF DownsampleInv, Done
<1>2. ASSUME NEW i \in DOMAIN out, NEW k \in DOMAIN argument, out[i] = argument[k]
      PROVE  at(i) = k
  <2>1. at(i) \in DOMAIN argument /\ argument[at(i)] = out[i]
    BY <1>2
  <2> QED
    BY <1>1, <1>2, <2>1
<1> HIDE DEF at
<1>3. CASE AllFit
  <2>1. \A i \in DOMAIN out : at(i) = i
    BY <1>1, <1>2, <1>3
  <2>2. \A i \in inner : i \in DOMAIN out /\ i + 1 \in DOMAIN out /\ i \in Int
    BY <1>1, <1>3
  <2>3. \A i \in inner : step(i) = 1
    BY <2>1, <2>2
  <2> QED
    BY <1>1, <1>3, <2>3 DEF Distance
<1>4. CASE ~AllFit
  <2>1. /\ Len(argument) \in Nat /\ limit \in Nat /\ limit >= 2 /\ Len(argument) > limit
        /\ SourceIndex(0) = 0 /\ SourceIndex(limit - 1) = Len(argument) - 1
        /\ \A i \in 0..limit - 1 :
             SourceIndex(i) \in Nat /\ SourceIndex(i) + 1 \in 1..Len(argument)
    BY <1>1, <1>4, SourceIndices
  <2>2. PICK q \in Nat \ {0} : \A i \in 0..limit - 2 :
          LET jump == SourceIndex(i + 1) - SourceIndex(i) IN jump = q \/ jump = q + 1
    BY <1>1, <1>4, SourceIndices
  <2>3. /\ out \in Seq(Sample) /\ Len(out) = limit /\ DOMAIN out = 1..limit
        /\ DOMAIN argument = 1..Len(argument)
        /\ \A i \in 1..limit : out[i] = argument[SourceIndex(i - 1) + 1]
    BY <1>1, <1>4
  <2>4. ASSUME NEW i \in 1..limit
        PROVE  at(i) = SourceIndex(i - 1) + 1 /\ SourceIndex(i - 1) \in Int
    <3>1. i - 1 \in 0..limit - 1
      BY <2>1
    <3>2. SourceIndex(i - 1) + 1 \in DOMAIN argument
      BY <2>1, <2>3, <3>1
    <3>3. at(i) = SourceIndex(i - 1) + 1
      BY <1>2, <2>3, <3>2
    <3> QED
      BY <2>1, <3>1, <3>3
  <2>5. out[1] = argument[1] /\ out[Len(out)] = argument[Len(argument)]
    <3>1. 1 \in 1..limit /\ limit \in 1..limit /\ 1 - 1 = 0
      BY <2>1
    <3>2. out[1] = argument[0 + 1]
      BY <2>1, <2>3, <3>1
    <3>3. out[limit] = argument[Len(argument) - 1 + 1]
      BY <2>1, <2>3, <3>1
    <3> QED
      BY <2>1, <2>3, <3>2, <3>3
  <2>6. ASSUME NEW i \in inner PROVE step(i) = q \/ step(i) = q + 1
    <3>0. i \in 1..limit - 1
      BY <2>1, <2>3
    <3>1. i \in 1..limit /\ i + 1 \in 1..limit /\ i - 1 \in 0..limit - 2
          /\ (i - 1) + 1 = i /\ (i + 1) - 1 = i
      BY <2>1, <3>0
    <3>2. PICK a \in Int, b \in Int : a = SourceIndex(i - 1) /\ b = SourceIndex(i)
      BY <2>4, <3>1
    <3>3. b - a = q \/ b - a = q + 1
      BY <2>2, <3>1, <3>2
    <3>4. at(i) = a + 1 /\ at(i + 1) = b + 1
      BY <2>4, <3>1, <3>2
    <3> QED
      BY <3>2, <3>3, <3>4
  <2>7. \A i, j \in inner : step(i) >= 1 /\ Distance(step(i), step(j)) <= 1
    <3> SUFFICES ASSUME NEW i \in inner, NEW j \in inner
                 PROVE  step(i) >= 1 /\ Distance(step(i), step(j)) <= 1
      OBVIOUS
    <3>1. (step(i) = q \/ step(i) = q + 1) /\ (step(j) = q \/ step(j) = q + 1)
      BY <2>6
    <3> HIDE DEF step
    <3> QED
      BY <3>1 DEF Distance
  <2> QED
    BY <1>4, <2>3, <2>5, <2>7
<1> QED
  BY <1>3, <1>4
-----------------------------------------------------------------------------
(* stableWindow.                                                           *)
LEMMA DistanceNat ==
  ASSUME NEW a \in Int, NEW b \in Int
  PROVE  Distance(a, b) \in Nat /\ Distance(a, a) = 0
BY DEF Distance

(* Two numbers close to a third are not far apart.                         *)
LEMMA Triangle ==
  ASSUME NEW a \in Int, NEW b \in Int, NEW c \in Int, NEW m \in Int, NEW w \in Nat,
         w * Distance(a, b) <= m, w * Distance(a, c) <= m
  PROVE  w * Distance(b, c) <= 2 * m
<1>0. Distance(b, c) <= Distance(a, b) + Distance(a, c)
  BY DEF Distance
<1>1. PICK x \in Nat, y \in Nat, z \in Nat :
        x = Distance(a, b) /\ y = Distance(a, c) /\ z = Distance(b, c) /\ z <= x + y
  BY <1>0, DistanceNat
<1>2. w * z <= w * (x + y) /\ w * (x + y) = w * x + w * y
  <2>1. PICK d \in Nat : d = x + y - z /\ x + y = z + d
    BY <1>1
  <2>2. w * (z + d) = w * z + w * d /\ w * d \in Nat /\ w * z \in Nat
    OBVIOUS
  <2> QED
    BY <2>1, <2>2
<1> QED
  BY <1>1, <1>2

(* A rate that is not a change differs by at most the slack of the peak.   *)
LEMMA RateWithinSlack ==
  ASSUME NEW a \in Nat, NEW b \in Nat, NEW peak \in Nat, a <= peak, b <= peak,
         ~RateChanged(a, b)
  PROVE  100 * Distance(a, b) <= Larger(100 * RateFloor, RatePercent * peak)
BY DEF RateChanged, Distance, Larger, RateFloor, RatePercent

(* A reading without a change has the same parts, each within its limit.   *)
Near(base, point) ==
  /\ \A m \in DOMAIN OptionalLimit :
       /\ Len(base.optional[m]) = Len(point.optional[m])
       /\ base.optional[m] # <<>> =>
            Distance(base.optional[m][1], point.optional[m][1]) <= OptionalLimit[m]
  /\ \A m \in DOMAIN PlainLimit : Distance(base.plain[m], point.plain[m]) <= PlainLimit[m]
  /\ Len(base.cores) = Len(point.cores)
  /\ \A i \in DOMAIN base.cores : Distance(base.cores[i], point.cores[i]) <= CoreLimit
  /\ DOMAIN base.network = DOMAIN point.network
  /\ \A name \in DOMAIN base.network :
       /\ ~RateChanged(base.network[name].rx, point.network[name].rx)
       /\ ~RateChanged(base.network[name].tx, point.network[name].tx)

LEMMA LimitsNat ==
  /\ \A m \in DOMAIN OptionalLimit : OptionalLimit[m] \in Nat
  /\ \A m \in DOMAIN PlainLimit : PlainLimit[m] \in Nat
  /\ CoreLimit \in Nat
BY DEF OptionalLimit, PlainLimit, CoreLimit

LEMMA OneValue ==
  ASSUME NEW a \in Seq(Int), Len(a) <= 1, a # <<>>
  PROVE  Len(a) = 1 /\ a[1] \in Int
<1>1. Len(a) \in Nat /\ Len(a) # 0
  OBVIOUS
<1>2. PICK n \in Nat : n = Len(a) /\ n # 0 /\ n <= 1
  BY <1>1
<1>3. n = 1
  BY <1>2
<1> QED
  BY <1>2, <1>3

LEMMA UnchangedIsNear ==
  ASSUME NEW base, NEW point, IsReading(base), IsReading(point), ~Changed(base, point)
  PROVE  Near(base, point)
<1>1. ASSUME NEW m \in DOMAIN OptionalLimit
      PROVE  /\ Len(base.optional[m]) = Len(point.optional[m])
             /\ base.optional[m] # <<>> =>
                  Distance(base.optional[m][1], point.optional[m][1]) <= OptionalLimit[m]
  <2>1. PICK a \in Seq(Int), b \in Seq(Int), limitOfM \in Nat :
          /\ a = base.optional[m] /\ b = point.optional[m] /\ limitOfM = OptionalLimit[m]
          /\ Len(a) <= 1 /\ Len(b) <= 1
    BY LimitsNat DEF IsReading
  <2>2. ~PointerChanged(a, b, limitOfM)
    BY <2>1 DEF Changed
  <2>3. CASE a = <<>> \/ b = <<>>
    BY <2>1, <2>2, <2>3 DEF PointerChanged
  <2>4. CASE a # <<>> /\ b # <<>>
    <3>1. Len(a) = 1 /\ Len(b) = 1 /\ a[1] \in Int /\ b[1] \in Int
      BY <2>1, <2>4, OneValue
    <3>2. ~(Distance(a[1], b[1]) > limitOfM)
      BY <2>2, <2>4 DEF PointerChanged
    <3> QED
      BY <2>1, <3>1, <3>2 DEF Distance
  <2> QED
    BY <2>3, <2>4
<1>2. \A m \in DOMAIN PlainLimit : Distance(base.plain[m], point.plain[m]) <= PlainLimit[m]
  <2> SUFFICES ASSUME NEW m \in DOMAIN PlainLimit
               PROVE  Distance(base.plain[m], point.plain[m]) <= PlainLimit[m]
    OBVIOUS
  <2>1. base.plain[m] \in Int /\ point.plain[m] \in Int /\ PlainLimit[m] \in Int
    BY LimitsNat DEF IsReading
  <2>2. ~(Distance(base.plain[m], point.plain[m]) > PlainLimit[m])
    BY DEF Changed
  <2> QED
    BY <2>1, <2>2 DEF Distance
<1>3. /\ Len(base.cores) = Len(point.cores)
      /\ \A i \in DOMAIN base.cores : Distance(base.cores[i], point.cores[i]) <= CoreLimit
  <2>1. PICK a \in Seq(Int), b \in Seq(Int) : a = base.cores /\ b = point.cores
    BY DEF IsReading
  <2>2. ~CoresChanged(a, b)
    BY <2>1 DEF Changed
  <2>3. Len(a) = Len(b)
    BY <2>2 DEF CoresChanged
  <2>4. ASSUME NEW i \in DOMAIN a PROVE Distance(a[i], b[i]) <= CoreLimit
    <3>1. a[i] \in Int /\ b[i] \in Int
      BY <2>3
    <3>2. ~(Distance(a[i], b[i]) > CoreLimit)
      BY <2>2 DEF CoresChanged
    <3> QED
      BY <3>1, <3>2, LimitsNat DEF Distance
  <2> QED
    BY <2>1, <2>3, <2>4
<1>4. /\ DOMAIN base.network = DOMAIN point.network
      /\ \A name \in DOMAIN base.network :
           /\ ~RateChanged(base.network[name].rx, point.network[name].rx)
           /\ ~RateChanged(base.network[name].tx, point.network[name].tx)
  <2>1. PICK a, b : a = base.network /\ b = point.network
    OBVIOUS
  <2>2. ~NetworkRatesChanged(a, b) /\ IsFiniteSet(DOMAIN a) /\ IsFiniteSet(DOMAIN b)
    BY <2>1 DEF Changed, IsReading
  <2>3. /\ Cardinality(DOMAIN a) = Cardinality(DOMAIN b)
        /\ \A name \in DOMAIN a : /\ name \in DOMAIN b
                                  /\ ~RateChanged(a[name].rx, b[name].rx)
                                  /\ ~RateChanged(a[name].tx, b[name].tx)
    BY <2>2 DEF NetworkRatesChanged
  <2>4. DOMAIN a = DOMAIN b
    <3>1. PICK S, T : S = DOMAIN b /\ T = DOMAIN a
      OBVIOUS
    <3>2. IsFiniteSet(S) /\ T \in SUBSET S /\ Cardinality(S) = Cardinality(T)
      BY <2>2, <2>3, <3>1
    <3>3. S = T
      BY <3>2, FS_Subset
    <3> QED
      BY <3>1, <3>3
  <2> QED
    BY <2>1, <2>3, <2>4
<1> QED
  BY <1>1, <1>2, <1>3, <1>4 DEF Near

LEMMA ReadingIsNearItself ==
  ASSUME NEW base, IsReading(base)
  PROVE  Near(base, base)
<1>1. \A a \in Nat : ~RateChanged(a, a)
  BY DEF RateChanged, Distance, RateFloor
<1>2. \A m \in DOMAIN OptionalLimit :
        base.optional[m] # <<>> =>
          Distance(base.optional[m][1], base.optional[m][1]) <= OptionalLimit[m]
  <2> SUFFICES ASSUME NEW m \in DOMAIN OptionalLimit, base.optional[m] # <<>>
               PROVE  Distance(base.optional[m][1], base.optional[m][1]) <= OptionalLimit[m]
    OBVIOUS
  <2>1. PICK a \in Seq(Int) : a = base.optional[m] /\ a # <<>>
    BY DEF IsReading
  <2>2. a[1] \in Int /\ OptionalLimit[m] \in Nat
    BY <2>1, LimitsNat
  <2>3. Distance(a[1], a[1]) = 0
    BY <2>2, DistanceNat
  <2> QED
    BY <2>1, <2>2, <2>3
<1>3. ASSUME NEW m \in DOMAIN PlainLimit
      PROVE  Distance(base.plain[m], base.plain[m]) <= PlainLimit[m]
  <2>1. base.plain[m] \in Int /\ PlainLimit[m] \in Nat
    BY LimitsNat DEF IsReading
  <2>2. Distance(base.plain[m], base.plain[m]) = 0
    BY <2>1, DistanceNat
  <2> QED
    BY <2>1, <2>2
<1>4. ASSUME NEW i \in DOMAIN base.cores
      PROVE  Distance(base.cores[i], base.cores[i]) <= CoreLimit
  <2>1. base.cores[i] \in Int /\ CoreLimit \in Nat
    BY LimitsNat DEF IsReading
  <2>2. Distance(base.cores[i], base.cores[i]) = 0
    BY <2>1, DistanceNat
  <2> QED
    BY <2>1, <2>2
<1> QED
  BY <1>1, <1>2, <1>3, <1>4 DEF Near, IsReading

(* Readings close to the first one of a window speak for each other.       *)
LEMMA NearSpeaks ==
  ASSUME NEW window, NEW k \in DOMAIN window, IsFiniteSet(DOMAIN window),
         \A i \in DOMAIN window : IsReading(window[i]) /\ Near(window[k], window[i]),
         NEW i \in DOMAIN window, NEW j \in DOMAIN window
  PROVE  SpeaksFor(window, window[i], window[j])
<1>1. PICK base, a, b : base = window[k] /\ a = window[i] /\ b = window[j]
  OBVIOUS
<1>2. /\ IsReading(base) /\ IsReading(a) /\ IsReading(b)
      /\ Near(base, a) /\ Near(base, b)
  BY <1>1
<1>3. ASSUME NEW x \in Int, NEW y \in Int, NEW z \in Int, NEW m \in Int,
             Distance(x, y) <= m, Distance(x, z) <= m
      PROVE  Distance(y, z) <= 2 * m
  BY <1>3 DEF Distance
<1>4. ASSUME NEW m \in DOMAIN OptionalLimit
      PROVE  /\ Len(a.optional[m]) = Len(b.optional[m])
             /\ a.optional[m] # <<>> =>
                  Distance(a.optional[m][1], b.optional[m][1]) <= 2 * OptionalLimit[m]
  <2>0. /\ base.optional[m] \in Seq(Int) /\ a.optional[m] \in Seq(Int)
        /\ b.optional[m] \in Seq(Int) /\ OptionalLimit[m] \in Int
    BY <1>2, LimitsNat DEF IsReading
  <2>1. PICK x \in Seq(Int), y \in Seq(Int), z \in Seq(Int), most \in Int :
          /\ x = base.optional[m] /\ y = a.optional[m] /\ z = b.optional[m]
          /\ most = OptionalLimit[m]
    BY <2>0
  <2>2. /\ Len(x) = Len(y) /\ Len(x) = Len(z)
        /\ x # <<>> => Distance(x[1], y[1]) <= most /\ Distance(x[1], z[1]) <= most
    BY <1>2, <2>1 DEF Near
  <2>3. ASSUME y # <<>> PROVE Distance(y[1], z[1]) <= 2 * most
    <3>1. Len(y) # 0
      BY <2>3
    <3>2. Len(x) # 0 /\ Len(z) # 0 /\ x # <<>>
      BY <2>2, <3>1
    <3>3. x[1] \in Int /\ y[1] \in Int /\ z[1] \in Int
      BY <3>1, <3>2
    <3> QED
      BY <1>3, <2>2, <3>2, <3>3
  <2> QED
    BY <2>1, <2>2, <2>3
<1>5. ASSUME NEW m \in DOMAIN PlainLimit
      PROVE  Distance(a.plain[m], b.plain[m]) <= 2 * PlainLimit[m]
  <2>1. /\ base.plain[m] \in Int /\ a.plain[m] \in Int /\ b.plain[m] \in Int
        /\ PlainLimit[m] \in Int
    BY <1>2, LimitsNat DEF IsReading
  <2>2. /\ Distance(base.plain[m], a.plain[m]) <= PlainLimit[m]
        /\ Distance(base.plain[m], b.plain[m]) <= PlainLimit[m]
    BY <1>2 DEF Near
  <2> QED
    BY <1>3, <2>1, <2>2
<1>6. Len(a.cores) = Len(b.cores)
  BY <1>2 DEF Near
<1>7. ASSUME NEW c \in DOMAIN a.cores
      PROVE  Distance(a.cores[c], b.cores[c]) <= 2 * CoreLimit
  <2>1. PICK x \in Seq(Int), y \in Seq(Int), z \in Seq(Int) :
          x = base.cores /\ y = a.cores /\ z = b.cores
    BY <1>2 DEF IsReading
  <2>2. /\ Len(x) = Len(y) /\ Len(x) = Len(z)
        /\ \A n \in DOMAIN x : /\ Distance(x[n], y[n]) <= CoreLimit
                               /\ Distance(x[n], z[n]) <= CoreLimit
    BY <1>2, <2>1 DEF Near
  <2>3. c \in 1..Len(y) /\ DOMAIN x = 1..Len(y) /\ DOMAIN z = 1..Len(y)
    <3>1. c \in DOMAIN y
      BY <2>1
    <3>2. DOMAIN x = 1..Len(x) /\ DOMAIN y = 1..Len(y) /\ DOMAIN z = 1..Len(z)
      OBVIOUS
    <3> QED
      BY <2>2, <3>1, <3>2
  <2>4. x[c] \in Int /\ y[c] \in Int /\ z[c] \in Int
    BY <2>3
  <2>5. PICK most \in Int : most = CoreLimit
    BY LimitsNat
  <2>6. Distance(x[c], y[c]) <= most /\ Distance(x[c], z[c]) <= most
    BY <2>2, <2>3, <2>5
  <2>7. Distance(y[c], z[c]) <= 2 * CoreLimit
    BY <1>3, <2>4, <2>5, <2>6
  <2> QED
    BY <2>1, <2>7
<1>8. DOMAIN a.network = DOMAIN b.network
  BY <1>2 DEF Near
<1>9. ASSUME NEW name \in DOMAIN a.network
      PROVE  /\ 100 * Distance(a.network[name].rx, b.network[name].rx)
                  <= 2 * RateSlack(window, name)
             /\ 100 * Distance(a.network[name].tx, b.network[name].tx)
                  <= 2 * RateSlack(window, name)
  <2> DEFINE rx(n) == window[n].network[name].rx
             tx(n) == window[n].network[name].tx
             rates == {rx(n) : n \in DOMAIN window} \cup {tx(n) : n \in DOMAIN window}
             peak == CHOOSE r \in rates : \A s \in rates : s <= r
  <2>1. ASSUME NEW n \in DOMAIN window
        PROVE  /\ rx(n) \in Nat /\ tx(n) \in Nat
               /\ ~RateChanged(rx(k), rx(n)) /\ ~RateChanged(tx(k), tx(n))
    <3>1. name \in DOMAIN base.network /\ name \in DOMAIN window[n].network
      BY <1>1, <1>2, <1>9 DEF Near
    <3> QED
      BY <1>1, <3>1 DEF Near, IsReading
  <2>2. IsFiniteSet(rates) /\ rates \subseteq Nat /\ rx(k) \in rates
    <3>1. PICK f, g, S, T, D :
            /\ f = [n \in DOMAIN window |-> rx(n)] /\ S = {rx(n) : n \in DOMAIN window}
            /\ g = [n \in DOMAIN window |-> tx(n)] /\ T = {tx(n) : n \in DOMAIN window}
            /\ D = DOMAIN window
      OBVIOUS
    <3>2. /\ f \in [D -> Nat] /\ g \in [D -> Nat] /\ IsFiniteSet(D)
          /\ S = {f[n] : n \in D} /\ T = {g[n] : n \in D}
      BY <2>1, <3>1
    <3>3. IsFiniteSet(S) /\ IsFiniteSet(T)
      <4>1. f \in Surjection(D, S) /\ g \in Surjection(D, T)
        BY <3>2 DEF Surjection
      <4> QED
        BY <3>2, <4>1, FS_Surjection
    <3>4. IsFiniteSet(S \cup T)
      BY <3>3, FS_Union
    <3>5. rates = S \cup T
      BY <3>1
    <3> QED
      BY <2>1, <3>4, <3>5
  <2>3. peak \in rates /\ \A s \in rates : s <= peak
    <3>1. PICK all : all = rates
      OBVIOUS
    <3>2. all # {} /\ all \subseteq Int /\ IsFiniteSet(all)
      <4> HIDE DEF rates
      <4> QED
        BY <2>2, <3>1
    <3>3. \E r \in all : \A s \in all : s <= r
      BY <3>2, FiniteMaximum
    <3> QED
      BY <3>1, <3>3
  <2>4. RateSlack(window, name) = Larger(100 * RateFloor, RatePercent * peak)
    BY DEF RateSlack
  <2>5. PICK top \in Nat, slack \in Nat :
          /\ top = peak /\ slack = Larger(100 * RateFloor, RatePercent * top)
    <3>1. peak \in Nat
      BY <2>2, <2>3
    <3> HIDE DEF peak
    <3> QED
      BY <3>1 DEF Larger, RateFloor, RatePercent
  <2>6. \A n \in DOMAIN window : rx(n) <= top /\ tx(n) <= top
    BY <2>3, <2>5
  <2> HIDE DEF rates, peak, rx, tx
  <2>7. ASSUME NEW n \in DOMAIN window
        PROVE  /\ 100 * Distance(rx(k), rx(n)) <= slack
               /\ 100 * Distance(tx(k), tx(n)) <= slack
    BY <2>1, <2>5, <2>6, RateWithinSlack
  <2>8. /\ 100 * Distance(rx(i), rx(j)) <= 2 * slack
        /\ 100 * Distance(tx(i), tx(j)) <= 2 * slack
    <3>1. /\ rx(k) \in Int /\ rx(i) \in Int /\ rx(j) \in Int
          /\ tx(k) \in Int /\ tx(i) \in Int /\ tx(j) \in Int
      BY <2>1
    <3> QED
      BY <2>7, <3>1, Triangle
  <2> QED
    BY <1>1, <2>4, <2>5, <2>8 DEF rx, tx
<1>10. SpeaksFor(window, a, b)
  BY <1>4, <1>5, <1>6, <1>7, <1>8, <1>9 DEF SpeaksFor
<1> QED
  BY <1>1, <1>10

LEMMA JudgeStep ==
  ASSUME JudgeInv, [AlgorithmsNext]_algorithmVars
  PROVE  JudgeInv'
<1>1. call' = call
  BY DEF AlgorithmsNext, algorithmVars, Runs, GrowWindow, CloseWindow, CompactReturn,
     ReplaceLast, AppendPoint, DeduplicateReturn, DownsampleAll, PickPoint,
     DownsampleReturn, Judge
<1>2. CASE UNCHANGED algorithmVars
  BY <1>2 DEF JudgeInv, algorithmVars
<1>3. CASE call = "stableWindow" /\ AlgorithmsNext
  <2>1. Judge
    BY <1>3 DEF AlgorithmsNext, Runs, ReplaceLast, AppendPoint, DeduplicateReturn,
       GrowWindow, CloseWindow, CompactReturn, DownsampleAll, PickPoint, DownsampleReturn
  <2> QED
    BY <1>3, <2>1 DEF Judge, Runs, JudgeInv
<1> QED
  BY <1>1, <1>2, <1>3 DEF JudgeInv

LEMMA JudgeImplies ==
  ASSUME JudgeInv PROVE RepresentativeSpeaksForWindow
<1> SUFFICES ASSUME Done("stableWindow"), out = <<TRUE>>,
                    NEW i \in DOMAIN argument, NEW j \in DOMAIN argument
             PROVE  SpeaksFor(argument, argument[i], argument[j])
  BY DEF RepresentativeSpeaksForWindow
<1>1. PICK w \in Windows : w = argument /\ out = <<StableWindow(w)>>
  BY DEF JudgeInv, Done
<1>2. /\ Len(w) \in Nat /\ DOMAIN w = 1..Len(w)
      /\ \A n \in DOMAIN w : IsReading(w[n])
  BY AlgorithmsAssumption
<1>3. StableWindow(w)
  <2>1. PICK judged : judged = StableWindow(w) /\ judged \in BOOLEAN
    BY DEF StableWindow
  <2>2. <<judged>> = <<TRUE>>
    BY <1>1, <2>1
  <2> QED
    BY <2>1, <2>2
<1>4. 1 \in DOMAIN w /\ IsFiniteSet(DOMAIN w)
  BY <1>1, <1>2, FS_Interval
<1>5. ASSUME NEW n \in DOMAIN w PROVE IsReading(w[n]) /\ Near(w[1], w[n])
  <2>1. CASE n = 1
    BY <1>2, <2>1, ReadingIsNearItself
  <2>2. CASE n # 1
    BY <1>2, <1>3, <1>4, <2>2, UnchangedIsNear DEF StableWindow
  <2> QED
    BY <2>1, <2>2
<1>6. SpeaksFor(w, w[i], w[j])
  BY <1>1, <1>4, <1>5, NearSpeaks
<1> QED
  BY <1>1, <1>6
-----------------------------------------------------------------------------
LEMMA LoopsInit == AlgorithmsInit => LoopsInv
<1> SUFFICES ASSUME AlgorithmsInit PROVE LoopsInv
  OBVIOUS
<1>1. CompactionInv
  <2> SUFFICES ASSUME call = "CompactByInterval" PROVE CompactionInv
    BY DEF CompactionInv
  <2>1. PICK c \in Compactions :
          /\ argument = c[1] /\ points = c[1] /\ limit = c[2] /\ returned = FALSE
          /\ begin = 1 /\ end = 2 /\ out = <<>>
    BY DEF AlgorithmsInit, Call
  <2>2. argument \in Seq(Sample) /\ limit \in Nat \ {0} /\ Len(argument) \in Nat
    BY <2>1, AlgorithmsAssumption
  <2>3. PICK f : f = Before(CompactByInterval(argument, limit), 1)
    OBVIOUS
  <2>4. DOMAIN f = {}
    BY <2>2, <2>3 DEF Before, CompactByInterval
  <2>5. Lists(<<>>, f)
    BY <2>4, ListsNothing
  <2>6. \A k \in 1..2 - 1 : k = 1
    OBVIOUS
  <2>7. begin \in 1..Len(argument) + 1 /\ (begin <= Len(argument) => end <= Len(argument) + 1)
    BY <2>1, <2>2
  <2>8. \A k \in begin..end - 1 :
          Bucket(argument[k].t, limit) = Bucket(argument[begin].t, limit)
    BY <2>1, <2>6
  <2>9. begin \notin 2..Len(argument)
    BY <2>1
  <2> QED
    BY <2>1, <2>2, <2>3, <2>5, <2>7, <2>8, <2>9 DEF CompactionInv
<1>2. DeduplicateInv
  <2> SUFFICES ASSUME call = "deduplicate" PROVE DeduplicateInv
    BY DEF DeduplicateInv
  <2>1. PICK q \in Queries :
          /\ argument = q /\ points = q /\ returned = FALSE
          /\ begin = 1 /\ end = 2 /\ out = <<>>
    BY DEF AlgorithmsInit, Call
  <2>2. argument \in Seq(Sample) /\ Len(argument) \in Nat
    BY <2>1, AlgorithmsAssumption
  <2>3. PICK f : f = Before(LastOfEach(argument), 1)
    OBVIOUS
  <2>4. DOMAIN f = {}
    <3>1. DOMAIN LastOfEach(argument) \subseteq 1..Len(argument)
      BY <2>2, LastOfEachDomain
    <3> QED
      BY <2>2, <2>3, <3>1 DEF Before
  <2>5. Lists(<<>>, f)
    BY <2>4, ListsNothing
  <2>6. SubSeq(points, 1, begin - 1) = <<>> /\ begin - 1 = 0 /\ end - 1 = 1
    BY <2>1, <2>2
  <2>7. points # <<>> => Len(points) # 0
    BY <2>1, <2>2
  <2>8. Lists(SubSeq(points, 1, begin - 1), Before(LastOfEach(argument), end - 1))
    BY <2>3, <2>5, <2>6
  <2>9. /\ points # <<>> => end <= Len(points) + 1 /\ points[begin] = argument[end - 1]
        /\ begin \in Nat \ {0} /\ end \in Nat /\ begin < end /\ Len(points) = Len(argument)
        /\ \A k \in DOMAIN points : k >= end => points[k] = argument[k]
    BY <2>1, <2>2, <2>6, <2>7
  <2> QED
    BY <2>1, <2>2, <2>8, <2>9 DEF DeduplicateInv
<1>3. DownsampleInv
  <2> SUFFICES ASSUME call = "Downsample" PROVE DownsampleInv
    BY DEF DownsampleInv
  <2>1. PICK r \in Responses :
          /\ argument = r[1] /\ points = r[1] /\ limit = r[2] /\ returned = FALSE
          /\ begin = 0 /\ out = <<>>
    BY DEF AlgorithmsInit, Call
  <2>2. /\ argument \in Seq(Sample) /\ limit \in Nat \ {1}
        /\ \A i, j \in DOMAIN argument : argument[i] = argument[j] => i = j
    BY <2>1, AlgorithmsAssumption
  <2>3. begin \in 0..limit /\ 1..begin = {} /\ out \in Seq(Sample) /\ Len(out) = 0
    BY <2>1, <2>2
  <2> QED
    BY <2>1, <2>2, <2>3 DEF DownsampleInv
<1>4. JudgeInv
  BY DEF JudgeInv, AlgorithmsInit, Call
<1> QED
  BY <1>1, <1>2, <1>3, <1>4 DEF LoopsInv

LEMMA Loops == AlgorithmsSpec => []LoopsInv
<1>1. LoopsInv /\ [AlgorithmsNext]_algorithmVars => LoopsInv'
  BY CompactionStep, DeduplicateStep, DownsampleStep, JudgeStep DEF LoopsInv
<1> QED
  BY <1>1, LoopsInit, PTL DEF AlgorithmsSpec

(* The nested loop of CompactByInterval computes the operator the store is *)
(* modelled with, for every list of points and every width.                *)
THEOREM CompactionIsTheOperator == AlgorithmsSpec => []CompactionLoopIsTheOperator
<1>1. LoopsInv => CompactionLoopIsTheOperator
  BY CompactionImplies DEF LoopsInv
<1> QED
  BY <1>1, Loops, PTL

(* deduplicate, which writes to the array that it reads, returns the last  *)
(* of the points with one time, for every list of points.                  *)
THEOREM DeduplicateIsPure == AlgorithmsSpec => []InPlaceDeduplicateIsPure
<1>1. LoopsInv => InPlaceDeduplicateIsPure
  BY DeduplicateImplies DEF LoopsInv
<1> QED
  BY <1>1, Loops, PTL

(* A response has its first and last point and even steps between, for     *)
(* every number of points and every max_points.                            *)
THEOREM DownsampleSpans == AlgorithmsSpec => []DownsampleSpansTheRange
<1>1. LoopsInv => DownsampleSpansTheRange
  BY DownsampleImplies DEF LoopsInv
<1> QED
  BY <1>1, Loops, PTL

(* The points of a window that stableWindow accepts, the representative    *)
(* one of them, differ by twice the thresholds at most, whatever and       *)
(* however many they are.                                                  *)
THEOREM RepresentativeSpeaks == AlgorithmsSpec => []RepresentativeSpeaksForWindow
<1>1. LoopsInv => RepresentativeSpeaksForWindow
  BY JudgeImplies DEF LoopsInv
<1> QED
  BY <1>1, Loops, PTL
=============================================================================
