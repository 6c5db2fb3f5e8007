-------------------------- MODULE DashboardProofs --------------------------
(***************************************************************************)
(* The page's state keeps its type and its bounds, and the sample of an    *)
(* event is drawn, for all ranges, limits and numbers of requests.         *)
(***************************************************************************)
EXTENDS Dashboard, WellFoundedInduction, TLAPS

(* The minimum principle, which WFMin states without an operator for its   *)
(* parameter: it does the work of an induction.                            *)
LEMMA LeastNatural ==
  ASSUME NEW S, S \subseteq Nat, S # {}
  PROVE  \E m \in S : \A n \in S : m <= n
<1>1. PICK R : R = OpToRel(<, Nat)
  OBVIOUS
<1>2. IsWellFoundedOn(R, Nat)
  BY <1>1, NatLessThanWellFounded
<1>3. PICK m \in S : \A n \in S : ~(<<n, m>> \in R)
  BY <1>2, WFMin
<1>4. \A n \in S : <<n, m>> \in R <=> n < m
  BY <1>1 DEF OpToRel
<1>5. m \in Nat /\ \A n \in S : n \in Nat /\ ~(n < m)
  BY <1>3, <1>4
<1> QED
  BY <1>3, <1>5
-----------------------------------------------------------------------------
(* Since.  There is a function that satisfies its recursion: the smallest  *)
(* number up to which there is none would not be the smallest.             *)
LEMMA SinceRecursion ==
  ASSUME NEW list, Len(list) \in Nat, NEW cutoff
  PROVE  \E kept :
           /\ kept = [n \in 0..Len(list) |->
                        IF n = 0 THEN <<>>
                        ELSE IF list[n] >= cutoff THEN Append(kept[n - 1], list[n])
                             ELSE kept[n - 1]]
           /\ Since(list, cutoff) = kept[Len(list)]
<1> DEFINE Step(v, n) == IF list[n] >= cutoff THEN Append(v, list[n]) ELSE v
           Value(f, n) == IF n = 0 THEN <<>> ELSE Step(f[n - 1], n)
           Solves(f, m) == f = [n \in 0..m |-> Value(f, n)]
           Bad == {m \in Nat : ~\E f : Solves(f, m)}
<1>1. \E f : Solves(f, 0)
  <2>1. Solves([n \in 0..0 |-> <<>>], 0)
    OBVIOUS
  <2> QED
    BY <2>1
<1>2. ASSUME NEW m \in Nat, \E f : Solves(f, m) PROVE \E f : Solves(f, m + 1)
  <2>1. PICK f : Solves(f, m)
    BY <1>2
  <2> DEFINE g == [n \in 0..m + 1 |-> IF n <= m THEN f[n] ELSE Step(f[m], n)]
  <2> HIDE DEF Step
  <2>2. ASSUME NEW n \in 0..m + 1 PROVE g[n] = Value(g, n)
    <3>1. CASE n = 0
      BY <2>1, <3>1
    <3>2. CASE n # 0 /\ n <= m
      <4>1. n - 1 \in 0..m + 1 /\ n - 1 <= m /\ n \in 0..m
        BY <3>2
      <4>2. g[n - 1] = f[n - 1] /\ g[n] = f[n]
        BY <3>2, <4>1
      <4>3. f[n] = Value(f, n)
        BY <2>1, <4>1
      <4> QED
        BY <3>2, <4>2, <4>3
    <3>3. CASE n = m + 1
      <4>1. ~(n <= m) /\ n # 0 /\ n - 1 = m /\ m \in 0..m + 1 /\ m <= m
        BY <3>3
      <4>2. g[n] = Step(f[m], n) /\ g[m] = f[m]
        BY <4>1
      <4> QED
        BY <4>1, <4>2
    <3> QED
      BY <3>1, <3>2, <3>3
  <2>3. Solves(g, m + 1)
    <3>1. g = [n \in 0..m + 1 |-> g[n]]
      OBVIOUS
    <3> HIDE DEF g, Value
    <3>2. [n \in 0..m + 1 |-> g[n]] = [n \in 0..m + 1 |-> Value(g, n)]
      BY <2>2
    <3> QED
      BY <3>1, <3>2
  <2> QED
    BY <2>3
<1>3. \A m \in Nat : \E f : Solves(f, m)
  <2> HIDE DEF Solves
  <2>1. SUFFICES ASSUME Bad # {} PROVE FALSE
    OBVIOUS
  <2>2. PICK m \in Bad : \A n \in Bad : m <= n
    BY <2>1, LeastNatural
  <2>3. m \in Nat /\ m # 0 /\ m - 1 \in Nat /\ ~(m - 1 \in Bad)
    BY <1>1, <2>2
  <2>4. \E f : Solves(f, m - 1)
    BY <2>3
  <2>5. \E f : Solves(f, m - 1 + 1)
    BY <1>2, <2>3, <2>4
  <2>6. m - 1 + 1 = m
    BY <2>3
  <2> QED
    BY <2>2, <2>5, <2>6
<1>4. PICK f : Solves(f, Len(list))
  BY <1>3
<1> DEFINE kept == CHOOSE g : Solves(g, Len(list))
<1>5. Solves(kept, Len(list))
  <2> HIDE DEF Solves
  <2> QED
    BY <1>4
<1>6. Since(list, cutoff) = kept[Len(list)]
  BY DEF Since
<1> QED
  BY <1>5, <1>6

(* The last element of a list that is pushed to.                           *)
LEMMA LastAppended ==
  ASSUME NEW S, NEW s \in Seq(S), NEW e \in S
  PROVE  Append(s, e) # <<>> /\ Append(s, e)[Len(Append(s, e))] = e
OBVIOUS

(* It returns elements of the list, at most as many, and the last one if   *)
(* that is recent enough.                                                  *)
LEMMA SinceReturns ==
  ASSUME NEW S, NEW list \in Seq(S), list # <<>>, NEW cutoff
  PROVE  LET recent == Since(list, cutoff)
         IN  /\ recent \in Seq(S) /\ Len(recent) <= Len(list)
             /\ list[Len(list)] >= cutoff
                  => recent # <<>> /\ recent[Len(recent)] = list[Len(list)]
<1> DEFINE L == Len(list)
<1>1. L \in Nat /\ L # 0 /\ \A n \in 1..L : list[n] \in S
  OBVIOUS
<1>2. PICK kept :
        /\ kept = [n \in 0..L |->
                     IF n = 0 THEN <<>>
                     ELSE IF list[n] >= cutoff THEN Append(kept[n - 1], list[n])
                          ELSE kept[n - 1]]
        /\ Since(list, cutoff) = kept[L]
  BY <1>1, SinceRecursion
<1> HIDE DEF L
<1>3. kept[0] = <<>>
  <2>1. 0 \in 0..L
    BY <1>1
  <2> QED
    BY <1>2, <2>1
<1>4. ASSUME NEW n \in 1..L
      PROVE  kept[n] = IF list[n] >= cutoff THEN Append(kept[n - 1], list[n])
                       ELSE kept[n - 1]
  <2>1. n \in 0..L /\ n # 0
    BY <1>1
  <2> QED
    BY <1>2, <2>1
<1> DEFINE Typed(n) == kept[n] \in Seq(S) /\ Len(kept[n]) <= n
           Bad == {n \in 0..L : ~Typed(n)}
<1>5. Typed(0)
  BY <1>3
<1>6. ASSUME NEW n \in 1..L, Typed(n - 1) PROVE Typed(n)
  <2>1. n \in Nat /\ list[n] \in S
    BY <1>1
  <2>2. CASE list[n] >= cutoff
    <3>1. kept[n] = Append(kept[n - 1], list[n])
      BY <1>4, <2>2
    <3>2. Append(kept[n - 1], list[n]) \in Seq(S)
          /\ Len(Append(kept[n - 1], list[n])) = Len(kept[n - 1]) + 1
      BY <1>6, <2>1
    <3>3. Len(kept[n - 1]) \in Nat
      BY <1>6
    <3> QED
      BY <1>6, <2>1, <3>1, <3>2, <3>3
  <2>3. CASE ~(list[n] >= cutoff)
    <3>1. kept[n] = kept[n - 1]
      BY <1>4, <2>3
    <3>2. Len(kept[n - 1]) \in Nat
      BY <1>6
    <3> QED
      BY <1>6, <2>1, <3>1, <3>2
  <2> QED
    BY <2>2, <2>3
<1>7. \A n \in 0..L : Typed(n)
  <2> HIDE DEF Typed
  <2>1. SUFFICES ASSUME Bad # {} PROVE FALSE
    OBVIOUS
  <2>2. Bad \subseteq Nat
    BY <1>1
  <2>3. PICK m \in Bad : \A n \in Bad : m <= n
    <3> HIDE DEF Bad
    <3> QED
      BY <2>1, <2>2, LeastNatural
  <2>4. m \in 1..L /\ m - 1 \in 0..L /\ ~(m - 1 \in Bad)
    BY <1>1, <1>5, <2>3
  <2> QED
    BY <1>6, <2>3, <2>4
<1>8. Typed(L) /\ Typed(L - 1) /\ L \in 1..L
  BY <1>1, <1>7
<1>9. ASSUME list[L] >= cutoff
      PROVE  kept[L] # <<>> /\ kept[L][Len(kept[L])] = list[L]
  <2>1. kept[L] = Append(kept[L - 1], list[L])
    BY <1>4, <1>8, <1>9
  <2>2. list[L] \in S /\ kept[L - 1] \in Seq(S)
    BY <1>1, <1>8
  <2> QED
    BY <2>1, <2>2, LastAppended
<1> QED
  BY <1>2, <1>8, <1>9 DEF L
-----------------------------------------------------------------------------
(* Halve.  A list of odd length keeps its last element, and a list one     *)
(* longer than the limit, which is even, is one.                           *)
LEMMA HalveReturns ==
  ASSUME NEW S, NEW list \in Seq(S), Len(list) = Limit + 1
  PROVE  /\ Halve(list) \in Seq(S) /\ Len(Halve(list)) <= Limit
         /\ Halve(list) # <<>> /\ Halve(list)[Len(Halve(list))] = list[Len(list)]
<1>1. PICK h \in Nat : Limit = 2 * h /\ h >= 1
  BY DashboardAssumption
<1>2. (Len(list) + 1) \div 2 = h + 1
  BY <1>1
<1>3. Halve(list) = [i \in 1..h + 1 |-> list[2 * i - 1]]
  BY <1>2 DEF Halve
<1>4. \A i \in 1..h + 1 : list[2 * i - 1] \in S
  <2>1. \A i \in 1..h + 1 : 2 * i - 1 \in 1..Len(list)
    BY <1>1
  <2> QED
    BY <2>1
<1>5. h + 1 \in Nat
  BY <1>1
<1>6. Halve(list) \in Seq(S) /\ Len(Halve(list)) = h + 1
  BY <1>3, <1>4, <1>5
<1>7. Halve(list)[h + 1] = list[Len(list)]
  <2>1. 2 * (h + 1) - 1 = Len(list) /\ h + 1 \in 1..h + 1
    BY <1>1
  <2> QED
    BY <1>3, <2>1
<1> QED
  BY <1>1, <1>6, <1>7

(* History.  The quotient that spreads the indices stays among the         *)
(* samples it picks from.                                                  *)
LEMMA PickBounded ==
  ASSUME NEW last \in Nat, NEW n \in Nat \ {0}, NEW i \in 0..n
  PROVE  (i * last) \div n \in 0..last
<1>1. PICK a \in Nat, b \in Nat : a = i * last /\ b = n * last
  OBVIOUS
<1>2. a <= b
  <2>1. b = a + (n - i) * last /\ n - i \in Nat
    BY <1>1
  <2>2. (n - i) * last \in Nat
    BY <2>1
  <2> QED
    BY <2>1, <2>2
<1>3. PICK q \in Nat : q = a \div n /\ n * q <= a
  OBVIOUS
<1>4. n * q <= n * last
  BY <1>1, <1>2, <1>3
<1>5. q <= last
  BY <1>4
<1> QED
  BY <1>1, <1>3, <1>5

(* An answer has max_points samples at most, none from after the request.  *)
LEMMA HistoryReturns ==
  ASSUME NEW from \in Int, NEW to \in 1..MaxTime, from < to
  PROVE  History(from, to) \in Seq(1..MaxTime) /\ Len(History(from, to)) <= Limit
<1> DEFINE first == IF from < 1 THEN 1 ELSE from
           count == to - first + 1
           size  == IF count <= MaxPoints THEN count ELSE MaxPoints
           pick(i) == IF size = count THEN first + i - 1
                      ELSE first + ((i - 1) * (count - 1)) \div (MaxPoints - 1)
<1>0. MaxTime \in Nat /\ MaxPoints \in Nat /\ MaxPoints >= 2 /\ MaxPoints <= Limit
      /\ Limit \in Nat
  BY DashboardAssumption
<1>1. first \in 1..to /\ to <= MaxTime /\ count \in Nat \ {0} /\ first + (count - 1) = to
  BY <1>0
<1>2. size \in Nat \ {0} /\ size <= Limit /\ size <= MaxPoints
  BY <1>0, <1>1
<1>3. ASSUME NEW i \in 1..size PROVE pick(i) \in 1..MaxTime
  <2>1. CASE size = count
    BY <1>0, <1>1, <2>1
  <2>2. CASE size # count
    <3>1. i - 1 \in 0..MaxPoints - 1 /\ MaxPoints - 1 \in Nat \ {0} /\ count - 1 \in Nat
      BY <1>0, <1>1, <1>2
    <3> HIDE DEF count, first, size
    <3>2. ((i - 1) * (count - 1)) \div (MaxPoints - 1) \in 0..count - 1
      BY <3>1, PickBounded
    <3>3. PICK q : q = ((i - 1) * (count - 1)) \div (MaxPoints - 1)
      OBVIOUS
    <3>4. first + q \in 1..MaxTime
      BY <1>0, <1>1, <3>2, <3>3
    <3> QED
      BY <2>2, <3>3, <3>4
  <2> QED
    BY <2>1, <2>2
<1>4. History(from, to) = [i \in 1..size |-> pick(i)]
  BY DEF History
<1> HIDE DEF size, pick
<1>5. History(from, to) \in Seq(1..MaxTime) /\ Len(History(from, to)) = size
  BY <1>2, <1>3, <1>4
<1> QED
  BY <1>0, <1>2, <1>5
-----------------------------------------------------------------------------
(* DashboardTypeOK is not inductive: it says nothing of the end of a       *)
(* request's time, which the answer turns into samples.                    *)
FetchInv ==
  /\ fetch \in [Fetches -> [from : Int, to : Int]]
  /\ \A f \in Fetches : fetch[f] # NoFetch =>
       fetch[f].from < fetch[f].to /\ fetch[f].to \in 1..now

DashboardInv ==
  /\ now \in 1..MaxTime
  /\ range \in Ranges
  /\ samples \in Seq(1..MaxTime) /\ Len(samples) <= Limit
  /\ FetchInv
  /\ live \in BOOLEAN
  /\ queue \in Seq(1..MaxTime) /\ Len(queue) <= QueueCap

LEMMA InvTypeOK ==
  DashboardInv => DashboardTypeOK
BY DEF DashboardInv, FetchInv, DashboardTypeOK

LEMMA InvInit ==
  DashboardInit => DashboardInv
<1>1. 1 \in 1..MaxTime /\ 0 <= Limit /\ 0 <= QueueCap
  BY DashboardAssumption
<1>2. NoFetch \in [from : Int, to : Int]
  BY DEF NoFetch
<1>3. ASSUME DashboardInit PROVE FetchInv
  <2>1. fetch = [f \in Fetches |-> NoFetch]
    BY <1>3 DEF DashboardInit
  <2>2. \A f \in Fetches : fetch[f] = NoFetch
    BY <2>1
  <2>3. fetch \in [Fetches -> [from : Int, to : Int]]
    BY <1>2, <2>1
  <2> QED
    BY <2>2, <2>3 DEF FetchInv
<1>4. ASSUME DashboardInit
      PROVE  /\ samples \in Seq(1..MaxTime) /\ Len(samples) <= Limit
             /\ queue \in Seq(1..MaxTime) /\ Len(queue) <= QueueCap
  <2>1. samples = <<>> /\ queue = <<>>
    BY <1>4 DEF DashboardInit
  <2> QED
    BY <1>1, <2>1
<1> QED
  BY <1>1, <1>3, <1>4 DEF DashboardInit, DashboardInv

(* A request asks for the time from a range ago up to now.                 *)
LEMMA InvAsk ==
  ASSUME DashboardInv, NEW length \in Ranges, Ask(length), now' = now
  PROVE  FetchInv'
<1>1. PICK g \in Fetches : fetch' = [fetch EXCEPT ![g] = [from |-> now - length, to |-> now]]
  BY DEF Ask
<1>2. now \in 1..now /\ now \in Int /\ now - length \in Int /\ now - length < now
  BY DashboardAssumption DEF DashboardInv
<1>3. fetch \in [Fetches -> [from : Int, to : Int]]
  BY DEF DashboardInv, FetchInv
<1>4. fetch' \in [Fetches -> [from : Int, to : Int]]
  BY <1>1, <1>2, <1>3
<1>5. ASSUME NEW f \in Fetches, fetch'[f] # NoFetch
      PROVE  fetch'[f].from < fetch'[f].to /\ fetch'[f].to \in 1..now
  <2>1. CASE f = g
    <3>1. fetch'[f] = [from |-> now - length, to |-> now]
      BY <1>1, <1>3, <2>1
    <3> QED
      BY <1>2, <3>1
  <2>2. CASE f # g
    <3>1. fetch'[f] = fetch[f]
      BY <1>1, <1>3, <2>2
    <3> QED
      BY <1>5, <3>1 DEF DashboardInv, FetchInv
  <2> QED
    BY <2>1, <2>2
<1> QED
  BY <1>4, <1>5 DEF FetchInv

(* A request ends.                                                         *)
LEMMA InvEnd ==
  ASSUME DashboardInv, NEW g \in Fetches,
         fetch' = [fetch EXCEPT ![g] = NoFetch], now' = now
  PROVE  FetchInv'
<1>1. fetch \in [Fetches -> [from : Int, to : Int]] /\ NoFetch \in [from : Int, to : Int]
  BY DEF DashboardInv, FetchInv, NoFetch
<1>2. fetch' \in [Fetches -> [from : Int, to : Int]]
  BY <1>1
<1>3. ASSUME NEW f \in Fetches, fetch'[f] # NoFetch
      PROVE  fetch'[f] = fetch[f]
  BY <1>1, <1>3
<1> QED
  BY <1>2, <1>3 DEF DashboardInv, FetchInv

(* The first element of a queue.                                           *)
LEMMA QueueHead ==
  ASSUME NEW S, NEW q \in Seq(S), q # <<>>
  PROVE  Head(q) \in S
OBVIOUS

(* What an event leaves: samples within the limit, the event's own last    *)
(* when the range reaches back to it.                                      *)
LEMMA MessageReturns ==
  ASSUME DashboardInv, Message
  PROVE  /\ samples' \in Seq(1..MaxTime) /\ Len(samples') <= Limit
         /\ queue' \in Seq(1..MaxTime) /\ Len(queue') <= QueueCap
         /\ Head(queue) >= now - range
              => samples' # <<>> /\ samples'[Len(samples')] = Head(queue)
<1> DEFINE list == Append(samples, Head(queue))
           recent == Since(list, now - range)
<1>1. /\ samples \in Seq(1..MaxTime) /\ Len(samples) <= Limit
      /\ queue \in Seq(1..MaxTime) /\ Len(queue) <= QueueCap /\ queue # <<>>
      /\ Limit \in Nat /\ QueueCap \in Nat
  BY DashboardAssumption DEF DashboardInv, Message
<1>2. /\ list \in Seq(1..MaxTime) /\ list # <<>>
      /\ Len(list) = Len(samples) + 1 /\ list[Len(list)] = Head(queue)
  <2>1. Head(queue) \in 1..MaxTime
    BY <1>1, QueueHead
  <2> QED
    BY <1>1, <2>1
<1>3. samples' = IF Len(recent) > Limit THEN Halve(recent) ELSE recent
  BY DEF Message
<1>4. queue' \in Seq(1..MaxTime) /\ Len(queue') <= QueueCap
  <2>1. queue' = Tail(queue)
    BY DEF Message
  <2> QED
    BY <1>1, <2>1
<1> HIDE DEF list
<1>5. /\ recent \in Seq(1..MaxTime) /\ Len(recent) <= Len(list)
      /\ Head(queue) >= now - range
           => recent # <<>> /\ recent[Len(recent)] = Head(queue)
  BY <1>2, SinceReturns
<1> HIDE DEF recent
<1>6. CASE Len(recent) > Limit
  <2>1. Len(recent) = Limit + 1
    BY <1>1, <1>2, <1>5, <1>6
  <2>2. samples' = Halve(recent)
    BY <1>3, <1>6
  <2> QED
    BY <1>4, <1>5, <2>1, <2>2, HalveReturns
<1>7. CASE ~(Len(recent) > Limit)
  <2>1. samples' = recent /\ Len(recent) <= Limit
    BY <1>1, <1>3, <1>5, <1>7
  <2> QED
    BY <1>4, <1>5, <2>1
<1> QED
  BY <1>6, <1>7

LEMMA InvNext ==
  DashboardInv /\ [DashboardNext]_vars => DashboardInv'
<1> SUFFICES ASSUME DashboardInv, [DashboardNext]_vars PROVE DashboardInv'
  OBVIOUS
<1> USE DEF DashboardInv
<1>1. CASE Tick
  <2>1. now' \in 1..MaxTime /\ now' = now + 1
    BY <1>1, DashboardAssumption DEF Tick
  <2>2. queue' \in Seq(1..MaxTime) /\ Len(queue') <= QueueCap
    <3>1. Append(queue, now') \in Seq(1..MaxTime)
          /\ Len(Append(queue, now')) = Len(queue) + 1
      BY <2>1
    <3>2. CASE live /\ Len(queue) < QueueCap
      <4>1. queue' = Append(queue, now')
        BY <1>1, <3>2 DEF Tick
      <4> QED
        BY <3>1, <3>2, <4>1, DashboardAssumption
    <3>3. CASE ~(live /\ Len(queue) < QueueCap)
      BY <1>1, <3>3 DEF Tick
    <3> QED
      BY <3>2, <3>3
  <2>3. FetchInv'
    <3>1. fetch' = fetch
      BY <1>1 DEF Tick
    <3>2. \A t \in 1..now : t \in 1..now'
      BY <2>1
    <3> QED
      BY <3>1, <3>2 DEF FetchInv
  <2> QED
    BY <1>1, <2>1, <2>2, <2>3 DEF Tick
<1>2. CASE Click
  <2>1. PICK length \in Ranges \ {range} : range' = length /\ Ask(length)
    BY <1>2 DEF Click
  <2>2. now' = now /\ samples' = samples /\ live' = live /\ queue' = queue
    BY <1>2 DEF Click
  <2>3. FetchInv'
    BY <2>1, <2>2, InvAsk
  <2> QED
    BY <2>1, <2>2, <2>3
<1>3. CASE Load
  <2>1. /\ now' = now /\ range' = range /\ samples' = samples /\ live' = live
        /\ queue' = queue /\ Ask(range)
    BY <1>3 DEF Load
  <2>2. FetchInv'
    BY <2>1, InvAsk
  <2> QED
    BY <2>1, <2>2
<1>4. ASSUME NEW f \in Fetches, Answer(f) PROVE DashboardInv'
  <2>1. /\ now' = now /\ range' = range /\ live' = live /\ queue' = queue
        /\ fetch' = [fetch EXCEPT ![f] = NoFetch] /\ fetch[f] # NoFetch
        /\ samples' = History(fetch[f].from, fetch[f].to)
    BY <1>4 DEF Answer, Answered
  <2>2. FetchInv'
    BY <2>1, InvEnd
  <2>3. fetch[f].from \in Int /\ fetch[f].to \in 1..MaxTime /\ fetch[f].from < fetch[f].to
    BY <2>1, DashboardAssumption DEF FetchInv
  <2>4. samples' \in Seq(1..MaxTime) /\ Len(samples') <= Limit
    BY <2>1, <2>3, HistoryReturns
  <2> QED
    BY <2>1, <2>2, <2>4
<1>5. ASSUME NEW f \in Fetches, AnswerFails(f) PROVE DashboardInv'
  <2>1. /\ now' = now /\ range' = range /\ samples' = samples /\ live' = live
        /\ queue' = queue /\ fetch' = [fetch EXCEPT ![f] = NoFetch]
    BY <1>5 DEF AnswerFails
  <2>2. FetchInv'
    BY <2>1, InvEnd
  <2> QED
    BY <2>1, <2>2
<1>6. CASE Connect
  <2>1. /\ now' = now /\ range' = range /\ samples' = samples /\ fetch' = fetch
        /\ live' = TRUE
    BY <1>6 DEF Connect
  <2>2. QueueCap \in Nat /\ QueueCap >= 2 /\ now \in 1..MaxTime /\ MaxTime \in Nat
    BY DashboardAssumption
  <2>3. queue' \in Seq(1..MaxTime) /\ Len(queue') <= QueueCap
    <3>1. PICK first \in 1..now + 1 :
            LET count == now - first + 1
                size  == IF count < QueueCap THEN count ELSE QueueCap - 1
            IN  queue' = <<now>> \o [i \in 1..size |-> first + i - 1]
      BY <1>6 DEF Connect
    <3> DEFINE count == now - first + 1
               size == IF count < QueueCap THEN count ELSE QueueCap - 1
               pick(i) == first + i - 1
               buffered == [i \in 1..size |-> pick(i)]
    <3>2. size \in Nat /\ size <= QueueCap - 1 /\ size <= count
      BY <2>2
    <3>3. \A i \in 1..size : pick(i) \in 1..MaxTime
      <4>1. count = now - first + 1
        OBVIOUS
      <4> HIDE DEF size, count
      <4> QED
        BY <2>2, <3>2, <4>1
    <3>4. queue' = <<now>> \o buffered
      BY <3>1
    <3> HIDE DEF size, pick
    <3>5. buffered \in Seq(1..MaxTime) /\ Len(buffered) = size
      BY <3>2, <3>3
    <3>6. <<now>> \in Seq(1..MaxTime) /\ Len(<<now>>) = 1
      BY <2>2
    <3> HIDE DEF buffered
    <3> QED
      BY <2>2, <3>2, <3>4, <3>5, <3>6
  <2>4. FetchInv'
    BY <2>1 DEF FetchInv
  <2> QED
    BY <2>1, <2>3, <2>4
<1>7. CASE Disconnect
  <2>1. /\ now' = now /\ range' = range /\ samples' = samples /\ fetch' = fetch
        /\ live' = FALSE /\ queue' = <<>>
    BY <1>7 DEF Disconnect
  <2>2. queue' \in Seq(1..MaxTime) /\ Len(queue') <= QueueCap
    BY <2>1, DashboardAssumption
  <2>3. FetchInv'
    BY <2>1 DEF FetchInv
  <2> QED
    BY <2>1, <2>2, <2>3
<1>8. CASE Message
  <2>1. now' = now /\ range' = range /\ fetch' = fetch /\ live' = live
    BY <1>8 DEF Message
  <2>2. FetchInv'
    BY <2>1 DEF FetchInv
  <2>3. /\ samples' \in Seq(1..MaxTime) /\ Len(samples') <= Limit
        /\ queue' \in Seq(1..MaxTime) /\ Len(queue') <= QueueCap
    BY <1>8, MessageReturns
  <2> QED
    BY <2>1, <2>2, <2>3
<1>9. CASE UNCHANGED vars
  BY <1>9 DEF vars, FetchInv
<1> QED
  BY <1>1, <1>2, <1>3, <1>4, <1>5, <1>6, <1>7, <1>8, <1>9 DEF DashboardNext

LEMMA Invariance ==
  DashboardSpec => []DashboardInv
<1>1. DashboardInit => DashboardInv
  BY InvInit
<1>2. DashboardInv /\ [DashboardNext]_vars => DashboardInv'
  BY InvNext
<1> QED
  BY <1>1, <1>2, PTL DEF DashboardSpec

(* The list of the page never outgrows the limit at which it is thinned    *)
(* out (app.js:89), nor the stream's buffer its capacity, whichever answer *)
(* comes at which moment.                                                  *)
THEOREM PageBounded ==
  DashboardSpec => []DashboardTypeOK
<1>1. DashboardInv => DashboardTypeOK
  BY InvTypeOK
<1> QED
  BY <1>1, Invariance, PTL

(* Thinning out spares the sample that is pushed: the list it applies to   *)
(* is of odd length, and the filter keeps the even indices, from 0.        *)
THEOREM EventIsDrawn ==
  DashboardSpec => MessageIsDrawn
<1> DEFINE Drawn ==
      Message /\ Head(queue) >= now - range
        => samples' # <<>> /\ samples'[Len(samples')] = Head(queue)
<1>1. DashboardInv => [Drawn]_vars
  BY MessageReturns
<1> QED
  BY <1>1, Invariance, PTL DEF MessageIsDrawn
=============================================================================
