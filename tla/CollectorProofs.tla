-------------------------- MODULE CollectorProofs --------------------------
(***************************************************************************)
(* What the collector's differences are worth, for any cores, interfaces,  *)
(* counter width and any order of reads, failures, hotplugs, resets and    *)
(* settings of the clock: a usage is a percentage, nothing is counted      *)
(* twice, and a rate is off by what is known of the delay and the clock.   *)
(***************************************************************************)
EXTENDS Collector, FiniteSetTheorems, TLAPS

(* Unsigned arithmetic of the counters.                                    *)
LEMMA Remainder ==
  ASSUME NEW n \in Nat, NEW w \in Nat \ {0}
  PROVE  n % w \in Nat /\ n % w <= n
BY SMT

LEMMA CardinalityOfCores ==
  ASSUME NEW S, S \subseteq Cores
  PROVE  Cardinality(S) \in Nat
<1>1. IsFiniteSet(Cores)
  BY FS_Interval, CollectorAssumption DEF Cores
<1> QED
  BY <1>1, FS_Subset, FS_CardinalityType

-----------------------------------------------------------------------------
LEMMA TypeInit == CollectorInit => CollectorTypeOK
<1> SUFFICES ASSUME CollectorInit PROVE CollectorTypeOK
  OBVIOUS
<1>1. machine.cores \in 0..NumCores /\ machine.interfaces \subseteq Interfaces
  BY CollectorAssumption DEF CollectorInit
<1>2. online \subseteq Cores /\ present \subseteq Interfaces
  BY <1>1, CollectorAssumption DEF CollectorInit, Cores
<1>3. busy \in [Lines -> Nat] /\ idle \in [Lines -> Nat] /\ uncounted \in [Lines -> Int]
  BY DEF CollectorInit
<1>4. bytes \in [Interfaces -> CounterPair] /\ unclaimed \in [Interfaces -> [Directions -> Int]]
  BY CollectorAssumption DEF CollectorInit, CounterPair, Zero, Directions
<1>5. DOMAIN previousNetwork = {} /\ DOMAIN rates = {}
  BY DEF CollectorInit, Nothing
<1>6. now = 0 /\ wall = 0 /\ setBack = 0 /\ between = 0 /\ stamp = 0 /\ previousNetworkAt = 0 /\ spent = 0 /\ at = "idle" /\ machine \in Machines
      /\ previous = <<>>
  BY DEF CollectorInit
<1> QED
  BY <1>2, <1>3, <1>4, <1>5, <1>6 DEF CollectorTypeOK

(* A tick keeps the counters natural numbers, and counts what they gain.   *)
BusyTick ==
  /\ busy' \in [Lines -> Nat] /\ idle' \in [Lines -> Nat]
  /\ uncounted' \in [Lines -> Int]
  /\ \A l \in Lines : busy'[l] - busy[l] \in Nat /\ uncounted'[l] - uncounted[l] = busy'[l] - busy[l]

BytesTick ==
  /\ bytes' \in [Interfaces -> CounterPair]
  /\ unclaimed' \in [Interfaces -> [Directions -> Int]]
  /\ \A i \in Interfaces, d \in Directions :
       /\ unclaimed'[i][d] >= unclaimed[i][d]
       /\ bytes'[i][d] - bytes[i][d] <= unclaimed'[i][d] - unclaimed[i][d]

LEMMA TickCountsBusy ==
  ASSUME CollectorTypeOK, Tick
  PROVE  BusyTick
<1>1. PICK B \in SUBSET online :
        LET more(l, S) == IF l = 0 THEN Cardinality(S) ELSE IF l \in S THEN 1 ELSE 0
        IN  /\ busy' = [l \in Lines |-> busy[l] + more(l, B)]
            /\ idle' = [l \in Lines |-> idle[l] + more(l, online \ B)]
            /\ uncounted' = [l \in Lines |-> uncounted[l] + more(l, B)]
  BY DEF Tick
<1> DEFINE more(l, S) == IF l = 0 THEN Cardinality(S) ELSE IF l \in S THEN 1 ELSE 0
<1>2. \A l \in Lines : more(l, B) \in Nat /\ more(l, online \ B) \in Nat
  BY CardinalityOfCores DEF CollectorTypeOK
<1>3. \A l \in Lines : busy[l] \in Nat /\ idle[l] \in Nat /\ uncounted[l] \in Int
  BY DEF CollectorTypeOK
<1>4. /\ busy' = [l \in Lines |-> busy[l] + more(l, B)]
      /\ idle' = [l \in Lines |-> idle[l] + more(l, online \ B)]
      /\ uncounted' = [l \in Lines |-> uncounted[l] + more(l, B)]
  BY <1>1
<1> HIDE DEF more
<1>5. \A l \in Lines : /\ busy'[l] = busy[l] + more(l, B)
                       /\ idle'[l] = idle[l] + more(l, online \ B)
                       /\ uncounted'[l] = uncounted[l] + more(l, B)
  BY <1>4
<1>6. busy' \in [Lines -> Nat] /\ idle' \in [Lines -> Nat] /\ uncounted' \in [Lines -> Int]
  <2>1. \A l \in Lines : busy[l] + more(l, B) \in Nat /\ idle[l] + more(l, online \ B) \in Nat
                         /\ uncounted[l] + more(l, B) \in Int
    <3> SUFFICES ASSUME NEW l \in Lines
                 PROVE  busy[l] + more(l, B) \in Nat /\ idle[l] + more(l, online \ B) \in Nat
                        /\ uncounted[l] + more(l, B) \in Int
      OBVIOUS
    <3>1. more(l, B) \in Nat /\ more(l, online \ B) \in Nat
      BY <1>2
    <3>2. busy[l] \in Nat /\ idle[l] \in Nat /\ uncounted[l] \in Int
      BY <1>3
    <3> QED
      BY <3>1, <3>2
  <2> QED
    BY <1>4, <2>1
<1>7. \A l \in Lines : busy'[l] - busy[l] \in Nat /\ uncounted'[l] - uncounted[l] = busy'[l] - busy[l]
  BY <1>2, <1>3, <1>5
<1> QED
  BY <1>6, <1>7 DEF BusyTick

LEMMA TickCountsBytes ==
  ASSUME CollectorTypeOK, Tick
  PROVE  BytesTick
<1>1. PICK traffic \in [present -> [Directions -> 0..Speed]] :
        LET more(i, d) == IF i \in present THEN traffic[i][d] ELSE 0
        IN  /\ bytes' = [i \in Interfaces |->
                            [d \in Directions |-> (bytes[i][d] + more(i, d)) % Word]]
            /\ unclaimed' = [i \in Interfaces |->
                                [d \in Directions |-> unclaimed[i][d] + more(i, d)]]
  BY DEF Tick
<1> DEFINE more(i, d) == IF i \in present THEN traffic[i][d] ELSE 0
<1>2. \A i \in Interfaces, d \in Directions : more(i, d) \in Nat
  BY CollectorAssumption
<1>3. \A i \in Interfaces, d \in Directions : bytes[i][d] \in Nat /\ unclaimed[i][d] \in Int
  BY DEF CollectorTypeOK, CounterPair
<1>4. /\ bytes' = [i \in Interfaces |->
                     [d \in Directions |-> (bytes[i][d] + more(i, d)) % Word]]
      /\ unclaimed' = [i \in Interfaces |->
                         [d \in Directions |-> unclaimed[i][d] + more(i, d)]]
  BY <1>1
<1> HIDE DEF more
<1>5. \A i \in Interfaces, d \in Directions :
        /\ bytes'[i][d] \in Nat
        /\ bytes'[i][d] <= bytes[i][d] + more(i, d)
        /\ unclaimed'[i][d] = unclaimed[i][d] + more(i, d)
  <2> SUFFICES ASSUME NEW i \in Interfaces, NEW d \in Directions
               PROVE  /\ bytes'[i][d] \in Nat
                      /\ bytes'[i][d] <= bytes[i][d] + more(i, d)
                      /\ unclaimed'[i][d] = unclaimed[i][d] + more(i, d)
    OBVIOUS
  <2>1. bytes[i][d] + more(i, d) \in Nat
    BY <1>2, <1>3
  <2>2. bytes'[i][d] = (bytes[i][d] + more(i, d)) % Word
    BY <1>4
  <2> QED
    BY <1>4, <2>1, <2>2, Remainder, CollectorAssumption
<1>6. bytes' \in [Interfaces -> CounterPair]
  BY <1>4, <1>5 DEF CounterPair
<1>7. unclaimed' \in [Interfaces -> [Directions -> Int]]
  BY <1>2, <1>3, <1>4
<1> QED
  BY <1>2, <1>3, <1>5, <1>6, <1>7 DEF BytesTick

(* What networkStats publishes is a rate, whatever the clock was set to.   *)
LEMMA ReadNetworkIsRate ==
  ASSUME CollectorTypeOK, ReadNetwork, NEW i \in DOMAIN rates'
  PROVE  IsRate(rates'[i])
<1> DEFINE delta(d) == (bytes[i][d] - previousNetwork[i][d]) % Word
<1>1. /\ Rated(i)
      /\ rates'[i] = [rx |-> delta("rx"), tx |-> delta("tx"),
                      elapsed |-> Elapsed, setBack |-> between]
  BY DEF ReadNetwork
<1>2. ASSUME NEW d \in Directions
      PROVE  delta(d) \in 0..Word-1
  <2>1. bytes[i][d] - previousNetwork[i][d] \in Nat
    BY <1>1 DEF Rated, CollectorTypeOK, CounterPair
  <2>2. \A n \in Nat : n % Word \in 0..Word-1
    BY CollectorAssumption
  <2> QED
    BY <2>1, <2>2
<1>3. Elapsed \in Nat \ {0} /\ between \in Int
  BY <1>1 DEF Rated, Elapsed, CollectorTypeOK
<1> HIDE DEF delta
<1> QED
  BY <1>1, <1>2, <1>3 DEF IsRate, Directions

LEMMA TypeStep ==
  ASSUME CollectorTypeOK, [CollectorNext]_collectorVars
  PROVE  CollectorTypeOK'
<1> USE DEF CollectorTypeOK
<1>1. CASE Tick
  <2>1. BusyTick /\ BytesTick
    BY <1>1, TickCountsBusy, TickCountsBytes
  <2>2. /\ now' = now + 1 /\ wall' = wall + 1 /\ spent' \in Nat
        /\ UNCHANGED <<machine, online, present, at, stamp, previous, previousNetwork,
                       previousNetworkAt, rates, setBack, between>>
    BY <1>1 DEF Tick, sample, settings
  <2> QED
    BY <2>1, <2>2 DEF BusyTick, BytesTick
<1>2. CASE IdleGoesBack
  <2>1. PICK c \in Cores : /\ idle[c] > 0 /\ idle[0] > 0
                           /\ idle' = [idle EXCEPT ![c] = @ - 1, ![0] = @ - 1]
    BY <1>2 DEF IdleGoesBack
  <2>2. c \in Lines /\ 0 \in Lines /\ c # 0
    BY CollectorAssumption DEF Cores, Lines
  <2>3. idle' \in [Lines -> Nat]
    BY <2>1, <2>2
  <2> QED
    BY <1>2, <2>3 DEF IdleGoesBack, collector, sample, counts, settings
<1>3. CASE Hotplug
  <2>1. machine.cores \in 0..NumCores
    BY CollectorAssumption
  <2>2. online' \subseteq Cores
    BY <1>3, <2>1, CollectorAssumption DEF Hotplug, Cores
  <2> QED
    BY <1>3, <2>2 DEF Hotplug, collector, sample, counts, settings
<1>4. CASE Plug
  <2>1. machine.interfaces \subseteq Interfaces
    BY CollectorAssumption
  <2>2. present' \subseteq Interfaces /\ bytes' \in [Interfaces -> CounterPair]
    BY <1>4, <2>1 DEF Plug, Zero, CounterPair, Directions
  <2> QED
    BY <1>4, <2>2 DEF Plug, collector, sample, counts, settings
<1>5. CASE CollectBegin
  BY <1>5 DEF CollectBegin, kernel, sample, counts, settings
<1>6. CASE ReadSensor
  BY <1>6 DEF ReadSensor, kernel, sample, counts, settings
<1>7. CASE ReadStat
  <2>1. \A l \in DOMAIN Current : l \in Lines /\ Current[l] \in TimesOfLine
    <3>1. DOMAIN Current \subseteq Lines
      BY CollectorAssumption DEF Current, Lines, Cores
    <3>2. \A l \in DOMAIN Current :
            Current[l] = [idle |-> idle[l], total |-> idle[l] + busy[l]]
      BY DEF Current
    <3> HIDE DEF Current
    <3>3. \A l \in Lines : idle[l] \in Nat /\ idle[l] + busy[l] \in Nat
      OBVIOUS
    <3> QED
      BY <3>1, <3>2, <3>3 DEF TimesOfLine
  <2>2. \A l \in Lines : Usable(l) => Since(l).total - Since(l).idle \in Int
    BY <2>1 DEF Usable, Since, TimesOfLine
  <2>3. uncounted' \in [Lines -> Int]
    BY <1>7, <2>2 DEF ReadStat
  <2>4. previous' = <<Current>>
    BY <1>7 DEF ReadStat
  <2>5. previous'[1] = Current
    BY <2>4
  <2> HIDE DEF Current
  <2> QED
    BY <1>7, <2>1, <2>3, <2>4, <2>5 DEF ReadStat, kernel, settings
<1>8. CASE ReadStatFails
  BY <1>8 DEF ReadStatFails, kernel, counts, settings
<1>9. CASE ReadNetwork
  <2>1. PICK readable \in SUBSET present :
          /\ unclaimed' = [i \in Interfaces |-> [d \in Directions |->
                unclaimed[i][d] - IF i \in readable /\ Rated(i)
                                  THEN (bytes[i][d] - previousNetwork[i][d]) % Word ELSE 0]]
          /\ previousNetwork' = Remember(readable)
    BY <1>9 DEF ReadNetwork
  <2>2. \A i \in Interfaces, d \in Directions : Rated(i) =>
          (bytes[i][d] - previousNetwork[i][d]) % Word \in Int
    BY CollectorAssumption DEF Rated, CounterPair
  <2>3. unclaimed' \in [Interfaces -> [Directions -> Int]]
    BY <2>1, <2>2
  <2>4. DOMAIN previousNetwork' \subseteq Interfaces
        /\ \A i \in DOMAIN previousNetwork' : previousNetwork'[i] \in CounterPair
    BY <2>1 DEF Remember
  <2>5. \A i \in DOMAIN rates' : IsRate(rates'[i])
    BY <1>9, ReadNetworkIsRate
  <2> QED
    BY <1>9, <2>3, <2>4, <2>5 DEF ReadNetwork, kernel
<1>10. CASE SetClock
  <2>1. PICK setting \in machine.settings :
          wall' = setting[2] /\ setBack' = setBack + (wall - setting[2])
    BY <1>10 DEF SetClock
  <2>2. wall' \in Int /\ setBack' \in Int
    BY <2>1, CollectorAssumption
  <2> QED
    BY <1>10, <2>2 DEF SetClock, collector, sample, counts
<1>11. CASE UNCHANGED collectorVars
  BY <1>11 DEF collectorVars, kernel, collector, sample, counts, settings
<1> QED
  BY <1>1, <1>2, <1>3, <1>4, <1>5, <1>6, <1>7, <1>8, <1>9, <1>10, <1>11 DEF CollectorNext

(* CollectorTypeOK.                                                        *)
THEOREM CollectorTypes == CollectorSpec => []CollectorTypeOK
<1>1. CollectorTypeOK /\ [CollectorNext]_collectorVars => CollectorTypeOK'
  BY TypeStep
<1> QED
  BY TypeInit, <1>1, PTL DEF CollectorSpec

-----------------------------------------------------------------------------
(* CPU time: the busy ticks a line had at the last read are accounted for, *)
(* and no fewer than those since are left to count.                        *)
BusyAt(l) == previous[1][l].total - previous[1][l].idle

BusyInv ==
  /\ \A l \in Lines : uncounted[l] >= 0
  /\ previous # <<>> =>
       \A l \in DOMAIN previous[1] :
         BusyAt(l) <= busy[l] /\ busy[l] - BusyAt(l) <= uncounted[l]

LEMMA ReadStatCounts ==
  ASSUME CollectorTypeOK, BusyInv, ReadStat
  PROVE  BusyInv' /\ UsageIsAPercentage'
<1>1. /\ usage' = [l \in {k \in Lines : Usable(k)} |-> Since(l)]
      /\ uncounted' = [l \in Lines |->
           uncounted[l] - IF Usable(l) THEN Since(l).total - Since(l).idle ELSE 0]
      /\ previous' = <<Current>> /\ busy' = busy
  BY DEF ReadStat, kernel
<1>2. \A l \in DOMAIN Current : l \in Lines /\ Current[l].idle \in Nat
         /\ Current[l].total \in Nat /\ Current[l].total - Current[l].idle = busy[l]
  <2>1. DOMAIN Current \subseteq Lines
    BY CollectorAssumption DEF CollectorTypeOK, Current, Lines, Cores
  <2>2. \A l \in DOMAIN Current :
          Current[l].idle = idle[l] /\ Current[l].total = idle[l] + busy[l]
    BY DEF Current
  <2>3. \A l \in Lines : idle[l] \in Nat /\ busy[l] \in Nat
    BY DEF CollectorTypeOK
  <2> HIDE DEF Current
  <2> QED
    BY <2>1, <2>2, <2>3
<1>3. \A l \in Lines : Usable(l) =>
        /\ Since(l).total \in Int /\ Since(l).idle \in Int
        /\ Since(l).total > 0 /\ Since(l).idle >= 0
        /\ Since(l).total - Since(l).idle = busy[l] - BusyAt(l)
  <2> SUFFICES ASSUME NEW l \in Lines, Usable(l)
               PROVE  /\ Since(l).total \in Int /\ Since(l).idle \in Int
                      /\ Since(l).total > 0 /\ Since(l).idle >= 0
                      /\ Since(l).total - Since(l).idle = busy[l] - BusyAt(l)
    OBVIOUS
  <2>1. /\ previous # <<>> /\ l \in DOMAIN Current /\ l \in DOMAIN previous[1]
        /\ Current[l].total > previous[1][l].total
        /\ Current[l].idle >= previous[1][l].idle
    BY DEF Usable
  <2>2. previous[1][l].idle \in Nat /\ previous[1][l].total \in Nat
    BY <2>1 DEF CollectorTypeOK, TimesOfLine
  <2>3. /\ Since(l).idle = Current[l].idle - previous[1][l].idle
        /\ Since(l).total = Current[l].total - previous[1][l].total
    BY DEF Since
  <2> HIDE DEF Current, Since
  <2> QED
    BY <1>2, <2>1, <2>2, <2>3 DEF BusyAt
<1>4. \A l \in Lines : uncounted[l] \in Int /\ busy[l] \in Nat
  BY DEF CollectorTypeOK
<1>5. \A l \in Lines : Usable(l) => BusyAt(l) \in Int /\ BusyAt(l) <= busy[l]
                                    /\ busy[l] - BusyAt(l) <= uncounted[l]
  BY DEF Usable, BusyInv, BusyAt, CollectorTypeOK, TimesOfLine
<1>6. \A l \in Lines : uncounted'[l] >= 0
  <2>1. \A l \in Lines : uncounted'[l] =
           uncounted[l] - IF Usable(l) THEN Since(l).total - Since(l).idle ELSE 0
    BY <1>1
  <2> HIDE DEF Usable, Since
  <2> QED
    BY <1>3, <1>4, <1>5, <2>1 DEF BusyInv
<1>7. previous'[1] = Current
  BY <1>1
<1>8. BusyInv'
  <2>1. \A l \in DOMAIN previous'[1] :
           BusyAt(l)' <= busy'[l] /\ busy'[l] - BusyAt(l)' <= uncounted'[l]
    BY <1>1, <1>2, <1>4, <1>6, <1>7 DEF BusyAt
  <2> QED
    BY <1>6, <2>1 DEF BusyInv
<1>9. UsageIsAPercentage'
  <2>1. \A l \in DOMAIN usage' : l \in Lines /\ Usable(l) /\ usage'[l] = Since(l)
    BY <1>1
  <2> HIDE DEF Usable, Since
  <2> QED
    BY <1>3, <1>4, <1>5, <2>1 DEF UsageIsAPercentage
<1> QED
  BY <1>8, <1>9

LEMMA BusyStep ==
  ASSUME CollectorTypeOK, BusyInv, UsageIsAPercentage, [CollectorNext]_collectorVars
  PROVE  BusyInv' /\ UsageIsAPercentage'
<1>1. CASE Tick
  <2>1. BusyTick /\ UNCHANGED <<previous, usage>>
    BY <1>1, TickCountsBusy DEF Tick, sample
  <2>2. \A l \in Lines : busy[l] \in Nat /\ busy'[l] \in Nat /\ uncounted[l] \in Int
                         /\ uncounted'[l] \in Int
    BY <2>1 DEF CollectorTypeOK, BusyTick
  <2>3. \A l \in Lines : uncounted'[l] >= 0
    <3> SUFFICES ASSUME NEW l \in Lines PROVE uncounted'[l] >= 0
      OBVIOUS
    <3>1. busy'[l] - busy[l] \in Nat /\ uncounted'[l] - uncounted[l] = busy'[l] - busy[l]
      BY <2>1 DEF BusyTick
    <3>2. uncounted[l] \in Int /\ uncounted'[l] \in Int /\ uncounted[l] >= 0
      BY <2>2 DEF BusyInv
    <3> QED
      BY <2>2, <3>1, <3>2
  <2>4. previous # <<>> => \A l \in DOMAIN previous[1] : l \in Lines /\ BusyAt(l) \in Int
    BY DEF CollectorTypeOK, TimesOfLine, BusyAt
  <2>5. \A l : BusyAt(l)' = BusyAt(l)
    BY <2>1 DEF BusyAt
  <2>6. previous # <<>> => \A l \in DOMAIN previous[1] :
           BusyAt(l) <= busy'[l] /\ busy'[l] - BusyAt(l) <= uncounted'[l]
    <3> SUFFICES ASSUME previous # <<>>, NEW l \in DOMAIN previous[1]
                 PROVE  BusyAt(l) <= busy'[l] /\ busy'[l] - BusyAt(l) <= uncounted'[l]
      OBVIOUS
    <3>1. l \in Lines /\ BusyAt(l) \in Int
      BY <2>4
    <3>2. BusyAt(l) <= busy[l] /\ busy[l] - BusyAt(l) <= uncounted[l]
      BY DEF BusyInv
    <3>3. busy'[l] - busy[l] \in Nat /\ uncounted'[l] - uncounted[l] = busy'[l] - busy[l]
      BY <2>1, <3>1 DEF BusyTick
    <3>4. busy[l] \in Nat /\ busy'[l] \in Nat /\ uncounted[l] \in Int /\ uncounted'[l] \in Int
      BY <2>2, <3>1
    <3> HIDE DEF BusyAt
    <3> QED
      BY <3>1, <3>2, <3>3, <3>4
  <2> QED
    BY <2>1, <2>3, <2>5, <2>6 DEF BusyInv, UsageIsAPercentage
<1>2. CASE ReadStat
  BY <1>2, ReadStatCounts
<1>3. CASE ReadStatFails
  BY <1>3 DEF ReadStatFails, kernel, counts, settings, BusyInv, BusyAt, UsageIsAPercentage, Nothing
<1>4. CASE SetClock \/ IdleGoesBack \/ Hotplug \/ Plug \/ CollectBegin \/ ReadSensor
           \/ ReadNetwork \/ UNCHANGED collectorVars
  <2>1. UNCHANGED <<busy, previous, usage, uncounted>>
    BY <1>4 DEF SetClock, IdleGoesBack, Hotplug, Plug, CollectBegin, ReadSensor, ReadNetwork,
                kernel, collector, sample, counts, settings, collectorVars
  <2> QED
    BY <2>1 DEF BusyInv, BusyAt, UsageIsAPercentage
<1> QED
  BY <1>1, <1>2, <1>3, <1>4 DEF CollectorNext

LEMMA Counting == CollectorSpec => [](BusyInv /\ UsageIsAPercentage)
<1>1. CollectorInit => BusyInv /\ UsageIsAPercentage
  BY DEF CollectorInit, BusyInv, UsageIsAPercentage, Nothing
<1>2. CollectorTypeOK /\ BusyInv /\ UsageIsAPercentage /\ [CollectorNext]_collectorVars
        => BusyInv' /\ UsageIsAPercentage'
  BY BusyStep
<1> QED
  BY <1>1, <1>2, CollectorTypes, PTL DEF CollectorSpec

(* UsageIsAPercentage: the unsigned differences never go below zero.       *)
THEOREM UsagesArePercentages == CollectorSpec => []UsageIsAPercentage
BY Counting, PTL

(* BusyTimeCountedOnce: no tick a core was busy is in two samples.         *)
THEOREM NoBusyTimeTwice == CollectorSpec => []BusyTimeCountedOnce
<1>1. BusyInv => BusyTimeCountedOnce
  BY DEF BusyInv, BusyTimeCountedOnce
<1> QED
  BY <1>1, Counting, PTL

-----------------------------------------------------------------------------
(* Network traffic: what a counter went up by since it was remembered has  *)
(* been carried, and is left to count.  It may have gone back since.       *)
TrafficInv ==
  /\ \A i \in Interfaces, d \in Directions : unclaimed[i][d] >= 0
  /\ \A i \in DOMAIN previousNetwork, d \in Directions :
       bytes[i][d] - previousNetwork[i][d] <= unclaimed[i][d]

LEMMA TickClaims ==
  ASSUME CollectorTypeOK, TrafficInv, Tick
  PROVE  TrafficInv'
<1>1. BytesTick /\ previousNetwork' = previousNetwork
  BY TickCountsBytes DEF Tick
<1>2. ASSUME NEW i \in Interfaces, NEW d \in Directions
      PROVE  /\ bytes[i][d] \in Nat /\ bytes'[i][d] \in Nat
             /\ unclaimed[i][d] \in Int /\ unclaimed'[i][d] \in Int
             /\ unclaimed'[i][d] >= unclaimed[i][d] /\ unclaimed[i][d] >= 0
             /\ bytes'[i][d] - bytes[i][d] <= unclaimed'[i][d] - unclaimed[i][d]
  BY <1>1 DEF CollectorTypeOK, CounterPair, BytesTick, TrafficInv
<1>3. \A i \in Interfaces, d \in Directions : unclaimed'[i][d] >= 0
  BY <1>2
<1>4. ASSUME NEW i \in DOMAIN previousNetwork, NEW d \in Directions
      PROVE  bytes'[i][d] - previousNetwork[i][d] <= unclaimed'[i][d]
  <2>1. i \in Interfaces /\ previousNetwork[i][d] \in Nat
    BY DEF CollectorTypeOK, CounterPair
  <2>2. bytes[i][d] - previousNetwork[i][d] <= unclaimed[i][d]
    BY DEF TrafficInv
  <2> QED
    BY <1>2, <2>1, <2>2
<1> QED
  BY <1>1, <1>3, <1>4 DEF TrafficInv

(* A counter that starts again is below what was remembered of it.         *)
LEMMA PlugClaims ==
  ASSUME CollectorTypeOK, TrafficInv, Plug
  PROVE  TrafficInv'
<1>1. PICK j : bytes' = [bytes EXCEPT ![j] = Zero]
  BY DEF Plug
<1>2. unclaimed' = unclaimed /\ previousNetwork' = previousNetwork
  BY DEF Plug, collector, counts
<1>3. ASSUME NEW i \in DOMAIN previousNetwork, NEW d \in Directions
      PROVE  bytes'[i][d] - previousNetwork[i][d] <= unclaimed[i][d]
  <2>1. i \in Interfaces /\ previousNetwork[i][d] \in Nat /\ bytes[i][d] \in Nat
    BY DEF CollectorTypeOK, CounterPair
  <2>2. bytes[i][d] - previousNetwork[i][d] <= unclaimed[i][d] /\ unclaimed[i][d] >= 0
    BY <2>1 DEF TrafficInv
  <2>3. unclaimed[i][d] \in Int
    BY <2>1 DEF CollectorTypeOK
  <2>4. bytes'[i] = IF i = j THEN Zero ELSE bytes[i]
    BY <1>1, <2>1 DEF CollectorTypeOK
  <2>5. Zero[d] = 0
    BY DEF Zero, Directions
  <2>6. bytes'[i][d] = 0 \/ bytes'[i][d] = bytes[i][d]
    BY <2>4, <2>5
  <2> QED
    BY <2>1, <2>2, <2>3, <2>6
<1> QED
  BY <1>2, <1>3 DEF TrafficInv

LEMMA ReadNetworkClaims ==
  ASSUME CollectorTypeOK, TrafficInv, ReadNetwork
  PROVE  TrafficInv'
<1>1. PICK readable \in SUBSET present :
        /\ unclaimed' = [i \in Interfaces |-> [d \in Directions |->
              unclaimed[i][d] - IF i \in readable /\ Rated(i)
                                THEN (bytes[i][d] - previousNetwork[i][d]) % Word ELSE 0]]
        /\ previousNetwork' = Remember(readable)
        /\ bytes' = bytes
  BY DEF ReadNetwork, kernel
<1>2. ASSUME NEW i \in Interfaces, NEW d \in Directions
      PROVE  unclaimed'[i][d] >= 0
  <2>1. unclaimed[i][d] \in Int /\ unclaimed[i][d] >= 0 /\ bytes[i][d] \in Nat
    BY DEF CollectorTypeOK, CounterPair, TrafficInv
  <2>2. CASE i \in readable /\ Rated(i)
    <3>1. /\ previousNetwork[i][d] \in Nat /\ bytes[i][d] >= previousNetwork[i][d]
          /\ bytes[i][d] - previousNetwork[i][d] <= unclaimed[i][d]
      BY <2>2 DEF Rated, TrafficInv, CollectorTypeOK, CounterPair
    <3> DEFINE n == bytes[i][d] - previousNetwork[i][d]
    <3>2. n \in Nat /\ n <= unclaimed[i][d]
      BY <2>1, <3>1
    <3> DEFINE delta == n % Word
    <3>3. delta \in Nat /\ delta <= n
      <4> HIDE DEF n
      <4> QED
        BY <3>2, Remainder, CollectorAssumption
    <3>4. unclaimed'[i][d] = unclaimed[i][d] - delta
      <4>1. unclaimed'[i][d] = unclaimed[i][d] - IF i \in readable /\ Rated(i)
                                                 THEN delta ELSE 0
        BY <1>1, Zenon
      <4> HIDE DEF delta
      <4> QED
        BY <2>2, <4>1
    <3> HIDE DEF delta, n
    <3> QED
      BY <2>1, <3>2, <3>3, <3>4
  <2>3. CASE ~(i \in readable /\ Rated(i))
    <3>1. unclaimed'[i][d] = unclaimed[i][d] - 0
      BY <1>1, <2>3
    <3> QED
      BY <2>1, <3>1
  <2> QED
    BY <2>2, <2>3
<1>3. ASSUME NEW i \in DOMAIN previousNetwork', NEW d \in Directions
      PROVE  bytes'[i][d] - previousNetwork'[i][d] <= unclaimed'[i][d]
  <2>1. i \in Interfaces /\ previousNetwork'[i] = bytes[i]
    BY <1>1 DEF CollectorTypeOK, Remember
  <2>2. bytes[i][d] \in Nat
    BY <2>1 DEF CollectorTypeOK, CounterPair
  <2>3. bytes'[i][d] - previousNetwork'[i][d] = 0
    BY <1>1, <2>1, <2>2
  <2> QED
    BY <1>2, <2>1, <2>3
<1> QED
  BY <1>2, <1>3 DEF TrafficInv

LEMMA Claiming == CollectorSpec => []TrafficInv
<1>1. CollectorInit => TrafficInv
  BY DEF CollectorInit, TrafficInv, Nothing, Zero, Directions
<1>2. ASSUME CollectorTypeOK, TrafficInv, [CollectorNext]_collectorVars
      PROVE  TrafficInv'
  <2>1. CASE Tick
    BY <2>1, <1>2, TickClaims
  <2>2. CASE Plug
    BY <2>2, <1>2, PlugClaims
  <2>3. CASE ReadNetwork
    BY <2>3, <1>2, ReadNetworkClaims
  <2>4. CASE SetClock \/ IdleGoesBack \/ Hotplug \/ CollectBegin \/ ReadSensor \/ ReadStat
             \/ ReadStatFails \/ UNCHANGED collectorVars
    <3>1. UNCHANGED <<bytes, previousNetwork, unclaimed>>
      BY <2>4 DEF SetClock, IdleGoesBack, Hotplug, CollectBegin, ReadSensor, ReadStat, ReadStatFails,
                  kernel, collector, sample, counts, settings, collectorVars
    <3> QED
      BY <1>2, <3>1 DEF TrafficInv
  <2> QED
    BY <1>2, <2>1, <2>2, <2>3, <2>4 DEF CollectorNext
<1> QED
  BY <1>1, <1>2, CollectorTypes, PTL DEF CollectorSpec

(* TrafficCountedOnce: no byte is in two samples, and none is made up.     *)
THEOREM NoTrafficTwice == CollectorSpec => []TrafficCountedOnce
<1>1. TrafficInv => TrafficCountedOnce
  BY DEF TrafficInv, TrafficCountedOnce
<1> QED
  BY <1>1, Claiming, PTL

-----------------------------------------------------------------------------
(* Rates: the time there really was since the timestamp, and since the one *)
(* the counters were remembered with.  The wall clock does not tell, but   *)
(* with what it was set back by it does.                                   *)
SinceStamp == wall + setBack - stamp
SinceRemembered == wall + setBack + between - previousNetworkAt

ClockInv == SinceStamp >= 0 /\ SinceRemembered >= 0 /\ (at = "idle" => between = 0)

(* How late a step of Collect may be after the timestamp, for only the two *)
(* sensors take time.                                                      *)
Late(ticks) == SinceStamp <= ticks

DelayInv ==
  /\ at = "temperature" => spent <= CommandTimeout /\ Late(spent)
  /\ at = "frequency" => spent <= CommandTimeout /\ Late(CommandTimeout + spent)
  /\ at \in {"stat", "network"} => Late(2 * CommandTimeout)

(* The most a counter can have gone up by since the timestamp its value    *)
(* was remembered with.  It was read later than that.                      *)
SpeedInv ==
  \A i \in DOMAIN previousNetwork, d \in Directions :
    bytes[i][d] - previousNetwork[i][d] <= Speed * SinceRemembered

RateInv == ClockInv /\ DelayInv /\ SpeedInv /\ RatesStayNearLineSpeed

(* Only a tick is time that passes, whatever is done to the clock.         *)
LEMMA ClockStep ==
  ASSUME CollectorTypeOK, ClockInv, [CollectorNext]_collectorVars
  PROVE  /\ ClockInv'
         /\ SinceStamp' = IF CollectBegin THEN 0 ELSE IF Tick THEN SinceStamp + 1 ELSE SinceStamp
         /\ SinceRemembered' = IF ReadNetwork THEN SinceStamp
                               ELSE IF Tick THEN SinceRemembered + 1 ELSE SinceRemembered
<1> USE DEF SinceStamp, SinceRemembered, ClockInv
<1>1. /\ now \in Nat /\ wall \in Int /\ stamp \in Int /\ previousNetworkAt \in Int
      /\ setBack \in Int /\ between \in Int
  BY DEF CollectorTypeOK
<1>2. CASE Tick
  <2>1. /\ wall' = wall + 1 /\ UNCHANGED <<at, stamp, previousNetworkAt, setBack, between>>
        /\ ~CollectBegin /\ ~ReadNetwork
    BY <1>1, <1>2 DEF Tick, CollectBegin, ReadNetwork, kernel, settings
  <2> QED
    BY <1>1, <1>2, <2>1
<1>3. CASE CollectBegin
  <2>1. /\ at = "idle" /\ at' = "temperature" /\ stamp' = wall /\ between' = setBack
        /\ setBack' = 0 /\ UNCHANGED <<wall, previousNetworkAt>> /\ ~Tick /\ ~ReadNetwork
    BY <1>1, <1>3 DEF Tick, CollectBegin, ReadNetwork, kernel
  <2> QED
    BY <1>1, <1>3, <2>1
<1>4. CASE ReadNetwork
  <2>1. /\ previousNetworkAt' = stamp /\ between' = 0
        /\ UNCHANGED <<wall, stamp, setBack>> /\ ~Tick /\ ~CollectBegin
    BY <1>1, <1>4 DEF Tick, CollectBegin, ReadNetwork, kernel
  <2> QED
    BY <1>1, <1>4, <2>1
<1>5. CASE SetClock
  <2>1. UNCHANGED <<now, at, stamp, previousNetworkAt, between>>
    BY <1>5 DEF SetClock, collector
  <2>2. PICK time \in Int : wall' = time /\ setBack' = setBack + (wall - time)
    BY <1>5, CollectorAssumption DEF SetClock, CollectorTypeOK
  <2>3. ~Tick /\ ~CollectBegin /\ ~ReadNetwork
    BY <1>1, <2>1 DEF Tick, CollectBegin, ReadNetwork
  <2>4. wall' + setBack' = wall + setBack
    BY <1>1, <2>2
  <2> QED
    BY <1>1, <2>1, <2>2, <2>3, <2>4
<1>6. CASE ReadSensor \/ ReadStat \/ ReadStatFails \/ IdleGoesBack \/ Hotplug \/ Plug
           \/ UNCHANGED collectorVars
  <2>1. UNCHANGED <<now, wall, stamp, previousNetworkAt, setBack, between>>
        /\ (at' = at \/ (at # "idle" /\ at' # "idle"))
    BY <1>6 DEF ReadSensor, ReadStat, ReadStatFails, IdleGoesBack, Hotplug, Plug, kernel,
                collector, settings, collectorVars
  <2>2. ~Tick /\ ~CollectBegin /\ ~ReadNetwork
    BY <1>1, <2>1 DEF Tick, CollectBegin, ReadNetwork
  <2> QED
    BY <1>1, <2>1, <2>2
<1> QED
  BY <1>2, <1>3, <1>4, <1>5, <1>6 DEF CollectorNext

LEMMA DelayStep ==
  ASSUME CollectorTypeOK, ClockInv, DelayInv, [CollectorNext]_collectorVars
  PROVE  DelayInv'
<1>1. /\ SinceStamp \in Int /\ spent \in Nat /\ CommandTimeout \in Nat
      /\ at \in {"idle", "temperature", "frequency", "stat", "network"}
  BY CollectorAssumption DEF CollectorTypeOK, SinceStamp
<1>2. SinceStamp' = IF CollectBegin THEN 0 ELSE IF Tick THEN SinceStamp + 1 ELSE SinceStamp
  BY ClockStep
<1>3. CASE Tick
  <2>1. /\ at' = at /\ ~CollectBegin
        /\ \/ at = "idle"
           \/ at \in {"temperature", "frequency"} /\ spent < CommandTimeout /\ spent' = spent + 1
    BY <1>3 DEF Tick, CollectBegin
  <2>2. SinceStamp' = SinceStamp + 1
    BY <1>2, <1>3, <2>1
  <2> QED
    BY <1>1, <2>1, <2>2 DEF DelayInv, Late
<1>4. CASE CollectBegin
  <2>1. at' = "temperature" /\ spent' = 0
    BY <1>4 DEF CollectBegin
  <2>2. SinceStamp' = 0
    BY <1>2, <1>4
  <2> QED
    BY <1>1, <2>1, <2>2 DEF DelayInv, Late
<1>5. CASE ReadSensor \/ ReadStat \/ ReadStatFails \/ ReadNetwork \/ SetClock \/ IdleGoesBack
           \/ Hotplug \/ Plug \/ UNCHANGED collectorVars
  <2>1. CASE Tick \/ CollectBegin
    BY <1>3, <1>4, <2>1
  <2>2. CASE ~Tick /\ ~CollectBegin
    <3>1. SinceStamp' = SinceStamp
      BY <1>2, <2>2
    <3>2. CASE ReadSensor
      BY <1>1, <3>1, <3>2 DEF ReadSensor, DelayInv, Late
    <3>3. CASE ReadStat \/ ReadStatFails
      BY <1>1, <3>1, <3>3 DEF ReadStat, ReadStatFails, DelayInv, Late
    <3>4. CASE ReadNetwork
      BY <3>4 DEF ReadNetwork, DelayInv
    <3>5. CASE SetClock \/ IdleGoesBack \/ Hotplug \/ Plug \/ UNCHANGED collectorVars
      <4>1. UNCHANGED <<at, spent>>
        BY <3>5 DEF SetClock, IdleGoesBack, Hotplug, Plug, collectorVars, collector
      <4> QED
        BY <3>1, <4>1 DEF DelayInv, Late
    <3> QED
      BY <1>5, <3>2, <3>3, <3>4, <3>5
  <2> QED
    BY <2>1, <2>2
<1> QED
  BY <1>3, <1>4, <1>5 DEF CollectorNext

(* In a tick a counter goes up by what the line carries, or wraps.         *)
LEMMA TickCarries ==
  ASSUME CollectorTypeOK, Tick, NEW i \in Interfaces, NEW d \in Directions
  PROVE  bytes'[i][d] \in Nat /\ bytes'[i][d] <= bytes[i][d] + Speed
<1>1. PICK traffic \in [present -> [Directions -> 0..Speed]] :
        bytes' = [j \in Interfaces |-> [e \in Directions |->
                    (bytes[j][e] + IF j \in present THEN traffic[j][e] ELSE 0) % Word]]
  BY DEF Tick
<1>2. PICK n \in 0..Speed : bytes'[i][d] = (bytes[i][d] + n) % Word
  <2>1. bytes'[i][d] = (bytes[i][d] + IF i \in present THEN traffic[i][d] ELSE 0) % Word
    BY <1>1, Zenon
  <2>2. (IF i \in present THEN traffic[i][d] ELSE 0) \in 0..Speed
    BY CollectorAssumption
  <2> QED
    BY <2>1, <2>2
<1>3. bytes[i][d] \in Nat /\ Word \in Nat \ {0} /\ Speed \in Nat
  BY CollectorAssumption DEF CollectorTypeOK, CounterPair
<1>4. PICK m \in Nat : m = bytes[i][d] + n
  BY <1>3
<1>5. m % Word \in Nat /\ m % Word <= m
  BY <1>3, Remainder
<1>6. m <= bytes[i][d] + Speed
  BY <1>3, <1>4
<1> QED
  BY <1>2, <1>3, <1>4, <1>5, <1>6

LEMMA SpeedStep ==
  ASSUME CollectorTypeOK, ClockInv, SpeedInv, [CollectorNext]_collectorVars
  PROVE  SpeedInv'
<1>1. SinceStamp \in Nat /\ SinceRemembered \in Nat /\ Speed \in Nat
  BY CollectorAssumption DEF CollectorTypeOK, SinceStamp, SinceRemembered, ClockInv
<1>2. \A i \in DOMAIN previousNetwork, d \in Directions :
        i \in Interfaces /\ previousNetwork[i][d] \in Nat /\ bytes[i][d] \in Nat
  BY DEF CollectorTypeOK, CounterPair
<1>3. CASE Tick
  <2>1. SinceRemembered' = SinceRemembered + 1 /\ UNCHANGED previousNetwork
    <3>1. ~ReadNetwork
      BY <1>3 DEF Tick, ReadNetwork
    <3> QED
      BY <1>3, <3>1, ClockStep DEF Tick
  <2>2. Speed * SinceRemembered' = Speed * SinceRemembered + Speed
        /\ Speed * SinceRemembered \in Int
    BY <1>1, <2>1
  <2>3. ASSUME NEW i \in DOMAIN previousNetwork, NEW d \in Directions
        PROVE  bytes'[i][d] - previousNetwork[i][d] <= Speed * SinceRemembered'
    <3>1. bytes'[i][d] \in Nat /\ bytes'[i][d] <= bytes[i][d] + Speed
      BY <1>2, <1>3, TickCarries
    <3>2. bytes[i][d] - previousNetwork[i][d] <= Speed * SinceRemembered
      BY DEF SpeedInv
    <3>3. PICK m \in Int : m = Speed * SinceRemembered
      BY <2>2
    <3>4. bytes'[i][d] - previousNetwork[i][d] <= m + Speed
      BY <1>1, <1>2, <3>1, <3>2, <3>3
    <3> QED
      BY <2>2, <3>3, <3>4
  <2>4. SpeedInv' <=> \A i \in DOMAIN previousNetwork, d \in Directions :
          bytes'[i][d] - previousNetwork[i][d] <= Speed * SinceRemembered'
    BY <2>1, Zenon DEF SpeedInv
  <2> QED
    BY <2>3, <2>4, Zenon
<1>4. CASE Plug
  <2>1. /\ UNCHANGED <<previousNetwork, SinceRemembered>>
        /\ \E j : bytes' = [bytes EXCEPT ![j] = Zero]
    BY <1>4 DEF Plug, collector, settings, SinceRemembered
  <2>2. PICK m \in Nat : m = Speed * SinceRemembered
    BY <1>1
  <2>3. ASSUME NEW i \in DOMAIN previousNetwork, NEW d \in Directions
        PROVE  bytes'[i][d] - previousNetwork[i][d] <= m
    <3>1. bytes'[i] = Zero \/ bytes'[i] = bytes[i]
      BY <1>2, <2>1 DEF CollectorTypeOK
    <3>2. bytes'[i][d] = 0 \/ bytes'[i][d] = bytes[i][d]
      BY <3>1 DEF Zero, Directions
    <3>3. bytes[i][d] - previousNetwork[i][d] <= m
      BY <2>2 DEF SpeedInv
    <3> QED
      BY <1>2, <2>2, <3>2, <3>3
  <2> QED
    BY <2>1, <2>2, <2>3 DEF SpeedInv
<1>5. CASE ReadNetwork
  <2>1. PICK readable \in SUBSET present : previousNetwork' = Remember(readable)
    BY <1>5 DEF ReadNetwork
  <2>2. SinceRemembered' = SinceStamp /\ UNCHANGED bytes
    BY <1>5, ClockStep DEF ReadNetwork, kernel
  <2>3. PICK m \in Nat : m = Speed * SinceStamp
    BY <1>1
  <2>4. ASSUME NEW i \in DOMAIN previousNetwork', NEW d \in Directions
        PROVE  bytes[i][d] - previousNetwork'[i][d] <= m
    <3>1. i \in Interfaces /\ previousNetwork'[i] = bytes[i]
      BY <2>1 DEF CollectorTypeOK, Remember
    <3>2. bytes[i][d] \in Nat
      BY <3>1 DEF CollectorTypeOK, CounterPair
    <3> QED
      BY <2>3, <3>1, <3>2
  <2> QED
    BY <2>2, <2>3, <2>4 DEF SpeedInv
<1>6. CASE SetClock \/ IdleGoesBack \/ Hotplug \/ CollectBegin \/ ReadSensor \/ ReadStat
           \/ ReadStatFails \/ UNCHANGED collectorVars
  <2>1. UNCHANGED <<bytes, previousNetwork>>
    BY <1>6 DEF SetClock, IdleGoesBack, Hotplug, CollectBegin, ReadSensor, ReadStat, ReadStatFails,
                kernel, collector, collectorVars
  <2>2. CASE Tick \/ ReadNetwork
    BY <1>3, <1>5, <2>2
  <2>3. CASE ~Tick /\ ~ReadNetwork
    <3>1. SinceRemembered' = SinceRemembered
      BY <2>3, ClockStep
    <3> QED
      BY <2>1, <3>1 DEF SpeedInv
  <2> QED
    BY <2>2, <2>3
<1> QED
  BY <1>3, <1>4, <1>5, <1>6 DEF CollectorNext

LEMMA ReadNetworkRates ==
  ASSUME CollectorTypeOK, RateInv, ReadNetwork
  PROVE  RatesStayNearLineSpeed'
<1> DEFINE delta(i, d) == (bytes[i][d] - previousNetwork[i][d]) % Word
           Most == Speed * (Elapsed + between + 2 * CommandTimeout)
<1>1. PICK readable \in SUBSET present :
        rates' = [i \in {j \in readable : Rated(j)} |->
                    [rx |-> delta(i, "rx"), tx |-> delta(i, "tx"),
                     elapsed |-> Elapsed, setBack |-> between]]
  BY DEF ReadNetwork
<1>2. Speed * SinceRemembered <= Most
  <2> DEFINE m == SinceRemembered
             n == Elapsed + between + 2 * CommandTimeout
  <2>1. /\ wall \in Int /\ stamp \in Int /\ previousNetworkAt \in Int /\ CommandTimeout \in Nat
        /\ setBack \in Int /\ between \in Int /\ Speed \in Nat
        /\ wall + setBack - stamp <= 2 * CommandTimeout
    BY CollectorAssumption DEF CollectorTypeOK, RateInv, DelayInv, Late, SinceStamp, ReadNetwork
  <2>2. m \in Int /\ n \in Int /\ m <= n
    BY <2>1 DEF Elapsed, SinceRemembered
  <2>3. Speed * m <= Speed * n
    <3> HIDE DEF m, n
    <3> QED
      BY <2>1, <2>2
  <2> QED
    BY <2>3
<1>3. Most \in Int /\ Speed * SinceRemembered \in Int
  BY CollectorAssumption DEF CollectorTypeOK, Elapsed, SinceRemembered
<1>4. ASSUME NEW i \in readable, Rated(i), NEW d \in Directions
      PROVE  delta(i, d) <= Most
  <2>1. /\ previousNetwork[i][d] \in Nat /\ bytes[i][d] \in Nat
        /\ bytes[i][d] >= previousNetwork[i][d]
        /\ bytes[i][d] - previousNetwork[i][d] <= Speed * SinceRemembered
    BY <1>4 DEF Rated, RateInv, SpeedInv, CollectorTypeOK, CounterPair
  <2>2. PICK n \in Nat : n = bytes[i][d] - previousNetwork[i][d]
    BY <2>1
  <2>3. n % Word \in Nat /\ n % Word <= n
    BY Remainder, CollectorAssumption
  <2>4. n <= Most
    <3> HIDE DEF Most
    <3> QED
      BY <1>2, <1>3, <2>1, <2>2
  <2>5. delta(i, d) = n % Word
    BY <2>2
  <2> HIDE DEF delta, Most
  <2> QED
    BY <1>3, <2>3, <2>4, <2>5
<1> HIDE DEF delta
<1>5. ASSUME NEW i \in DOMAIN rates'
      PROVE  /\ rates'[i].rx <= Speed * (rates'[i].elapsed + rates'[i].setBack + 2 * CommandTimeout)
             /\ rates'[i].tx <= Speed * (rates'[i].elapsed + rates'[i].setBack + 2 * CommandTimeout)
  <2>1. /\ i \in readable /\ Rated(i)
        /\ rates'[i] = [rx |-> delta(i, "rx"), tx |-> delta(i, "tx"),
                        elapsed |-> Elapsed, setBack |-> between]
    BY <1>1
  <2>2. delta(i, "rx") <= Most /\ delta(i, "tx") <= Most
    BY <1>4, <2>1 DEF Directions
  <2>3. rates'[i].rx = delta(i, "rx") /\ rates'[i].tx = delta(i, "tx")
        /\ rates'[i].elapsed = Elapsed /\ rates'[i].setBack = between
    BY <2>1
  <2> QED
    BY <2>2, <2>3
<1> QED
  BY <1>5 DEF RatesStayNearLineSpeed

(* RatesStayNearLineSpeed: a rate is above what the line can carry by no   *)
(* more than what fits into the delay of two vcgencmd timeouts and the     *)
(* time the clock was set back by.                                         *)
THEOREM RatesAreNearLineSpeed == CollectorSpec => []RatesStayNearLineSpeed
<1>1. CollectorInit => RateInv
  BY DEF CollectorInit, RateInv, ClockInv, SinceStamp, SinceRemembered, DelayInv, SpeedInv, RatesStayNearLineSpeed, Nothing
<1>2. ASSUME CollectorTypeOK, RateInv, [CollectorNext]_collectorVars
      PROVE  RateInv'
  <2>1. ClockInv' /\ DelayInv' /\ SpeedInv'
    BY <1>2, ClockStep, DelayStep, SpeedStep DEF RateInv
  <2>2. CASE ReadNetwork
    BY <1>2, <2>1, <2>2, ReadNetworkRates DEF RateInv
  <2>3. CASE ~ReadNetwork
    <3>1. rates' = rates
      BY <1>2, <2>3 DEF CollectorNext, Tick, SetClock, IdleGoesBack, Hotplug, Plug, CollectBegin,
                        ReadSensor, ReadStat, ReadStatFails, collectorVars, sample
    <3> QED
      BY <1>2, <2>1, <3>1 DEF RateInv, RatesStayNearLineSpeed
  <2> QED
    BY <2>2, <2>3
<1>3. RateInv => RatesStayNearLineSpeed
  BY DEF RateInv
<1> QED
  BY <1>1, <1>2, <1>3, CollectorTypes, PTL DEF CollectorSpec

=============================================================================
