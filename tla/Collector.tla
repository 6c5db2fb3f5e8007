----------------------------- MODULE Collector -----------------------------
(***************************************************************************)
(* internal/metrics.Collector: what Collect makes of the counters of the   *)
(* kernel, sample after sample.  The collector remembers the counters of   *)
(* the sample before and publishes differences: the share of busy time of  *)
(* every core and the rates of every network interface.                    *)
(*                                                                         *)
(* The kernel does not wait for it.  Cores go offline and come back, idle  *)
(* time may go back (iowait does, proc(5)), interfaces disappear, their    *)
(* counters wrap or start again at zero, and reads fail.  CPU time counts  *)
(* ticks and never wraps; byte counters and their differences are modulo   *)
(* Word (uint64).                                                          *)
(*                                                                         *)
(* Nor does the wall clock: it may be set between any two steps, and the   *)
(* collector measures time with it, for UTC() strips the monotonic reading *)
(* from time.Now().                                                        *)
(*                                                                         *)
(* uncounted and unclaimed are history variables: the busy ticks and the   *)
(* bytes there were, less what all samples together say there were.  So    *)
(* are setBack and between: by how much the clock was set back (less by    *)
(* how much it was set forward) since the last timestamp, and between that *)
(* of the sample before and it, while Collect runs.                        *)
(***************************************************************************)
EXTENDS Integers, FiniteSets, Sequences

CONSTANTS
  NumCores,
  Interfaces,
  Machines,         (* what the service may run on: cores, interfaces and, *)
                    (* as bounds, the ticks it runs for and at which of    *)
                    (* them its clock may be set to what                   *)
  Speed,            (* bytes an interface can carry in a tick              *)
  Word,             (* byte counters are modulo Word                       *)
  CommandTimeout    (* ticks a vcgencmd may take, 400 ms                   *)

ASSUME CollectorAssumption ==
  /\ NumCores \in Nat
  /\ Machines \subseteq [cores : 0..NumCores, interfaces : SUBSET Interfaces,
                          settings : SUBSET (Nat \X Int), ticks : Nat]
  /\ Speed \in Nat /\ Word \in Nat \ {0}
  /\ CommandTimeout \in Nat

Cores == 1..NumCores
Lines == 0..NumCores   (* the rows of /proc/stat: 0 is "cpu", the sum      *)

VARIABLES
  machine,
  now,                 (* the ticks there were                             *)
  wall,                (* the wall clock                                   *)
  busy, idle,          (* ticks of every line; idle includes iowait        *)
  online,              (* the cores that have a line                       *)
  present,             (* the interfaces in /sys/class/net                 *)
  bytes,               (* their counters                                   *)
  at,                  (* where Collect is, "idle" between two calls       *)
  stamp,               (* s.Timestamp                                      *)
  spent,               (* ticks the running vcgencmd took                  *)
  previous,            (* c.previous, <<>> for nil                         *)
  previousNetwork, previousNetworkAt,
  usage,               (* the sample: the lines that have a value          *)
  rates,               (* the sample: the interfaces that have a rate      *)
  uncounted, unclaimed,
  setBack, between

kernel == <<machine, now, wall, busy, idle, online, present, bytes>>
collector == <<at, stamp, spent, previous, previousNetwork, previousNetworkAt>>
sample == <<usage, rates>>
counts == <<uncounted, unclaimed>>
settings == <<setBack, between>>
collectorVars == <<kernel, collector, sample, counts, settings>>

Nothing == [x \in {} |-> 0]
Zero == [rx |-> 0, tx |-> 0]
Directions == {"rx", "tx"}

(* The machine may have been up for long: the counters are about to wrap.  *)
CollectorInit ==
  /\ machine \in Machines
  /\ now = 0 /\ wall = 0
  /\ busy = [l \in Lines |-> 0] /\ idle = [l \in Lines |-> 0]
  /\ online = 1..machine.cores
  /\ present = machine.interfaces
  /\ \E b \in {0, Word - 1} : bytes = [i \in Interfaces |-> [d \in Directions |-> b]]
  /\ at = "idle" /\ stamp = 0 /\ spent = 0
  /\ previous = <<>> /\ previousNetwork = Nothing /\ previousNetworkAt = 0
  /\ usage = Nothing /\ rates = Nothing
  /\ uncounted = [l \in Lines |-> 0] /\ unclaimed = [i \in Interfaces |-> Zero]
  /\ setBack = 0 /\ between = 0

-----------------------------------------------------------------------------
(* A tick: each core that is online is busy or idle, and each interface    *)
(* carries what its line allows.  Only a vcgencmd takes time in Collect,   *)
(* and not more than its timeout.                                          *)
Tick ==
  /\ now < machine.ticks
  /\ at = "idle" \/ (at \in {"temperature", "frequency"} /\ spent < CommandTimeout)
  /\ now' = now + 1 /\ wall' = wall + 1
  /\ spent' = IF at = "idle" THEN 0 ELSE spent + 1
  /\ \E B \in SUBSET online :
       LET more(l, S) == IF l = 0 THEN Cardinality(S) ELSE IF l \in S THEN 1 ELSE 0
       IN  /\ busy' = [l \in Lines |-> busy[l] + more(l, B)]
           /\ idle' = [l \in Lines |-> idle[l] + more(l, online \ B)]
           /\ uncounted' = [l \in Lines |-> uncounted[l] + more(l, B)]
  /\ \E traffic \in [present -> [Directions -> 0..Speed]] :
       LET more(i, d) == IF i \in present THEN traffic[i][d] ELSE 0
       IN  /\ bytes' = [i \in Interfaces |->
                          [d \in Directions |-> (bytes[i][d] + more(i, d)) % Word]]
           /\ unclaimed' = [i \in Interfaces |->
                              [d \in Directions |-> unclaimed[i][d] + more(i, d)]]
  /\ UNCHANGED <<machine, online, present, at, stamp, previous, previousNetwork, previousNetworkAt,
                 sample, settings>>

(* The wall clock is set, back or forward.                                 *)
SetClock ==
  /\ \E setting \in machine.settings :
       /\ now = setting[1]
       /\ wall' = setting[2]
       /\ setBack' = setBack + (wall - setting[2])
  /\ UNCHANGED <<machine, now, busy, idle, online, present, bytes, collector, sample, counts, between>>

(* iowait is given back.                                                   *)
IdleGoesBack ==
  /\ \E c \in Cores :
       /\ idle[c] > 0 /\ idle[0] > 0
       /\ idle' = [idle EXCEPT ![c] = @ - 1, ![0] = @ - 1]
  /\ UNCHANGED <<machine, now, wall, busy, online, present, bytes, collector, sample, counts, settings>>

(* A core goes offline or comes back, with its counters; one stays.        *)
Hotplug ==
  /\ \E c \in 1..machine.cores :
       online' = IF c \in online THEN online \ {c} ELSE online \cup {c}
  /\ online' # {}
  /\ UNCHANGED <<machine, now, wall, busy, idle, present, bytes, collector, sample, counts, settings>>

(* An interface disappears, or appears with counters that start at zero.   *)
Plug ==
  /\ \E i \in machine.interfaces :
       /\ present' = IF i \in present THEN present \ {i} ELSE present \cup {i}
       /\ bytes' = [bytes EXCEPT ![i] = Zero]
  /\ UNCHANGED <<machine, now, wall, busy, idle, online, collector, sample, counts, settings>>

-----------------------------------------------------------------------------
(* Collect: the timestamp comes first.                                     *)
CollectBegin ==
  /\ at = "idle"
  /\ at' = "temperature"
  /\ stamp' = wall
  /\ spent' = 0
  /\ between' = setBack /\ setBack' = 0
  /\ UNCHANGED <<kernel, previous, previousNetwork, previousNetworkAt, sample, counts>>

(* Temperature and frequency, from sysfs or, after some ticks, vcgencmd.   *)
ReadSensor ==
  /\ \/ at = "temperature" /\ at' = "frequency"
     \/ at = "frequency" /\ at' = "stat"
  /\ spent' = 0
  /\ UNCHANGED <<kernel, stamp, previous, previousNetwork, previousNetworkAt, sample, counts, settings>>

(* The rows of /proc/stat.                                                 *)
Current ==
  [l \in {0} \cup online |-> [idle |-> idle[l], total |-> idle[l] + busy[l]]]

(* Mutant: the idle time may have gone back.                               *)
Usable_IdleBack(l) ==
  /\ previous # <<>>
  /\ l \in DOMAIN Current /\ l \in DOMAIN previous[1]
  /\ Current[l].total > previous[1][l].total

(* The lines for which usage() does not return nil.                        *)
Usable(l) ==
  /\ previous # <<>>
  /\ l \in DOMAIN Current /\ l \in DOMAIN previous[1]
  /\ Current[l].total > previous[1][l].total
  /\ Current[l].idle >= previous[1][l].idle

(* What is between two rows; the value is 1 - idle/total, in percent.      *)
Since(l) ==
  [idle  |-> Current[l].idle - previous[1][l].idle,
   total |-> Current[l].total - previous[1][l].total]

(* Mutant: the first row read stays the one to compare with.               *)
ReadStat_KeepsFirst ==
  /\ at = "stat"
  /\ usage' = [l \in {k \in Lines : Usable(k)} |-> Since(l)]
  /\ uncounted' = [l \in Lines |->
       uncounted[l] - IF Usable(l) THEN Since(l).total - Since(l).idle ELSE 0]
  /\ previous' = IF previous = <<>> THEN <<Current>> ELSE previous
  /\ at' = "network"
  /\ UNCHANGED <<kernel, stamp, spent, previousNetwork, previousNetworkAt, rates,
                 unclaimed, settings>>

(* cpuUsage: the rows replace the previous ones, whether or not a line has *)
(* a value.                                                                *)
ReadStat ==
  /\ at = "stat"
  /\ usage' = [l \in {k \in Lines : Usable(k)} |-> Since(l)]
  /\ uncounted' = [l \in Lines |->
       uncounted[l] - IF Usable(l) THEN Since(l).total - Since(l).idle ELSE 0]
  /\ previous' = <<Current>>
  /\ at' = "network"
  /\ UNCHANGED <<kernel, stamp, spent, previousNetwork, previousNetworkAt, rates,
                 unclaimed, settings>>

(* The file cannot be read or parsed: the sample has no usage, and the     *)
(* next one spans the gap.                                                 *)
ReadStatFails ==
  /\ at = "stat"
  /\ usage' = Nothing
  /\ at' = "network"
  /\ UNCHANGED <<kernel, stamp, spent, previous, previousNetwork, previousNetworkAt,
                 rates, counts, settings>>

-----------------------------------------------------------------------------
(* now.Sub(c.previousNetworkAt), of two wall clock times.                  *)
Elapsed == stamp - previousNetworkAt

(* Mutant: a counter that went back counts from zero, but both are asked.  *)
Rated_EitherGrew(i) ==
  /\ i \in DOMAIN previousNetwork
  /\ Elapsed > 0
  /\ \E d \in Directions : bytes[i][d] >= previousNetwork[i][d]

(* Mutant: the time that has passed is not looked at.                      *)
Rated_AnyTime(i) ==
  /\ i \in DOMAIN previousNetwork
  /\ \A d \in Directions : bytes[i][d] >= previousNetwork[i][d]

(* An interface has a rate when it was there before, time has passed and   *)
(* neither counter went back.                                              *)
Rated(i) ==
  /\ i \in DOMAIN previousNetwork
  /\ Elapsed > 0
  /\ \A d \in Directions : bytes[i][d] >= previousNetwork[i][d]

(* Mutant: an interface that is not there keeps its place in the map.      *)
Remember_Keeps(readable) ==
  [i \in readable \cup DOMAIN previousNetwork |->
     IF i \in readable THEN bytes[i] ELSE previousNetwork[i]]

(* c.previousNetwork = current.                                            *)
Remember(readable) == [i \in readable |-> bytes[i]]

(* networkStats, for the interfaces whose two files can be read; the       *)
(* sample is complete.  Its now is s.Timestamp.                            *)
ReadNetwork ==
  /\ at = "network"
  /\ \E readable \in SUBSET present :
       LET rated == {i \in readable : Rated(i)}
           delta(i, d) == (bytes[i][d] - previousNetwork[i][d]) % Word
       IN  /\ rates' = [i \in rated |-> [rx |-> delta(i, "rx"), tx |-> delta(i, "tx"),
                                         elapsed |-> Elapsed, setBack |-> between]]
           /\ unclaimed' = [i \in Interfaces |-> [d \in Directions |->
                unclaimed[i][d] - IF i \in rated THEN delta(i, d) ELSE 0]]
           /\ previousNetwork' = Remember(readable)
  /\ previousNetworkAt' = stamp
  /\ at' = "idle"
  /\ between' = 0
  /\ UNCHANGED <<kernel, stamp, spent, previous, usage, uncounted, setBack>>

CollectorNext ==
  \/ Tick \/ SetClock \/ IdleGoesBack \/ Hotplug \/ Plug
  \/ CollectBegin \/ ReadSensor \/ ReadStat \/ ReadStatFails \/ ReadNetwork

CollectorSpec == CollectorInit /\ [][CollectorNext]_collectorVars

-----------------------------------------------------------------------------
CounterPair == [Directions -> Nat]

TimesOfLine == [idle : Nat, total : Nat]

(* A rate is divided by a time that is above zero, for a clock that was    *)
(* set back would make it infinite or negative.                            *)
IsRate(rate) ==
  /\ rate.rx \in 0..Word-1 /\ rate.tx \in 0..Word-1
  /\ rate.elapsed \in Nat \ {0}
  /\ rate.setBack \in Int

(* The types, with those of the samples that are published.                *)
CollectorTypeOK ==
  /\ machine \in Machines
  /\ now \in Nat /\ spent \in Nat
  /\ wall \in Int /\ stamp \in Int /\ previousNetworkAt \in Int
  /\ busy \in [Lines -> Nat] /\ idle \in [Lines -> Nat]
  /\ online \subseteq Cores /\ present \subseteq Interfaces
  /\ bytes \in [Interfaces -> CounterPair]
  /\ at \in {"idle", "temperature", "frequency", "stat", "network"}
  /\ previous # <<>> =>
       /\ DOMAIN previous[1] \subseteq Lines
       /\ \A l \in DOMAIN previous[1] : previous[1][l] \in TimesOfLine
  /\ DOMAIN previousNetwork \subseteq Interfaces
  /\ \A i \in DOMAIN previousNetwork : previousNetwork[i] \in CounterPair
  /\ \A i \in DOMAIN rates : IsRate(rates[i])
  /\ uncounted \in [Lines -> Int] /\ unclaimed \in [Interfaces -> [Directions -> Int]]
  /\ setBack \in Int /\ between \in Int

(* Whatever idle time, cores and reads did between two samples, a          *)
(* published usage is between 0 and 100 %: the differences are unsigned,   *)
(* and one that went below zero would be a huge number in the charts and   *)
(* in the volatility check.  Busy time does not go back in this kernel;    *)
(* usage() does not guard against that.                                    *)
UsageIsAPercentage ==
  \A l \in DOMAIN usage :
    usage[l].total > 0 /\ usage[l].idle >= 0 /\ usage[l].idle <= usage[l].total

(* No tick a core was busy is in two samples: across failed reads, cores   *)
(* that were away and samples without a value, the usages of a line never  *)
(* add up to more than the time it was busy.                               *)
BusyTimeCountedOnce == \A l \in Lines : uncounted[l] >= 0

(* No byte is in two samples, and none is made up: across interfaces that  *)
(* come and go, counters that wrap or restart and samples with the same    *)
(* time, rates times elapsed time never add up to more than was carried.   *)
TrafficCountedOnce ==
  \A i \in Interfaces, d \in Directions : unclaimed[i][d] >= 0

(* What a rate is computed from is no more than the line could carry.      *)
(* Times its elapsed time, a rate exceeds that by two things only: what    *)
(* fits into the delay of two vcgencmd timeouts, for the counters are read *)
(* that much later than the timestamp, and what fits into the time the     *)
(* clock was set back by between the two timestamps.  Nothing limits the   *)
(* latter: a clock that is set back by nearly an interval makes the        *)
(* elapsed time tiny and the rate huge.                                    *)
RatesStayNearLineSpeed ==
  \A i \in DOMAIN rates :
    LET most == Speed * (rates[i].elapsed + rates[i].setBack + 2 * CommandTimeout)
    IN  rates[i].rx <= most /\ rates[i].tx <= most
=============================================================================
