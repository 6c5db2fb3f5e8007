----------------------------- MODULE Thresholds -----------------------------
(***************************************************************************)
(* stableWindow of internal/storage with its whole table of thresholds:    *)
(* what Samples abstracts to one number with one threshold.                *)
(***************************************************************************)
EXTENDS Integers, FiniteSets, Sequences

(* A reading has everything stableWindow looks at: optional sensors, <<>>  *)
(* when nil, plain numbers, the list of cores, and a pair of rates (in     *)
(* KiB/s) for each network interface.  Percentages, temperatures and loads *)
(* count tenths.                                                           *)
OptionalLimit ==
  [cpu_temp_c |-> 30, cpu_freq_mhz |-> 4000, cpu_usage_pct |-> 250,
   fan_rpm |-> 5000, fan_pwm_pct |-> 150, nvme_temp_c |-> 30]
PlainLimit ==
  [memory_pct |-> 20, disk_pct |-> 10, load_1 |-> 5, load_5 |-> 4, load_15 |-> 3]
CoreLimit == 350
RateFloor == 64
RatePercent == 35

IsReading(r) ==
  /\ \A m \in DOMAIN OptionalLimit : r.optional[m] \in Seq(Int) /\ Len(r.optional[m]) <= 1
  /\ \A m \in DOMAIN PlainLimit : r.plain[m] \in Int
  /\ r.cores \in Seq(Int)
  /\ IsFiniteSet(DOMAIN r.network)
  /\ \A name \in DOMAIN r.network : r.network[name].rx \in Nat /\ r.network[name].tx \in Nat

Distance(a, b) == IF a < b THEN b - a ELSE a - b
Larger(a, b) == IF a < b THEN b ELSE a

PointerChanged(a, b, threshold) ==
  IF a = <<>> \/ b = <<>> THEN a # b ELSE Distance(a[1], b[1]) > threshold

CoresChanged(a, b) ==
  Len(a) # Len(b) \/ \E i \in DOMAIN a : Distance(a[i], b[i]) > CoreLimit

(* Both the difference and its share of the larger rate must be large.     *)
RateChanged(a, b) ==
  LET baseline == Larger(a, b)
  IN  /\ Distance(a, b) > RateFloor
      /\ baseline = 0 \/ 100 * Distance(a, b) > RatePercent * baseline

NetworkRatesChanged(a, b) ==
  \/ Cardinality(DOMAIN a) # Cardinality(DOMAIN b)
  \/ \E name \in DOMAIN a :
       \/ name \notin DOMAIN b
       \/ RateChanged(a[name].rx, b[name].rx)
       \/ RateChanged(a[name].tx, b[name].tx)

Changed(base, point) ==
  \/ \E m \in DOMAIN OptionalLimit :
       PointerChanged(base.optional[m], point.optional[m], OptionalLimit[m])
  \/ \E m \in DOMAIN PlainLimit :
       Distance(base.plain[m], point.plain[m]) > PlainLimit[m]
  \/ CoresChanged(base.cores, point.cores)
  \/ NetworkRatesChanged(base.network, point.network)

(* Mutant: each point is compared with the one before it.                  *)
StableWindow_Adjacent(window) ==
  \A i \in DOMAIN window \ {1} : ~Changed(window[i - 1], window[i])

StableWindow(window) == \A i \in DOMAIN window \ {1} : ~Changed(window[1], window[i])
=============================================================================
