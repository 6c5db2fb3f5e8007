---------------------------- MODULE MCCollector ----------------------------
(* The collector and its kernel on small constants.                        *)
EXTENDS Collector

(* The rows of /proc/stat and the network counters share nothing but the   *)
(* timestamp, which CPU usage does not look at, so each is checked on      *)
(* machines without the other.  A clock that is set multiplies the states, *)
(* so on the machine that runs for long it is set at one tick only.        *)
Cpu(ticks) ==
  [cores |-> NumCores, interfaces |-> {}, settings |-> {}, ticks |-> ticks]
Net(settable, ticks) ==
  [cores |-> 0, interfaces |-> Interfaces, settings |-> settable, ticks |-> ticks]

MCMachines == {Cpu(2), Net({<<2, 1>>}, 4), Net((0..2) \X {0, 2}, 2)}
=============================================================================
