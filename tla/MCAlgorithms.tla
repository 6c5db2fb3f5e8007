---------------------------- MODULE MCAlgorithms ----------------------------
(* Inputs of the pure functions.                                           *)
EXTENDS Algorithms

(* The sets of times in increasing order, with any values.                 *)
Ascending(T, V) ==
  LET n == Cardinality(T)
      time(i) == CHOOSE t \in T : Cardinality({u \in T : u <= t}) = i
  IN  {[i \in 1..n |-> [t |-> time(i), v |-> f[i]]] : f \in [1..n -> V]}

MCCompactions ==
  (UNION {Ascending(T, 0..2) : T \in SUBSET (0..4)}) \X {2, 3}

(* Up to five points of a query, found in SQLite or an archive (v is 0 or  *)
(* 1), the same times next to each other in either order.                  *)
MCQueries ==
  UNION {{q \in [1..n -> [t : 0..2, v : 0..1]] :
            \A i \in 1..n - 1 : q[i].t <= q[i + 1].t} : n \in 0..5}

Line(n) == [i \in 1..n |-> [t |-> i, v |-> 0]]
MCResponses == {<<Line(n), max>> : n \in 0..14, max \in {0} \cup 2..15}

(* Readings that differ in one metric: four of a sensor or a number, which *)
(* can drift further than twice its threshold, three of the others.        *)
Quiet ==
  [optional |-> [m \in DOMAIN OptionalLimit |-> <<0>>],
   plain    |-> [m \in DOMAIN PlainLimit |-> 0],
   cores    |-> <<0>>,
   network  |-> [name \in {} |-> 0]]

Around(most) == {0, most, most + 1, 2 * most, 3 * most}
OptionalReadings(m) ==
  {[Quiet EXCEPT !.optional[m] = x] :
     x \in {<<>>} \cup {<<v>> : v \in Around(OptionalLimit[m])}}
PlainReadings(m) == {[Quiet EXCEPT !.plain[m] = v] : v \in Around(PlainLimit[m])}
CoreReadings ==
  {[Quiet EXCEPT !.cores = c] :
     c \in {<<>>} \cup UNION {[1..n -> {0, 350, 351, 700}] : n \in 1..2}}
Rates == [rx : {0, 64, 65, 128, 200, 308}, tx : {0}] \cup [rx : {0}, tx : {100, 165}]
NetworkReadings ==
  {[Quiet EXCEPT !.network = f] : f \in UNION {[N -> Rates] : N \in {{}, {"eth0"}, {"wlan0"}}}}

MCWindows ==
  UNION {[1..4 -> OptionalReadings(m)] : m \in DOMAIN OptionalLimit}
    \cup UNION {[1..4 -> PlainReadings(m)] : m \in DOMAIN PlainLimit}
    \cup [1..3 -> CoreReadings] \cup [1..3 -> NetworkReadings]
=============================================================================
