----------------------------- MODULE MCMonitor -----------------------------
(* The monitor and its store without any HTTP client, on small constants.  *)
EXTENDS Monitor

(* No table, and two dense rows of an earlier version.                     *)
MCLegacy == {NoRows, [k \in 0..1 |-> [t |-> k, v |-> 0, rep |-> FALSE]]}
MCNoLegacy == {NoRows}
=============================================================================
