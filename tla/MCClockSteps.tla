--------------------------- MODULE MCClockSteps ---------------------------
(* The monitor under a clock that is set back, on small constants.         *)
EXTENDS ClockSteps

(* No table, and a dense row of an earlier version in the first week.      *)
MCLegacy == {NoRows, [k \in {0} |-> [t |-> k, v |-> 0, rep |-> FALSE]]}
=============================================================================
