---------------------------- MODULE MCDurability ----------------------------
(* The monitor under power losses on small constants.                      *)
EXTENDS Durability

(* No table, and a dense row of an earlier version in the first week.      *)
MCLegacy == {NoRows, [k \in {0} |-> [t |-> k, v |-> 0, rep |-> FALSE]]}
=============================================================================
