---------------------------- MODULE MCDashboard ----------------------------
(* The page with two requests under way at most.                           *)
EXTENDS Dashboard

MCRanges == {1, 3}
MCFetches == 1..2
=============================================================================
