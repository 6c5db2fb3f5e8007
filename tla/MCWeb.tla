------------------------------- MODULE MCWeb -------------------------------
(* The whole service, with history requests and streams, on small          *)
(* constants.                                                              *)
EXTENDS Web

MCLegacy == {NoRows, [k \in 0..1 |-> [t |-> k, v |-> 0, rep |-> FALSE]]}
MCNoLegacy == {NoRows}

(* All of history, and a range that cuts through a week.                   *)
MCRanges == {0..MaxTime, 1..3}
MCAll == {0..MaxTime}

(* The handlers of a request and of a stream share nothing that either of  *)
(* them writes: with the one under way, the other need not be.             *)
OneHandler ==
  \A r \in Readers, c \in Clients : request[r] = NoRequest \/ conn[c].at = "closed"
=============================================================================
