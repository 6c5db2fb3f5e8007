----------------------------- MODULE SampleFate -----------------------------
(***************************************************************************)
(* What the pipeline promises about a sample, whatever the tables, files,  *)
(* batches and processes in between: an abstract specification that        *)
(* Monitor implements.                                                     *)
(*                                                                         *)
(* A sample is taken into memory.  From there a flush stores it or merges  *)
(* it into a later sample, in the order of time and at once for the whole  *)
(* batch; or it is lost, together with everything else in memory.  A       *)
(* stored sample stays stored, but for a compaction, which merges it into  *)
(* a later one, and for the archiver, which erases samples that came too   *)
(* late for the archive of their week.  No fate is ever taken back.        *)
(***************************************************************************)
EXTENDS Integers

CONSTANT Times

VARIABLE fate

Fates == {"none", "memory", "stored", "merged", "lost", "erased"}

Having(f) == {t \in Times : fate[t] = f}

TypeOK == fate \in [Times -> Fates]

Init == fate \in [Times -> {"none", "stored"}]

Take(t) ==
  /\ fate[t] = "none"
  /\ \A u \in Times : u > t => fate[u] = "none"
  /\ fate' = [fate EXCEPT ![t] = "memory"]

(* The older part of memory, B, is flushed; its newest sample is stored.   *)
Flush(B) ==
  /\ \A t \in B, u \in Having("memory") \ B : t < u
  /\ fate' \in [Times -> Fates]
  /\ \A t \in Times \ B : fate'[t] = fate[t]
  /\ \A t \in B : \/ fate'[t] = "stored"
                  \/ fate'[t] = "merged" /\ \E u \in B : u > t /\ fate'[u] = "stored"

Lose == fate' = [t \in Times |-> IF fate[t] = "memory" THEN "lost" ELSE fate[t]]

(* Compaction and archiving.  The archive a row came too late for holds    *)
(* an older row of its week.                                               *)
Shrink ==
  /\ fate' \in [Times -> Fates]
  /\ \A t \in Times :
       \/ fate'[t] = fate[t]
       \/ fate[t] = "stored" /\ fate'[t] = "merged"
            /\ \E u \in Times : u > t /\ fate'[u] = "stored"
       \/ fate[t] = "stored" /\ fate'[t] = "erased"
            /\ \E u \in Times : u < t /\ fate'[u] = "stored"

Next ==
  \/ \E t \in Times : Take(t)
  \/ \E B \in SUBSET Having("memory") : Flush(B)
  \/ Lose
  \/ Shrink

Spec == Init /\ [][Next]_fate
=============================================================================
