--------------------------- MODULE MCJobScheduler ---------------------------
(* Instances of the job scheduler for TLC.                                 *)
EXTENDS JobScheduler

CONSTANTS w1, w2, clone, refresh, restore, mirror1, mirror2

\* A mirror with a clone and a periodic refresh, and another with a restore.
Mirrors == [j \in Job |-> IF j = restore THEN mirror2 ELSE mirror1]
=============================================================================
