--------------------------- MODULE MCWorkerRegistry ---------------------------
(* WorkerRegistry for TLC: one worker, its beats, its coordinator.  Rows    *)
(* are keyed by worker and no step reads the rows of two workers, so a      *)
(* second worker adds states and no behaviour.                              *)
EXTENDS WorkerRegistry
=============================================================================
