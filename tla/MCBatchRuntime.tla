---------------------------- MODULE MCBatchRuntime ----------------------------
(* BatchRuntime for TLC: a pool of two workers over two inputs.            *)
EXTENDS BatchRuntime
=============================================================================
