----------------------------- MODULE MCWorkLedger -----------------------------
(* WorkLedger for TLC.  Items and workers are small numbers: their order is   *)
(* the order of the ids, so they are not symmetric.                           *)
EXTENDS WorkLedger

\* Every payload is enqueued once; Invariance is proved for any number of times.
MCOnce == [i \in Item |-> 1]
=============================================================================
