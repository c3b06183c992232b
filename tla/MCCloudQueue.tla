---------------------------- MODULE MCCloudQueue ----------------------------
(* CloudQueue with two tasks of a stable process and one of a spot process. *)
EXTENDS CloudQueue

CONSTANTS p1, p2, a1, a2, b1

MCClient == [t \in {a1, a2, b1} |-> IF t = b1 THEN p2 ELSE p1]
=============================================================================
