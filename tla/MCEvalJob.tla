------------------------------ MODULE MCEvalJob ------------------------------
(* EvalJob for TLC: two tars, the one empty and the other a chunk and a     *)
(* half, and a dataset of two examples.                                     *)
EXTENDS EvalJob, TLC

CONSTANTS b1, b2, r10, r11, r20, r21

\* The tasks are alike, and no property is about liveness.
TasksAlike == Permutations(Task)

MCLen == [b \in Blob |-> IF b = b1 THEN 0 ELSE 3]
MCOrder == [b \in {b1, b2} |-> IF b = b1 THEN 1 ELSE 2]
\* A tar that a prune may take off the list, and an id that nobody has saved.
MCAsked == {b2, r10}
MCPolicies == [last : {1}, labeled : BOOLEAN, age : {NoAge, 1}]
MCResultBlob == [x \in {1, 2} \X {0, 1} |->
  IF x[1] = 1 THEN (IF x[2] = 0 THEN r10 ELSE r11) ELSE (IF x[2] = 0 THEN r20 ELSE r21)]
=============================================================================
