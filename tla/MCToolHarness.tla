---------------------------- MODULE MCToolHarness ----------------------------
(* ToolHarness with two tasks.  The one runs commands of every kind: one that *)
(* ends, one that fills its pipe and three that fork a helper, which fills    *)
(* the pipe that is read first, fills the other one, or detaches; any of them *)
(* may hang or be killed.  The other shares the subtree with it.              *)
EXTENDS ToolHarness

CONSTANTS t1, t2, a1, a2

Bytes(out, err) == [s \in Streams |-> IF s = "out" THEN out ELSE err]
Plain(out, err) ==
  [main |-> Bytes(out, err), helper |-> NoBytes, forks |-> FALSE, detach |-> FALSE]
Forking(out, err, detach) ==
  [main |-> NoBytes, helper |-> Bytes(out, err), forks |-> TRUE, detach |-> detach]

MCPrograms ==
  [t \in {t1, t2} |->
     IF t = t1
     THEN {Plain(1, 0), Plain(0, 2), Forking(2, 0, FALSE), Forking(0, 2, FALSE),
           Forking(0, 0, TRUE)}
     ELSE {Plain(0, 0)}]
MCBlocked == {a2}
=============================================================================
