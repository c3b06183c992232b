--------------------------- MODULE EpochSuccession ---------------------------
(***************************************************************************)
(* What the coordinator lease of a run promises, without storage, clocks   *)
(* or failures: the epochs 0, 1, 2, ... are handed out one at a time, each *)
(* to one coordinator process, and a process is handed at most one epoch   *)
(* in its life.  StorageLease implements this specification.               *)
(***************************************************************************)
EXTENDS Integers

CONSTANTS Coord,  \* coordinator processes; a restart is a new process
          None    \* no coordinator

VARIABLES epoch,   \* the epoch of the current reign, -1 before the first
          holder,  \* the coordinator that reigns, None before the first
          spent    \* processes that have had their one chance to reign

vars == <<epoch, holder, spent>>

Init ==
  /\ epoch = -1
  /\ holder = None
  /\ spent = {}

\* c succeeds to the lease: a new epoch for a process that never had one.
Takeover(c) ==
  /\ c \notin spent
  /\ epoch' = epoch + 1
  /\ holder' = c
  /\ spent' = spent \cup {c}

\* c gives up without ever having held the lease.
Retire(c) ==
  /\ c \notin spent
  /\ spent' = spent \cup {c}
  /\ UNCHANGED <<epoch, holder>>

Next == \E c \in Coord : Takeover(c) \/ Retire(c)

Spec == Init /\ [][Next]_vars
=============================================================================
