-------------------------- MODULE ToolHarnessProofs --------------------------
(***************************************************************************)
(* Proofs about ToolHarness, for any tasks, programs, addresses and number *)
(* of redirects, however the calls that share the cgroup subtree, their    *)
(* commands and the helpers these fork interleave.                         *)
(*                                                                         *)
(* What the run checks is not inductive: SuccessIsComplete speaks of the   *)
(* end of a call, when the command is long gone.  CommandAt carries what   *)
(* is needed from one place of exec to the next: a process that exited has *)
(* written all it had, one that has ended in any way forks no more, a pipe *)
(* read to its end stays empty because nobody holds its other end any      *)
(* more, and a call that is neither timed out nor failed has waited for    *)
(* the end.  LastCallRemoves needs MembersHold: the processes in the       *)
(* subtree belong to calls that have yet to drop it.                       *)
(***************************************************************************)
EXTENDS ToolHarness, FiniteSetTheorems, TLAPS

-----------------------------------------------------------------------------
(* The inductive invariant.                                                *)

\* What a command may have become by the time its call is at p.
CommandAt(p, c) ==
  /\ p \notin {"join", "wait", "stdout", "stderr", "drop"} =>
       c.main = "none" /\ c.helper \in {"none", "due"}
  /\ c.main = "exited" => c.want = NoBytes
  /\ c.main \in {"exited", "signaled"} => c.helper # "due"
  /\ p \in {"stdout", "stderr", "drop"} /\ ~c.timedOut /\ ~c.failed =>
       c.main \in {"exited", "signaled"}
  /\ p \in {"stderr", "drop"} /\ ~c.timedOut /\ ~c.failed /\ ~c.cut =>
       c.pipe["out"] = 0 /\ c.helper \notin {"due", "open"}
  /\ p = "drop" /\ ~c.timedOut /\ ~c.failed /\ ~c.cut => c.pipe["err"] = 0

\* The address a hop connects to has passed the filter.
FetchAt(p, f) == p = "connect" => Safe(f.addr)

CommandsFit == \A t \in Task : CommandAt(pc[t], cmd[t])
FetchesFit == \A t \in Task : FetchAt(pc[t], fetch[t])

\* Only calls that have joined the subtree, and are not over, have members.
MembersHold ==
  \A m \in members : pc[m[1]] \in {"wait", "stdout", "stderr", "drop"}

\* The inductive invariant.
IInv == TypeOK /\ CommandsFit /\ FetchesFit /\ MembersHold /\ LastCallRemoves

-----------------------------------------------------------------------------
(* Commands.                                                               *)

\* A command before its spawn.
LEMMA StartedIsCommand ==
  ASSUME NEW p \in Program
  PROVE  Started(p) \in Command /\ Started(p).main = "none"
         /\ Started(p).helper \in {"none", "due"}
  BY DEF Started, Command, Program, NoBytes, Streams

\* No command is like one that was never spawned.
LEMMA NoCommandIsCommand ==
  NoCommand \in Command /\ NoCommand.main = "none" /\ NoCommand.helper \in {"none", "due"}
<1> DEFINE p == [main |-> NoBytes, helper |-> NoBytes,
                 forks |-> FALSE, detach |-> FALSE]
<1>1. p \in Program
  BY DEF Program, NoBytes, Streams
<1> HIDE DEF p
<1>2. Started(p) \in Command /\ Started(p).main = "none" /\ Started(p).helper \in {"none", "due"}
  BY <1>1, StartedIsCommand
<1> QED BY <1>2 DEF NoCommand, p

\* A command of which nothing runs fits every place before the spawn.
LEMMA QuietFits ==
  ASSUME NEW c, c.main = "none", c.helper \in {"none", "due"},
         NEW p \in {"idle", "resolve", "connect", "limits", "spawn", "join", "wait"}
  PROVE  CommandAt(p, c)
  BY DEF CommandAt

\* A pair of pipes is empty when each of them is.
LEMMA NoBytesIsNone ==
  ASSUME NEW b \in [Streams -> Nat]
  PROVE  b = NoBytes <=> b["out"] = 0 /\ b["err"] = 0
  BY DEF NoBytes, Streams

-----------------------------------------------------------------------------
(* A step of one call: only t's entries of pc, cmd and fetch change.       *)

\* What such a step leaves of the other calls.
LEMMA OneCall ==
  ASSUME TypeOK, NEW t \in Task, CommandsFit, FetchesFit,
         NEW p \in {"idle", "resolve", "connect"} \cup ExecPc, NEW c \in Command,
         NEW f \in [addr : Addr \cup {NoAddr}, redirects : 0 .. MaxRedirects],
         pc' = [pc EXCEPT ![t] = p], cmd' = [cmd EXCEPT ![t] = c],
         fetch' = [fetch EXCEPT ![t] = f],
         CommandAt(p, c), FetchAt(p, f)
  PROVE  /\ CommandsFit' /\ FetchesFit'
         /\ pc' \in [Task -> {"idle", "resolve", "connect"} \cup ExecPc]
         /\ cmd' \in [Task -> Command]
         /\ fetch' \in [Task -> [addr : Addr \cup {NoAddr}, redirects : 0 .. MaxRedirects]]
         /\ pc'[t] = p /\ \A u \in Task \ {t} : pc'[u] = pc[u]
<1>1. pc' \in [Task -> {"idle", "resolve", "connect"} \cup ExecPc]
  BY DEF TypeOK
<1>2. cmd' \in [Task -> Command]
  BY DEF TypeOK
<1>3. fetch' \in [Task -> [addr : Addr \cup {NoAddr}, redirects : 0 .. MaxRedirects]]
  BY DEF TypeOK
<1>4. \A u \in Task : pc'[u] = (IF u = t THEN p ELSE pc[u]) /\ cmd'[u] = (IF u = t THEN c ELSE cmd[u])
                      /\ fetch'[u] = (IF u = t THEN f ELSE fetch[u])
  BY DEF TypeOK
<1>5. CommandsFit'
  BY <1>4 DEF CommandsFit
<1>6. FetchesFit'
  BY <1>4 DEF FetchesFit, FetchAt, Safe
<1> QED BY <1>1, <1>2, <1>3, <1>4, <1>5, <1>6

Joined == {"wait", "stdout", "stderr", "drop"}

\* A step of the call of t takes it to p, with the command c and the fetch f.
\* Its processes in the subtree go with the call, and when it leaves the
\* subtree behind for the first time another call holds it.
LEMMA CallStep ==
  ASSUME IInv, NEW t \in Task,
         NEW p \in {"idle", "resolve", "connect"} \cup ExecPc, NEW c \in Command,
         NEW f \in [addr : Addr \cup {NoAddr}, redirects : 0 .. MaxRedirects],
         pc' = [pc EXCEPT ![t] = p], cmd' = [cmd EXCEPT ![t] = c],
         fetch' = [fetch EXCEPT ![t] = f],
         CommandAt(p, c), FetchAt(p, f),
         delegated' \in BOOLEAN, subtree' \in BOOLEAN, leftover' \in BOOLEAN,
         strays' \in Nat, late' \subseteq Task,
         members' \subseteq Task \X {"main", "helper"},
         \A m \in members' : IF m[1] = t THEN p \in Joined ELSE m \in members,
         subtree' /\ ~leftover' => p \in ExecPc \/ \E u \in Task \ {t} : Holds(u)
  PROVE  IInv'
<1>1. /\ CommandsFit' /\ FetchesFit'
      /\ pc' \in [Task -> {"idle", "resolve", "connect"} \cup ExecPc]
      /\ cmd' \in [Task -> Command]
      /\ fetch' \in [Task -> [addr : Addr \cup {NoAddr}, redirects : 0 .. MaxRedirects]]
      /\ pc'[t] = p /\ \A u \in Task \ {t} : pc'[u] = pc[u]
  BY OneCall DEF IInv
<1>2. TypeOK'
  BY <1>1 DEF TypeOK
<1>3. MembersHold'
  <2> SUFFICES ASSUME NEW m \in members'
               PROVE  pc'[m[1]] \in Joined
    BY DEF MembersHold, Joined
  <2>1. m[1] \in Task
    OBVIOUS
  <2>2. CASE m[1] = t
    BY <1>1, <2>2
  <2>3. CASE m[1] # t
    <3>1. m \in members /\ pc'[m[1]] = pc[m[1]]
      BY <1>1, <2>1, <2>3
    <3> QED BY <3>1 DEF IInv, MembersHold, Joined
  <2> QED BY <2>2, <2>3
<1>4. LastCallRemoves'
  BY <1>1 DEF LastCallRemoves, Holds
<1> QED BY <1>1, <1>2, <1>3, <1>4 DEF IInv

\* The same for a step that only moves on in the call's program text: neither
\* the subtree nor what is in it changes.
LEMMA PlainStep ==
  ASSUME IInv, NEW t \in Task,
         NEW p \in {"idle", "resolve", "connect"} \cup ExecPc, NEW c \in Command,
         NEW f \in [addr : Addr \cup {NoAddr}, redirects : 0 .. MaxRedirects],
         pc' = [pc EXCEPT ![t] = p], cmd' = [cmd EXCEPT ![t] = c],
         fetch' = [fetch EXCEPT ![t] = f],
         CommandAt(p, c), FetchAt(p, f),
         UNCHANGED <<delegated, cgroup>>, late' \subseteq Task,
         pc[t] \in Joined => p \in Joined,
         pc[t] \in ExecPc => p \in ExecPc
  PROVE  IInv'
<1>1. /\ delegated' = delegated /\ subtree' = subtree /\ members' = members
      /\ strays' = strays /\ leftover' = leftover
  BY DEF cgroup
<1>2. /\ delegated' \in BOOLEAN /\ subtree' \in BOOLEAN /\ leftover' \in BOOLEAN
      /\ strays' \in Nat /\ members' \subseteq Task \X {"main", "helper"}
  BY <1>1 DEF IInv, TypeOK
<1>3. \A m \in members' : IF m[1] = t THEN p \in Joined ELSE m \in members
  BY <1>1 DEF IInv, MembersHold, Joined
<1>4. subtree' /\ ~leftover' => p \in ExecPc \/ \E u \in Task \ {t} : Holds(u)
  BY <1>1 DEF IInv, LastCallRemoves, Holds
<1> QED BY <1>2, <1>3, <1>4, CallStep

\* What the invariant says of one call.
LEMMA CallFacts ==
  ASSUME IInv, NEW t \in Task
  PROVE  /\ pc[t] \in {"idle", "resolve", "connect"} \cup ExecPc
         /\ cmd[t] \in Command
         /\ fetch[t] \in [addr : Addr \cup {NoAddr}, redirects : 0 .. MaxRedirects]
         /\ CommandAt(pc[t], cmd[t]) /\ FetchAt(pc[t], fetch[t])
         /\ pc = [pc EXCEPT ![t] = pc[t]]
         /\ cmd = [cmd EXCEPT ![t] = cmd[t]]
         /\ fetch = [fetch EXCEPT ![t] = fetch[t]]
         /\ late \subseteq Task /\ late \ {t} \subseteq Task
  BY DEF IInv, TypeOK, CommandsFit, FetchesFit

-----------------------------------------------------------------------------
(* The actions of the harness.                                             *)

LEMMA CreateStep ==
  ASSUME IInv, NEW t \in Task, NEW q \in Program, Create(t, q)
  PROVE  IInv'
<1> DEFINE p == IF delegated THEN "limits" ELSE "spawn"
           c == Started(q)
<1>1. c \in Command /\ CommandAt(p, c) /\ p \in ExecPc
  BY StartedIsCommand, QuietFits DEF ExecPc
<1>2. pc' = [pc EXCEPT ![t] = p] /\ cmd' = [cmd EXCEPT ![t] = c]
  BY DEF Create, Goto, Set
<1>3. fetch' = [fetch EXCEPT ![t] = fetch[t]]
      /\ fetch[t] \in [addr : Addr \cup {NoAddr}, redirects : 0 .. MaxRedirects]
      /\ FetchAt(p, fetch[t])
  BY CallFacts DEF Create, FetchAt
<1>4. /\ delegated' \in BOOLEAN /\ subtree' \in BOOLEAN /\ leftover' \in BOOLEAN
      /\ strays' \in Nat /\ late' \subseteq Task /\ members' = members
      /\ members' \subseteq Task \X {"main", "helper"}
  BY DEF Create, IInv, TypeOK
<1>5. \A m \in members' : IF m[1] = t THEN p \in Joined ELSE m \in members
  BY <1>4 DEF Create, At, IInv, MembersHold
<1> HIDE DEF p, c
<1> QED BY <1>1, <1>2, <1>3, <1>4, <1>5, CallStep

\* An error before the spawn: the call ends without a command.
LEMMA LimitsStep ==
  ASSUME IInv, NEW t \in Task, Limits(t)
  PROVE  IInv'
<1> USE CallFacts, NoCommandIsCommand
<1>1. fetch' = [fetch EXCEPT ![t] = fetch[t]] /\ UNCHANGED <<delegated, cgroup>>
  BY DEF Limits
<1>2. CASE subtree
  <2>1. pc' = [pc EXCEPT ![t] = "spawn"] /\ cmd' = [cmd EXCEPT ![t] = cmd[t]]
        /\ late' \subseteq Task
    BY <1>2 DEF Limits, Goto
  <2>2. pc[t] = "limits" /\ CommandAt("spawn", cmd[t]) /\ FetchAt("spawn", fetch[t])
    BY DEF Limits, At, CommandAt, FetchAt
  <2> QED BY <1>1, <2>1, <2>2, PlainStep DEF Joined, ExecPc
<1>3. CASE ~subtree
  <2>1. pc' = [pc EXCEPT ![t] = "idle"] /\ cmd' = [cmd EXCEPT ![t] = NoCommand]
        /\ late' \subseteq Task
    BY <1>3 DEF Limits, Return, Goto, Set
  <2>2. pc[t] = "limits" /\ CommandAt("idle", NoCommand) /\ FetchAt("idle", fetch[t])
    BY QuietFits DEF Limits, At, FetchAt
  <2>3. /\ delegated' \in BOOLEAN /\ subtree' = FALSE /\ leftover' \in BOOLEAN
        /\ strays' \in Nat /\ members' = members
        /\ members' \subseteq Task \X {"main", "helper"}
    BY <1>1, <1>3 DEF cgroup, IInv, TypeOK
  <2>4. \A m \in members' : IF m[1] = t THEN "idle" \in Joined ELSE m \in members
    BY <2>2, <2>3 DEF IInv, MembersHold
  <2> QED BY <1>1, <2>1, <2>2, <2>3, <2>4, CallStep
<1> QED BY <1>2, <1>3

LEMMA LimitsErrorStep ==
  ASSUME IInv, NEW t \in Task, LimitsError(t)
  PROVE  IInv'
<1> USE CallFacts, NoCommandIsCommand
<1>1. /\ pc' = [pc EXCEPT ![t] = "idle"] /\ cmd' = [cmd EXCEPT ![t] = NoCommand]
      /\ fetch' = [fetch EXCEPT ![t] = fetch[t]] /\ late' \subseteq Task
  BY DEF LimitsError, Return, Goto, Set
<1>2. pc[t] = "limits" /\ CommandAt("idle", NoCommand) /\ FetchAt("idle", fetch[t])
  BY QuietFits DEF LimitsError, At, FetchAt
<1>3. /\ delegated' \in BOOLEAN /\ subtree' \in BOOLEAN /\ leftover' = TRUE
      /\ strays' \in Nat /\ members' = members
      /\ members' \subseteq Task \X {"main", "helper"}
  BY DEF LimitsError, IInv, TypeOK
<1>4. \A m \in members' : IF m[1] = t THEN "idle" \in Joined ELSE m \in members
  BY <1>2, <1>3 DEF IInv, MembersHold
<1> QED BY <1>1, <1>2, <1>3, <1>4, CallStep

\* A step that leaves the subtree alone and changes only the command, by the
\* harness or by the command itself.
LEMMA CommandStep ==
  ASSUME IInv, NEW t \in Task, NEW p \in ExecPc, NEW c \in Command,
         pc' = [pc EXCEPT ![t] = p], cmd' = [cmd EXCEPT ![t] = c],
         CommandAt(p, c), UNCHANGED <<delegated, cgroup, late, fetch>>,
         pc[t] \in ExecPc, pc[t] \in Joined => p \in Joined
  PROVE  IInv'
<1>1. FetchAt(p, fetch[t])
  BY DEF FetchAt, ExecPc
<1>2. fetch' = [fetch EXCEPT ![t] = fetch[t]] /\ late' \subseteq Task
  BY CallFacts
<1> QED BY <1>1, <1>2, CallFacts, PlainStep

\* The same for one that also changes the members of the call.
LEMMA MemberStep ==
  ASSUME IInv, NEW t \in Task, NEW p \in ExecPc, NEW c \in Command,
         pc' = [pc EXCEPT ![t] = p], cmd' = [cmd EXCEPT ![t] = c],
         CommandAt(p, c), UNCHANGED <<delegated, subtree, strays, leftover, late, fetch>>,
         members' \subseteq Task \X {"main", "helper"},
         \A m \in members' : IF m[1] = t THEN p \in Joined ELSE m \in members
  PROVE  IInv'
<1>1. FetchAt(p, fetch[t])
  BY DEF FetchAt, ExecPc
<1>2. fetch' = [fetch EXCEPT ![t] = fetch[t]]
  BY CallFacts
<1>3. /\ delegated' \in BOOLEAN /\ subtree' \in BOOLEAN /\ leftover' \in BOOLEAN
      /\ strays' \in Nat /\ late' \subseteq Task
  BY DEF IInv, TypeOK
<1> QED BY <1>1, <1>2, <1>3, CallFacts, CallStep

LEMMA SpawnStep ==
  ASSUME IInv, NEW t \in Task, Spawn(t)
  PROVE  IInv'
<1> DEFINE c == [cmd[t] EXCEPT !.main = "run"]
<1>1. pc[t] = "spawn" /\ cmd[t] \in Command
  BY CallFacts DEF Spawn, At
<1>2. c \in Command /\ c.main = "run"
  BY <1>1 DEF Command
<1>3. pc' = [pc EXCEPT ![t] = "join"] /\ cmd' = [cmd EXCEPT ![t] = c]
      /\ UNCHANGED <<delegated, cgroup, late, fetch>>
  BY DEF Spawn, Goto, Set
<1> HIDE DEF c
<1>4. CommandAt("join", c)
  BY <1>2 DEF CommandAt
<1> QED BY <1>1, <1>2, <1>3, <1>4, CommandStep DEF ExecPc, Joined

LEMMA SpawnErrorStep ==
  ASSUME IInv, NEW t \in Task, SpawnError(t)
  PROVE  IInv'
<1> DEFINE c == [cmd[t] EXCEPT !.failed = TRUE]
<1>1. pc[t] = "spawn" /\ cmd[t] \in Command /\ CommandAt("spawn", cmd[t])
  BY CallFacts DEF SpawnError, At
<1>2. c \in Command /\ c.main = cmd[t].main /\ c.failed
  BY <1>1 DEF Command
<1>3. pc' = [pc EXCEPT ![t] = "drop"] /\ cmd' = [cmd EXCEPT ![t] = c]
      /\ UNCHANGED <<delegated, cgroup, late, fetch>>
  BY DEF SpawnError, Goto, Set
<1> HIDE DEF c
<1>4. CommandAt("drop", c)
  BY <1>1, <1>2 DEF CommandAt
<1> QED BY <1>1, <1>2, <1>3, <1>4, CommandStep DEF ExecPc, Joined

LEMMA JoinStep ==
  ASSUME IInv, NEW t \in Task, Join(t)
  PROVE  IInv'
<1>1. pc[t] = "join" /\ cmd[t] \in Command /\ CommandAt("join", cmd[t])
  BY CallFacts DEF Join, At
<1>2. /\ pc' = [pc EXCEPT ![t] = "wait"] /\ cmd' = [cmd EXCEPT ![t] = cmd[t]]
      /\ UNCHANGED <<delegated, subtree, strays, leftover, late, fetch>>
  BY CallFacts DEF Join, Goto
<1>3. CommandAt("wait", cmd[t])
  BY <1>1 DEF CommandAt
<1>4. members' \subseteq members \cup {<<t, "main">>}
  BY DEF Join
<1>5. members' \subseteq Task \X {"main", "helper"}
  BY <1>4 DEF IInv, TypeOK
<1>6. \A m \in members' : IF m[1] = t THEN "wait" \in Joined ELSE m \in members
  BY <1>4 DEF Joined
<1> QED BY <1>1, <1>2, <1>3, <1>5, <1>6, MemberStep DEF ExecPc

LEMMA ReapStep ==
  ASSUME IInv, NEW t \in Task, Reap(t)
  PROVE  IInv'
<1>1. pc[t] = "wait" /\ cmd[t] \in Command /\ CommandAt("wait", cmd[t])
      /\ cmd[t].main \in {"exited", "signaled"}
  BY CallFacts DEF Reap, At
<1>2. /\ pc' = [pc EXCEPT ![t] = "stdout"] /\ cmd' = [cmd EXCEPT ![t] = cmd[t]]
      /\ UNCHANGED <<delegated, cgroup, late, fetch>>
  BY CallFacts DEF Reap, Goto
<1>3. CommandAt("stdout", cmd[t])
  BY <1>1 DEF CommandAt
<1> QED BY <1>1, <1>2, <1>3, CommandStep DEF ExecPc, Joined

LEMMA KillStep ==
  ASSUME IInv, NEW t \in Task, Kill(t)
  PROVE  IInv'
<1> DEFINE c == [cmd[t] EXCEPT !.main = "killed", !.timedOut = TRUE]
<1>1. pc[t] = "wait" /\ cmd[t] \in Command
  BY CallFacts DEF Kill, At
<1>2. c \in Command /\ c.main = "killed" /\ c.timedOut
  BY <1>1 DEF Command
<1>3. /\ pc' = [pc EXCEPT ![t] = "stdout"] /\ cmd' = [cmd EXCEPT ![t] = c]
      /\ UNCHANGED <<delegated, subtree, strays, leftover, late, fetch>>
      /\ members' \subseteq members
  BY DEF Kill, Goto, Set
<1> HIDE DEF c
<1>4. CommandAt("stdout", c)
  BY <1>2 DEF CommandAt
<1>5. members' \subseteq Task \X {"main", "helper"}
  BY <1>3 DEF IInv, TypeOK
<1>6. \A m \in members' : IF m[1] = t THEN "stdout" \in Joined ELSE m \in members
  BY <1>3 DEF Joined
<1> QED BY <1>2, <1>3, <1>4, <1>5, <1>6, MemberStep DEF ExecPc

LEMMA WaitErrorStep ==
  ASSUME IInv, NEW t \in Task, WaitError(t)
  PROVE  IInv'
<1> DEFINE c == [cmd[t] EXCEPT !.failed = TRUE]
<1>1. pc[t] = "wait" /\ cmd[t] \in Command /\ CommandAt("wait", cmd[t])
  BY CallFacts DEF WaitError, At
<1>2. /\ c \in Command /\ c.main = cmd[t].main /\ c.failed
      /\ c.want = cmd[t].want /\ c.helper = cmd[t].helper
  BY <1>1 DEF Command
<1>3. pc' = [pc EXCEPT ![t] = "drop"] /\ cmd' = [cmd EXCEPT ![t] = c]
      /\ UNCHANGED <<delegated, cgroup, late, fetch>>
  BY DEF WaitError, Goto, Set
<1> HIDE DEF c
<1>4. CommandAt("drop", c)
  BY <1>1, <1>2 DEF CommandAt
<1> QED BY <1>1, <1>2, <1>3, <1>4, CommandStep DEF ExecPc, Joined

LEMMA ReadStep ==
  ASSUME IInv, NEW t \in Task, NEW s \in Streams, Read(t, s)
  PROVE  IInv'
<1> DEFINE k == cmd[t]
           c == [k EXCEPT !.pipe[s] = @ - 1]
<1>1. pc[t] = (IF s = "out" THEN "stdout" ELSE "stderr") /\ k \in Command
      /\ CommandAt(pc[t], k) /\ k.pipe[s] > 0
  BY CallFacts DEF Read, Reading, At
<1>2. cmd' = [cmd EXCEPT ![t] = c] /\ UNCHANGED <<delegated, cgroup, pc, late, fetch>>
  BY DEF Read, Set
<1> HIDE DEF k
<1>3. k.pipe \in [Streams -> Nat]
  BY <1>1 DEF Command
<1>4. [k.pipe EXCEPT ![s] = @ - 1] \in [Streams -> Nat]
  BY <1>1, <1>3
<1>5. c = [k EXCEPT !.pipe = [k.pipe EXCEPT ![s] = @ - 1]]
  BY <1>1 DEF Command
<1>6. /\ c \in Command /\ c.main = k.main /\ c.helper = k.helper /\ c.want = k.want
      /\ c.timedOut = k.timedOut /\ c.failed = k.failed /\ c.cut = k.cut
      /\ \A r \in Streams \ {s} : c.pipe[r] = k.pipe[r]
  BY <1>1, <1>3, <1>4, <1>5 DEF Command
<1> HIDE DEF c
<1>7. CommandAt(pc[t], c)
  BY <1>1, <1>6 DEF CommandAt, Streams
<1>8. pc' = [pc EXCEPT ![t] = pc[t]]
  BY <1>2, CallFacts
<1>9. pc[t] \in ExecPc
  BY <1>1 DEF ExecPc
<1> QED BY <1>2, <1>6, <1>7, <1>8, <1>9, CommandStep

\* The end of a stream is read when its pipe is empty and no process can write:
\* the place where the pipe of a successful call is known to stay empty.
LEMMA ReadEofStep ==
  ASSUME IInv, NEW t \in Task, NEW s \in Streams, ReadEof(t, s)
  PROVE  IInv'
<1> DEFINE k == cmd[t]
<1>1. /\ pc[t] = (IF s = "out" THEN "stdout" ELSE "stderr") /\ k \in Command
      /\ CommandAt(pc[t], k) /\ k.pipe[s] = 0 /\ k.main # "run" /\ k.helper # "open"
  BY CallFacts DEF ReadEof, Reading, At, Writer
<1>2. /\ pc' = [pc EXCEPT ![t] = After(s)] /\ cmd' = [cmd EXCEPT ![t] = k]
      /\ UNCHANGED <<delegated, cgroup, late, fetch>>
  BY CallFacts DEF ReadEof, Goto
<1> HIDE DEF k
<1>3. CommandAt(After(s), k)
  BY <1>1 DEF CommandAt, After, Streams
<1> QED BY <1>1, <1>2, <1>3, CommandStep DEF ExecPc, Joined, After, k

\* A read that fails leaves its mark on the call.
LEMMA ReadErrorStep ==
  ASSUME IInv, NEW t \in Task, NEW s \in Streams, ReadError(t, s)
  PROVE  IInv'
<1> DEFINE k == cmd[t]
           c == [k EXCEPT !.cut = TRUE]
<1>1. /\ pc[t] = (IF s = "out" THEN "stdout" ELSE "stderr") /\ k \in Command
      /\ CommandAt(pc[t], k)
  BY CallFacts DEF ReadError, Reading, At
<1>2. /\ pc' = [pc EXCEPT ![t] = After(s)] /\ cmd' = [cmd EXCEPT ![t] = c]
      /\ UNCHANGED <<delegated, cgroup, late, fetch>>
  BY DEF ReadError, Goto, Set
<1> HIDE DEF k
<1>3. /\ c \in Command /\ c.main = k.main /\ c.helper = k.helper /\ c.want = k.want
      /\ c.timedOut = k.timedOut /\ c.failed = k.failed /\ c.cut
  BY <1>1 DEF Command
<1> HIDE DEF c
<1>4. CommandAt(After(s), c)
  BY <1>1, <1>3 DEF CommandAt, After, Streams
<1> QED BY <1>1, <1>2, <1>3, <1>4, CommandStep DEF ExecPc, Joined, After

\* A call has at most two processes in the subtree.
LEMMA OwnIsFinite ==
  ASSUME IInv, NEW t \in Task
  PROVE  Cardinality(Own(t)) \in Nat
<1>1. Own(t) \subseteq {<<t, "main">>, <<t, "helper">>}
  BY DEF Own, IInv, TypeOK
<1>2. IsFiniteSet({<<t, "main">>, <<t, "helper">>})
  <2>1. IsFiniteSet({<<t, "main">>})
    BY FS_Singleton
  <2>2. IsFiniteSet({<<t, "main">>} \cup {<<t, "helper">>})
    BY <2>1, FS_AddElement
  <2>3. {<<t, "main">>, <<t, "helper">>} = {<<t, "main">>} \cup {<<t, "helper">>}
    OBVIOUS
  <2> QED BY <2>2, <2>3
<1>3. IsFiniteSet(Own(t))
  BY <1>1, <1>2, FS_Subset
<1> QED BY <1>3, FS_CardinalityType

\* The last call to leave takes the subtree away, or sees what keeps it; one
\* that leaves another behind does not count it as left over.
LEMMA DropCgroupStep ==
  ASSUME IInv, NEW t \in Task, DropCgroup(t)
  PROVE  IInv'
<1>1. /\ pc' = [pc EXCEPT ![t] = "idle"] /\ cmd' = [cmd EXCEPT ![t] = NoCommand]
      /\ fetch' = [fetch EXCEPT ![t] = fetch[t]] /\ late' \subseteq Task
  BY CallFacts DEF DropCgroup, Return, Goto, Set
<1>2. NoCommand \in Command /\ CommandAt("idle", NoCommand) /\ FetchAt("idle", fetch[t])
  BY NoCommandIsCommand, QuietFits DEF FetchAt
<1>3. delegated' \in BOOLEAN /\ strays' \in Nat
  BY OwnIsFinite DEF DropCgroup, IInv, TypeOK
<1>4. members' = members \ Own(t)
  BY DEF DropCgroup
<1>5. members' \subseteq Task \X {"main", "helper"}
  BY <1>4 DEF IInv, TypeOK
<1>6. \A m \in members' : m[1] # t /\ m \in members
  BY <1>4 DEF Own
<1>7. subtree' \in BOOLEAN /\ leftover' \in BOOLEAN
      /\ (subtree' /\ ~leftover' => members' # {})
  BY DEF DropCgroup, Rmdir, IInv, TypeOK
<1>8. members' # {} => \E u \in Task \ {t} : Holds(u)
  BY <1>5, <1>6 DEF IInv, MembersHold, Holds, ExecPc
<1> QED BY <1>1, <1>2, <1>3, <1>5, <1>6, <1>7, <1>8, CallFacts, CallStep

-----------------------------------------------------------------------------
(* The command and its helper.                                             *)

\* A command that runs, or whose helper does, belongs to a call past its spawn.
LEMMA RunningHolds ==
  ASSUME IInv, NEW t \in Task, cmd[t].main = "run" \/ cmd[t].helper = "open"
  PROVE  pc[t] \in {"join", "wait", "stdout", "stderr", "drop"} /\ pc[t] \in ExecPc
  BY CallFacts DEF CommandAt, ExecPc

LEMMA MainWriteStep ==
  ASSUME IInv, NEW t \in Task, NEW s \in Streams, MainWrite(t, s)
  PROVE  IInv'
<1> DEFINE k == cmd[t]
           c == [k EXCEPT !.want[s] = @ - 1, !.pipe[s] = @ + 1]
<1>1. /\ pc[t] \in ExecPc /\ k \in Command /\ CommandAt(pc[t], k)
      /\ k.main = "run" /\ k.want[s] > 0
      /\ pc[t] \in {"join", "wait", "stdout", "stderr", "drop"}
  BY CallFacts, RunningHolds DEF MainWrite
<1>2. cmd' = [cmd EXCEPT ![t] = c] /\ UNCHANGED <<delegated, cgroup, pc, late, fetch>>
  BY DEF MainWrite, Set
<1> HIDE DEF k
<1>3. k.pipe \in [Streams -> Nat] /\ k.want \in [Streams -> Nat]
  BY <1>1 DEF Command
<1>4. [k.pipe EXCEPT ![s] = @ + 1] \in [Streams -> Nat]
      /\ [k.want EXCEPT ![s] = @ - 1] \in [Streams -> Nat]
  BY <1>1, <1>3
<1>5. c = [k EXCEPT !.want = [k.want EXCEPT ![s] = @ - 1],
                    !.pipe = [k.pipe EXCEPT ![s] = @ + 1]]
  BY <1>1 DEF Command
<1>6. c \in Command /\ c.main = k.main /\ c.timedOut = k.timedOut /\ c.failed = k.failed /\ c.cut = k.cut
  BY <1>1, <1>4, <1>5 DEF Command
<1> HIDE DEF c
<1>7. CommandAt(pc[t], c)
  BY <1>1, <1>6 DEF CommandAt
<1>8. pc' = [pc EXCEPT ![t] = pc[t]]
  BY <1>2, CallFacts
<1> QED BY <1>1, <1>2, <1>6, <1>7, <1>8, CommandStep

LEMMA HelperWriteStep ==
  ASSUME IInv, NEW t \in Task, NEW s \in Streams, HelperWrite(t, s)
  PROVE  IInv'
<1> DEFINE k == cmd[t]
           c == [k EXCEPT !.helperWant[s] = @ - 1, !.pipe[s] = @ + 1]
<1>1. /\ pc[t] \in ExecPc /\ k \in Command /\ CommandAt(pc[t], k)
      /\ k.helper = "open" /\ k.helperWant[s] > 0
      /\ pc[t] \in {"join", "wait", "stdout", "stderr", "drop"}
  BY CallFacts, RunningHolds DEF HelperWrite
<1>2. cmd' = [cmd EXCEPT ![t] = c] /\ UNCHANGED <<delegated, cgroup, pc, late, fetch>>
  BY DEF HelperWrite, Set
<1> HIDE DEF k
<1>3. k.pipe \in [Streams -> Nat] /\ k.helperWant \in [Streams -> Nat]
  BY <1>1 DEF Command
<1>4. [k.pipe EXCEPT ![s] = @ + 1] \in [Streams -> Nat]
      /\ [k.helperWant EXCEPT ![s] = @ - 1] \in [Streams -> Nat]
  BY <1>1, <1>3
<1>5. c = [k EXCEPT !.helperWant = [k.helperWant EXCEPT ![s] = @ - 1],
                    !.pipe = [k.pipe EXCEPT ![s] = @ + 1]]
  BY <1>1 DEF Command
<1>6. /\ c \in Command /\ c.main = k.main /\ c.helper = k.helper /\ c.want = k.want
      /\ c.timedOut = k.timedOut /\ c.failed = k.failed /\ c.cut = k.cut
  BY <1>1, <1>4, <1>5 DEF Command
<1> HIDE DEF c
<1>7. CommandAt(pc[t], c)
  BY <1>1, <1>6 DEF CommandAt
<1>8. pc' = [pc EXCEPT ![t] = pc[t]]
  BY <1>2, CallFacts
<1> QED BY <1>1, <1>2, <1>6, <1>7, <1>8, CommandStep

LEMMA ForkStep ==
  ASSUME IInv, NEW t \in Task, Fork(t)
  PROVE  IInv'
<1> DEFINE k == cmd[t]
           c == [k EXCEPT !.helper = "open"]
<1>1. /\ pc[t] \in ExecPc /\ k \in Command /\ CommandAt(pc[t], k) /\ k.main = "run"
      /\ pc[t] \in {"join", "wait", "stdout", "stderr", "drop"}
  BY CallFacts, RunningHolds DEF Fork
<1>2. /\ cmd' = [cmd EXCEPT ![t] = c]
      /\ UNCHANGED <<delegated, subtree, strays, leftover, late, fetch>>
  BY DEF Fork, Set
<1>3. pc' = [pc EXCEPT ![t] = pc[t]]
  BY CallFacts DEF Fork
<1>4. \/ members' = members
      \/ <<t, "main">> \in members /\ members' = members \cup {<<t, "helper">>}
  BY DEF Fork
<1> HIDE DEF k
<1>5. c \in Command /\ c.main = k.main /\ c.timedOut = k.timedOut /\ c.failed = k.failed /\ c.cut = k.cut
  BY <1>1 DEF Command
<1> HIDE DEF c
<1>6. CommandAt(pc[t], c)
  BY <1>1, <1>5 DEF CommandAt
<1>7. members' \subseteq Task \X {"main", "helper"}
  BY <1>4 DEF IInv, TypeOK
<1>8. \A m \in members' : IF m[1] = t THEN pc[t] \in Joined ELSE m \in members
  BY <1>4 DEF IInv, MembersHold, Joined
<1> QED BY <1>1, <1>2, <1>3, <1>5, <1>6, <1>7, <1>8, MemberStep

LEMMA MainExitStep ==
  ASSUME IInv, NEW t \in Task, MainExit(t)
  PROVE  IInv'
<1> DEFINE k == cmd[t]
           c == [k EXCEPT !.main = "exited"]
<1>1. /\ pc[t] \in ExecPc /\ k \in Command /\ CommandAt(pc[t], k) /\ k.main = "run"
      /\ pc[t] \in {"join", "wait", "stdout", "stderr", "drop"}
      /\ k.want = NoBytes /\ k.helper # "due"
  BY CallFacts, RunningHolds DEF MainExit
<1>2. /\ cmd' = [cmd EXCEPT ![t] = c] /\ members' \subseteq members
      /\ UNCHANGED <<delegated, subtree, strays, leftover, late, fetch>>
  BY DEF MainExit, Set
<1>3. pc' = [pc EXCEPT ![t] = pc[t]]
  BY CallFacts DEF MainExit
<1> HIDE DEF k
<1>4. /\ c \in Command /\ c.main = "exited" /\ c.helper = k.helper /\ c.want = k.want
      /\ c.timedOut = k.timedOut /\ c.failed = k.failed /\ c.cut = k.cut /\ c.pipe = k.pipe
  BY <1>1 DEF Command
<1> HIDE DEF c
<1>5. CommandAt(pc[t], c)
  BY <1>1, <1>4 DEF CommandAt
<1>6. members' \subseteq Task \X {"main", "helper"}
  BY <1>2 DEF IInv, TypeOK
<1>7. \A m \in members' : IF m[1] = t THEN pc[t] \in Joined ELSE m \in members
  BY <1>2 DEF IInv, MembersHold, Joined
<1> QED BY <1>1, <1>2, <1>3, <1>4, <1>5, <1>6, <1>7, MemberStep

\* A signal ends the command, and with it what it would still have done.
LEMMA SignalStep ==
  ASSUME IInv, NEW t \in Task, Signal(t)
  PROVE  IInv'
<1> DEFINE k == cmd[t]
           h == IF k.helper = "due" THEN "none" ELSE k.helper
           c == [k EXCEPT !.main = "signaled", !.helper = h]
<1>1. /\ pc[t] \in ExecPc /\ k \in Command /\ CommandAt(pc[t], k) /\ k.main = "run"
      /\ pc[t] \in {"join", "wait", "stdout", "stderr", "drop"}
  BY CallFacts, RunningHolds DEF Signal
<1>2. /\ cmd' = [cmd EXCEPT ![t] = c] /\ members' \subseteq members
      /\ UNCHANGED <<delegated, subtree, strays, leftover, late, fetch>>
  BY DEF Signal, Set
<1>3. pc' = [pc EXCEPT ![t] = pc[t]]
  BY CallFacts DEF Signal
<1> HIDE DEF k
<1>4. h \in {"none", "open", "detached", "gone"} /\ (h = "open" => k.helper = "open")
  BY <1>1 DEF Command
<1> HIDE DEF h
<1>5. /\ c \in Command /\ c.main = "signaled" /\ c.helper = h /\ c.cut = k.cut
      /\ c.timedOut = k.timedOut /\ c.failed = k.failed /\ c.pipe = k.pipe
  BY <1>1, <1>4 DEF Command
<1> HIDE DEF c
<1>6. CommandAt(pc[t], c)
  BY <1>1, <1>4, <1>5 DEF CommandAt
<1>7. members' \subseteq Task \X {"main", "helper"}
  BY <1>2 DEF IInv, TypeOK
<1>8. \A m \in members' : IF m[1] = t THEN pc[t] \in Joined ELSE m \in members
  BY <1>2 DEF IInv, MembersHold, Joined
<1> QED BY <1>1, <1>2, <1>3, <1>5, <1>6, <1>7, <1>8, MemberStep

LEMMA HelperDoneStep ==
  ASSUME IInv, NEW t \in Task, HelperDone(t)
  PROVE  IInv'
<1> DEFINE k == cmd[t]
           h == IF k.prog.detach THEN "detached" ELSE "gone"
           c == [k EXCEPT !.helper = h]
<1>1. /\ pc[t] \in ExecPc /\ k \in Command /\ CommandAt(pc[t], k) /\ k.helper = "open"
      /\ pc[t] \in {"join", "wait", "stdout", "stderr", "drop"}
  BY CallFacts, RunningHolds DEF HelperDone
<1>2. /\ cmd' = [cmd EXCEPT ![t] = c] /\ members' \subseteq members
      /\ UNCHANGED <<delegated, subtree, strays, leftover, late, fetch>>
  BY DEF HelperDone, Set
<1>3. pc' = [pc EXCEPT ![t] = pc[t]]
  BY CallFacts DEF HelperDone
<1>4. h \in {"detached", "gone"}
  OBVIOUS
<1> HIDE DEF k, h
<1>5. /\ c \in Command /\ c.main = k.main /\ c.helper = h /\ c.want = k.want
      /\ c.timedOut = k.timedOut /\ c.failed = k.failed /\ c.cut = k.cut /\ c.pipe = k.pipe
  BY <1>1, <1>4 DEF Command
<1> HIDE DEF c
<1>6. CommandAt(pc[t], c)
  BY <1>1, <1>4, <1>5 DEF CommandAt
<1>7. members' \subseteq Task \X {"main", "helper"}
  BY <1>2 DEF IInv, TypeOK
<1>8. \A m \in members' : IF m[1] = t THEN pc[t] \in Joined ELSE m \in members
  BY <1>2 DEF IInv, MembersHold, Joined
<1> QED BY <1>1, <1>2, <1>3, <1>5, <1>6, <1>7, <1>8, MemberStep

LEMMA StrayExitStep ==
  ASSUME IInv, StrayExit
  PROVE  IInv'
  BY DEF StrayExit, IInv, TypeOK, CommandsFit, FetchesFit, MembersHold, LastCallRemoves,
         Holds, FetchAt, Safe

-----------------------------------------------------------------------------
(* The http calls.                                                         *)

\* A step of an http call: no command, and no part in the subtree.
LEMMA HttpStep ==
  ASSUME IInv, NEW t \in Task,
         NEW p \in {"idle", "resolve", "connect"},
         NEW f \in [addr : Addr \cup {NoAddr}, redirects : 0 .. MaxRedirects],
         pc[t] \in {"idle", "resolve", "connect"},
         pc' = [pc EXCEPT ![t] = p], fetch' = [fetch EXCEPT ![t] = f],
         FetchAt(p, f), UNCHANGED <<delegated, cgroup, cmd>>, late' \subseteq Task
  PROVE  IInv'
<1>1. cmd[t] \in Command /\ cmd' = [cmd EXCEPT ![t] = cmd[t]]
  BY CallFacts
<1>2. CommandAt(p, cmd[t])
  BY CallFacts DEF CommandAt
<1> QED BY <1>1, <1>2, PlainStep DEF Joined, ExecPc

LEMMA NoFetchIsFetch ==
  ASSUME MaxRedirects \in Nat
  PROVE  NoFetch \in [addr : Addr \cup {NoAddr}, redirects : 0 .. MaxRedirects]
  BY DEF NoFetch

LEMMA FetchStep ==
  ASSUME IInv, NEW t \in Task, Fetch(t), MaxRedirects \in Nat
  PROVE  IInv'
<1>1. /\ pc[t] = "idle" /\ pc' = [pc EXCEPT ![t] = "resolve"]
      /\ fetch' = [fetch EXCEPT ![t] = NoFetch] /\ UNCHANGED <<delegated, cgroup, cmd>>
      /\ late' \subseteq Task
  BY CallFacts DEF Fetch, At, Goto
<1>2. FetchAt("resolve", NoFetch)
  BY DEF FetchAt
<1> QED BY <1>1, <1>2, NoFetchIsFetch, HttpStep

LEMMA ResolveStep ==
  ASSUME IInv, NEW t \in Task, Resolve(t), MaxRedirects \in Nat
  PROVE  IInv'
<1>1. pc[t] = "resolve" /\ UNCHANGED <<delegated, cgroup, cmd>>
  BY DEF Resolve, At
<1>2. PICK ips \in SUBSET Addr :
        IF Candidates(ips) = {}
        THEN Return(t) /\ fetch' = [fetch EXCEPT ![t] = NoFetch]
        ELSE /\ \E a \in Candidates(ips) : fetch' = [fetch EXCEPT ![t].addr = a]
             /\ Goto(t, "connect")
             /\ UNCHANGED late
  BY DEF Resolve
<1>3. CASE Candidates(ips) = {}
  <2>1. /\ pc' = [pc EXCEPT ![t] = "idle"] /\ late' \subseteq Task
        /\ fetch' = [fetch EXCEPT ![t] = NoFetch]
    BY <1>2, <1>3, CallFacts DEF Return, Goto
  <2>2. FetchAt("idle", NoFetch)
    BY DEF FetchAt
  <2> QED BY <1>1, <2>1, <2>2, NoFetchIsFetch, HttpStep
<1>4. CASE Candidates(ips) # {}
  <2>1. PICK a \in Candidates(ips) : fetch' = [fetch EXCEPT ![t].addr = a]
    BY <1>2, <1>4
  <2> DEFINE k == fetch[t]
             f == [k EXCEPT !.addr = a]
  <2>2. /\ pc' = [pc EXCEPT ![t] = "connect"] /\ late' \subseteq Task
        /\ fetch' = [fetch EXCEPT ![t] = f]
    BY <1>2, <1>4, <2>1, CallFacts DEF Goto
  <2>3. a \in Addr /\ Safe(a)
    BY DEF Candidates
  <2>4. k \in [addr : Addr \cup {NoAddr}, redirects : 0 .. MaxRedirects]
    BY CallFacts
  <2> HIDE DEF k
  <2>5. f \in [addr : Addr \cup {NoAddr}, redirects : 0 .. MaxRedirects] /\ f.addr = a
    BY <2>3, <2>4
  <2> HIDE DEF f
  <2>6. FetchAt("connect", f)
    BY <2>3, <2>5 DEF FetchAt
  <2> QED BY <1>1, <2>2, <2>5, <2>6, HttpStep
<1> QED BY <1>3, <1>4

LEMMA RedirectStep ==
  ASSUME IInv, NEW t \in Task, Redirect(t), MaxRedirects \in Nat
  PROVE  IInv'
<1> DEFINE k == fetch[t]
           f == [addr |-> NoAddr, redirects |-> k.redirects + 1]
<1>1. /\ pc[t] = "connect" /\ pc' = [pc EXCEPT ![t] = "resolve"]
      /\ fetch' = [fetch EXCEPT ![t] = f] /\ UNCHANGED <<delegated, cgroup, cmd>>
      /\ late' \subseteq Task /\ k.redirects < MaxRedirects
  BY CallFacts DEF Redirect, At, Goto, Follows
<1>2. k \in [addr : Addr \cup {NoAddr}, redirects : 0 .. MaxRedirects]
  BY CallFacts
<1> HIDE DEF k
<1>3. f \in [addr : Addr \cup {NoAddr}, redirects : 0 .. MaxRedirects]
  BY <1>1, <1>2
<1>4. FetchAt("resolve", f)
  BY DEF FetchAt
<1> HIDE DEF f
<1> QED BY <1>1, <1>3, <1>4, HttpStep

LEMMA AnswerStep ==
  ASSUME IInv, NEW t \in Task, Answer(t), MaxRedirects \in Nat
  PROVE  IInv'
<1>1. /\ pc[t] = "connect" /\ pc' = [pc EXCEPT ![t] = "idle"]
      /\ fetch' = [fetch EXCEPT ![t] = NoFetch] /\ UNCHANGED <<delegated, cgroup, cmd>>
      /\ late' \subseteq Task
  BY CallFacts DEF Answer, At, Return, Goto
<1>2. FetchAt("idle", NoFetch)
  BY DEF FetchAt
<1> QED BY <1>1, <1>2, NoFetchIsFetch, HttpStep

LEMMA LateStep ==
  ASSUME IInv, NEW t \in Task, Late(t)
  PROVE  IInv'
  BY DEF Late, cgroup, IInv, TypeOK, CommandsFit, FetchesFit, MembersHold, LastCallRemoves,
         Holds, FetchAt, Safe

-----------------------------------------------------------------------------
(* The theorems.                                                           *)

\* The initial state satisfies the invariant.
LEMMA ToolInit ==
  ASSUME Init
  PROVE  IInv
<1> USE ToolHarnessAssumption
<1>1. NoFetch \in [addr : Addr \cup {NoAddr}, redirects : 0 .. MaxRedirects]
  BY NoFetchIsFetch
<1>2. TypeOK
  BY <1>1, NoCommandIsCommand DEF Init, TypeOK
<1>3. CommandsFit
  BY NoCommandIsCommand, QuietFits DEF Init, CommandsFit
<1> QED BY <1>2, <1>3 DEF Init, IInv, FetchesFit, FetchAt, MembersHold, LastCallRemoves

\* Every step preserves it: one lemma per action.
LEMMA ToolNext ==
  ASSUME IInv, [Next]_vars
  PROVE  IInv'
<1>1. MaxRedirects \in Nat /\ \A t \in Task : Programs[t] \subseteq Program
  BY ToolHarnessAssumption
<1>2. CASE UNCHANGED vars
  BY <1>2 DEF vars, IInv, TypeOK, CommandsFit, FetchesFit, MembersHold, LastCallRemoves,
              Holds, FetchAt, Safe
<1>3. ASSUME NEW t \in Task, NEW q \in Programs[t], Create(t, q)
      PROVE  IInv'
  BY <1>1, <1>3, CreateStep
<1>4. ASSUME NEW t \in Task, Exec(t)
      PROVE  IInv'
  BY <1>4, LimitsStep, SpawnStep, JoinStep, ReapStep, KillStep, ReadStep, ReadEofStep,
     DropCgroupStep DEF Exec
<1>5. ASSUME NEW t \in Task, Fetch(t) \/ Http(t)
      PROVE  IInv'
  BY <1>1, <1>5, FetchStep, ResolveStep, RedirectStep, AnswerStep DEF Http
<1>6. ASSUME NEW t \in Task, Main(t) \/ Helper(t)
      PROVE  IInv'
  BY <1>6, ForkStep, MainExitStep, SignalStep, MainWriteStep, HelperDoneStep, HelperWriteStep
     DEF Main, Helper
<1>7. ASSUME NEW t \in Task, ExecError(t)
      PROVE  IInv'
  BY <1>7, LimitsErrorStep, SpawnErrorStep, WaitErrorStep, ReadErrorStep DEF ExecError
<1> QED BY <1>2, <1>3, <1>4, <1>5, <1>6, <1>7, LateStep, StrayExitStep DEF Next

\* The invariant implies what the run checks ...
LEMMA IInvImpliesInv ==
  ASSUME IInv
  PROVE  Inv
  BY DEF IInv, Inv, FetchesFit, FetchAt, PinnedIsSafe, At, Safe

\* ... of a finished call as well.
LEMMA IInvImpliesComplete ==
  ASSUME IInv
  PROVE  SuccessIsComplete
<1> SUFFICES ASSUME NEW t \in Task, pc[t] = "drop", ~cmd[t].timedOut, ~cmd[t].failed
             PROVE  /\ cmd[t].main \in {"exited", "signaled"}
                    /\ cmd[t].main = "exited" => cmd[t].want = NoBytes
                    /\ ~cmd[t].cut => /\ cmd[t].pipe = NoBytes
                                      /\ cmd[t].helper \notin {"due", "open"}
  BY DEF SuccessIsComplete, At
<1>1. cmd[t].pipe \in [Streams -> Nat]
  BY CallFacts DEF Command
<1>2. CommandAt("drop", cmd[t])
  BY CallFacts
<1> QED BY <1>1, <1>2, NoBytesIsNone DEF CommandAt

\* http_get and http_post connect to no address but one that passed the filter,
\* on any hop (dispatch_http), and the last of the calls that share the cgroup
\* subtree removes it unless it had to leave it behind (CgroupSubtree::drop).
THEOREM ToolInvariant == Spec => []Inv
<1>1. Init => IInv
  BY ToolInit
<1>2. IInv /\ [Next]_vars => IInv'
  BY ToolNext
<1> QED BY <1>1, <1>2, IInvImpliesInv, PTL DEF Spec

\* A python_exec or shell call that reports success has waited for the end of
\* its command, by exit or by a signal, and has all that the command and its
\* helpers wrote unless a read failed, although it reads the pipes only after
\* the wait (wait_with_timeout).
THEOREM ToolSuccess == Spec => []SuccessIsComplete
<1>1. Init => IInv
  BY ToolInit
<1>2. IInv /\ [Next]_vars => IInv'
  BY ToolNext
<1> QED BY <1>1, <1>2, IInvImpliesComplete, PTL DEF Spec
=============================================================================
