----------------------------- MODULE ToolHarness -----------------------------
(***************************************************************************)
(* The tool harness (crates/rollout-harness-tool/src): tasks run the calls *)
(* of an invoke() one after the other, and several tasks share a process.  *)
(*                                                                         *)
(* python_exec and shell start a command in a cgroup subtree, poll it      *)
(* until it ends or its time is up, then read its two pipes to the end     *)
(* (sandbox/launcher.rs, sandbox/cgroup.rs).  The subtree is named after   *)
(* the process, so concurrent calls share it.  http_get and http_post      *)
(* resolve, filter and pin an address for every hop (http/mod.rs).         *)
(*                                                                         *)
(* A command writes into pipes that hold PipeSize units, may fork a helper *)
(* that inherits them, may be ended by a signal and may never end.         *)
(***************************************************************************)
EXTENDS Integers, FiniteSets

CONSTANTS Task,
          Programs,     \* what the commands of each task do: see Program
          Fetchers,     \* the tasks that make http calls
          PipeSize,     \* units a pipe holds
          Delegations,  \* is a writable cgroup tree there? the cases considered
          Addr, NoAddr, \* addresses a name may resolve to
          Blocked,      \* the addresses in a blocked range
          Allowlist,    \* egress_allowlist
          MaxRedirects, \* MAX_REDIRECTS
          MaxStrays     \* bound: no more calls that outlive their end beyond it

Streams == {"out", "err"}

\* What the command and its helper write in all; a command may have a helper,
\* which may close the pipes when it has written ("detach").
Program == [main : [Streams -> Nat], helper : [Streams -> Nat],
            forks : BOOLEAN, detach : BOOLEAN]

ASSUME ToolHarnessAssumption ==
  /\ Programs \in [Task -> SUBSET Program]
  /\ Fetchers \subseteq Task
  /\ PipeSize \in Nat \ {0}
  /\ Delegations \subseteq BOOLEAN
  /\ NoAddr \notin Addr
  /\ Blocked \subseteq Addr
  /\ Allowlist \subseteq Addr
  /\ MaxRedirects \in Nat
  /\ MaxStrays \in Nat

VARIABLES delegated,
          subtree,   \* does the directory rollout-tool-<pid> exist?
          members,   \* the processes of running calls in it: <<task, role>>
          strays,    \* processes in it that outlived their call
          leftover,  \* did a call leave it behind for another reason than a call?
          pc,        \* how far each task is with its call
          cmd,       \* the command of each task
          late,      \* the tasks whose call is past its deadline
          fetch      \* the http call of each task

cgroup == <<subtree, members, strays, leftover>>
vars == <<delegated, subtree, members, strays, leftover, pc, cmd, late, fetch>>

NoBytes == [s \in Streams |-> 0]

\* want: what main and helper have still to write; pipe: what is to be read;
\* cut: a read failed.
Command == [main : {"none", "run", "exited", "signaled", "killed"},
            helper : {"none", "due", "open", "detached", "gone"},
            prog : Program, timedOut : BOOLEAN, failed : BOOLEAN, cut : BOOLEAN,
            want : [Streams -> Nat], helperWant : [Streams -> Nat],
            pipe : [Streams -> Nat]]

Started(p) == [main |-> "none", helper |-> IF p.forks THEN "due" ELSE "none",
               prog |-> p, timedOut |-> FALSE, failed |-> FALSE, cut |-> FALSE,
               want |-> p.main, helperWant |-> p.helper, pipe |-> NoBytes]

\* Between two calls.
NoCommand == Started([main |-> NoBytes, helper |-> NoBytes,
                      forks |-> FALSE, detach |-> FALSE])

NoFetch == [addr |-> NoAddr, redirects |-> 0]

ExecPc == {"limits", "spawn", "join", "wait", "stdout", "stderr", "drop"}

TypeOK ==
  /\ delegated \in BOOLEAN
  /\ subtree \in BOOLEAN
  /\ members \subseteq Task \X {"main", "helper"}
  /\ strays \in Nat
  /\ leftover \in BOOLEAN
  /\ pc \in [Task -> {"idle", "resolve", "connect"} \cup ExecPc]
  /\ cmd \in [Task -> Command]
  /\ late \subseteq Task
  /\ fetch \in [Task -> [addr : Addr \cup {NoAddr}, redirects : 0 .. MaxRedirects]]

Init ==
  /\ delegated \in Delegations
  /\ subtree = FALSE /\ members = {} /\ strays = 0 /\ leftover = FALSE
  /\ pc = [t \in Task |-> "idle"]
  /\ cmd = [t \in Task |-> NoCommand]
  /\ late = {}
  /\ fetch = [t \in Task |-> NoFetch]

-----------------------------------------------------------------------------
(* The loop of invoke().                                                   *)

At(t, p) == pc[t] = p
Goto(t, p) == pc' = [pc EXCEPT ![t] = p]
Set(t, c) == cmd' = [cmd EXCEPT ![t] = c]

\* The call has its result; the next one of the list may begin.
Return(t) ==
  /\ Goto(t, "idle")
  /\ late' = late \ {t}

\* The deadline of the running call passes.
Late(t) ==
  /\ pc[t] \in {"wait", "resolve", "connect"}
  /\ t \notin late
  /\ late' = late \cup {t}
  /\ UNCHANGED <<delegated, cgroup, pc, cmd, fetch>>

-----------------------------------------------------------------------------
(* CgroupSubtree.                                                          *)

\* create: the directory is made if it is not there.  Without a delegated tree
\* there is none.
Create(t, p) ==
  /\ At(t, "idle")
  /\ p.detach => strays < MaxStrays
  /\ Set(t, Started(p))
  /\ IF delegated
     THEN subtree' = TRUE /\ Goto(t, "limits")
     ELSE UNCHANGED subtree /\ Goto(t, "spawn")
  /\ UNCHANGED <<delegated, members, strays, leftover, late, fetch>>

\* memory.max and pids.max are written, which fails when the end of another
\* call has taken the directory away.
Limits(t) ==
  /\ At(t, "limits")
  /\ IF subtree
     THEN Goto(t, "spawn") /\ UNCHANGED <<cmd, late>>
     ELSE Return(t) /\ Set(t, NoCommand)
  /\ UNCHANGED <<delegated, cgroup, fetch>>

\* ... or because a controller is missing: the error leaves the directory.
LimitsError(t) ==
  /\ At(t, "limits")
  /\ subtree
  /\ leftover' = TRUE
  /\ Return(t)
  /\ Set(t, NoCommand)
  /\ UNCHANGED <<delegated, subtree, members, strays, fetch>>

\* Slip: the directory is left for the next call.
RmdirNever == UNCHANGED <<subtree, leftover>>

\* Drop: rmdir, of a directory that holds no process.
Rmdir ==
  IF subtree /\ members = {} /\ strays = 0
  THEN subtree' = FALSE /\ leftover' = FALSE
  ELSE UNCHANGED subtree /\ leftover' = (leftover \/ (subtree /\ members' = {}))

-----------------------------------------------------------------------------
(* launch().                                                               *)

Spawn(t) ==
  /\ At(t, "spawn")
  /\ Set(t, [cmd[t] EXCEPT !.main = "run"])
  /\ Goto(t, "join")
  /\ UNCHANGED <<delegated, cgroup, late, fetch>>

\* The filter or the spawn fails; the subtree is dropped on the way out.
SpawnError(t) ==
  /\ At(t, "spawn")
  /\ Set(t, [cmd[t] EXCEPT !.failed = TRUE])
  /\ Goto(t, "drop")
  /\ UNCHANGED <<delegated, cgroup, late, fetch>>

\* join_pid; its error is ignored.  The clock starts.
Join(t) ==
  /\ At(t, "join")
  /\ members' = IF subtree /\ cmd[t].main = "run"
                THEN members \cup {<<t, "main">>} ELSE members
  /\ Goto(t, "wait")
  /\ UNCHANGED <<delegated, subtree, strays, leftover, cmd, late, fetch>>

\* try_wait: the command has ended.  A signal is reported as exit code -1 and
\* is no error.
Reap(t) ==
  /\ At(t, "wait")
  /\ cmd[t].main \in {"exited", "signaled"}
  /\ Goto(t, "stdout")
  /\ UNCHANGED <<delegated, cgroup, cmd, late, fetch>>

\* The time is up.  The command may have ended since it was polled.
Kill(t) ==
  /\ At(t, "wait")
  /\ t \in late
  /\ Set(t, [cmd[t] EXCEPT !.main = "killed", !.timedOut = TRUE])
  /\ members' = members \ {<<t, "main">>}
  /\ Goto(t, "stdout")
  /\ UNCHANGED <<delegated, subtree, strays, leftover, late, fetch>>

\* try_wait or wait fails: the call ends, the command runs on.
WaitError(t) ==
  /\ At(t, "wait")
  /\ strays < MaxStrays
  /\ Set(t, [cmd[t] EXCEPT !.failed = TRUE])
  /\ Goto(t, "drop")
  /\ UNCHANGED <<delegated, cgroup, late, fetch>>

\* Some process may still write into the pipe.
Writer(t) == cmd[t].main = "run" \/ cmd[t].helper = "open"

\* The next of wait_with_timeout's two reads, or its end.
After(s) == IF s = "out" THEN "stderr" ELSE "drop"
Reading(t, s) == At(t, IF s = "out" THEN "stdout" ELSE "stderr")

\* read_to_end takes what is there ...
Read(t, s) ==
  /\ Reading(t, s)
  /\ cmd[t].pipe[s] > 0
  /\ Set(t, [cmd[t] EXCEPT !.pipe[s] = @ - 1])
  /\ UNCHANGED <<delegated, cgroup, pc, late, fetch>>

\* Slip: an empty pipe is taken for its end.
ReadEofEarly(t, s) ==
  /\ Reading(t, s)
  /\ cmd[t].pipe[s] = 0
  /\ Goto(t, After(s))
  /\ UNCHANGED <<delegated, cgroup, cmd, late, fetch>>

\* ... until every writer has closed the pipe.
ReadEof(t, s) ==
  /\ Reading(t, s)
  /\ cmd[t].pipe[s] = 0
  /\ ~Writer(t)
  /\ Goto(t, After(s))
  /\ UNCHANGED <<delegated, cgroup, cmd, late, fetch>>

\* ... or fails, which nobody learns: what was read so far is the output.
ReadError(t, s) ==
  /\ Reading(t, s)
  /\ Writer(t) => strays < MaxStrays
  /\ Set(t, [cmd[t] EXCEPT !.cut = TRUE])
  /\ Goto(t, After(s))
  /\ UNCHANGED <<delegated, cgroup, late, fetch>>

\* The processes of the call in the subtree: those that outlive it.
Own(t) == {m \in members : m[1] = t}

\* The call is over: drop(cgroup) and the result.
DropCgroup(t) ==
  /\ At(t, "drop")
  /\ strays' = strays + Cardinality(Own(t))
  /\ members' = members \ Own(t)
  /\ Rmdir
  /\ Set(t, NoCommand)
  /\ Return(t)
  /\ UNCHANGED <<delegated, fetch>>

-----------------------------------------------------------------------------
(* The command and its helper.                                             *)

MainWrite(t, s) ==
  /\ cmd[t].main = "run"
  /\ cmd[t].want[s] > 0
  /\ cmd[t].pipe[s] < PipeSize
  /\ Set(t, [cmd[t] EXCEPT !.want[s] = @ - 1, !.pipe[s] = @ + 1])
  /\ UNCHANGED <<delegated, cgroup, pc, late, fetch>>

\* The helper is in the subtree if the command was when it forked.
Fork(t) ==
  /\ cmd[t].main = "run"
  /\ cmd[t].helper = "due"
  /\ Set(t, [cmd[t] EXCEPT !.helper = "open"])
  /\ members' = IF <<t, "main">> \in members
                THEN members \cup {<<t, "helper">>} ELSE members
  /\ UNCHANGED <<delegated, subtree, strays, leftover, pc, late, fetch>>

MainExit(t) ==
  /\ cmd[t].main = "run"
  /\ cmd[t].want = NoBytes
  /\ cmd[t].helper # "due"
  /\ Set(t, [cmd[t] EXCEPT !.main = "exited"])
  /\ members' = members \ {<<t, "main">>}
  /\ UNCHANGED <<delegated, subtree, strays, leftover, pc, late, fetch>>

\* A limit, the OOM killer or a call that the filter forbids ends the command
\* wherever it is.
Signal(t) ==
  /\ cmd[t].main = "run"
  /\ Set(t, [cmd[t] EXCEPT !.main = "signaled", !.helper = IF @ = "due" THEN "none" ELSE @])
  /\ members' = members \ {<<t, "main">>}
  /\ UNCHANGED <<delegated, subtree, strays, leftover, pc, late, fetch>>

HelperWrite(t, s) ==
  /\ cmd[t].helper = "open"
  /\ cmd[t].helperWant[s] > 0
  /\ cmd[t].pipe[s] < PipeSize
  /\ Set(t, [cmd[t] EXCEPT !.helperWant[s] = @ - 1, !.pipe[s] = @ + 1])
  /\ UNCHANGED <<delegated, cgroup, pc, late, fetch>>

\* The helper is through: it ends, or it closes the pipes and lives on.
HelperDone(t) ==
  /\ cmd[t].helper = "open"
  /\ cmd[t].helperWant = NoBytes
  /\ Set(t, [cmd[t] EXCEPT !.helper = IF cmd[t].prog.detach THEN "detached" ELSE "gone"])
  /\ members' = IF cmd[t].prog.detach THEN members ELSE members \ {<<t, "helper">>}
  /\ UNCHANGED <<delegated, subtree, strays, leftover, pc, late, fetch>>

StrayExit ==
  /\ strays > 0
  /\ strays' = strays - 1
  /\ UNCHANGED <<delegated, subtree, members, leftover, pc, cmd, late, fetch>>

-----------------------------------------------------------------------------
(* fetch() of http_get and http_post.                                      *)

\* filter_ip: not in a blocked range, and on the allowlist if there is one.
Safe(a) == a \notin Blocked /\ (Allowlist = {} \/ a \in Allowlist)

Fetch(t) ==
  /\ At(t, "idle")
  /\ t \in Fetchers
  /\ fetch' = [fetch EXCEPT ![t] = NoFetch]
  /\ Goto(t, "resolve")
  /\ UNCHANGED <<delegated, cgroup, cmd, late>>

\* pick_safe_ip: one of the addresses that pass.
Candidates(ips) == {a \in ips : Safe(a)}

\* one_hop: the name resolves to some addresses, whatever it resolved to
\* before; one that passes the filter is pinned, and without one the call ends.
Resolve(t) ==
  /\ At(t, "resolve")
  /\ \E ips \in SUBSET Addr :
       IF Candidates(ips) = {}
       THEN Return(t) /\ fetch' = [fetch EXCEPT ![t] = NoFetch]
       ELSE /\ \E a \in Candidates(ips) : fetch' = [fetch EXCEPT ![t].addr = a]
            /\ Goto(t, "connect")
            /\ UNCHANGED late
  /\ UNCHANGED <<delegated, cgroup, cmd>>

\* Another redirect may be followed.
Follows(n) == n < MaxRedirects

\* The answer of the pinned address is a redirect: the next hop starts over.
Redirect(t) ==
  /\ At(t, "connect")
  /\ Follows(fetch[t].redirects)
  /\ fetch' = [fetch EXCEPT ![t] = [addr |-> NoAddr, redirects |-> @.redirects + 1]]
  /\ Goto(t, "resolve")
  /\ UNCHANGED <<delegated, cgroup, cmd, late>>

\* The answer is final, or a redirect too many, or the transport fails.
Answer(t) ==
  /\ At(t, "connect")
  /\ fetch' = [fetch EXCEPT ![t] = NoFetch]
  /\ Return(t)
  /\ UNCHANGED <<delegated, cgroup, cmd>>

\* Slip: every hop has the whole time again.
CutShortNever(t) == FALSE /\ UNCHANGED vars

\* timeout_at: the one deadline of the chain cuts a hop short.
CutShort(t) == t \in late /\ Answer(t)

-----------------------------------------------------------------------------
Exec(t) ==
  \/ Limits(t) \/ Spawn(t) \/ Join(t) \/ Reap(t) \/ Kill(t)
  \/ \E s \in Streams : Read(t, s) \/ ReadEof(t, s)
  \/ DropCgroup(t)

ExecError(t) ==
  \/ LimitsError(t) \/ SpawnError(t) \/ WaitError(t)
  \/ \E s \in Streams : ReadError(t, s)

Http(t) == Resolve(t) \/ Redirect(t) \/ Answer(t)

Helper(t) == HelperDone(t) \/ \E s \in Streams : HelperWrite(t, s)

Main(t) == Fork(t) \/ MainExit(t) \/ Signal(t) \/ \E s \in Streams : MainWrite(t, s)

Next ==
  \/ \E t \in Task :
       \/ \E p \in Programs[t] : Create(t, p)
       \/ Fetch(t)
       \/ Exec(t) \/ ExecError(t) \/ Http(t) \/ Late(t) \/ Main(t) \/ Helper(t)
  \/ StrayExit

Spec == Init /\ [][Next]_vars

\* The harness gets on, names resolve or fail to, and time passes.  A command
\* and its helper may do nothing, no error need come, and a peer may never
\* answer.
Fairness ==
  \A t \in Task :
    /\ WF_vars(Exec(t)) /\ WF_vars(Resolve(t)) /\ WF_vars(CutShort(t))
    /\ WF_vars(Late(t))

FairSpec == Spec /\ Fairness

-----------------------------------------------------------------------------
(* Properties.                                                             *)

\* Nothing but an address that passes the filter is connected to, on any hop.
PinnedIsSafe ==
  \A t \in Task : At(t, "connect") => fetch[t].addr \notin Blocked

Holds(t) == pc[t] \in ExecPc

\* The last of the calls that share the subtree takes it away, however their
\* creates, joins and drops interleave: it is left only by a call that could
\* not write its limits or that left a process in it.
LastCallRemoves ==
  subtree /\ ~leftover => \E t \in Task : Holds(t)

\* The state is well-formed, only safe addresses are connected to, and the
\* subtree goes with the last call.
Inv == TypeOK /\ PinnedIsSafe /\ LastCallRemoves

\* A call that reports success has waited for the end of its command, and,
\* unless a read failed, it has all that the command and its helpers ever wrote
\* and nobody writes any more, although it reads only after the wait.  It does
\* not mean that the command came to its own end: see Reap and ReadError.
SuccessIsComplete ==
  \A t \in Task :
    At(t, "drop") /\ ~cmd[t].timedOut /\ ~cmd[t].failed =>
      /\ cmd[t].main \in {"exited", "signaled"}
      /\ cmd[t].main = "exited" => cmd[t].want = NoBytes
      /\ ~cmd[t].cut => cmd[t].pipe = NoBytes /\ cmd[t].helper \notin {"due", "open"}

\* Every call returns, although its command may hang or fill its pipes and a
\* peer may redirect or never answer, if the helpers that commands leave behind
\* let go of the pipes: the reads after the wait have no deadline
\* (launcher.rs:204-211), so a helper that keeps a pipe open, or that waits for
\* room in the one that is not yet read, holds its call for as long as it likes.
EveryCallReturns ==
  \A t \in Task :
    []<>(cmd[t].helper # "open") => (~At(t, "idle") ~> At(t, "idle"))
=============================================================================
