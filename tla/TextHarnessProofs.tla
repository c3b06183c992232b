-------------------------- MODULE TextHarnessProofs --------------------------
(***************************************************************************)
(* Proofs about PluginHost and TextHarness, for any tasks, plugins, names, *)
(* episodes, turns, batches and faults.                                    *)
(*                                                                         *)
(* The invariant of the host says who has which child: a spawn belongs to  *)
(* one handle or to one task that brings it up or takes it down (Excl), of *)
(* the plugin it was started for (HandleOK, TaskOK).  On a stream whose    *)
(* callers all had their answers nothing is under way between two calls    *)
(* (WireOrder), unless its process is dead; and as long as no two spawns   *)
(* of one name overlap, the path of a name has no other process than the   *)
(* one that is being connected to (NoOverlap).                             *)
(*                                                                         *)
(* The invariant of the harness says where every counted turn is           *)
(* (Accounted) and why an episode that was reported done stays so          *)
(* (StaysOver).                                                            *)
(***************************************************************************)
EXTENDS TextHarness, TLAPS

\* A task that is bringing a plugin up, and one that has a spawn to itself.
Bringing(t) == At(t, "connect") \/ (At(t, "lock") /\ task[t].op = "load")
Has(t) == Bringing(t) \/ (task[t].pc \in {"reap", "reaped"} /\ task[t].op = "unload")

\* A task that is at work under the lock.
AtWork(t) ==
  \/ task[t].pc \in {"read", "reap", "reaped"}
  \/ At(t, "connect") /\ task[t].op = "reload"

LockHeld == \A t \in Task : lock = t <=> AtWork(t)

\* What has not been spawned is nowhere.
Fresh ==
  \A k \in Spawn : k > spawned =>
    proc[k].st = "unborn" /\ proc[k].conns = <<>> /\ wire[k].peer = 0

\* A process has the connections that have it as their peer.
ConnsMatch ==
  \A k \in Spawn : \A j \in DOMAIN proc[k].conns : wire[proc[k].conns[j]].peer = k

\* The child and the stream of plugin i.
IsOf(k, i) ==
  /\ k <= spawned /\ proc[k].id = i
  /\ wire[k].peer \in Spawn /\ wire[k].peer <= spawned
  /\ ~overlap => proc[wire[k].peer].id = i

HandleOK(i) == handles[i] \in Spawn => IsOf(handles[i], i)

TaskOK(t) ==
  /\ task[t].k <= spawned
  /\ At(t, "connect") =>
       /\ task[t].k \in Spawn /\ task[t].op \in {"load", "reload"} /\ Sidecar(t)
       /\ proc[task[t].k].id = task[t].id /\ wire[task[t].k].peer = 0
       /\ task[t].op = "reload" => My(t) = 0
  /\ At(t, "lock") /\ task[t].op = "load" /\ task[t].k # 0 => IsOf(task[t].k, task[t].id)
  /\ At(t, "read") =>
       /\ task[t].k \in Spawn /\ My(t) = task[t].k
       /\ task[t].op = "call" \/ (task[t].op = "reload" /\ ~Sidecar(t))
  /\ task[t].pc \in {"reap", "reaped"} =>
       /\ task[t].op \in {"reload", "unload"} /\ Sidecar(t)
       /\ task[t].op = "reload" => My(t) = task[t].k
  /\ At(t, "reaped") /\ task[t].k # 0 => ~Alive(task[t].k)

\* A spawn has one owner.
Excl ==
  \A t \in Task : Has(t) /\ task[t].k # 0 =>
    /\ \A i \in Id : handles[i] # task[t].k
    /\ \A u \in Task : Has(u) /\ task[u].k = task[t].k => u = t

Owners ==
  /\ Fresh /\ ConnsMatch /\ Excl
  /\ \A i \in Id : HandleOK(i)
  /\ \A t \in Task : TaskOK(t)

\* Nothing is under way on a stream whose callers have had their answers.
Quiet(s) ==
  ~wire[s].skew =>
    wire[s].ans = <<>> /\ (wire[s].reqs = <<>> \/ proc[wire[s].peer].st = "dead")

\* There is nothing but the request of this task, or the answer to it.
InTurn(t) ==
  LET w == wire[task[t].k]
  IN ~w.skew => /\ w.ans \in {<<>>, <<task[t].tag>>}
                /\ \/ w.reqs = <<>>
                   \/ w.reqs = <<task[t].tag>> /\ w.ans = <<>>
                   \/ proc[w.peer].st = "dead"

WireOrder ==
  /\ \A i \in Id : handles[i] \in Spawn /\ Mode(i) = "sidecar" =>
       Quiet(handles[i]) \/ \E t \in Task : At(t, "read") /\ task[t].id = i
  /\ \A t \in Task : At(t, "lock") /\ task[t].op = "load" /\ task[t].k # 0 /\ Sidecar(t) =>
       Quiet(task[t].k)
  /\ \A t \in Task : At(t, "read") /\ Sidecar(t) => InTurn(t)

\* While no two spawns of a name overlap.
NoOverlap ==
  ~overlap =>
    /\ \A k \in Spawn : proc[k].st = "starting" =>
         \E t \in Task : At(t, "connect") /\ task[t].k = k
    /\ \A t, u \in Task : At(t, "connect") /\ At(u, "connect") /\ MyName(t) = MyName(u) => t = u
    /\ \A t \in Task : At(t, "connect") => path[MyName(t)] \in {0, task[t].k}

\* A child that is alive has an owner.
Owned(k) ==
  \/ handles[proc[k].id] = k
  \/ \E t \in Task : /\ task[t].k = k
                     /\ \/ task[t].pc \in {"connect", "reap"}
                        \/ At(t, "lock") /\ task[t].op = "load"

ChildrenOwned ==
  \A k \in Spawn : Alive(k) /\ Mode(proc[k].id) = "sidecar" => Owned(k)

HostInv ==
  HostTypeOK /\ LockHeld /\ Owners /\ WireOrder /\ NoOverlap /\ ChildrenOwned

-----------------------------------------------------------------------------
\* A step is within its batch and has numbers for its requests, and the task
\* asks the host exactly while the step awaits a reward.
StepOK(t) ==
  /\ Stepping(t) =>
       /\ Len(step[t].out) < Len(step[t].batch)
       /\ step[t].tag > 0 /\ step[t].tag + Len(step[t].batch) <= ops + 1
       /\ reward # NoEnv
       /\ step[t].turn = 0 => At(t, "idle")
  /\ step[t].turn # 0 <=> (task[t].op = "call" /\ ~At(t, "idle"))
  /\ step[t].turn # 0 => task[t].pc \in {"lock", "read"}

LivesOK ==
  /\ reward = NoEnv => \A e \in Episode : given[e] = {}
  /\ reward # NoEnv => \A e \in Episode : life[e] # "unborn"
  /\ \A e \in Episode : 0 \in given[e] => life[e] # "live"

\* Every counted turn is in one place.
Accounted ==
  \A e \in Episode :
    /\ given[e] \subseteq 0 .. turn[e] /\ lost[e] \subseteq 1 .. turn[e]
    /\ \A t \in Task : Counted(step[t], e) \subseteq 1 .. turn[e]
    /\ \A n \in 1 .. turn[e] :
         n \in given[e] \/ n \in lost[e] \/ \E t \in Task : n \in Counted(step[t], e)
    /\ given[e] \cap lost[e] = {}
    /\ \A t \in Task : Counted(step[t], e) \cap (given[e] \cup lost[e]) = {}
    /\ \A t, u \in Task : t # u => Counted(step[t], e) \cap Counted(step[u], e) = {}

\* An episode that was over when a step began has no more turns before its end.
StaysOver ==
  \A t \in Task :
    /\ \A e \in Episode : 0 \in TurnsIn(step[t].out, e) => life[e] # "live"
    /\ \A e \in step[t].over :
         /\ life[e] # "live" \/ turn[e] >= MaxTurns
         /\ \A n \in TurnsIn(step[t].out, e) : Done(n)
         /\ step[t].turn # 0 /\ step[t].batch[Len(step[t].out) + 1] = e => Done(step[t].turn)

TextInv ==
  TypeOK /\ (\A t \in Task : StepOK(t)) /\ LivesOK /\ Accounted /\ StaysOver

IInv == HostInv /\ TextInv

-----------------------------------------------------------------------------
(* The host: records, and what steps have in common.                       *)

LEMMA NoOpType ==
  /\ NoOp \in Op /\ NoOp.pc = "idle" /\ NoOp.op = "call" /\ NoOp.k = 0
  /\ Unborn \in Proc /\ Unborn.conns = <<>>
  /\ NoWire \in Wire /\ ~NoWire.skew /\ NoWire.reqs = <<>> /\ NoWire.ans = <<>>
  /\ NoWire.peer = 0
<1>1. (CHOOSE i \in Id : TRUE) \in Id
  BY PluginHostAssumption
<1>2. <<>> \in Seq(Spawn) /\ <<>> \in Seq(Tag) /\ 0 \in Tag /\ 0 \in 0 .. MaxSpawns
  BY PluginHostAssumption DEF Tag
<1>3. QED
  BY <1>1, <1>2 DEF NoOp, Op, Unborn, Proc, NoWire, Wire

LEMMA Numbers ==
  /\ \A t \in Task : t # NoTask
  /\ \A k \in Spawn : k # 0 /\ k # NoHandle /\ k \in Nat
  /\ \A k \in 0 .. MaxSpawns : k # 0 => k \in Spawn
  /\ \A k \in NoHandle .. MaxSpawns : k # 0 /\ k # NoHandle => k \in Spawn
  /\ Spawn \subseteq 0 .. MaxSpawns /\ Spawn \subseteq NoHandle .. MaxSpawns
  /\ 0 .. MaxSpawns \subseteq NoHandle .. MaxSpawns
BY PluginHostAssumption DEF Task, NoTask, Spawn, NoHandle

TaskIs(t, r) == task' = [task EXCEPT ![t] = r]

LEMMA TaskSet ==
  ASSUME HostTypeOK, NEW t \in Task, NEW r \in Op, TaskIs(t, r)
  PROVE  task' \in [Task -> Op] /\ task'[t] = r /\ \A u \in Task \ {t} : task'[u] = task[u]
BY DEF HostTypeOK, TaskIs

LEMMA TaskType ==
  ASSUME HostTypeOK, NEW t \in Task
  PROVE  /\ task[t] \in Op /\ task[t].id \in Id /\ task[t].k \in 0 .. MaxSpawns
         /\ task[t].tag \in Tag /\ My(t) \in NoHandle .. MaxSpawns
BY DEF HostTypeOK, Op, My

\* Another place in the same operation, with another child.
LEMMA MovedTo ==
  ASSUME HostTypeOK, NEW t \in Task, NEW k \in 0 .. MaxSpawns,
         NEW pc \in {"idle", "connect", "lock", "read", "reap", "reaped", "persist"},
         task' = [task EXCEPT ![t].pc = pc, ![t].k = k]
  PROVE  /\ task' \in [Task -> Op] /\ \A u \in Task \ {t} : task'[u] = task[u]
         /\ task'[t].pc = pc /\ task'[t].k = k /\ task'[t].op = task[t].op
         /\ task'[t].id = task[t].id /\ task'[t].tag = task[t].tag
<1> DEFINE r == [task[t] EXCEPT !.pc = pc, !.k = k]
<1>1. TaskIs(t, r)
  BY DEF TaskIs, HostTypeOK
<1>2. /\ r \in Op /\ r.pc = pc /\ r.k = k /\ r.op = task[t].op
      /\ r.id = task[t].id /\ r.tag = task[t].tag
  BY TaskType DEF Op
<1> HIDE DEF r
<1>3. QED
  BY <1>1, <1>2, TaskSet

LEMMA GotoIs ==
  ASSUME HostTypeOK, NEW t \in Task, Goto(t, "lock") \/ Goto(t, "persist") \/ Goto(t, "reaped")
  PROVE  /\ task' \in [Task -> Op] /\ \A u \in Task \ {t} : task'[u] = task[u]
         /\ task'[t].k = task[t].k /\ task'[t].op = task[t].op
         /\ task'[t].id = task[t].id /\ task'[t].tag = task[t].tag
         /\ \A pc \in {"lock", "persist", "reaped"} : Goto(t, pc) => task'[t].pc = pc
<1>1. PICK pc \in {"lock", "persist", "reaped"} : Goto(t, pc)
  OBVIOUS
<1> DEFINE r == [task[t] EXCEPT !.pc = pc]
<1>2. TaskIs(t, r)
  BY <1>1 DEF TaskIs, Goto, HostTypeOK
<1>3. /\ r \in Op /\ r.pc = pc /\ r.k = task[t].k /\ r.op = task[t].op
      /\ r.id = task[t].id /\ r.tag = task[t].tag
  BY TaskType DEF Op
<1> HIDE DEF r
<1>4. /\ task' \in [Task -> Op] /\ task'[t] = r /\ \A u \in Task \ {t} : task'[u] = task[u]
  BY <1>2, <1>3, TaskSet
<1>5. \A q \in {"lock", "persist", "reaped"} : Goto(t, q) => task'[t].pc = q
  BY TaskType DEF Goto, HostTypeOK, Op
<1>6. QED
  BY <1>3, <1>4, <1>5

LEMMA ReturnIs ==
  ASSUME HostTypeOK, NEW t \in Task, Return(t)
  PROVE  /\ task' \in [Task -> Op] /\ \A u \in Task \ {t} : task'[u] = task[u]
         /\ task'[t].pc = "idle" /\ task'[t].op = "call" /\ task'[t].k = 0
<1>1. TaskIs(t, NoOp)
  BY DEF Return, TaskIs
<1>2. QED
  BY <1>1, NoOpType, TaskSet

\* Processes end, start to serve or are signalled; none is born or connected.
Procs ==
  \A j \in Spawn :
    /\ proc'[j].id = proc[j].id
    /\ proc'[j].conns \in {proc[j].conns, <<>>}
    /\ proc[j].st \in {"unborn", "dead"} => proc'[j].st = proc[j].st
    /\ proc'[j].st = "starting" => proc[j].st = "starting"
    /\ Alive(j)' => Alive(j)

\* No stream is connected.
Peers == \A s \in Spawn : wire'[s].peer = wire[s].peer

LEMMA SameProcs == proc' = proc => Procs
BY DEF Procs, Alive

LEMMA DeadIs ==
  ASSUME HostTypeOK, NEW k \in Spawn
  PROVE  Dead(k) \in Proc /\ Dead(k).st = "dead" /\ Dead(k).id = proc[k].id /\ Dead(k).conns = <<>>
<1>1. proc[k].id \in Id
  BY DEF HostTypeOK, Proc
<1>2. QED
  BY <1>1, NoOpType DEF Dead, Proc

\* Some processes that are alive die.
LEMMA SomeDie ==
  ASSUME HostTypeOK, NEW S \in SUBSET Spawn, \A j \in S : Alive(j),
         proc' = [j \in Spawn |-> IF j \in S THEN Dead(j) ELSE proc[j]]
  PROVE  /\ proc' \in [Spawn -> Proc] /\ Procs
         /\ \A j \in S : ~Alive(j)' /\ proc'[j].st = "dead"
         /\ \A j \in Spawn \ S : proc'[j] = proc[j]
<1>1. \A j \in Spawn : proc[j] \in Proc
  BY DEF HostTypeOK
<1>2. \A j \in S : proc'[j] = Dead(j) /\ proc[j].st \notin {"unborn", "dead"}
  BY DEF Alive
<1>3. \A j \in Spawn \ S : proc'[j] = proc[j]
  OBVIOUS
<1>4. \A j \in S : Dead(j) \in Proc /\ Dead(j).st = "dead" /\ Dead(j).id = proc[j].id /\ Dead(j).conns = <<>>
  BY DeadIs
<1>5. proc' \in [Spawn -> Proc]
  BY <1>1, <1>4
<1>6. Procs
  BY <1>2, <1>3, <1>4 DEF Procs, Alive
<1>7. QED
  BY <1>2, <1>3, <1>4, <1>5, <1>6 DEF Alive

\* kill_on_drop.
Killed(k) == {j \in Spawn : j = k /\ Mode(proc[j].id) = "sidecar" /\ Alive(j)}

LEMMA ClosedIs ==
  ASSUME HostTypeOK, NEW k, wire' = Closed(k)
  PROVE  /\ wire' \in [Spawn -> Wire] /\ Peers
         /\ \A s \in Spawn : s # k => wire'[s] = wire[s]
<1>1. \A s \in Spawn : wire[s] \in Wire
  BY DEF HostTypeOK
<1> DEFINE c(s) == [NoWire EXCEPT !.peer = wire[s].peer, !.reqs = wire[s].reqs]
<1>2. \A s \in Spawn : c(s) \in Wire /\ c(s).peer = wire[s].peer
  BY <1>1, NoOpType DEF Wire
<1>3. wire' = [s \in Spawn |-> IF s = k THEN c(s) ELSE wire[s]]
  BY DEF Closed
<1> HIDE DEF c
<1>4. QED
  BY <1>1, <1>2, <1>3 DEF Peers

LEMMA DropIs ==
  ASSUME HostTypeOK, NEW k, Drop(k)
  PROVE  /\ proc' \in [Spawn -> Proc] /\ Procs
         /\ wire' \in [Spawn -> Wire] /\ Peers
         /\ \A s \in Spawn : s # k => wire'[s] = wire[s] /\ proc'[s] = proc[s]
         /\ k \in Spawn => ~(Alive(k)' /\ Mode(proc[k].id) = "sidecar")
<1>1. proc' = [j \in Spawn |-> IF j \in Killed(k) THEN Dead(j) ELSE proc[j]]
  BY DEF Drop, Killed
<1>2. Killed(k) \in SUBSET Spawn /\ \A j \in Killed(k) : Alive(j)
  BY DEF Killed
<1>3. /\ proc' \in [Spawn -> Proc] /\ Procs
      /\ \A j \in Killed(k) : ~Alive(j)' /\ proc'[j].st = "dead"
      /\ \A j \in Spawn \ Killed(k) : proc'[j] = proc[j]
  BY <1>1, <1>2, SomeDie
<1>4. k \in Spawn => ~(Alive(k)' /\ Mode(proc[k].id) = "sidecar")
  BY <1>3 DEF Killed, Alive
<1>5. QED
  BY <1>3, <1>4, ClosedIs DEF Drop, Killed

-----------------------------------------------------------------------------
(* The parts of the invariant under a step.  t is the task that takes it,  *)
(* or NoTask for a step of a plugin.                                       *)

\* No process that was spawned gets another plugin, or comes back.
Living ==
  \A j \in Spawn : j <= spawned =>
    /\ proc'[j].id = proc[j].id
    /\ proc[j].st = "dead" => proc'[j].st = "dead"
    /\ proc'[j].st = "starting" => proc[j].st = "starting"
    /\ Alive(j)' => Alive(j)

\* Only the task that has a spawn connects its stream.
Linked(t) ==
  \A s \in Spawn : s <= spawned /\ ~(t \in Task /\ Has(t) /\ s = task[t].k)
    => wire'[s].peer = wire[s].peer

Grows == spawned' \in Nat /\ spawned <= spawned' /\ (overlap => overlap')

\* Only t does something.
Alone(t) == task' \in [Task -> Op] /\ \A u \in Task \ {t} : task'[u] = task[u]

\* IsOf and Quiet in the next state.
WillBeOf(k, i) ==
  /\ k <= spawned' /\ proc'[k].id = i
  /\ wire'[k].peer \in Spawn /\ wire'[k].peer <= spawned'
  /\ ~overlap' => proc'[wire'[k].peer].id = i
StillQuiet(s) ==
  ~wire'[s].skew =>
    wire'[s].ans = <<>> /\ (wire'[s].reqs = <<>> \/ proc'[wire'[s].peer].st = "dead")

LEMMA Steady ==
  ASSUME HostTypeOK, Owners, Procs, Peers, UNCHANGED <<spawned, overlap>>
  PROVE  Fresh' /\ ConnsMatch' /\ Living /\ Grows /\ \A t : Linked(t)
<1>1. Fresh'
  BY DEF Owners, Fresh, Procs, Peers
<1>2. ASSUME NEW k \in Spawn, NEW j \in DOMAIN proc'[k].conns
      PROVE  wire'[proc'[k].conns[j]].peer = k
  <2>1. proc'[k].conns = proc[k].conns /\ proc[k].conns \in Seq(Spawn)
    BY <1>2 DEF Procs, HostTypeOK, Proc
  <2>2. proc[k].conns[j] \in Spawn
    BY <1>2, <2>1
  <2>3. QED
    BY <1>2, <2>1, <2>2 DEF Owners, ConnsMatch, Peers
<1>3. ConnsMatch'
  BY <1>2 DEF ConnsMatch
<1>4. Living /\ \A t : Linked(t)
  BY DEF Living, Linked, Procs, Peers
<1>5. Grows
  BY PluginHostAssumption DEF HostTypeOK, Grows
<1>6. QED
  BY <1>1, <1>3, <1>4, <1>5

\* Who the child of a plugin is does not change.
LEMMA OfStays ==
  ASSUME HostTypeOK, Living, Grows, NEW t, Linked(t), NEW k \in Spawn, NEW i \in Id, IsOf(k, i),
         t \in Task => ~(Has(t) /\ k = task[t].k)
  PROVE  WillBeOf(k, i)
<1>1. /\ spawned \in Nat /\ spawned' \in Nat /\ spawned <= spawned'
      /\ k \in Nat /\ wire[k].peer \in Nat
  <2>1. spawned \in Nat
    BY PluginHostAssumption DEF HostTypeOK
  <2>2. wire[k].peer \in Nat
    BY Numbers DEF IsOf
  <2>3. QED
    BY <2>1, <2>2, Numbers DEF Grows
<1>2. k <= spawned /\ wire'[k].peer = wire[k].peer
  BY DEF IsOf, Linked
<1>3. QED
  BY <1>1, <1>2 DEF IsOf, WillBeOf, Living, Grows

\* What another task relies on stays: t changes handles only when it has the
\* lock, or when nobody has.
LEMMA OthersOK ==
  ASSUME HostTypeOK, LockHeld, Owners, Living, Grows, NEW t, Linked(t), Alone(t),
         handles' = handles \/ lock \in {NoTask, t}, NEW u \in Task, u # t
  PROVE  TaskOK(u)'
<1>1. /\ task[u].k \in 0 .. MaxSpawns /\ task[u].id \in Id
      /\ task[u].k # 0 => task[u].k \in Spawn
      /\ task'[u] = task[u] /\ TaskOK(u)
      /\ lock = u => handles' = handles
  BY TaskType, Numbers DEF Alone, Owners
<1>2. AtWork(u) => My(u)' = My(u)
  BY <1>1, Numbers DEF LockHeld, My
<1>3. spawned \in Nat /\ spawned' \in Nat /\ task[u].k \in Nat /\ task[u].k <= spawned
      /\ spawned <= spawned' /\ task[u].k <= spawned'
  BY <1>1, PluginHostAssumption DEF HostTypeOK, Grows, TaskOK
<1>4. Has(u) /\ task[u].k # 0 => ~(t \in Task /\ Has(t) /\ task[u].k = task[t].k)
  BY DEF Owners, Excl
<1>5. At(u, "lock") /\ task[u].op = "load" /\ task[u].k # 0
        => WillBeOf(task[u].k, task[u].id)
  <2> SUFFICES ASSUME At(u, "lock"), task[u].op = "load", task[u].k # 0
               PROVE  WillBeOf(task[u].k, task[u].id)
    OBVIOUS
  <2>1. IsOf(task[u].k, task[u].id) /\ Has(u)
    BY <1>1 DEF TaskOK, Has, Bringing
  <2>2. QED
    BY <1>1, <1>4, <2>1, OfStays
<1>6. At(u, "connect") =>
        /\ proc'[task[u].k].id = task[u].id /\ wire'[task[u].k].peer = 0
        /\ task[u].k \in Spawn
  <2> SUFFICES ASSUME At(u, "connect")
               PROVE  /\ proc'[task[u].k].id = task[u].id /\ wire'[task[u].k].peer = 0
                      /\ task[u].k \in Spawn
    OBVIOUS
  <2>1. /\ task[u].k \in Spawn /\ proc[task[u].k].id = task[u].id
        /\ wire[task[u].k].peer = 0 /\ Has(u)
    BY <1>1 DEF TaskOK, Has, Bringing
  <2>2. QED
    BY <1>3, <1>4, <2>1, Numbers DEF Living, Linked
<1>7. At(u, "reaped") /\ task[u].k # 0 => ~Alive(task[u].k)'
  BY <1>1, <1>3 DEF TaskOK, Living, Alive
<1>8. QED
  BY <1>1, <1>2, <1>3, <1>5, <1>6, <1>7 DEF TaskOK, AtWork, At, Sidecar, WillBeOf, IsOf, Alive

\* A handle is kept, taken away, or gets what t has brought up; t keeps the
\* spawn it has, has the one of a handle it took away, or has a new one.
LEMMA OwnersStep ==
  ASSUME HostTypeOK, LockHeld, Owners, Fresh', ConnsMatch', Living, Grows,
         NEW t, Linked(t), Alone(t), handles' = handles \/ lock \in {NoTask, t},
         \A i \in Id : \/ handles'[i] = handles[i] \/ handles'[i] \notin Spawn
                       \/ /\ t \in Task /\ Has(t) /\ ~Has(t)'
                          /\ handles'[i] = task[t].k /\ WillBeOf(handles'[i], i),
         t \in Task => TaskOK(t)',
         t \in Task /\ Has(t)' /\ task'[t].k # 0 =>
           \/ Has(t) /\ task'[t].k = task[t].k
           \/ \E i \in Id : handles[i] = task'[t].k /\ handles'[i] # handles[i]
           \/ handles' = handles /\ task'[t].k > spawned
           \/ task'[t].k > spawned /\ \A i \in Id : handles'[i] \in {handles[i], 0}
  PROVE  Owners'
<1>1. \A i \in Id : handles[i] \in Spawn =>
        IsOf(handles[i], i) /\ handles[i] <= spawned /\ ~(t \in Task /\ Has(t) /\ handles[i] = task[t].k)
  BY Numbers DEF Owners, HandleOK, IsOf, Excl
<1>2. ASSUME NEW i \in Id PROVE HandleOK(i)'
  <2>1. CASE handles'[i] = handles[i] /\ handles[i] \in Spawn
    <3>1. WillBeOf(handles[i], i)
      BY <1>1, <2>1, OfStays
    <3>2. QED
      BY <2>1, <3>1 DEF HandleOK, IsOf, WillBeOf
  <2>2. CASE ~(handles'[i] = handles[i] /\ handles[i] \in Spawn)
    BY <2>2 DEF HandleOK, IsOf, WillBeOf
  <2>3. QED
    BY <2>1, <2>2
<1>3. ASSUME NEW u \in Task PROVE TaskOK(u)'
  BY OthersOK
<1>4. \A u \in Task \ {t} : (Has(u)' <=> Has(u)) /\ task'[u] = task[u]
  BY DEF Has, Bringing, At, Alone
<1>5. \A i, j \in Id : handles[i] \in Spawn /\ handles[i] = handles[j] => i = j
  BY DEF Owners, HandleOK, IsOf
<1>6. /\ \A u \in Task : task'[u].k # 0 => task'[u].k \in Spawn
      /\ \A u \in Task : task[u].k \in Nat /\ task[u].k <= spawned
      /\ spawned \in Nat
  BY Numbers, TaskType, PluginHostAssumption DEF Op, Alone, Owners, TaskOK, HostTypeOK
<1>7. Excl'
  <2>1. ASSUME NEW u \in Task, Has(u)', task'[u].k # 0, u # t
        PROVE  /\ \A i \in Id : handles'[i] # task'[u].k
               /\ \A v \in Task : Has(v)' /\ task'[v].k = task'[u].k => v = u
    <3>1. Has(u) /\ task[u] = task'[u] /\ task[u].k \in Spawn
      BY <1>4, <1>6, <2>1
    <3>2. \A i \in Id : handles[i] # task[u].k
      BY <2>1, <3>1 DEF Owners, Excl
    <3>3. t \in Task /\ Has(t) => task[t].k # task[u].k
      BY <2>1, <3>1 DEF Owners, Excl
    <3>4. \A v \in Task : v # t /\ Has(v) /\ task[v].k = task[u].k => v = u
      BY <2>1, <3>1 DEF Owners, Excl
    <3>5. t \in Task /\ Has(t)' => task'[t].k # task[u].k
      BY <1>6, <2>1, <3>1, <3>2, <3>3, Numbers
    <3>6. QED
      BY <1>4, <3>1, <3>2, <3>3, <3>4, <3>5
  <2>2. ASSUME t \in Task, Has(t)', task'[t].k # 0
        PROVE  /\ \A i \in Id : handles'[i] # task'[t].k
               /\ \A v \in Task : Has(v)' /\ task'[v].k = task'[t].k => v = t
    <3>1. \A v \in Task : Has(v)' /\ task'[v].k = task'[t].k => v = t
      BY <2>1, <2>2
    <3>2. task'[t].k \in Spawn
      BY <1>6, <2>2
    <3>3. \A i \in Id : handles'[i] = handles[i] \/ handles'[i] \notin Spawn
      BY <2>2
    <3>4. CASE Has(t) /\ task'[t].k = task[t].k
      BY <2>2, <3>1, <3>2, <3>3, <3>4 DEF Owners, Excl
    <3>5. CASE \E i \in Id : handles[i] = task'[t].k /\ handles'[i] # handles[i]
      BY <1>5, <3>1, <3>2, <3>3, <3>5
    <3>6. CASE task'[t].k > spawned
      <4>1. ASSUME NEW i \in Id, handles'[i] = task'[t].k PROVE FALSE
        <5>1. handles[i] = task'[t].k /\ handles[i] \in Spawn
          BY <3>2, <3>3, <4>1
        <5>2. handles[i] <= spawned
          BY <5>1 DEF Owners, HandleOK, IsOf
        <5>3. handles[i] \in Nat /\ spawned \in Nat /\ handles[i] > spawned
          BY <1>6, <3>6, <5>1, Numbers
        <5>4. QED
          BY ONLY <5>2, <5>3
      <4>2. QED
        BY <3>1, <4>1
    <3>7. QED
      BY <2>2, <3>1, <3>4, <3>5, <3>6
  <2>3. QED
    BY <2>1, <2>2 DEF Excl
<1>8. QED
  BY <1>2, <1>3, <1>7 DEF Owners

\* The lock is taken by a task that goes to work, and given back at its end.
LEMMA LockStep ==
  ASSUME LockHeld, NEW t \in Task, Alone(t),
         \/ lock' = t /\ AtWork(t)' /\ lock \in {NoTask, t}
         \/ lock' = Unlocked(t) /\ ~AtWork(t)'
  PROVE  LockHeld'
<1>1. \A u \in Task \ {t} : AtWork(u)' <=> AtWork(u)
  BY DEF AtWork, At, Alone
<1>2. QED
  BY <1>1, Numbers DEF LockHeld, Unlocked

\* Nothing starts, no path is bound, and the child of a task that gives up is
\* not left starting.
LEMMA OverStep ==
  ASSUME HostTypeOK, NoOverlap, UNCHANGED overlap, NEW t, Alone(t),
         \A j \in Spawn : proc'[j].st = "starting" => proc[j].st = "starting",
         \A n \in Names : path'[n] \in {0, path[n]},
         t \in Task =>
           /\ At(t, "connect")' => task'[t] = task[t]
           /\ At(t, "connect") /\ ~At(t, "connect")' =>
                overlap \/ proc'[task[t].k].st # "starting"
  PROVE  NoOverlap'
<1> SUFFICES ASSUME ~overlap
             PROVE  /\ \A k \in Spawn : proc'[k].st = "starting" =>
                         \E u \in Task : At(u, "connect")' /\ task'[u].k = k
                    /\ \A u, v \in Task :
                         At(u, "connect")' /\ At(v, "connect")' /\ MyName(u)' = MyName(v)' => u = v
                    /\ \A u \in Task : At(u, "connect")' => path'[MyName(u)'] \in {0, task'[u].k}
  BY DEF NoOverlap
<1>1. \A u \in Task : At(u, "connect")' =>
        At(u, "connect") /\ task'[u] = task[u] /\ MyName(u)' = MyName(u)
  BY DEF At, MyName, Alone
<1>2. \A u \in Task : MyName(u) \in Names
  BY TaskType DEF MyName, Names
<1>3. \A k \in Spawn : proc'[k].st = "starting" =>
         \E u \in Task : At(u, "connect")' /\ task'[u].k = k
  <2> SUFFICES ASSUME NEW k \in Spawn, proc'[k].st = "starting"
               PROVE  \E u \in Task : At(u, "connect")' /\ task'[u].k = k
    OBVIOUS
  <2>1. PICK u \in Task : At(u, "connect") /\ task[u].k = k
    BY DEF NoOverlap
  <2>2. At(u, "connect")' /\ task'[u] = task[u]
    BY <2>1 DEF At, Alone
  <2>3. QED
    BY <2>1, <2>2
<1>4. QED
  BY <1>1, <1>2, <1>3 DEF NoOverlap

\* Whoever owned a child that lives on owns it still, or t does.
LEMMA OwnedStep ==
  ASSUME HostTypeOK, ChildrenOwned, Living, NEW t, Alone(t),
         \A k \in Spawn : Alive(k)' /\ k > spawned => Owned(k)',
         \A k \in Spawn :
           Alive(k)' /\ Mode(proc[k].id) = "sidecar" /\ handles[proc[k].id] = k => Owned(k)',
         \A k \in Spawn : /\ Alive(k)' /\ Mode(proc[k].id) = "sidecar"
                          /\ t \in Task /\ task[t].k = k
                          /\ task[t].pc \in {"connect", "reap"} \/ Bringing(t)
           => Owned(k)'
  PROVE  ChildrenOwned'
<1> SUFFICES ASSUME NEW k \in Spawn, Alive(k)', Mode(proc'[k].id) = "sidecar", k <= spawned
             PROVE  Owned(k)'
  BY Numbers, PluginHostAssumption DEF ChildrenOwned, HostTypeOK
<1>1. proc'[k].id = proc[k].id /\ Alive(k) /\ Owned(k)
  BY DEF Living, ChildrenOwned
<1>2. CASE handles[proc[k].id] = k
  BY <1>1, <1>2
<1>3. ASSUME NEW u \in Task, task[u].k = k,
             task[u].pc \in {"connect", "reap"} \/ (At(u, "lock") /\ task[u].op = "load")
      PROVE  Owned(k)'
  <2>1. CASE u = t
    BY <1>1, <1>3, <2>1 DEF Bringing
  <2>2. CASE u # t
    <3>1. task'[u] = task[u]
      BY <2>2 DEF Alone
    <3>2. QED
      BY <1>3, <3>1 DEF Owned, At
  <2>3. QED
    BY <2>1, <2>2
<1>4. QED
  BY <1>1, <1>2, <1>3 DEF Owned

\* The streams of other tasks and other handles are left alone; t reads in its
\* turn, and leaves a stream that is quiet.
LEMMA WireStep ==
  ASSUME HostTypeOK, Owners, WireOrder, Living, NEW t, Alone(t),
         \A i \in Id : handles'[i] \in Spawn /\ Mode(i) = "sidecar" =>
           \/ StillQuiet(handles'[i])
           \/ t \in Task /\ At(t, "read")' /\ task'[t].id = i
           \/ /\ handles'[i] = handles[i] /\ wire'[handles[i]] = wire[handles[i]]
              /\ t \in Task => ~(At(t, "read") /\ task[t].id = i),
         \A u \in Task \ {t} : Bringing(u) /\ task[u].k # 0 =>
           wire'[task[u].k] = wire[task[u].k],
         \A u \in Task \ {t} : At(u, "read") /\ Sidecar(u) =>
           wire'[task[u].k] = wire[task[u].k],
         t \in Task =>
           /\ At(t, "lock")' /\ task'[t].op = "load" /\ task'[t].k # 0 => StillQuiet(task'[t].k)
           /\ At(t, "read")' /\ Sidecar(t)' => InTurn(t)'
  PROVE  WireOrder'
<1>1. ASSUME NEW s \in Spawn, NEW i \in Id, IsOf(s, i), Quiet(s), wire'[s] = wire[s]
      PROVE  StillQuiet(s)
  BY <1>1 DEF Quiet, StillQuiet, Living, IsOf
<1>2. ASSUME NEW i \in Id, handles'[i] \in Spawn, Mode(i) = "sidecar"
      PROVE  StillQuiet(handles'[i]) \/ \E u \in Task : At(u, "read")' /\ task'[u].id = i
  <2> SUFFICES ASSUME ~StillQuiet(handles'[i]), ~(t \in Task /\ At(t, "read")' /\ task'[t].id = i)
               PROVE  \E u \in Task : At(u, "read")' /\ task'[u].id = i
    OBVIOUS
  <2>1. /\ handles'[i] = handles[i] /\ wire'[handles[i]] = wire[handles[i]]
        /\ t \in Task => ~(At(t, "read") /\ task[t].id = i)
    BY <1>2
  <2>2. IsOf(handles[i], i)
    BY <1>2, <2>1 DEF Owners, HandleOK
  <2>3. ~Quiet(handles[i])
    BY <1>1, <1>2, <2>1, <2>2
  <2>4. PICK u \in Task : At(u, "read") /\ task[u].id = i
    BY <1>2, <2>1, <2>3 DEF WireOrder
  <2>5. QED
    BY <2>1, <2>4 DEF At, Alone
<1>3. ASSUME NEW u \in Task, At(u, "lock")', task'[u].op = "load", task'[u].k # 0, Sidecar(u)'
      PROVE  StillQuiet(task'[u].k)
  <2>1. CASE u # t
    <3>1. task'[u] = task[u] /\ Bringing(u) /\ At(u, "lock") /\ Sidecar(u)
      BY <1>3, <2>1 DEF At, Bringing, Sidecar, Alone
    <3>2. /\ Quiet(task[u].k) /\ wire'[task[u].k] = wire[task[u].k]
          /\ IsOf(task[u].k, task[u].id)
      BY <1>3, <2>1, <3>1 DEF WireOrder, Owners, TaskOK
    <3>3. task[u].k \in Spawn /\ task[u].id \in Id
      BY <1>3, <3>1, TaskType, Numbers
    <3>4. QED
      BY <1>1, <3>1, <3>2, <3>3
  <2>2. CASE u = t
    BY <1>3, <2>2
  <2>3. QED
    BY <2>1, <2>2
<1>4. ASSUME NEW u \in Task, At(u, "read")', Sidecar(u)' PROVE InTurn(u)'
  <2>1. CASE u # t
    <3>1. task'[u] = task[u] /\ At(u, "read") /\ Sidecar(u)
      BY <1>4, <2>1 DEF At, Sidecar, Alone
    <3>2. /\ task[u].k \in Spawn /\ My(u) = task[u].k /\ task[u].id \in Id
          /\ InTurn(u)
      BY <3>1, TaskType DEF Owners, TaskOK, WireOrder
    <3>3. wire[task[u].k].peer \in Spawn /\ wire[task[u].k].peer <= spawned
      BY <3>2 DEF Owners, HandleOK, IsOf, My
    <3>4. wire'[task[u].k] = wire[task[u].k]
      BY <2>1, <3>1
    <3>5. proc[wire[task[u].k].peer].st = "dead" => proc'[wire[task[u].k].peer].st = "dead"
      BY <3>3 DEF Living
    <3>6. QED
      BY <3>1, <3>2, <3>4, <3>5 DEF InTurn
  <2>2. QED
    BY <1>4, <2>1
<1>5. QED
  BY <1>2, <1>3, <1>4 DEF WireOrder, Quiet, StillQuiet

-----------------------------------------------------------------------------
(* The streams a task may write to, and the operations that end.           *)

\* The stream of a spawn t has, or of a handle while nobody else uses it.
Mine(t, s) ==
  \/ s = task[t].k /\ (Has(t) \/ AtWork(t))
  \/ s = My(t) /\ lock \in {NoTask, t}

LEMMA HandlesApart ==
  ASSUME Owners, NEW i \in Id, NEW j \in Id, handles[i] \in Spawn, handles[i] = handles[j]
  PROVE  i = j
BY DEF Owners, HandleOK, IsOf

\* A task at work has a spawn of its own, or is at that of its handle.
LEMMA WorksOn ==
  ASSUME HostTypeOK, LockHeld, Owners, NEW t \in Task, AtWork(t), ~Has(t)
  PROVE  task[t].k = My(t) /\ lock = t
<1>1. TaskOK(t) /\ lock = t
  BY DEF Owners, LockHeld
<1>2. QED
  BY <1>1 DEF TaskOK, AtWork, Has, Bringing, At

LEMMA OthersStreams ==
  ASSUME HostTypeOK, LockHeld, Owners, NEW t \in Task, NEW s \in Spawn, Mine(t, s)
  PROVE  /\ \A u \in Task \ {t} : Bringing(u) => task[u].k # s
         /\ \A u \in Task \ {t} : At(u, "read") => task[u].k # s
         /\ \A i \in Id : handles[i] = s => i = task[t].id /\ lock \in {NoTask, t}
<1>1. CASE Has(t) /\ s = task[t].k
  <2>1. s # 0
    BY Numbers
  <2>2. \A i \in Id : handles[i] # s
    BY <1>1, <2>1 DEF Owners, Excl
  <2>3. ASSUME NEW u \in Task \ {t}, Bringing(u) PROVE task[u].k # s
    BY <1>1, <2>1, <2>3 DEF Owners, Excl, Has
  <2>4. ASSUME NEW u \in Task \ {t}, At(u, "read") PROVE task[u].k # s
    BY <2>2, <2>4, TaskType DEF Owners, TaskOK, My
  <2>5. QED
    BY <2>2, <2>3, <2>4
<1>2. CASE ~(Has(t) /\ s = task[t].k)
  <2>1. s = My(t) /\ lock \in {NoTask, t}
    BY <1>2, WorksOn DEF Mine
  <2>2. task[t].id \in Id /\ s = handles[task[t].id]
    BY <2>1, TaskType DEF My
  <2>3. ASSUME NEW i \in Id, handles[i] = s PROVE i = task[t].id
    BY <2>2, <2>3, HandlesApart
  <2>4. ASSUME NEW u \in Task \ {t}, Bringing(u) PROVE task[u].k # s
    BY <2>2, <2>4, Numbers DEF Owners, Excl, Has
  <2>5. ASSUME NEW u \in Task \ {t}, At(u, "read") PROVE task[u].k # s
    BY <2>1, <2>5, Numbers DEF LockHeld, AtWork, At
  <2>6. QED
    BY <2>1, <2>3, <2>4, <2>5
<1>3. QED
  BY <1>1, <1>2

\* The streams after a step of t, which may have taken over that of its plugin.
LEMMA StreamStep ==
  ASSUME HostTypeOK, LockHeld, Owners, WireOrder, Living, NEW t \in Task, Alone(t),
         \A s \in Spawn : s <= spawned => wire'[s] = wire[s] \/ Mine(t, s),
         \A i \in Id : handles'[i] = handles[i] \/ handles'[i] \notin Spawn \/ i = task[t].id,
         LET h == handles'[task[t].id]
         IN Sidecar(t) /\ h \in Spawn =>
              \/ StillQuiet(h)
              \/ At(t, "read")' /\ task'[t].id = task[t].id
              \/ h = My(t) /\ wire'[h] = wire[h] /\ ~At(t, "read"),
         At(t, "lock")' /\ task'[t].op = "load" /\ task'[t].k # 0 => StillQuiet(task'[t].k),
         At(t, "read")' /\ Sidecar(t)' => InTurn(t)'
  PROVE  WireOrder'
<1>1. task[t].id \in Id
  BY TaskType
<1>2. \A u \in Task : task[u].k <= spawned /\ (task[u].k # 0 => task[u].k \in Spawn)
  BY TaskType, Numbers DEF Owners, TaskOK
<1>3. ASSUME NEW i \in Id, handles'[i] \in Spawn, Mode(i) = "sidecar"
      PROVE  \/ StillQuiet(handles'[i])
             \/ t \in Task /\ At(t, "read")' /\ task'[t].id = i
             \/ /\ handles'[i] = handles[i] /\ wire'[handles[i]] = wire[handles[i]]
                /\ t \in Task => ~(At(t, "read") /\ task[t].id = i)
  <2>1. CASE i = task[t].id
    BY <1>3, <2>1 DEF Sidecar, My
  <2>2. CASE i # task[t].id
    <3>1. handles'[i] = handles[i] /\ handles[i] \in Spawn
      BY <1>3, <2>2
    <3>2. handles[i] <= spawned /\ ~Mine(t, handles[i])
      BY <2>2, <3>1, OthersStreams DEF Owners, HandleOK, IsOf
    <3>3. QED
      BY <2>2, <3>1, <3>2
  <2>3. QED
    BY <2>1, <2>2
<1>4. ASSUME NEW u \in Task \ {t}, Bringing(u), task[u].k # 0
      PROVE  wire'[task[u].k] = wire[task[u].k]
  BY <1>2, <1>4, OthersStreams
<1>5. ASSUME NEW u \in Task \ {t}, At(u, "read"), Sidecar(u)
      PROVE  wire'[task[u].k] = wire[task[u].k]
  <2>1. task[u].k \in Spawn
    BY <1>5 DEF Owners, TaskOK
  <2>2. QED
    BY <1>2, <1>5, <2>1, OthersStreams
<1>6. QED
  BY <1>3, <1>4, <1>5, WireStep

\* An operation ends: t returns, and nothing is left that only it had.
LEMMA Ends ==
  ASSUME HostInv, HostTypeOK', NEW t \in Task, Return(t), lock' = Unlocked(t),
         UNCHANGED <<spawned, overlap>>, Procs, Peers,
         \A n \in Names : path'[n] \in {0, path[n]},
         handles' = handles \/ lock \in {NoTask, t},
         \A i \in Id : \/ handles'[i] = handles[i]
                       \/ i = task[t].id /\ handles'[i] \notin Spawn,
         \A s \in Spawn : wire'[s] = wire[s] \/ Mine(t, s),
         LET h == handles'[task[t].id]
         IN Sidecar(t) /\ h \in Spawn =>
              StillQuiet(h) \/ (wire'[h] = wire[h] /\ ~At(t, "read")),
         \A k \in Spawn :
           /\ Alive(k)' /\ Mode(proc[k].id) = "sidecar"
           /\ \/ handles[proc[k].id] = k
              \/ task[t].k = k /\ (task[t].pc \in {"connect", "reap"} \/ Bringing(t))
           => handles'[proc[k].id] = k
  PROVE  HostInv'
<1>1. HostTypeOK /\ LockHeld /\ Owners /\ WireOrder /\ NoOverlap /\ ChildrenOwned
  BY DEF HostInv
<1>2. /\ Alone(t) /\ task'[t].pc = "idle" /\ task'[t].op = "call" /\ task'[t].k = 0
  BY <1>1, ReturnIs DEF Alone
<1>3. ~Has(t)' /\ ~AtWork(t)' /\ ~At(t, "connect")' /\ ~At(t, "lock")' /\ ~At(t, "read")'
  BY <1>2 DEF Has, Bringing, AtWork, At
<1>4. Fresh' /\ ConnsMatch' /\ Living /\ Grows /\ Linked(t)
  BY <1>1, Steady
<1>5. TaskOK(t)'
  BY <1>2, <1>4, PluginHostAssumption DEF TaskOK, At, Grows
<1>6. Owners'
  BY <1>1, <1>2, <1>3, <1>4, <1>5, OwnersStep
<1>7. LockHeld'
  BY <1>1, <1>2, <1>3, LockStep
<1>8. WireOrder'
  <2>1. LET h == handles'[task[t].id]
        IN Sidecar(t) /\ h \in Spawn =>
             \/ StillQuiet(h)
             \/ At(t, "read")' /\ task'[t].id = task[t].id
             \/ h = My(t) /\ wire'[h] = wire[h] /\ ~At(t, "read")
    BY <1>1, TaskType DEF My
  <2>2. QED
    BY <1>1, <1>2, <1>3, <1>4, <2>1, StreamStep
<1>9. NoOverlap'
  <2>1. At(t, "connect") => proc'[task[t].k].st # "starting"
    <3> SUFFICES ASSUME At(t, "connect") PROVE proc'[task[t].k].st # "starting"
      OBVIOUS
    <3>1. /\ task[t].k \in Spawn /\ Mode(proc[task[t].k].id) = "sidecar" /\ Has(t)
          /\ proc[task[t].k].id \in Id /\ task[t].k # 0
      BY <1>1, TaskType, Numbers DEF Owners, TaskOK, Has, Bringing, Sidecar
    <3>2. \A i \in Id : handles[i] # task[t].k
      BY <1>1, <3>1 DEF Owners, Excl
    <3>3. PICK k \in Spawn : k = task[t].k
      BY <3>1
    <3>4. ~Alive(k)'
      BY <3>1, <3>2, <3>3 DEF At
    <3>5. QED
      BY <3>3, <3>4 DEF Alive
  <2>2. \A j \in Spawn : proc'[j].st = "starting" => proc[j].st = "starting"
    BY DEF Procs
  <2>3. QED
    BY <1>1, <1>2, <1>3, <2>1, <2>2, OverStep
<1>10. ChildrenOwned'
  <2>1. \A k \in Spawn : Alive(k)' => k <= spawned
    <3> SUFFICES ASSUME NEW k \in Spawn, Alive(k)', k > spawned PROVE FALSE
      BY <1>1, Numbers, PluginHostAssumption DEF HostTypeOK
    <3>1. Alive(k) /\ proc[k].st = "unborn"
      BY <1>1 DEF Procs, Owners, Fresh
    <3>2. QED
      BY <3>1 DEF Alive
  <2>2. ASSUME NEW k \in Spawn, handles'[proc[k].id] = k PROVE Owned(k)'
    BY <2>2 DEF Owned, Procs
  <2>3. \A k \in Spawn : ~(Alive(k)' /\ k > spawned)
    BY <1>1, <2>1, Numbers, PluginHostAssumption DEF HostTypeOK
  <2>4. QED
    BY <1>1, <1>2, <1>4, <2>2, <2>3, OwnedStep
<1>11. QED
  BY <1>6, <1>7, <1>8, <1>9, <1>10 DEF HostInv

LEMMA PersistInv ==
  ASSUME HostInv, NEW t \in Task, Persist(t)
  PROVE  HostInv'
<1>1. HostTypeOK /\ LockHeld
  BY DEF HostInv
<1>2. lock # t
  BY <1>1 DEF LockHeld, AtWork, At, Persist
<1>3. HostTypeOK'
  BY <1>1, TaskType, ReturnIs DEF HostTypeOK, Persist
<1>4. QED
  BY <1>2, <1>3, Ends, SameProcs
     DEF Persist, Peers, Unlocked, At, Bringing

LEMMA OnTheSpotInv ==
  ASSUME HostInv, NEW t \in Task, OnTheSpot(t)
  PROVE  HostInv'
<1>1. HostTypeOK /\ LockHeld
  BY DEF HostInv
<1>2. lock # t
  BY <1>1 DEF LockHeld, AtWork, At, OnTheSpot
<1>3. HostTypeOK'
  BY <1>1, TaskType, ReturnIs DEF HostTypeOK, OnTheSpot
<1>4. QED
  BY <1>2, <1>3, Ends, SameProcs
     DEF OnTheSpot, Peers, Unlocked, At, Bringing

\* What a task that reads is about.
LEMMA Reading ==
  ASSUME HostInv, NEW t \in Task, At(t, "read")
  PROVE  /\ task[t].k \in Spawn /\ My(t) = task[t].k /\ task[t].id \in Id
         /\ ~Bringing(t) /\ Mine(t, task[t].k) /\ lock = t
         /\ wire[task[t].k] \in Wire /\ wire[task[t].k].peer \in Spawn
         /\ wire[task[t].k].peer <= spawned
         /\ ~overlap => proc[wire[task[t].k].peer].id = task[t].id
         /\ Sidecar(t) => InTurn(t)
<1>1. HostTypeOK /\ LockHeld /\ TaskOK(t) /\ WireOrder
  BY DEF HostInv, Owners
<1>2. /\ task[t].k \in Spawn /\ My(t) = task[t].k /\ task[t].id \in Id
  BY <1>1, TaskType DEF TaskOK
<1>3. IsOf(task[t].k, task[t].id)
  BY <1>2 DEF HostInv, Owners, HandleOK, My
<1>4. AtWork(t) /\ lock = t /\ ~Bringing(t)
  BY <1>1 DEF LockHeld, AtWork, At, Bringing
<1>5. wire[task[t].k] \in Wire
  BY <1>1, <1>2 DEF HostTypeOK
<1>6. QED
  BY <1>1, <1>2, <1>3, <1>4, <1>5 DEF IsOf, Mine, WireOrder

LEMMA BrokenInv ==
  ASSUME HostInv, NEW t \in Task, Broken(t)
  PROVE  HostInv'
<1>1. HostTypeOK /\ At(t, "read")
  BY DEF HostInv, Broken
<1>2. HostTypeOK'
  BY <1>1, TaskType, ReturnIs DEF HostTypeOK, Broken, Unlocked
<1>3. Sidecar(t) => StillQuiet(task[t].k)
  <2> SUFFICES ASSUME Sidecar(t) PROVE StillQuiet(task[t].k)
    OBVIOUS
  <2>1. wire[task[t].k].ans = <<>>
    BY DEF Broken, Answers
  <2>2. QED
    BY <2>1 DEF StillQuiet, Broken
<1>4. QED
  BY <1>1, <1>2, <1>3, Ends, SameProcs, Reading
     DEF Broken, Peers, At, My

\* One stream changes, and not its peer.
LEMMA OneWire ==
  ASSUME HostTypeOK, NEW s \in Spawn, NEW w \in Wire, w.peer = wire[s].peer,
         wire' = [wire EXCEPT ![s] = w]
  PROVE  /\ wire' \in [Spawn -> Wire] /\ Peers /\ wire'[s] = w
         /\ \A x \in Spawn : x # s => wire'[x] = wire[x]
BY DEF HostTypeOK, Peers

LEMMA PathOff ==
  ASSUME HostTypeOK, NEW n \in Names, path' = [path EXCEPT ![n] = 0]
  PROVE  /\ path' \in [Names -> 0 .. MaxSpawns] /\ path'[n] = 0
         /\ \A m \in Names : path'[m] \in {0, path[m]}
<1>1. path \in [Names -> 0 .. MaxSpawns] /\ 0 \in 0 .. MaxSpawns
  BY PluginHostAssumption DEF HostTypeOK
<1>2. QED
  BY <1>1

LEMMA HandleIs ==
  ASSUME HostTypeOK, NEW i \in Id, NEW h \in NoHandle .. MaxSpawns,
         handles' = [handles EXCEPT ![i] = h]
  PROVE  /\ handles' \in [Id -> NoHandle .. MaxSpawns] /\ handles'[i] = h
         /\ \A j \in Id : j # i => handles'[j] = handles[j]
<1>1. handles \in [Id -> NoHandle .. MaxSpawns]
  BY DEF HostTypeOK
<1>2. QED
  BY <1>1

LEMMA NamesAre ==
  ASSUME HostTypeOK
  PROVE  /\ \A t \in Task : MyName(t) \in Names /\ Name(task[t].id) \in Names
         /\ \A i \in Id : Name(i) \in Names
BY TaskType DEF MyName, Names

LEMMA AnsweredInv ==
  ASSUME HostInv, NEW t \in Task, Answered(t)
  PROVE  HostInv'
<1>1. HostTypeOK /\ At(t, "read")
  BY DEF HostInv, Answered
<1>2. PICK k \in Spawn : k = task[t].k
  BY <1>1, Reading
<1> DEFINE w == [wire[k] EXCEPT !.ans = Tail(wire[k].ans)]
<1>3. wire[k] \in Wire /\ wire[k].ans # <<>> /\ wire[k].ans \in Seq(Tag)
  BY <1>1, <1>2, Reading DEF Answered, Answers, Wire
<1>4. Tail(wire[k].ans) \in Seq(Tag)
  BY <1>3
<1>5. /\ w \in Wire /\ w.peer = wire[k].peer /\ w.ans = Tail(wire[k].ans)
      /\ w.reqs = wire[k].reqs /\ w.skew = wire[k].skew
  BY <1>3, <1>4 DEF Wire
<1>6. wire' = [wire EXCEPT ![k] = w]
  BY <1>1, <1>2 DEF Answered, HostTypeOK
<1> HIDE DEF w
<1>7. /\ wire' \in [Spawn -> Wire] /\ Peers /\ wire'[k] = w
      /\ \A x \in Spawn : x # k => wire'[x] = wire[x]
  BY <1>1, <1>5, <1>6, OneWire
<1>8. HostTypeOK'
  BY <1>1, <1>7, TaskType, ReturnIs DEF HostTypeOK, Answered, Unlocked
<1>9. Sidecar(t) => StillQuiet(k)
  <2> SUFFICES ASSUME Sidecar(t), ~wire[k].skew PROVE StillQuiet(k)
    BY <1>5, <1>7 DEF StillQuiet
  <2>1. InTurn(t)
    BY <1>1, Reading
  <2>2. /\ wire[k].ans = <<task[t].tag>>
        /\ wire[k].reqs = <<>> \/ proc[wire[k].peer].st = "dead"
    BY <1>2, <1>3, <2>1 DEF InTurn
  <2>3. Tail(<<task[t].tag>>) = <<>>
    OBVIOUS
  <2>4. QED
    BY <1>5, <1>7, <2>2, <2>3 DEF StillQuiet, Answered
<1>10. QED
  BY <1>1, <1>2, <1>7, <1>8, <1>9, Ends, SameProcs, Reading DEF Answered, At, My

\* A task that had a spawn to itself drops it.
LEMMA GivesUp ==
  ASSUME HostInv, HostTypeOK', NEW t \in Task, Has(t), Drop(task[t].k), Return(t),
         lock' = Unlocked(t), UNCHANGED <<handles, path, spawned, overlap>>
  PROVE  HostInv'
<1>1. HostTypeOK /\ Owners
  BY DEF HostInv
<1>2. PICK k \in 0 .. MaxSpawns : k = task[t].k
  BY <1>1, TaskType
<1>3. k # 0 => k \in Spawn /\ \A i \in Id : handles[i] # k
  BY <1>1, <1>2, Numbers DEF Owners, Excl
<1>4. /\ Procs /\ Peers
      /\ \A s \in Spawn : s # k => wire'[s] = wire[s]
      /\ k \in Spawn => ~(Alive(k)' /\ Mode(proc[k].id) = "sidecar")
  <2>1. Drop(k)
    BY <1>2
  <2>2. QED
    BY <1>1, <2>1, DropIs
<1>5. task[t].id \in Id /\ ~At(t, "read")
  BY <1>1, TaskType DEF Has, Bringing, At
<1>6. \A s \in Spawn : wire'[s] = wire[s] \/ Mine(t, s)
  BY <1>2, <1>4 DEF Mine
<1>7. handles[task[t].id] \in Spawn => wire'[handles[task[t].id]] = wire[handles[task[t].id]]
  BY <1>3, <1>4, <1>5, Numbers
<1>8. \A j \in Spawn : Alive(j)' /\ Mode(proc[j].id) = "sidecar" => task[t].k # j
  BY <1>2, <1>4
<1>9. QED
  BY <1>4, <1>5, <1>6, <1>7, <1>8, Ends

LEMMA ConnectTimeoutInv ==
  ASSUME HostInv, NEW t \in Task, ConnectTimeout(t)
  PROVE  HostInv'
<1>1. HostTypeOK
  BY DEF HostInv
<1>2. HostTypeOK'
  BY <1>1, TaskType, ReturnIs, DropIs DEF HostTypeOK, ConnectTimeout, Unlocked
<1>3. QED
  BY <1>2, GivesUp DEF ConnectTimeout, Has, Bringing

LEMMA ShutdownInv ==
  ASSUME HostInv, NEW t \in Task, Shutdown(t)
  PROVE  HostInv'
<1>1. HostTypeOK /\ Owners /\ LockHeld
  BY DEF HostInv
<1>2. PICK k \in 0 .. MaxSpawns : k = task[t].k
  BY <1>1, TaskType
<1>3. At(t, "reaped") /\ Has(t) /\ ~At(t, "read") /\ task[t].id \in Id /\ lock = t /\ ~Bringing(t)
  BY <1>1, TaskType DEF Shutdown, Has, Bringing, At, LockHeld, AtWork
<1>4. k # 0 => k \in Spawn /\ \A i \in Id : handles[i] # k
  BY <1>1, <1>2, <1>3, Numbers DEF Owners, Excl
<1>5. wire' \in [Spawn -> Wire] /\ Peers /\ \A s \in Spawn : s # k => wire'[s] = wire[s]
  BY <1>1, <1>2, ClosedIs DEF Shutdown
<1>6. path' \in [Names -> 0 .. MaxSpawns] /\ \A n \in Names : path'[n] \in {0, path[n]}
  BY <1>1, PathOff, NamesAre DEF Shutdown
<1>7. HostTypeOK'
  BY <1>1, <1>5, <1>6, TaskType, ReturnIs DEF HostTypeOK, Shutdown
<1>8. \A s \in Spawn : wire'[s] = wire[s] \/ Mine(t, s)
  BY <1>2, <1>3, <1>5 DEF Mine
<1>9. handles[task[t].id] \in Spawn => wire'[handles[task[t].id]] = wire[handles[task[t].id]]
  BY <1>3, <1>4, <1>5, Numbers
<1>10. lock' = Unlocked(t)
  BY <1>3 DEF Shutdown, Unlocked
<1>11. Procs /\ Return(t) /\ UNCHANGED <<handles, spawned, overlap>>
  BY SameProcs DEF Shutdown
<1>12. task[t].pc \notin {"connect", "reap"}
  BY <1>3 DEF At
<1>13. QED
  BY <1>3, <1>5, <1>6, <1>7, <1>8, <1>9, <1>10, <1>11, <1>12, Ends

LEMMA DroppedInv ==
  ASSUME HostInv, NEW t \in Task, Dropped(t)
  PROVE  HostInv'
<1>1. HostTypeOK /\ Owners /\ LockHeld
  BY DEF HostInv
<1>2. /\ lock' = Unlocked(t) /\ Return(t)
      /\ UNCHANGED <<handles, path, spawned, ops, known, overlap>>
      /\ faults' \in 0 .. MaxFaults /\ lock' \in Task \cup {NoTask} /\ task' \in [Task -> Op]
  BY <1>1, ReturnIs, PluginHostAssumption DEF Dropped, HostTypeOK, Unlocked
<1>3. ASSUME proc' \in [Spawn -> Proc], wire' \in [Spawn -> Wire]
      PROVE  HostTypeOK'
  BY <1>1, <1>2, <1>3 DEF HostTypeOK
<1>4. CASE /\ \/ At(t, "connect") \/ (At(t, "lock") /\ task[t].op = "load")
              \/ (At(t, "reap") /\ task[t].op = "unload")
           /\ Drop(task[t].k)
  <2>1. Has(t)
    BY <1>4 DEF Has, Bringing, At
  <2>2. HostTypeOK'
    BY <1>1, <1>3, <1>4, DropIs
  <2>3. QED
    BY <1>2, <1>4, <2>1, <2>2, GivesUp
<1>5. CASE /\ At(t, "read") /\ UNCHANGED proc
           /\ \/ Sidecar(t) /\ wire' = [wire EXCEPT ![task[t].k].skew = TRUE]
              \/ ~Sidecar(t) /\ wire' = [wire EXCEPT ![task[t].k].ans = <<>>]
  <2>1. PICK k \in Spawn : k = task[t].k
    BY <1>5, Reading
  <2>2. wire[k] \in Wire
    BY <1>5, <2>1, Reading
  <2>3. PICK w \in Wire : /\ w.peer = wire[k].peer /\ wire' = [wire EXCEPT ![k] = w]
                          /\ Sidecar(t) => w.skew
    <3> DEFINE v == [wire[k] EXCEPT !.skew = TRUE]
               x == [wire[k] EXCEPT !.ans = <<>>]
    <3>1. <<>> \in Seq(Tag)
      OBVIOUS
    <3>2. v \in Wire /\ v.peer = wire[k].peer /\ v.skew /\ x \in Wire /\ x.peer = wire[k].peer
      BY <2>2, <3>1 DEF Wire
    <3>3. wire' = [wire EXCEPT ![k] = IF Sidecar(t) THEN v ELSE x]
      BY <1>1, <1>5, <2>1 DEF HostTypeOK
    <3> HIDE DEF v, x
    <3>4. QED
      BY <3>2, <3>3
  <2>4. /\ wire' \in [Spawn -> Wire] /\ Peers /\ wire'[k] = w
        /\ \A s \in Spawn : s # k => wire'[s] = wire[s]
    BY <1>1, <2>3, OneWire
  <2>5. HostTypeOK'
    BY <1>1, <1>3, <1>5, <2>4 DEF HostTypeOK
  <2>6. Sidecar(t) => StillQuiet(k)
    BY <2>3, <2>4 DEF StillQuiet
  <2>7. Procs /\ task[t].pc \notin {"connect", "reap"}
    BY <1>5, SameProcs DEF At
  <2>8. QED
    BY <1>2, <1>5, <2>1, <2>4, <2>5, <2>6, <2>7, Ends, Reading DEF My
<1>6. CASE /\ \/ At(t, "lock") /\ task[t].op # "load"
              \/ At(t, "reap") /\ task[t].op = "reload"
              \/ At(t, "persist")
           /\ UNCHANGED <<proc, wire>>
  <2>1. HostTypeOK'
    BY <1>1, <1>3, <1>6 DEF HostTypeOK
  <2>2. Procs /\ Peers /\ ~Bringing(t) /\ ~At(t, "read") /\ task[t].pc # "connect"
    BY <1>6, SameProcs DEF At, Bringing, Peers
  <2>3. ASSUME NEW k \in Spawn, task[t].k = k, task[t].pc = "reap"
        PROVE  handles[proc[k].id] = k
    <3>1. TaskOK(t) /\ task[t].op = "reload" /\ task[t].id \in Id
      BY <1>1, <1>6, <2>3, TaskType DEF At, Owners
    <3>2. handles[task[t].id] = k /\ HandleOK(task[t].id)
      BY <1>1, <2>3, <3>1 DEF TaskOK, My, Owners
    <3>3. QED
      BY <3>2 DEF HandleOK, IsOf
  <2>4. QED
    BY <1>2, <1>6, <2>1, <2>2, <2>3, Ends
<1>7. QED
  BY <1>4, <1>5, <1>6 DEF Dropped

LEMMA RestartFails ==
  ASSUME HostInv, NEW t \in Task, Restart(t), SpawnFails(task[t].id), lock' = NoTask, Return(t),
         UNCHANGED proc
  PROVE  HostInv'
<1>1. HostTypeOK /\ Owners /\ LockHeld
  BY DEF HostInv
<1>2. PICK k \in 0 .. MaxSpawns, i \in Id : k = task[t].k /\ i = task[t].id
  BY <1>1, TaskType
<1>3. /\ At(t, "reaped") /\ task[t].op = "reload" /\ lock = t /\ AtWork(t)
      /\ ~At(t, "read") /\ ~Bringing(t) /\ task[t].pc \notin {"connect", "reap"}
  BY <1>1 DEF Restart, At, LockHeld, AtWork, Bringing
<1>4. My(t) = k /\ handles[i] = k /\ (k # 0 => ~Alive(k))
  <2>1. TaskOK(t)
    BY <1>1 DEF Owners
  <2>2. My(t) = task[t].k /\ (task[t].k # 0 => ~Alive(task[t].k))
    BY <1>3, <2>1 DEF TaskOK, At
  <2>3. QED
    BY <1>2, <2>2 DEF My
<1>5. /\ handles' \in [Id -> NoHandle .. MaxSpawns] /\ handles'[i] = 0
      /\ \A j \in Id : j # i => handles'[j] = handles[j]
  <2>1. 0 \in NoHandle .. MaxSpawns
    BY PluginHostAssumption DEF NoHandle
  <2>2. QED
    BY <1>1, <1>2, <2>1, HandleIs DEF Restart
<1>6. wire' \in [Spawn -> Wire] /\ Peers /\ \A s \in Spawn : s # k => wire'[s] = wire[s]
  BY <1>1, <1>2, ClosedIs DEF Restart
<1>7. path' \in [Names -> 0 .. MaxSpawns] /\ \A n \in Names : path'[n] \in {0, path[n]}
  BY <1>1, PathOff, NamesAre DEF SpawnFails
<1>8. Procs /\ UNCHANGED <<spawned, overlap, ops, faults, known>>
  BY SameProcs DEF Restart, SpawnFails
<1>9. HostTypeOK'
  BY <1>1, <1>5, <1>6, <1>7, <1>8, ReturnIs DEF HostTypeOK
<1>10. \A s \in Spawn : wire'[s] = wire[s] \/ Mine(t, s)
  BY <1>2, <1>3, <1>6 DEF Mine
<1>11. lock' = Unlocked(t)
  BY <1>3 DEF Unlocked
<1>12. ASSUME NEW j \in Spawn, Alive(j)', handles[proc[j].id] = j PROVE handles'[proc[j].id] = j
  <2>1. proc[j].id \in Id /\ Alive(j)
    BY <1>1, <1>12 DEF HostTypeOK, Proc, Alive
  <2>2. proc[j].id # i
    BY <1>4, <1>12, <2>1, Numbers
  <2>3. QED
    BY <1>5, <1>12, <2>1, <2>2
<1>13. handles'[task[t].id] \notin Spawn
  BY <1>2, <1>5, Numbers
<1>14. QED
  BY <1>2, <1>3, <1>5, <1>6, <1>7, <1>8, <1>9, <1>10, <1>11, <1>12, <1>13, Ends

LEMMA UnloadEnds ==
  ASSUME HostInv, NEW t \in Task, Unload(t), ~(Sidecar(t) /\ My(t) # NoHandle)
  PROVE  HostInv'
<1>1. HostTypeOK /\ Owners /\ LockHeld
  BY DEF HostInv
<1>2. PICK i \in Id : i = task[t].id
  BY <1>1, TaskType
<1>3. /\ lock = NoTask /\ lock' = lock /\ Return(t)
      /\ ~At(t, "read") /\ ~Bringing(t) /\ task[t].pc \notin {"connect", "reap"}
      /\ UNCHANGED <<proc, path, spawned, ops, faults, known, overlap>>
  BY DEF Unload, At, Bringing
<1>4. /\ handles' \in [Id -> NoHandle .. MaxSpawns] /\ handles'[i] = NoHandle
      /\ \A j \in Id : j # i => handles'[j] = handles[j]
  <2>1. NoHandle \in NoHandle .. MaxSpawns
    BY PluginHostAssumption DEF NoHandle
  <2>2. QED
    BY <1>1, <1>2, <2>1, HandleIs DEF Unload
<1> DEFINE w(s) == [wire[s] EXCEPT !.reqs = Append(@, 0), !.open = Sidecar(t)]
<1>5. \A s \in Spawn : w(s) \in Wire /\ w(s).peer = wire[s].peer
  <2> TAKE s \in Spawn
  <2>1. wire[s] \in Wire /\ 0 \in Tag /\ wire[s].reqs \in Seq(Tag)
    BY <1>1, PluginHostAssumption DEF HostTypeOK, Wire, Tag
  <2>2. Append(wire[s].reqs, 0) \in Seq(Tag) /\ Sidecar(t) \in BOOLEAN
    BY <2>1 DEF Sidecar
  <2>3. QED
    BY <2>1, <2>2 DEF Wire
<1>6. wire' = [s \in Spawn |-> IF s = My(t) THEN w(s) ELSE wire[s]]
  BY DEF Unload
<1> HIDE DEF w
<1>7. wire' \in [Spawn -> Wire] /\ Peers /\ \A s \in Spawn : s # My(t) => wire'[s] = wire[s]
  BY <1>1, <1>5, <1>6 DEF HostTypeOK, Peers
<1>8. HostTypeOK'
  BY <1>1, <1>3, <1>4, <1>7, ReturnIs DEF HostTypeOK
<1>9. \A s \in Spawn : wire'[s] = wire[s] \/ Mine(t, s)
  BY <1>3, <1>7 DEF Mine
<1>10. lock' = Unlocked(t) /\ Procs /\ \A n \in Names : path'[n] \in {0, path[n]}
  BY <1>3, Numbers, SameProcs DEF Unlocked
<1>11. ASSUME NEW j \in Spawn, Mode(proc[j].id) = "sidecar", handles[proc[j].id] = j
       PROVE  handles'[proc[j].id] = j
  <2>1. proc[j].id \in Id
    BY <1>1 DEF HostTypeOK, Proc
  <2>2. proc[j].id # i
    BY <1>2, <1>11, Numbers DEF Sidecar, My
  <2>3. QED
    BY <1>4, <1>11, <2>1, <2>2
<1>12. handles'[task[t].id] \notin Spawn
  BY <1>2, <1>4, Numbers
<1>13. QED
  BY <1>2, <1>3, <1>4, <1>7, <1>8, <1>9, <1>10, <1>11, <1>12, Ends
-----------------------------------------------------------------------------
(* The steps of operations that go on.                                     *)

\* Nothing is spawned or connected.
LEMMA Moves ==
  ASSUME HostInv, HostTypeOK', NEW t \in Task, Alone(t), TaskOK(t)', LockHeld', WireOrder',
         UNCHANGED <<spawned, overlap>>, Procs, Peers,
         \A n \in Names : path'[n] \in {0, path[n]},
         ~At(t, "connect"), ~At(t, "connect")',
         handles' = handles \/ lock \in {NoTask, t},
         \A i \in Id : \/ handles'[i] = handles[i] \/ handles'[i] \notin Spawn
                       \/ /\ Has(t) /\ ~Has(t)'
                          /\ handles'[i] = task[t].k /\ WillBeOf(handles'[i], i),
         Has(t)' /\ task'[t].k # 0 =>
           \/ Has(t) /\ task'[t].k = task[t].k
           \/ \E i \in Id : handles[i] = task'[t].k /\ handles'[i] # handles[i],
         \A k \in Spawn :
           /\ Alive(k)' /\ Mode(proc[k].id) = "sidecar"
           /\ \/ handles[proc[k].id] = k
              \/ task[t].k = k /\ (At(t, "reap") \/ Bringing(t))
           => Owned(k)'
  PROVE  HostInv'
<1>1. HostTypeOK /\ LockHeld /\ Owners /\ WireOrder /\ NoOverlap /\ ChildrenOwned
  BY DEF HostInv
<1>2. Fresh' /\ ConnsMatch' /\ Living /\ Grows /\ Linked(t)
  BY <1>1, Steady
<1>3. Owners'
  BY <1>1, <1>2, OwnersStep
<1>4. NoOverlap'
  <2>1. \A j \in Spawn : proc'[j].st = "starting" => proc[j].st = "starting"
    BY DEF Procs
  <2>2. QED
    BY <1>1, <2>1, OverStep
<1>5. \A k \in Spawn : ~(Alive(k)' /\ k > spawned)
  BY <1>1 DEF Procs, Owners, Fresh, Alive
<1>6. ChildrenOwned'
  BY <1>1, <1>2, <1>5, OwnedStep DEF At
<1>7. QED
  BY <1>3, <1>4, <1>6 DEF HostInv

\* A task without work waits for the lock.
LEMMA EnterInv ==
  ASSUME HostInv, HostTypeOK', NEW t \in Task, At(t, "idle"), NEW op \in {"call", "reload", "unload"},
         NEW i \in Id, NEW tag \in Tag, Enter(t, op, i, tag),
         UNCHANGED <<lock, handles, proc, path, wire, spawned, overlap>>
  PROVE  HostInv'
<1>1. HostTypeOK /\ LockHeld /\ Owners /\ WireOrder
  BY DEF HostInv
<1> DEFINE r == [pc |-> "lock", op |-> op, id |-> i, k |-> 0, tag |-> tag]
<1>2. r \in Op /\ r.pc = "lock" /\ r.op = op /\ r.k = 0
  BY PluginHostAssumption DEF Op
<1>3. TaskIs(t, r)
  BY DEF Enter, TaskIs
<1> HIDE DEF r
<1>4. Alone(t) /\ task'[t].pc = "lock" /\ task'[t].op # "load" /\ task'[t].k = 0
  BY <1>1, <1>2, <1>3, TaskSet DEF Alone
<1>5. /\ ~Has(t)' /\ ~AtWork(t)' /\ ~At(t, "connect")' /\ ~At(t, "read")'
      /\ ~Has(t) /\ ~AtWork(t) /\ ~At(t, "connect") /\ ~At(t, "read") /\ ~Bringing(t) /\ ~At(t, "reap")
  BY <1>4 DEF Has, Bringing, AtWork, At
<1>6. TaskOK(t)'
  BY <1>1, <1>4, PluginHostAssumption DEF TaskOK, At, HostTypeOK
<1>7. lock' = Unlocked(t) /\ LockHeld'
  <2>1. lock' = Unlocked(t)
    BY <1>1, <1>5 DEF LockHeld, Unlocked
  <2>2. QED
    BY <1>1, <1>4, <1>5, <2>1, LockStep
<1>8. Procs /\ Peers
  BY SameProcs DEF Peers
<1>9. Living
  BY <1>1, <1>8, Steady
<1>10. WireOrder'
  <2>1. At(t, "lock")' /\ task'[t].op = "load" /\ task'[t].k # 0 => StillQuiet(task'[t].k)
    BY <1>4
  <2>2. QED
    BY <1>1, <1>4, <1>5, <1>9, <2>1, StreamStep DEF My
<1>11. \A k \in Spawn : handles[proc[k].id] = k => Owned(k)'
  BY DEF Owned
<1>12. QED
  BY <1>4, <1>5, <1>6, <1>7, <1>8, <1>10, <1>11, Moves

LEMMA BeginInv ==
  ASSUME HostInv, NEW t \in Task, NEW op \in {"reload", "unload"}, NEW i \in Id, Begin(t, op, i)
  PROVE  HostInv'
<1>1. HostTypeOK
  BY DEF HostInv
<1>2. ops + 1 \in Tag
  BY <1>1, PluginHostAssumption DEF HostTypeOK, Begin, Tag
<1> DEFINE r == [pc |-> "lock", op |-> op, id |-> i, k |-> 0, tag |-> ops + 1]
<1>3. r \in Op
  BY <1>2, PluginHostAssumption DEF Op
<1>4. TaskIs(t, r)
  BY DEF Begin, Enter, TaskIs
<1> HIDE DEF r
<1>5. task' \in [Task -> Op]
  BY <1>1, <1>3, <1>4, TaskSet
<1>6. HostTypeOK'
  BY <1>1, <1>2, <1>5 DEF HostTypeOK, Begin
<1>7. PICK n \in Tag : n = ops + 1
  BY <1>2
<1>8. QED
  BY <1>6, <1>7, EnterInv DEF Begin

LEMMA RespawnInv ==
  ASSUME HostInv, NEW t \in Task, Respawn(t)
  PROVE  HostInv'
<1>1. HostTypeOK /\ LockHeld /\ Owners /\ WireOrder
  BY DEF HostInv
<1>2. My(t) \in 0 .. MaxSpawns
  BY <1>1, TaskType, PluginHostAssumption DEF Respawn, NoHandle
<1>3. /\ Alone(t) /\ task'[t].pc = "reap" /\ task'[t].op = "reload"
      /\ task'[t].k = My(t) /\ task'[t].id = task[t].id
  BY <1>1, <1>2, MovedTo DEF Respawn, Alone
<1>4. /\ ~Has(t)' /\ AtWork(t)' /\ ~At(t, "connect")' /\ ~At(t, "read")' /\ ~At(t, "lock")'
      /\ ~Has(t) /\ ~At(t, "connect") /\ ~At(t, "read") /\ ~Bringing(t) /\ ~At(t, "reap")
  BY <1>3 DEF Has, Bringing, AtWork, At, Respawn
<1> DEFINE p(j) == [proc[j] EXCEPT !.sig = TRUE]
<1>5. \A j \in Spawn : /\ p(j) \in Proc /\ p(j).st = proc[j].st /\ p(j).id = proc[j].id
                       /\ p(j).conns = proc[j].conns /\ proc[j] \in Proc
  BY <1>1 DEF HostTypeOK, Proc
<1>6. proc' = [j \in Spawn |-> IF j = My(t) THEN p(j) ELSE proc[j]]
  BY DEF Respawn
<1> HIDE DEF p
<1>7. proc' \in [Spawn -> Proc] /\ Procs
  BY <1>5, <1>6 DEF Procs, Alive
<1>8. HostTypeOK'
  BY <1>1, <1>3, <1>7 DEF HostTypeOK, Respawn, Alone
<1>9. TaskOK(t)'
  <2>1. My(t) <= spawned
    BY <1>1, <1>2, TaskType, Numbers, PluginHostAssumption DEF Owners, HandleOK, IsOf, My, HostTypeOK
  <2>2. QED
    BY <1>3, <2>1 DEF TaskOK, At, Respawn, Sidecar, My
<1>10. LockHeld'
  BY <1>1, <1>3, <1>4, LockStep DEF Respawn
<1>11. Living /\ Peers
  BY <1>1, <1>7, Steady DEF Peers, Respawn
<1>12. WireOrder'
  <2>1. UNCHANGED <<wire, handles>>
    BY DEF Respawn
  <2>2. QED
    BY <1>1, <1>3, <1>4, <1>11, <2>1, StreamStep DEF My
<1>13. \A k \in Spawn : handles[proc[k].id] = k => Owned(k)'
  BY <1>7 DEF Owned, Procs, Respawn
<1>14. QED
  BY <1>3, <1>4, <1>7, <1>8, <1>9, <1>10, <1>11, <1>12, <1>13, Moves DEF Respawn

LEMMA ReapInv ==
  ASSUME HostInv, NEW t \in Task, Reap(t)
  PROVE  HostInv'
<1>1. HostTypeOK /\ LockHeld /\ Owners /\ WireOrder
  BY DEF HostInv
<1>2. /\ Alone(t) /\ task'[t].pc = "reaped" /\ task'[t].op = task[t].op
      /\ task'[t].k = task[t].k /\ task'[t].id = task[t].id
  BY <1>1, GotoIs DEF Reap, Alone
<1>3. /\ AtWork(t)' /\ ~At(t, "connect")' /\ ~At(t, "read")' /\ ~At(t, "lock")'
      /\ AtWork(t) /\ ~At(t, "connect") /\ ~At(t, "read") /\ ~Bringing(t)
      /\ Has(t)' => Has(t)
  BY <1>2 DEF Has, Bringing, AtWork, At, Reap
<1> DEFINE S == {j \in Spawn : j = task[t].k /\ Alive(j)}
<1>4. proc' = [j \in Spawn |-> IF j \in S THEN Dead(j) ELSE proc[j]]
  BY DEF Reap
<1>5. S \in SUBSET Spawn /\ \A j \in S : Alive(j)
  OBVIOUS
<1>6. /\ proc' \in [Spawn -> Proc] /\ Procs
      /\ \A j \in S : ~Alive(j)'
  BY <1>1, <1>4, <1>5, SomeDie
<1>7. ASSUME NEW j \in Spawn, j = task[t].k PROVE ~Alive(j)'
  BY <1>6, <1>7 DEF Procs
<1> HIDE DEF S
<1>8. HostTypeOK'
  BY <1>1, <1>2, <1>6 DEF HostTypeOK, Reap, Alone
<1>9. TaskOK(t)'
  <2>1. TaskOK(t) /\ task[t].k \in 0 .. MaxSpawns /\ UNCHANGED <<handles, spawned>>
    BY <1>1, TaskType DEF Owners, Reap
  <2>2. PICK k \in 0 .. MaxSpawns : k = task[t].k
    BY <2>1
  <2>3. k # 0 => ~Alive(k)'
    BY <1>7, <2>2, Numbers
  <2>4. QED
    BY <1>2, <2>1, <2>2, <2>3 DEF TaskOK, At, Reap, Sidecar, My, Alive
<1>10. LockHeld'
  <2>1. lock = t /\ lock' = t
    BY <1>1, <1>3 DEF LockHeld, Reap
  <2>2. QED
    BY <1>1, <1>2, <1>3, <2>1, LockStep
<1>11. Peers /\ Living
  BY <1>1, <1>6, Steady DEF Peers, Reap
<1>12. WireOrder'
  <2>1. UNCHANGED <<wire, handles>>
    BY DEF Reap
  <2>2. QED
    BY <1>1, <1>2, <1>3, <1>11, <2>1, StreamStep DEF My
<1>13. \A k \in Spawn : handles[proc[k].id] = k => Owned(k)'
  BY <1>6 DEF Owned, Procs, Reap
<1>14. QED
  BY <1>2, <1>3, <1>6, <1>7, <1>8, <1>9, <1>10, <1>11, <1>12, <1>13, Moves DEF Reap

LEMMA AskInv ==
  ASSUME HostInv, NEW t \in Task, Ask(t)
  PROVE  HostInv'
<1>1. HostTypeOK /\ LockHeld /\ Owners /\ WireOrder
  BY DEF HostInv
<1>2. PICK k \in Spawn, i \in Id : k = My(t) /\ i = task[t].id
  BY <1>1, TaskType DEF Ask
<1>3. handles[i] = k /\ IsOf(k, i)
  BY <1>1, <1>2 DEF My, Owners, HandleOK
<1>4. /\ Alone(t) /\ task'[t].pc = "read" /\ task'[t].op = task[t].op
      /\ task'[t].k = k /\ task'[t].id = i /\ task'[t].tag = task[t].tag
  BY <1>1, <1>2, Numbers, MovedTo DEF Ask, Alone
<1>5. /\ ~Has(t)' /\ AtWork(t)' /\ ~At(t, "connect")' /\ At(t, "read")' /\ ~At(t, "lock")'
      /\ ~Has(t) /\ ~At(t, "connect") /\ ~At(t, "read") /\ ~Bringing(t) /\ ~At(t, "reap")
  BY <1>4 DEF Has, Bringing, AtWork, At, Ask
<1> DEFINE w == [wire[k] EXCEPT !.reqs = Append(wire[k].reqs, task[t].tag)]
<1>6. wire[k] \in Wire /\ wire[k].reqs \in Seq(Tag) /\ task[t].tag \in Tag
  BY <1>1, TaskType DEF HostTypeOK, Wire
<1>7. Append(wire[k].reqs, task[t].tag) \in Seq(Tag)
  BY <1>6
<1>8. /\ w \in Wire /\ w.peer = wire[k].peer /\ w.ans = wire[k].ans /\ w.skew = wire[k].skew
      /\ w.reqs = Append(wire[k].reqs, task[t].tag)
  BY <1>6, <1>7 DEF Wire
<1>9. wire' = [wire EXCEPT ![k] = w]
  BY <1>1, <1>2 DEF Ask, HostTypeOK
<1> HIDE DEF w
<1>10. /\ wire' \in [Spawn -> Wire] /\ Peers /\ wire'[k] = w
       /\ \A x \in Spawn : x # k => wire'[x] = wire[x]
  BY <1>1, <1>8, <1>9, OneWire
<1>11. HostTypeOK'
  BY <1>1, <1>4, <1>10 DEF HostTypeOK, Ask, Alone
<1>12. TaskOK(t)'
  <2>1. Mode(i) = "pyo3" => ~Sidecar(t)'
    BY <1>4 DEF Sidecar
  <2>2. UNCHANGED <<handles, spawned>> /\ (task[t].op = "call" \/ (task[t].op = "reload" /\ Mode(i) = "pyo3"))
    BY <1>2 DEF Ask
  <2>3. My(t)' = k
    BY <1>3, <1>4, <2>2 DEF My
  <2>4. QED
    BY <1>3, <1>4, <2>1, <2>2, <2>3 DEF TaskOK, At, IsOf
<1>13. lock = NoTask /\ LockHeld'
  BY <1>1, <1>4, <1>5, LockStep DEF Ask
<1>14. Procs /\ Living /\ UNCHANGED <<handles, proc, path, spawned, overlap>>
  BY <1>1, <1>10, SameProcs, Steady DEF Ask
<1>15. Sidecar(t) => InTurn(t)'
  <2> SUFFICES ASSUME Sidecar(t), ~wire[k].skew PROVE InTurn(t)'
    BY <1>4, <1>8, <1>10 DEF InTurn
  <2>1. ~ \E u \in Task : At(u, "read")
    BY <1>1, <1>13, Numbers DEF LockHeld, AtWork, At
  <2>2. Quiet(k)
    BY <1>1, <1>2, <1>3, <2>1 DEF WireOrder, Sidecar
  <2>3. wire[k].ans = <<>> /\ (wire[k].reqs = <<>> \/ proc[wire[k].peer].st = "dead")
    BY <2>2 DEF Quiet
  <2>4. wire[k].reqs = <<>> => w.reqs = <<task[t].tag>>
    BY <1>8
  <2>5. QED
    BY <1>4, <1>8, <1>10, <1>14, <2>3, <2>4 DEF InTurn
<1>16. WireOrder'
  <2>1. Sidecar(t)' => Sidecar(t)
    BY <1>2, <1>4 DEF Sidecar
  <2>2. \A s \in Spawn : wire'[s] = wire[s] \/ Mine(t, s)
    BY <1>2, <1>10, <1>13 DEF Mine
  <2>3. QED
    BY <1>1, <1>2, <1>4, <1>5, <1>14, <1>15, <2>1, <2>2, StreamStep
<1>17. \A j \in Spawn : handles[proc[j].id] = j => Owned(j)'
  BY <1>14 DEF Owned
<1>18. QED
  BY <1>4, <1>5, <1>10, <1>11, <1>12, <1>13, <1>14, <1>16, <1>17, Moves

LEMMA UnloadSidecar ==
  ASSUME HostInv, NEW t \in Task, Unload(t), Sidecar(t), My(t) # NoHandle
  PROVE  HostInv'
<1>1. HostTypeOK /\ LockHeld /\ Owners /\ WireOrder
  BY DEF HostInv
<1>2. PICK k \in 0 .. MaxSpawns, i \in Id : k = My(t) /\ i = task[t].id
  <2>1. My(t) \in 0 .. MaxSpawns
    BY <1>1, TaskType, PluginHostAssumption DEF NoHandle
  <2>2. QED
    BY <1>1, <2>1, TaskType
<1>3. handles[i] = k /\ (k # 0 => IsOf(k, i) /\ k \in Spawn)
  BY <1>1, <1>2, Numbers DEF My, Owners, HandleOK
<1>4. /\ Alone(t) /\ task'[t].pc = "reap" /\ task'[t].op = "unload"
      /\ task'[t].k = k /\ task'[t].id = i
  BY <1>1, <1>2, MovedTo DEF Unload, Alone
<1>5. /\ AtWork(t)' /\ ~At(t, "connect")' /\ ~At(t, "read")' /\ ~At(t, "lock")'
      /\ ~Has(t) /\ ~At(t, "connect") /\ ~At(t, "read") /\ ~Bringing(t) /\ ~At(t, "reap")
  BY <1>4 DEF Has, Bringing, AtWork, At, Unload
<1>6. /\ handles' \in [Id -> NoHandle .. MaxSpawns] /\ handles'[i] = NoHandle
      /\ \A j \in Id : j # i => handles'[j] = handles[j]
  <2>1. NoHandle \in NoHandle .. MaxSpawns
    BY PluginHostAssumption DEF NoHandle
  <2>2. QED
    BY <1>1, <1>2, <2>1, HandleIs DEF Unload
<1> DEFINE w(s) == [wire[s] EXCEPT !.reqs = Append(@, 0), !.open = Sidecar(t)]
<1>7. \A s \in Spawn : w(s) \in Wire /\ w(s).peer = wire[s].peer
  <2> TAKE s \in Spawn
  <2>1. wire[s] \in Wire /\ 0 \in Tag /\ wire[s].reqs \in Seq(Tag)
    BY <1>1, PluginHostAssumption DEF HostTypeOK, Wire, Tag
  <2>2. Append(wire[s].reqs, 0) \in Seq(Tag) /\ Sidecar(t) \in BOOLEAN
    BY <2>1 DEF Sidecar
  <2>3. QED
    BY <2>1, <2>2 DEF Wire
<1>8. wire' = [s \in Spawn |-> IF s = My(t) THEN w(s) ELSE wire[s]]
  BY DEF Unload
<1> HIDE DEF w
<1>9. wire' \in [Spawn -> Wire] /\ Peers /\ \A s \in Spawn : s # My(t) => wire'[s] = wire[s]
  BY <1>1, <1>7, <1>8 DEF HostTypeOK, Peers
<1>10. HostTypeOK'
  BY <1>1, <1>4, <1>6, <1>9 DEF HostTypeOK, Unload, Alone
<1>11. TaskOK(t)'
  <2>1. k <= spawned' /\ Mode(i) = "sidecar"
    <3>1. spawned' = spawned /\ spawned \in 0 .. MaxSpawns
      BY <1>1 DEF Unload, HostTypeOK
    <3>2. k <= spawned
      BY <1>3, <3>1, PluginHostAssumption DEF IsOf
    <3>3. QED
      BY <1>2, <3>1, <3>2 DEF Sidecar
  <2>2. QED
    BY <1>4, <2>1 DEF TaskOK, At, Sidecar
<1>12. lock = NoTask /\ LockHeld'
  BY <1>1, <1>4, <1>5, LockStep DEF Unload
<1>13. Procs /\ Living /\ UNCHANGED <<proc, path, spawned, overlap>>
  BY <1>1, <1>9, SameProcs, Steady DEF Unload
<1>14. WireOrder'
  <2>1. \A s \in Spawn : wire'[s] = wire[s] \/ Mine(t, s)
    BY <1>9, <1>12 DEF Mine
  <2>2. handles'[task[t].id] \notin Spawn
    BY <1>2, <1>6, Numbers
  <2>3. \A j \in Id : handles'[j] = handles[j] \/ handles'[j] \notin Spawn \/ j = task[t].id
    BY <1>2, <1>6
  <2>4. QED
    BY <1>1, <1>4, <1>5, <1>13, <2>1, <2>2, <2>3, StreamStep
<1>15. ASSUME NEW j \in Spawn, handles[proc[j].id] = j PROVE Owned(j)'
  <2>1. CASE j = k
    BY <1>4, <2>1 DEF Owned
  <2>2. CASE j # k
    <3>1. proc[j].id \in Id /\ proc[j].id # i
      BY <1>1, <1>3, <1>15, <2>2 DEF HostTypeOK, Proc
    <3>2. QED
      BY <1>6, <1>13, <1>15, <3>1 DEF Owned
  <2>3. QED
    BY <2>1, <2>2
<1>16. \A j \in Id : handles'[j] = handles[j] \/ handles'[j] \notin Spawn
  BY <1>6, Numbers
<1>17. k # 0 => \E j \in Id : handles[j] = k /\ handles'[j] # handles[j]
  BY <1>3, <1>6, Numbers
<1>18. QED
  BY <1>4, <1>5, <1>9, <1>10, <1>11, <1>12, <1>13, <1>14, <1>15, <1>16, <1>17, Moves

LEMMA InsertInv ==
  ASSUME HostInv, NEW t \in Task, Insert(t)
  PROVE  HostInv'
<1>1. HostTypeOK /\ LockHeld /\ Owners /\ WireOrder
  BY DEF HostInv
<1>2. PICK k \in 0 .. MaxSpawns, i \in Id, m \in NoHandle .. MaxSpawns :
        k = task[t].k /\ i = task[t].id /\ m = My(t)
  BY <1>1, TaskType
<1>3. /\ At(t, "lock") /\ task[t].op = "load" /\ lock = NoTask /\ lock' = NoTask /\ Has(t)
      /\ Drop(m) /\ handles' = [handles EXCEPT ![i] = k] /\ UNCHANGED <<path, spawned, overlap>>
  BY <1>2 DEF Insert, Has, Bringing
<1>4. /\ Alone(t) /\ task'[t].pc = "persist" /\ task'[t].k = k
  BY <1>1, <1>2, GotoIs DEF Insert, Alone
<1>5. /\ ~Has(t)' /\ ~AtWork(t)' /\ ~At(t, "connect")' /\ ~At(t, "read")' /\ ~At(t, "lock")'
      /\ ~At(t, "connect") /\ ~At(t, "read") /\ ~At(t, "reap")
  BY <1>3, <1>4 DEF Has, Bringing, AtWork, At
<1>6. /\ handles' \in [Id -> NoHandle .. MaxSpawns] /\ handles'[i] = k
      /\ \A j \in Id : j # i => handles'[j] = handles[j]
  BY <1>1, <1>3, Numbers, HandleIs
<1>7. /\ proc' \in [Spawn -> Proc] /\ Procs
      /\ wire' \in [Spawn -> Wire] /\ Peers
      /\ \A s \in Spawn : s # m => wire'[s] = wire[s] /\ proc'[s] = proc[s]
      /\ m \in Spawn => ~(Alive(m)' /\ Mode(proc[m].id) = "sidecar")
  BY <1>1, <1>3, DropIs
<1>8. HostTypeOK'
  BY <1>1, <1>4, <1>6, <1>7 DEF HostTypeOK, Insert, Alone
<1>9. k # 0 => /\ k \in Spawn /\ IsOf(k, i) /\ k # m
               /\ Sidecar(t) => Quiet(k)
  <2> SUFFICES ASSUME k # 0
               PROVE  /\ k \in Spawn /\ IsOf(k, i) /\ k # m
                      /\ Sidecar(t) => Quiet(k)
    OBVIOUS
  <2>1. k \in Spawn /\ TaskOK(t)
    BY <1>1, Numbers DEF Owners
  <2>2. IsOf(k, i)
    BY <1>2, <1>3, <2>1 DEF TaskOK
  <2>3. k # m
    BY <1>1, <1>2, <1>3 DEF Owners, Excl, My
  <2>4. Sidecar(t) => Quiet(k)
    BY <1>1, <1>2, <1>3 DEF WireOrder
  <2>5. QED
    BY <2>1, <2>2, <2>3, <2>4
<1>10. Living /\ Grows
  BY <1>1, <1>3, <1>7, Steady
<1>11. k # 0 => WillBeOf(k, i) /\ (Sidecar(t) => StillQuiet(k))
  <2> SUFFICES ASSUME k # 0 PROVE WillBeOf(k, i) /\ (Sidecar(t) => StillQuiet(k))
    OBVIOUS
  <2>1. k \in Spawn /\ IsOf(k, i) /\ wire'[k] = wire[k] /\ wire[k].peer \in Spawn
    BY <1>7, <1>9 DEF IsOf
  <2>2. WillBeOf(k, i)
    BY <1>3, <1>7, <2>1 DEF IsOf, WillBeOf, Procs
  <2>3. Sidecar(t) => StillQuiet(k)
    BY <1>7, <1>9, <2>1 DEF Quiet, StillQuiet, Procs
  <2>4. QED
    BY <2>2, <2>3
<1>12. TaskOK(t)'
  <2>1. k <= spawned'
    BY <1>1, <1>2, <1>3 DEF Owners, TaskOK
  <2>2. QED
    BY <1>4, <2>1 DEF TaskOK, At
<1>13. LockHeld'
  <2>1. lock' = Unlocked(t)
    BY <1>3, Numbers DEF Unlocked
  <2>2. QED
    BY <1>1, <1>4, <1>5, <2>1, LockStep
<1>14. WireOrder'
  <2>1. \A s \in Spawn : wire'[s] = wire[s] \/ Mine(t, s)
    BY <1>2, <1>3, <1>7 DEF Mine
  <2>2. Sidecar(t) /\ handles'[task[t].id] \in Spawn => StillQuiet(handles'[task[t].id])
    BY <1>2, <1>6, <1>11, Numbers
  <2>3. \A j \in Id : handles'[j] = handles[j] \/ handles'[j] \notin Spawn \/ j = task[t].id
    BY <1>2, <1>6
  <2>4. QED
    BY <1>1, <1>4, <1>5, <1>10, <2>1, <2>2, <2>3, StreamStep
<1>15. ASSUME NEW j \in Spawn, Alive(j)', Mode(proc[j].id) = "sidecar",
              handles[proc[j].id] = j \/ task[t].k = j
       PROVE  Owned(j)'
  <2>1. proc[j].id \in Id /\ proc'[j].id = proc[j].id
    BY <1>1, <1>7 DEF HostTypeOK, Proc, Procs
  <2>2. CASE task[t].k = j
    <3>1. j # 0 /\ j = k
      BY <1>2, <2>2, Numbers
    <3>2. handles'[proc'[j].id] = j
      BY <1>6, <1>9, <2>1, <3>1 DEF IsOf
    <3>3. QED
      BY <3>2 DEF Owned
  <2>3. CASE handles[proc[j].id] = j
    <3>1. proc[j].id # i
      BY <1>2, <1>7, <1>15, <2>3 DEF My
    <3>2. QED
      BY <1>6, <2>1, <2>3, <3>1 DEF Owned
  <2>4. QED
    BY <1>15, <2>2, <2>3
<1>16. \A j \in Id : \/ handles'[j] = handles[j] \/ handles'[j] \notin Spawn
                     \/ handles'[j] = task[t].k /\ WillBeOf(handles'[j], j)
  BY <1>2, <1>6, <1>11, Numbers
<1>17. QED
  BY <1>3, <1>4, <1>5, <1>7, <1>8, <1>12, <1>13, <1>14, <1>15, <1>16, Moves

-----------------------------------------------------------------------------
(* Connections and spawns.                                                 *)

LEMMA ConnectedIs ==
  ASSUME HostInv, NEW t \in Task, Connected(t)
  PROVE  \E s \in Spawn, c \in Spawn, i \in Id :
           /\ s = task[t].k /\ i = task[t].id /\ At(t, "connect") /\ Has(t)
           /\ task[t].op \in {"load", "reload"} /\ Sidecar(t) /\ s <= spawned /\ proc[s].id = i
           /\ c <= spawned /\ proc[c].st = "serving" /\ (~overlap => c = s)
           /\ proc' \in [Spawn -> Proc] /\ wire' \in [Spawn -> Wire]
           /\ \A j \in Spawn : proc'[j].st = proc[j].st /\ proc'[j].id = proc[j].id
           /\ \A j \in Spawn : j # c => proc'[j] = proc[j]
           /\ proc'[c].conns = Append(proc[c].conns, s)
           /\ \A x \in Spawn : x # s => wire'[x] = wire[x]
           /\ wire[s].peer = 0 /\ wire'[s].peer = c /\ StillQuiet(s)
<1>1. HostTypeOK /\ Owners /\ NoOverlap /\ TaskOK(t) /\ At(t, "connect")
  BY DEF HostInv, Owners, Connected
<1>2. PICK s \in Spawn, i \in Id : s = task[t].k /\ i = task[t].id
  BY <1>1, TaskType DEF TaskOK
<1>3. /\ Has(t) /\ task[t].op \in {"load", "reload"} /\ Sidecar(t) /\ s <= spawned /\ proc[s].id = i
      /\ wire[s].peer = 0
  BY <1>1, <1>2 DEF TaskOK, Has, Bringing
<1>4. path[MyName(t)] \in 0 .. MaxSpawns
  BY <1>1, NamesAre DEF HostTypeOK
<1>5. PICK c \in Spawn : c = path[MyName(t)]
  BY <1>4, Numbers DEF Connected
<1>6. proc[c].st = "serving" /\ (~overlap => c = s)
  BY <1>1, <1>2, <1>5, Numbers DEF Connected, NoOverlap
<1>7. c <= spawned
  <2>1. ~(c > spawned)
    BY <1>1, <1>6 DEF Owners, Fresh
  <2>2. c \in Nat /\ spawned \in Nat
    BY <1>1, Numbers, PluginHostAssumption DEF HostTypeOK
  <2>3. QED
    BY <2>1, <2>2
<1> DEFINE p == [proc[c] EXCEPT !.conns = Append(proc[c].conns, s)]
           w == [NoWire EXCEPT !.peer = c, !.open = TRUE]
<1>8. proc[c] \in Proc /\ Append(proc[c].conns, s) \in Seq(Spawn)
  <2>1. proc[c] \in Proc /\ proc[c].conns \in Seq(Spawn)
    BY <1>1 DEF HostTypeOK, Proc
  <2>2. QED
    BY <2>1
<1>9. p \in Proc /\ p.st = proc[c].st /\ p.id = proc[c].id /\ p.conns = Append(proc[c].conns, s)
  BY <1>8 DEF Proc
<1>10. w \in Wire /\ w.peer = c /\ w.ans = <<>> /\ w.reqs = <<>>
  BY NoOpType, Numbers DEF NoWire, Wire
<1>11. proc' = [proc EXCEPT ![c] = p] /\ wire' = [wire EXCEPT ![s] = w]
  BY <1>1, <1>2, <1>5 DEF Connected, HostTypeOK
<1> HIDE DEF p, w
<1>12. /\ proc' \in [Spawn -> Proc] /\ wire' \in [Spawn -> Wire] /\ proc'[c] = p /\ wire'[s] = w
       /\ \A j \in Spawn : j # c => proc'[j] = proc[j]
       /\ \A x \in Spawn : x # s => wire'[x] = wire[x]
  BY <1>1, <1>9, <1>10, <1>11 DEF HostTypeOK
<1>13. \A j \in Spawn : proc'[j].st = proc[j].st /\ proc'[j].id = proc[j].id
  BY <1>9, <1>12
<1>14. StillQuiet(s)
  BY <1>10, <1>12 DEF StillQuiet
<1>15. QED
  BY <1>1, <1>2, <1>3, <1>6, <1>7, <1>9, <1>10, <1>12, <1>13, <1>14

LEMMA ConnectedInv ==
  ASSUME HostInv, NEW t \in Task, Connected(t)
  PROVE  HostInv'
<1>1. HostTypeOK /\ LockHeld /\ Owners /\ WireOrder /\ NoOverlap /\ ChildrenOwned
  BY DEF HostInv
<1>2. PICK s \in Spawn, c \in Spawn, i \in Id :
           /\ s = task[t].k /\ i = task[t].id /\ At(t, "connect") /\ Has(t)
           /\ task[t].op \in {"load", "reload"} /\ Sidecar(t) /\ s <= spawned /\ proc[s].id = i
           /\ c <= spawned /\ proc[c].st = "serving" /\ (~overlap => c = s)
           /\ proc' \in [Spawn -> Proc] /\ wire' \in [Spawn -> Wire]
           /\ \A j \in Spawn : proc'[j].st = proc[j].st /\ proc'[j].id = proc[j].id
           /\ \A j \in Spawn : j # c => proc'[j] = proc[j]
           /\ proc'[c].conns = Append(proc[c].conns, s)
           /\ \A x \in Spawn : x # s => wire'[x] = wire[x]
           /\ wire[s].peer = 0 /\ wire'[s].peer = c /\ StillQuiet(s)
  BY ConnectedIs
<1>3. UNCHANGED <<path, spawned, ops, faults, known, overlap>>
  BY DEF Connected
<1>4. spawned \in Nat /\ \A j \in Spawn : j \in Nat /\ j # 0
  BY <1>1, Numbers, PluginHostAssumption DEF HostTypeOK
<1>5. Fresh'
  <2> SUFFICES ASSUME NEW j \in Spawn, j > spawned
               PROVE  proc'[j].st = "unborn" /\ proc'[j].conns = <<>> /\ wire'[j].peer = 0
    BY <1>3 DEF Fresh
  <2>1. j # c /\ j # s
    BY <1>2, <1>4
  <2>2. QED
    BY <1>1, <1>2, <2>1 DEF Owners, Fresh
<1>6. ConnsMatch'
  <2> SUFFICES ASSUME NEW k \in Spawn, NEW j \in DOMAIN proc'[k].conns
               PROVE  wire'[proc'[k].conns[j]].peer = k
    BY DEF ConnsMatch
  <2>1. ASSUME j \in DOMAIN proc[k].conns, proc'[k].conns[j] = proc[k].conns[j]
        PROVE  wire'[proc'[k].conns[j]].peer = k
    <3>1. proc[k].conns \in Seq(Spawn)
      BY <1>1 DEF HostTypeOK, Proc
    <3>2. proc[k].conns[j] \in Spawn
      BY <2>1, <3>1
    <3>3. wire[proc[k].conns[j]].peer = k
      BY <1>1, <2>1 DEF Owners, ConnsMatch
    <3>4. proc[k].conns[j] # s
      BY <1>2, <1>4, <3>3
    <3>5. QED
      BY <1>2, <2>1, <3>2, <3>3, <3>4
  <2>2. CASE k # c
    BY <1>2, <2>1, <2>2
  <2>3. CASE k = c
    <3>1. proc[c].conns \in Seq(Spawn)
      BY <1>1 DEF HostTypeOK, Proc
    <3>2. proc'[k].conns = Append(proc[c].conns, s)
      BY <1>2, <2>3
    <3>3. \/ j \in DOMAIN proc[c].conns /\ Append(proc[c].conns, s)[j] = proc[c].conns[j]
          \/ Append(proc[c].conns, s)[j] = s
      BY <3>1, <3>2
    <3>4. QED
      BY <1>2, <2>1, <2>3, <3>2, <3>3
  <2>4. QED
    BY <2>2, <2>3
<1>7. Living /\ Grows /\ Linked(t)
  <2>1. Living
    BY <1>2 DEF Living, Alive
  <2>2. Linked(t)
    BY <1>2 DEF Linked
  <2>3. Grows
    BY <1>3, <1>4 DEF Grows
  <2>4. QED
    BY <2>1, <2>2, <2>3
<1>8. WillBeOf(s, i)
  BY <1>2, <1>3 DEF WillBeOf
<1>9. \A x \in Spawn : wire'[x] = wire[x] \/ Mine(t, x)
  BY <1>2 DEF Mine
<1>10. \A j \in Id : handles[j] # s
  BY <1>1, <1>2, <1>4 DEF Owners, Excl
<1>11. overlap \/ proc'[s].st # "starting"
  BY <1>2
<1>12. \A k \in Spawn : ~(Alive(k)' /\ k > spawned)
  BY <1>1, <1>2 DEF Owners, Fresh, Alive
<1>13. /\ ~At(t, "read") /\ ~At(t, "lock")
       /\ \A n \in Names : path'[n] \in {0, path[n]}
       /\ \A j \in Spawn : proc'[j].st = "starting" => proc[j].st = "starting"
  BY <1>2, <1>3 DEF At
<1>14. CASE task[t].op = "load"
  <2>1. /\ Alone(t) /\ task'[t].pc = "lock" /\ task'[t].op = "load" /\ task'[t].k = s
        /\ task'[t].id = i
    BY <1>1, <1>2, <1>14, GotoIs DEF Connected, Alone
  <2>2. UNCHANGED <<lock, handles>>
    BY <1>14 DEF Connected
  <2>3. /\ ~AtWork(t) /\ ~AtWork(t)' /\ ~At(t, "connect")' /\ ~At(t, "read")'
    BY <1>2, <1>14, <2>1 DEF AtWork, At
  <2>4. HostTypeOK'
    BY <1>1, <1>2, <1>3, <2>1, <2>2 DEF HostTypeOK, Alone
  <2>5. LockHeld'
    <3>1. lock' = Unlocked(t)
      BY <1>1, <2>2, <2>3 DEF LockHeld, Unlocked
    <3>2. QED
      BY <1>1, <2>1, <2>3, <3>1, LockStep
  <2>6. TaskOK(t)'
    <3>1. IsOf(s, i)'
      BY <1>8 DEF WillBeOf, IsOf
    <3>2. s <= spawned'
      BY <1>2, <1>3
    <3>3. QED
      BY <2>1, <3>1, <3>2 DEF TaskOK, At, IsOf
  <2>7. Owners'
    BY <1>1, <1>2, <1>5, <1>6, <1>7, <2>1, <2>2, <2>6, OwnersStep
  <2>8. WireOrder'
    <3>1. handles'[task[t].id] \in Spawn =>
            handles'[task[t].id] = My(t) /\ wire'[handles'[task[t].id]] = wire[handles'[task[t].id]]
      BY <1>2, <1>10, <2>2 DEF My
    <3>2. QED
      BY <1>1, <1>2, <1>7, <1>9, <1>13, <2>1, <2>2, <2>3, <3>1, StreamStep
  <2>9. NoOverlap'
    BY <1>1, <1>2, <1>3, <1>11, <1>13, <2>1, <2>3, OverStep
  <2>10. ASSUME NEW k \in Spawn, handles[proc[k].id] = k \/ k = s PROVE Owned(k)'
    BY <1>2, <2>1, <2>2, <2>10 DEF Owned, At
  <2>11. ChildrenOwned'
    BY <1>1, <1>2, <1>7, <1>12, <2>1, <2>10, OwnedStep
  <2>12. QED
    BY <2>4, <2>5, <2>7, <2>8, <2>9, <2>11 DEF HostInv
<1>15. CASE task[t].op # "load"
  <2>1. task[t].op = "reload" /\ lock' = NoTask /\ Return(t) /\ handles' = [handles EXCEPT ![i] = s]
    BY <1>2, <1>15 DEF Connected
  <2>2. Alone(t) /\ task'[t].pc = "idle" /\ task'[t].op = "call" /\ task'[t].k = 0
    BY <1>1, <2>1, ReturnIs DEF Alone
  <2>3. /\ AtWork(t) /\ ~AtWork(t)' /\ ~At(t, "connect")' /\ ~At(t, "read")' /\ ~Has(t)' /\ ~At(t, "lock")'
    BY <1>2, <2>1, <2>2 DEF AtWork, At, Has, Bringing
  <2>4. /\ handles' \in [Id -> NoHandle .. MaxSpawns] /\ handles'[i] = s
        /\ \A j \in Id : j # i => handles'[j] = handles[j]
    BY <1>1, <2>1, Numbers, HandleIs
  <2>5. HostTypeOK'
    BY <1>1, <1>2, <1>3, <2>1, <2>2, <2>4 DEF HostTypeOK, Alone
  <2>6. lock = t /\ LockHeld'
    <3>1. lock = t /\ lock' = Unlocked(t)
      BY <1>1, <2>1, <2>3 DEF LockHeld, Unlocked
    <3>2. QED
      BY <1>1, <2>2, <2>3, <3>1, LockStep
  <2>7. TaskOK(t)'
    BY <1>3, <1>4, <2>2 DEF TaskOK, At
  <2>8. Owners'
    BY <1>1, <1>2, <1>5, <1>6, <1>7, <1>8, <2>2, <2>3, <2>4, <2>6, <2>7, OwnersStep
  <2>9. WireOrder'
    <3>1. StillQuiet(handles'[task[t].id])
      BY <1>2, <2>4
    <3>2. \A j \in Id : handles'[j] = handles[j] \/ j = task[t].id
      BY <1>2, <2>4
    <3>3. QED
      BY <1>1, <1>7, <1>9, <2>2, <2>3, <3>1, <3>2, StreamStep
  <2>10. NoOverlap'
    BY <1>1, <1>2, <1>3, <1>11, <1>13, <2>2, <2>3, OverStep
  <2>11. handles[i] = 0
    <3>1. TaskOK(t)
      BY <1>1 DEF Owners
    <3>2. QED
      BY <1>2, <2>1, <3>1 DEF TaskOK, My
  <2>12. ASSUME NEW k \in Spawn, handles[proc[k].id] = k \/ k = s PROVE Owned(k)'
    <3>1. proc[k].id \in Id /\ proc'[k].id = proc[k].id
      BY <1>1, <1>2 DEF HostTypeOK, Proc
    <3>2. handles'[proc[k].id] = k
      BY <1>2, <1>4, <2>4, <2>11, <2>12, <3>1
    <3>3. QED
      BY <3>1, <3>2 DEF Owned
  <2>13. ChildrenOwned'
    BY <1>1, <1>2, <1>7, <1>12, <2>2, <2>12, OwnedStep
  <2>14. QED
    BY <2>5, <2>6, <2>8, <2>9, <2>10, <2>13 DEF HostInv
<1>16. QED
  BY <1>14, <1>15

\* A process is started: no stream is connected but, for a thread, its own.
LEMMA Born ==
  ASSUME HostTypeOK, Owners, spawned < MaxSpawns, spawned' = spawned + 1, overlap => overlap',
         NEW p \in Proc, proc' = [proc EXCEPT ![spawned + 1] = p],
         \A s \in Spawn : s # spawned + 1 => wire'[s].peer = wire[s].peer,
         \/ p.conns = <<>>
         \/ p.conns = <<spawned + 1>> /\ wire'[spawned + 1].peer = spawned + 1
  PROVE  /\ spawned + 1 \in Spawn /\ spawned' \in 0 .. MaxSpawns
         /\ proc' \in [Spawn -> Proc] /\ proc'[spawned + 1] = p
         /\ \A j \in Spawn : j # spawned + 1 => proc'[j] = proc[j]
         /\ Fresh' /\ ConnsMatch' /\ Living /\ Grows /\ \A t : Linked(t)
<1>1. spawned \in Nat /\ MaxSpawns \in Nat /\ spawned + 1 \in Spawn /\ spawned + 1 \in 0 .. MaxSpawns
  BY PluginHostAssumption DEF HostTypeOK, Spawn
<1>2. PICK k \in Spawn : k = spawned + 1
  BY <1>1
<1>3. /\ proc' \in [Spawn -> Proc] /\ proc'[k] = p /\ \A j \in Spawn : j # k => proc'[j] = proc[j]
  BY <1>2 DEF HostTypeOK
<1>4. \A j \in Spawn : j \in Nat /\ (j <= spawned => j # k) /\ (j > k => j > spawned /\ j # k)
  BY <1>1, <1>2, Numbers
<1>5. Fresh'
  BY <1>2, <1>3, <1>4 DEF Owners, Fresh
<1>6. ConnsMatch'
  <2> SUFFICES ASSUME NEW x \in Spawn, NEW j \in DOMAIN proc'[x].conns
               PROVE  wire'[proc'[x].conns[j]].peer = x
    BY DEF ConnsMatch
  <2>1. CASE x = k
    <3>1. p.conns = <<k>> /\ wire'[k].peer = k
      BY <1>2, <1>3, <2>1
    <3>2. QED
      BY <1>3, <2>1, <3>1
  <2>2. CASE x # k
    <3>1. proc'[x].conns = proc[x].conns /\ proc[x].conns \in Seq(Spawn)
      BY <1>3, <2>2 DEF HostTypeOK, Proc
    <3>2. proc[x].conns[j] \in Spawn /\ wire[proc[x].conns[j]].peer = x
      BY <3>1 DEF Owners, ConnsMatch
    <3>3. wire[k].peer = 0
      BY <1>1, <1>2 DEF Owners, Fresh
    <3>4. proc[x].conns[j] # k
      BY <3>2, <3>3, Numbers
    <3>5. QED
      BY <1>2, <3>1, <3>2, <3>4
  <2>3. QED
    BY <2>1, <2>2
<1>7. Living
  BY <1>3, <1>4 DEF Living, Alive
<1>8. \A t : Linked(t)
  BY <1>2, <1>4 DEF Linked
<1>9. Grows
  BY <1>1 DEF Grows
<1>10. QED
  BY <1>1, <1>2, <1>3, <1>5, <1>6, <1>7, <1>8, <1>9

LEMMA StartIs ==
  ASSUME HostTypeOK, NEW i \in Id
  PROVE  LET p == [Unborn EXCEPT !.st = "starting", !.id = i]
         IN p \in Proc /\ p.st = "starting" /\ p.id = i /\ p.conns = <<>>
BY NoOpType DEF Unborn, Proc

\* A child is started at the path of a name.
LEMMA Started ==
  ASSUME HostInv, HostTypeOK', NEW t \in Task, NEW i \in Id, Mode(i) = "sidecar",
         SpawnSidecar(t, i),
         proc' = [proc EXCEPT ![spawned + 1] = [Unborn EXCEPT !.st = "starting", !.id = i]],
         Alone(t), At(t, "idle") \/ At(t, "reaped"), At(t, "connect")',
         task'[t].k = spawned + 1, task'[t].id = i, task'[t].op \in {"load", "reload"},
         task'[t].op = "reload" => handles'[i] = 0, LockHeld', Peers,
         \A s \in Spawn : wire'[s] = wire[s] \/ Mine(t, s),
         \/ UNCHANGED <<handles, wire>>
         \/ i = task[t].id /\ handles'[i] = 0 /\ lock \in {NoTask, t},
         \A j \in Id : handles'[j] = handles[j] \/ (j = i /\ handles'[j] = 0),
         \A j \in Spawn : Alive(j) /\ handles[proc[j].id] = j => handles'[proc[j].id] = j
  PROVE  HostInv'
<1>1. HostTypeOK /\ LockHeld /\ Owners /\ WireOrder /\ NoOverlap /\ ChildrenOwned
  BY DEF HostInv
<1>2. PICK p \in Proc : /\ p.st = "starting" /\ p.id = i /\ p.conns = <<>>
                        /\ proc' = [proc EXCEPT ![spawned + 1] = p]
  BY <1>1, StartIs
<1>3. PICK k : k = spawned + 1
  OBVIOUS
<1>4. /\ spawned < MaxSpawns /\ spawned' = spawned + 1 /\ path' = [path EXCEPT ![Name(i)] = 0]
      /\ overlap' = (overlap \/ \E u \in Task \ {t} : At(u, "connect") /\ MyName(u) = Name(i))
  BY DEF SpawnSidecar
<1>5. /\ k \in Spawn /\ spawned' \in 0 .. MaxSpawns
      /\ proc' \in [Spawn -> Proc] /\ proc'[k] = p
      /\ \A j \in Spawn : j # k => proc'[j] = proc[j]
      /\ Fresh' /\ ConnsMatch' /\ Living /\ Grows /\ Linked(t)
  BY <1>1, <1>2, <1>3, <1>4, Born DEF Peers
<1>6. spawned \in Nat /\ k > spawned /\ k # 0 /\ wire'[k].peer = 0 /\ k <= spawned'
  <2>1. spawned \in Nat
    BY <1>1, PluginHostAssumption DEF HostTypeOK
  <2>2. k > spawned /\ k # 0 /\ k <= spawned'
    BY <1>3, <1>4, <2>1
  <2>3. wire[k].peer = 0 /\ wire'[k].peer = wire[k].peer
    BY <1>1, <1>5, <2>2 DEF Owners, Fresh, Peers
  <2>4. QED
    BY <2>1, <2>2, <2>3
<1>7. TaskOK(t)'
  BY <1>2, <1>3, <1>5, <1>6 DEF TaskOK, At, Sidecar, My
<1>8. \A j \in Id : handles'[j] = handles[j] \/ handles'[j] \notin Spawn
  BY Numbers
<1>9. Owners'
  <2>1. task'[t].k > spawned /\ \A j \in Id : handles'[j] \in {handles[j], 0}
    BY <1>3, <1>6
  <2>2. QED
    BY <1>1, <1>5, <1>7, <1>8, <2>1, OwnersStep
<1>10. ~At(t, "read") /\ ~At(t, "read")' /\ ~At(t, "lock")' /\ ~Bringing(t) /\ ~At(t, "connect")
       /\ task[t].pc \notin {"connect", "reap"}
  BY DEF At, Bringing
<1>11. WireOrder'
  <2>1. LET h == handles'[task[t].id]
        IN h \in Spawn => h = My(t) /\ wire'[h] = wire[h]
    BY <1>8, TaskType, Numbers DEF My
  <2>2. QED
    BY <1>1, <1>5, <1>8, <1>10, <2>1, StreamStep
<1>12. NoOverlap'
  <2>1. path'[Name(i)] = 0 /\ \A m \in Names : path'[m] \in {0, path[m]}
    BY <1>1, <1>4, PathOff, NamesAre
  <2>2. MyName(t)' = Name(i) /\ \A u \in Task \ {t} : At(u, "connect")' =>
          At(u, "connect") /\ MyName(u)' = MyName(u) /\ task'[u] = task[u]
    BY DEF MyName, Alone, At
  <2> SUFFICES ASSUME ~overlap'
               PROVE  /\ \A j \in Spawn : proc'[j].st = "starting" =>
                           \E u \in Task : At(u, "connect")' /\ task'[u].k = j
                      /\ \A u, v \in Task :
                           At(u, "connect")' /\ At(v, "connect")' /\ MyName(u)' = MyName(v)' => u = v
                      /\ \A u \in Task : At(u, "connect")' => path'[MyName(u)'] \in {0, task'[u].k}
    BY DEF NoOverlap
  <2>3. ~overlap /\ \A u \in Task \ {t} : ~(At(u, "connect") /\ MyName(u) = Name(i))
    BY <1>4
  <2>4. ASSUME NEW j \in Spawn, proc'[j].st = "starting"
        PROVE  \E u \in Task : At(u, "connect")' /\ task'[u].k = j
    <3>1. CASE j = k
      BY <1>3, <3>1
    <3>2. CASE j # k
      <4>1. proc[j].st = "starting"
        BY <1>5, <2>4, <3>2
      <4>2. PICK u \in Task : At(u, "connect") /\ task[u].k = j
        BY <1>1, <2>3, <4>1 DEF NoOverlap
      <4>3. u # t /\ task'[u] = task[u]
        BY <1>10, <4>2 DEF Alone
      <4>4. QED
        BY <4>2, <4>3 DEF At
    <3>3. QED
      BY <3>1, <3>2
  <2>5. \A u, v \in Task : At(u, "connect")' /\ At(v, "connect")' /\ MyName(u)' = MyName(v)' => u = v
    BY <1>1, <2>2, <2>3 DEF NoOverlap
  <2>6. ASSUME NEW u \in Task, At(u, "connect")' PROVE path'[MyName(u)'] \in {0, task'[u].k}
    <3>1. CASE u = t
      BY <2>1, <2>2, <3>1
    <3>2. CASE u # t
      BY <1>1, <2>1, <2>2, <2>3, <2>6, <3>2, NamesAre DEF NoOverlap
    <3>3. QED
      BY <3>1, <3>2
  <2>7. QED
    BY <2>4, <2>5, <2>6
<1>13. ChildrenOwned'
  <2>1. ASSUME NEW j \in Spawn, Alive(j)', j > spawned PROVE Owned(j)'
    <3>1. j = k
      BY <1>1, <1>5, <2>1 DEF Owners, Fresh, Alive
    <3>2. QED
      BY <1>3, <3>1 DEF Owned, At
  <2>2. ASSUME NEW j \in Spawn, Alive(j)', handles[proc[j].id] = j PROVE Owned(j)'
    <3>1. j # k
      <4>1. proc[j].id \in Id
        BY <1>1 DEF HostTypeOK, Proc
      <4>2. j <= spawned
        BY <1>1, <2>2, <4>1 DEF Owners, HandleOK, IsOf
      <4>3. QED
        BY <1>3, <1>6, <4>2
    <3>2. proc'[j] = proc[j] /\ Alive(j)
      BY <1>5, <2>2, <3>1 DEF Alive
    <3>3. QED
      BY <2>2, <3>2 DEF Owned
  <2>3. QED
    BY <1>1, <1>5, <1>10, <2>1, <2>2, OwnedStep
<1>14. QED
  BY <1>9, <1>11, <1>12, <1>13 DEF HostInv

LEMMA RestartInv ==
  ASSUME HostInv, NEW t \in Task, Restart(t)
  PROVE  HostInv'
<1>1. HostTypeOK /\ LockHeld /\ Owners
  BY DEF HostInv
<1>2. CASE SpawnFails(task[t].id) /\ lock' = NoTask /\ Return(t) /\ UNCHANGED proc
  BY <1>2, RestartFails
<1>3. CASE /\ SpawnSidecar(t, task[t].id)
           /\ proc' = [proc EXCEPT ![spawned + 1] = [Unborn EXCEPT !.st = "starting", !.id = task[t].id]]
           /\ task' = [task EXCEPT ![t].pc = "connect", ![t].k = spawned + 1]
           /\ UNCHANGED lock
  <2>1. PICK i \in Id, m \in 0 .. MaxSpawns : i = task[t].id /\ m = task[t].k
    BY <1>1, TaskType
  <2>2. spawned + 1 \in 0 .. MaxSpawns
    BY <1>1, <1>3, PluginHostAssumption DEF HostTypeOK, SpawnSidecar
  <2>3. /\ At(t, "reaped") /\ task[t].op = "reload" /\ AtWork(t) /\ lock = t
        /\ handles' = [handles EXCEPT ![i] = 0] /\ wire' = Closed(m)
        /\ UNCHANGED <<ops, faults, known>>
    BY <1>1, <2>1 DEF Restart, AtWork, At, LockHeld
  <2>4. TaskOK(t)
    BY <1>1 DEF Owners
  <2>5. Mode(i) = "sidecar" /\ handles[i] = m /\ (m # 0 => ~Alive(m))
    BY <2>1, <2>3, <2>4 DEF TaskOK, My, Sidecar, At
  <2>6. /\ Alone(t) /\ task'[t].pc = "connect" /\ task'[t].op = "reload"
        /\ task'[t].k = spawned + 1 /\ task'[t].id = i
    BY <1>1, <1>3, <2>1, <2>2, <2>3, MovedTo DEF Alone
  <2>7. /\ handles' \in [Id -> NoHandle .. MaxSpawns] /\ handles'[i] = 0
        /\ \A j \in Id : j # i => handles'[j] = handles[j]
    <3>1. 0 \in NoHandle .. MaxSpawns
      BY PluginHostAssumption DEF NoHandle
    <3>2. QED
      BY <1>1, <2>3, <3>1, HandleIs
  <2>8. wire' \in [Spawn -> Wire] /\ Peers /\ \A s \in Spawn : s # m => wire'[s] = wire[s]
    BY <1>1, <2>3, ClosedIs
  <2>9. path' \in [Names -> 0 .. MaxSpawns] /\ overlap' \in BOOLEAN /\ spawned' \in 0 .. MaxSpawns
    BY <1>1, <1>3, <2>2, PathOff, NamesAre DEF SpawnSidecar
  <2>10. proc' \in [Spawn -> Proc]
    <3> DEFINE p == [Unborn EXCEPT !.st = "starting", !.id = i]
    <3>1. p \in Proc
      BY <1>1, StartIs
    <3>2. proc' = [proc EXCEPT ![spawned + 1] = p]
      BY <1>3, <2>1
    <3> HIDE DEF p
    <3>3. QED
      BY <1>1, <3>1, <3>2 DEF HostTypeOK
  <2>11. HostTypeOK'
    BY <1>1, <1>3, <2>3, <2>6, <2>7, <2>8, <2>9, <2>10 DEF HostTypeOK, Alone
  <2>12. LockHeld'
    <3>1. AtWork(t)' /\ lock' = t
      BY <1>3, <2>3, <2>6 DEF AtWork, At
    <3>2. QED
      BY <1>1, <2>3, <2>6, <3>1, LockStep
  <2>13. \A s \in Spawn : wire'[s] = wire[s] \/ Mine(t, s)
    BY <2>1, <2>3, <2>8 DEF Mine
  <2>14. ASSUME NEW j \in Spawn, Alive(j), handles[proc[j].id] = j PROVE handles'[proc[j].id] = j
    <3>1. proc[j].id \in Id /\ proc[j].id # i
      BY <1>1, <2>5, <2>14, Numbers DEF HostTypeOK, Proc
    <3>2. QED
      BY <2>7, <2>14, <3>1
  <2>15. At(t, "connect")'
    BY <2>6 DEF At
  <2>16. SpawnSidecar(t, i) /\ proc' = [proc EXCEPT ![spawned + 1] = [Unborn EXCEPT !.st = "starting", !.id = i]]
    BY <1>3, <2>1
  <2>17. QED
    BY <2>1, <2>3, <2>5, <2>6, <2>7, <2>8, <2>11, <2>12, <2>13, <2>14, <2>15, <2>16, Started
<1>4. QED
  BY <1>2, <1>3 DEF Restart

\* The record of a load.
Loading(pc, i, k) == [pc |-> pc, op |-> "load", id |-> i, k |-> k, tag |-> ops + 1]

LEMMA LoadIs ==
  ASSUME HostTypeOK, NEW t \in Task, NEW i \in Id, NEW pc \in {"connect", "lock"},
         NEW k \in 0 .. MaxSpawns, ops < MaxOps, TaskIs(t, Loading(pc, i, k))
  PROVE  /\ Alone(t) /\ task'[t].pc = pc /\ task'[t].op = "load" /\ task'[t].k = k
         /\ task'[t].id = i /\ ops + 1 \in Tag
<1> DEFINE r == Loading(pc, i, k)
<1>1. ops + 1 \in Tag
  BY PluginHostAssumption DEF HostTypeOK, Tag
<1>2. r \in Op /\ r.pc = pc /\ r.op = "load" /\ r.k = k /\ r.id = i
  BY <1>1 DEF Op, Loading
<1>3. TaskIs(t, r)
  OBVIOUS
<1> HIDE DEF r
<1>4. QED
  BY <1>1, <1>2, <1>3, TaskSet DEF Alone

LEMMA WireSet ==
  ASSUME HostTypeOK, NEW s \in Spawn, NEW w \in Wire, wire' = [wire EXCEPT ![s] = w]
  PROVE  /\ wire' \in [Spawn -> Wire] /\ wire'[s] = w
         /\ \A x \in Spawn : x # s => wire'[x] = wire[x]
BY DEF HostTypeOK

LEMMA LoadSidecar ==
  ASSUME HostInv, NEW t \in Task, NEW i \in Id, At(t, "idle"), ops < MaxOps, ops' = ops + 1,
         Mode(i) = "sidecar", SpawnSidecar(t, i),
         proc' = [proc EXCEPT ![spawned + 1] = [Unborn EXCEPT !.st = "starting", !.id = i]],
         task' = [task EXCEPT ![t] = [pc |-> "connect", op |-> "load", id |-> i, k |-> spawned + 1, tag |-> ops + 1]],
         UNCHANGED <<wire, lock, handles, faults, known>>
  PROVE  HostInv'
<1>1. HostTypeOK /\ LockHeld /\ Owners
  BY DEF HostInv
<1>2. PICK k \in 0 .. MaxSpawns : k = spawned + 1
  BY <1>1, PluginHostAssumption DEF HostTypeOK, SpawnSidecar
<1>3. /\ Alone(t) /\ task'[t].pc = "connect" /\ task'[t].op = "load" /\ task'[t].k = k
      /\ task'[t].id = i /\ ops + 1 \in Tag
  <2>1. TaskIs(t, Loading("connect", i, k))
    BY <1>2 DEF TaskIs, Loading
  <2>2. QED
    BY <1>1, <2>1, LoadIs
<1>4. path' \in [Names -> 0 .. MaxSpawns] /\ overlap' \in BOOLEAN /\ spawned' \in 0 .. MaxSpawns
  BY <1>1, <1>2, PathOff, NamesAre DEF SpawnSidecar
<1>5. proc' \in [Spawn -> Proc]
  <2> DEFINE p == [Unborn EXCEPT !.st = "starting", !.id = i]
  <2>1. p \in Proc /\ proc' = [proc EXCEPT ![spawned + 1] = p]
    BY <1>1, StartIs
  <2> HIDE DEF p
  <2>2. QED
    BY <1>1, <2>1 DEF HostTypeOK
<1>6. HostTypeOK'
  BY <1>1, <1>3, <1>4, <1>5 DEF HostTypeOK, Alone
<1>7. ~AtWork(t) /\ ~AtWork(t)' /\ At(t, "connect")'
  BY <1>3 DEF AtWork, At
<1>8. LockHeld'
  <2>1. lock' = Unlocked(t)
    BY <1>1, <1>7 DEF LockHeld, Unlocked
  <2>2. QED
    BY <1>1, <1>3, <1>7, <2>1, LockStep
<1>9. Peers
  BY DEF Peers
<1>10. QED
  BY <1>2, <1>3, <1>6, <1>7, <1>8, <1>9, Started

\* A load of what needs no process waits for the lock.
LEMMA LoadCdylib ==
  ASSUME HostInv, NEW t \in Task, NEW i \in Id, At(t, "idle"), ops < MaxOps, ops' = ops + 1,
         task' = [task EXCEPT ![t] = [pc |-> "lock", op |-> "load", id |-> i, k |-> 0, tag |-> ops + 1]],
         UNCHANGED <<proc, wire, path, spawned, overlap, lock, handles, faults, known>>
  PROVE  HostInv'
<1>1. HostTypeOK /\ LockHeld /\ Owners /\ WireOrder
  BY DEF HostInv
<1>2. /\ Alone(t) /\ task'[t].pc = "lock" /\ task'[t].op = "load" /\ task'[t].k = 0
      /\ ops + 1 \in Tag
  <2>1. TaskIs(t, Loading("lock", i, 0)) /\ 0 \in 0 .. MaxSpawns
    BY PluginHostAssumption DEF TaskIs, Loading
  <2>2. QED
    BY <1>1, <2>1, LoadIs
<1>3. HostTypeOK'
  BY <1>1, <1>2 DEF HostTypeOK, Alone
<1>4. /\ ~AtWork(t)' /\ ~At(t, "connect")' /\ ~At(t, "read")'
      /\ ~AtWork(t) /\ ~At(t, "connect") /\ ~At(t, "read") /\ ~Bringing(t) /\ ~At(t, "reap")
  BY <1>2 DEF Bringing, AtWork, At
<1>5. TaskOK(t)'
  BY <1>1, <1>2, PluginHostAssumption DEF TaskOK, At, HostTypeOK
<1>6. LockHeld'
  <2>1. lock' = Unlocked(t)
    BY <1>1, <1>4 DEF LockHeld, Unlocked
  <2>2. QED
    BY <1>1, <1>2, <1>4, <2>1, LockStep
<1>7. Procs /\ Peers /\ Living
  BY <1>1, SameProcs, Steady DEF Peers
<1>8. WireOrder'
  BY <1>1, <1>2, <1>4, <1>7, StreamStep DEF My
<1>9. \A k \in Spawn : handles[proc[k].id] = k => Owned(k)'
  BY DEF Owned
<1>10. QED
  BY <1>2, <1>3, <1>4, <1>5, <1>6, <1>7, <1>8, <1>9, Moves

LEMMA LoadThread ==
  ASSUME HostInv, NEW t \in Task, NEW i \in Id, At(t, "idle"), ops < MaxOps, ops' = ops + 1,
         Mode(i) = "pyo3", spawned < MaxSpawns, spawned' = spawned + 1,
         proc' = [proc EXCEPT ![spawned + 1] =
                    [Unborn EXCEPT !.st = "serving", !.id = i, !.conns = <<spawned + 1>>]],
         wire' = [wire EXCEPT ![spawned + 1] = [NoWire EXCEPT !.peer = spawned + 1, !.open = TRUE]],
         task' = [task EXCEPT ![t] = [pc |-> "lock", op |-> "load", id |-> i, k |-> spawned + 1, tag |-> ops + 1]],
         UNCHANGED <<path, overlap, lock, handles, faults, known>>
  PROVE  HostInv'
<1>1. HostTypeOK /\ LockHeld /\ Owners /\ WireOrder /\ NoOverlap /\ ChildrenOwned
  BY DEF HostInv
<1>2. PICK k \in Spawn : k = spawned + 1
  BY <1>1, PluginHostAssumption DEF HostTypeOK, Spawn
<1>3. /\ Alone(t) /\ task'[t].pc = "lock" /\ task'[t].op = "load" /\ task'[t].k = k
      /\ task'[t].id = i /\ ops + 1 \in Tag
  <2>1. TaskIs(t, Loading("lock", i, k)) /\ k \in 0 .. MaxSpawns
    BY <1>2, Numbers DEF TaskIs, Loading
  <2>2. QED
    BY <1>1, <2>1, LoadIs
<1> DEFINE p == [Unborn EXCEPT !.st = "serving", !.id = i, !.conns = <<k>>]
           w == [NoWire EXCEPT !.peer = k, !.open = TRUE]
<1>4. p \in Proc /\ p.st = "serving" /\ p.id = i /\ p.conns = <<k>>
  <2>1. <<k>> \in Seq(Spawn)
    OBVIOUS
  <2>2. QED
    BY <2>1, NoOpType DEF Unborn, Proc
<1>5. w \in Wire /\ w.peer = k /\ w.ans = <<>> /\ w.reqs = <<>>
  BY NoOpType, Numbers DEF NoWire, Wire
<1>6. proc' = [proc EXCEPT ![spawned + 1] = p] /\ wire' = [wire EXCEPT ![k] = w]
  BY <1>2
<1> HIDE DEF p, w
<1>7. /\ wire' \in [Spawn -> Wire] /\ wire'[k] = w /\ \A s \in Spawn : s # k => wire'[s] = wire[s]
  BY <1>1, <1>5, <1>6, WireSet
<1>8. /\ spawned' \in 0 .. MaxSpawns
      /\ proc' \in [Spawn -> Proc] /\ proc'[k] = p
      /\ \A j \in Spawn : j # k => proc'[j] = proc[j]
      /\ Fresh' /\ ConnsMatch' /\ Living /\ Grows /\ Linked(t)
  BY <1>1, <1>2, <1>4, <1>5, <1>6, <1>7, Born
<1>9. HostTypeOK'
  BY <1>1, <1>3, <1>7, <1>8 DEF HostTypeOK, Alone
<1>10. /\ ~AtWork(t)' /\ ~At(t, "connect")' /\ ~At(t, "read")'
       /\ ~AtWork(t) /\ ~At(t, "connect") /\ ~At(t, "read") /\ ~Bringing(t)
       /\ task[t].pc \notin {"connect", "reap"}
  BY <1>3 DEF Bringing, AtWork, At
<1>11. spawned \in Nat /\ k > spawned /\ k <= spawned' /\ \A j \in Spawn : j <= spawned => j # k
  <2>1. spawned \in Nat
    BY <1>1, PluginHostAssumption DEF HostTypeOK
  <2>2. QED
    BY <1>2, <2>1
<1>12. TaskOK(t)'
  <2>1. IsOf(k, i)'
    BY <1>4, <1>5, <1>7, <1>8, <1>11 DEF IsOf
  <2>2. QED
    BY <1>3, <1>11, <2>1 DEF TaskOK, At, IsOf
<1>13. LockHeld'
  <2>1. lock' = Unlocked(t)
    BY <1>1, <1>10 DEF LockHeld, Unlocked
  <2>2. QED
    BY <1>1, <1>3, <1>10, <2>1, LockStep
<1>14. Owners'
  BY <1>1, <1>3, <1>8, <1>11, <1>12, OwnersStep
<1>15. WireOrder'
  <2>1. StillQuiet(k)
    BY <1>5, <1>7 DEF StillQuiet
  <2>2. handles[task[t].id] \in Spawn => wire'[handles[task[t].id]] = wire[handles[task[t].id]]
    BY <1>1, <1>7, <1>11, TaskType DEF Owners, HandleOK, IsOf
  <2>3. QED
    BY <1>1, <1>3, <1>7, <1>8, <1>10, <1>11, <2>1, <2>2, StreamStep DEF My
<1>16. NoOverlap'
  <2>1. \A j \in Spawn : proc'[j].st = "starting" => proc[j].st = "starting"
    BY <1>4, <1>8
  <2>2. QED
    BY <1>1, <1>3, <1>10, <2>1, OverStep
<1>17. ChildrenOwned'
  <2>1. ASSUME NEW j \in Spawn, Alive(j)', j > spawned PROVE Owned(j)'
    <3>1. j = k
      BY <1>1, <1>8, <2>1 DEF Owners, Fresh, Alive
    <3>2. QED
      BY <1>3, <3>1 DEF Owned, At
  <2>2. ASSUME NEW j \in Spawn, handles[proc[j].id] = j PROVE Owned(j)'
    <3>1. proc[j].id \in Id
      BY <1>1 DEF HostTypeOK, Proc
    <3>2. j <= spawned
      BY <1>1, <2>2, <3>1 DEF Owners, HandleOK, IsOf
    <3>3. proc'[j] = proc[j]
      BY <1>8, <1>11, <3>2
    <3>4. QED
      BY <2>2, <3>3 DEF Owned
  <2>3. QED
    BY <1>1, <1>3, <1>8, <1>10, <2>1, <2>2, OwnedStep
<1>18. QED
  BY <1>9, <1>13, <1>14, <1>15, <1>16, <1>17 DEF HostInv

-----------------------------------------------------------------------------
(* The plugins.                                                            *)

\* A step of none of the tasks.
LEMMA Aside ==
  ASSUME HostInv, HostTypeOK', UNCHANGED <<lock, handles, task, spawned, overlap>>, Procs, Peers,
         WireOrder', NoOverlap'
  PROVE  HostInv'
<1>1. HostTypeOK /\ LockHeld /\ Owners /\ ChildrenOwned
  BY DEF HostInv
<1>2. Fresh' /\ ConnsMatch' /\ Living /\ Grows /\ Linked(NoTask)
  BY <1>1, Steady
<1>3. Alone(NoTask) /\ NoTask \notin Task
  BY <1>1, Numbers DEF Alone, HostTypeOK
<1>4. Owners'
  BY <1>1, <1>2, <1>3, OwnersStep
<1>5. LockHeld'
  BY <1>1 DEF LockHeld, AtWork, At
<1>6. \A k \in Spawn : ~(Alive(k)' /\ k > spawned)
  BY <1>1 DEF Procs, Owners, Fresh, Alive
<1>7. \A k \in Spawn : handles[proc[k].id] = k => Owned(k)'
  BY DEF Owned, Procs
<1>8. ChildrenOwned'
  BY <1>1, <1>2, <1>3, <1>6, <1>7, OwnedStep
<1>9. QED
  BY <1>4, <1>5, <1>8 DEF HostInv

\* Streams are left alone.
LEMMA AsideQuietly ==
  ASSUME HostInv, HostTypeOK', UNCHANGED <<lock, handles, task, spawned, overlap, wire>>, Procs,
         \A n \in Names : path'[n] \in {0, path[n]}
  PROVE  HostInv'
<1>1. HostTypeOK /\ Owners /\ WireOrder /\ NoOverlap
  BY DEF HostInv
<1>2. Peers
  BY DEF Peers
<1>3. Alone(NoTask) /\ NoTask \notin Task
  BY <1>1, Numbers DEF Alone, HostTypeOK
<1>4. WireOrder'
  <2>1. Living
    BY <1>1, <1>2, Steady
  <2>2. QED
    BY <1>1, <1>3, <2>1, WireStep
<1>5. NoOverlap'
  <2>1. \A j \in Spawn : proc'[j].st = "starting" => proc[j].st = "starting"
    BY DEF Procs
  <2>2. QED
    BY <1>1, <1>3, <2>1, OverStep
<1>6. QED
  BY <1>2, <1>4, <1>5, Aside

LEMMA LoadFails ==
  ASSUME HostInv, NEW i \in Id, ops < MaxOps, ops' = ops + 1, SpawnFails(i),
         UNCHANGED <<proc, wire, task, lock, handles, faults, known>>
  PROVE  HostInv'
<1>1. HostTypeOK
  BY DEF HostInv
<1>2. ops' \in Tag
  BY <1>1, PluginHostAssumption DEF HostTypeOK, Tag
<1>3. /\ path' \in [Names -> 0 .. MaxSpawns] /\ \A n \in Names : path'[n] \in {0, path[n]}
      /\ UNCHANGED <<spawned, overlap>>
  BY <1>1, PathOff, NamesAre DEF SpawnFails
<1>4. HostTypeOK'
  BY <1>1, <1>2, <1>3 DEF HostTypeOK
<1>5. QED
  BY <1>3, <1>4, SameProcs, AsideQuietly

LEMMA LoadInv ==
  ASSUME HostInv, NEW t \in Task, NEW i \in Id, Load(t, i)
  PROVE  HostInv'
BY LoadSidecar, LoadCdylib, LoadThread, LoadFails DEF Load

\* One process ends.
LEMMA Dies ==
  ASSUME HostTypeOK, NEW k \in Spawn, Alive(k), proc' = [proc EXCEPT ![k] = Dead(k)]
  PROVE  proc' \in [Spawn -> Proc] /\ Procs
<1>1. proc' = [j \in Spawn |-> IF j \in {k} THEN Dead(j) ELSE proc[j]]
  BY DEF HostTypeOK
<1>2. {k} \in SUBSET Spawn /\ \A j \in {k} : Alive(j)
  OBVIOUS
<1>3. QED
  BY <1>1, <1>2, SomeDie

LEMMA LeaveInv ==
  ASSUME HostInv, NEW k \in Spawn, Leave(k)
  PROVE  HostInv'
<1>1. HostTypeOK
  BY DEF HostInv
<1>2. proc' \in [Spawn -> Proc] /\ Procs
  BY <1>1, Dies DEF Leave, Serving, Alive
<1>3. path' \in [Names -> 0 .. MaxSpawns] /\ \A n \in Names : path'[n] \in {0, path[n]}
  <2>1. proc[k].id \in Id
    BY <1>1 DEF HostTypeOK, Proc
  <2>2. CASE path' = path
    BY <1>1, <2>2 DEF HostTypeOK
  <2>3. CASE path' # path
    BY <1>1, <2>1, <2>3, PathOff, NamesAre DEF Leave
  <2>4. QED
    BY <2>2, <2>3
<1>4. HostTypeOK'
  BY <1>1, <1>2, <1>3 DEF HostTypeOK, Leave
<1>5. QED
  BY <1>2, <1>3, <1>4, AsideQuietly DEF Leave

LEMMA KilledInv ==
  ASSUME HostInv, NEW k \in Spawn, Terminate(k) \/ CrashPlugin(k)
  PROVE  HostInv'
<1>1. HostTypeOK
  BY DEF HostInv
<1>2. proc' \in [Spawn -> Proc] /\ Procs
  BY <1>1, Dies DEF Terminate, CrashPlugin
<1>3. faults' \in 0 .. MaxFaults
  BY <1>1, PluginHostAssumption DEF Terminate, CrashPlugin, HostTypeOK
<1>4. UNCHANGED <<lock, handles, path, wire, task, spawned, ops, known, overlap>>
  BY DEF Terminate, CrashPlugin
<1>5. HostTypeOK'
  BY <1>1, <1>2, <1>3, <1>4 DEF HostTypeOK
<1>6. QED
  BY <1>2, <1>4, <1>5, AsideQuietly

LEMMA BindInv ==
  ASSUME HostInv, NEW k \in Spawn, Bind(k)
  PROVE  HostInv'
<1>1. HostTypeOK /\ Owners /\ WireOrder /\ NoOverlap
  BY DEF HostInv
<1> DEFINE p == [proc[k] EXCEPT !.st = "serving"]
<1>2. proc[k] \in Proc /\ proc[k].id \in Id /\ proc[k].st = "starting"
  BY <1>1 DEF HostTypeOK, Proc, Bind
<1>3. p \in Proc /\ p.st = "serving" /\ p.id = proc[k].id /\ p.conns = proc[k].conns
  BY <1>2 DEF Proc
<1>4. proc' = [proc EXCEPT ![k] = p]
  BY <1>1 DEF Bind, HostTypeOK
<1> HIDE DEF p
<1>5. /\ proc' \in [Spawn -> Proc] /\ proc'[k] = p /\ \A j \in Spawn : j # k => proc'[j] = proc[j]
  BY <1>1, <1>3, <1>4 DEF HostTypeOK
<1>6. Procs
  BY <1>2, <1>3, <1>5 DEF Procs, Alive
<1>7. /\ path' \in [Names -> 0 .. MaxSpawns] /\ path'[Name(proc[k].id)] = k
      /\ \A n \in Names : n # Name(proc[k].id) => path'[n] = path[n]
  <2>1. Name(proc[k].id) \in Names /\ k \in 0 .. MaxSpawns
    BY <1>1, <1>2, NamesAre, Numbers
  <2>2. path \in [Names -> 0 .. MaxSpawns] /\ path' = [path EXCEPT ![Name(proc[k].id)] = k]
    BY <1>1 DEF Bind, HostTypeOK
  <2>3. QED
    BY <2>1, <2>2
<1>8. UNCHANGED <<lock, handles, wire, task, spawned, ops, faults, known, overlap>> /\ Peers
  BY DEF Bind, Peers
<1>9. HostTypeOK'
  BY <1>1, <1>5, <1>7, <1>8 DEF HostTypeOK
<1>10. Alone(NoTask) /\ NoTask \notin Task
  BY <1>1, <1>8, Numbers DEF Alone, HostTypeOK
<1>11. WireOrder'
  <2>1. Living
    BY <1>1, <1>6, <1>8, Steady
  <2>2. QED
    BY <1>1, <1>8, <1>10, <2>1, WireStep
<1>12. NoOverlap'
  <2> SUFFICES ASSUME ~overlap
               PROVE  /\ \A j \in Spawn : proc'[j].st = "starting" =>
                           \E u \in Task : At(u, "connect") /\ task[u].k = j
                      /\ \A u, v \in Task :
                           At(u, "connect") /\ At(v, "connect") /\ MyName(u) = MyName(v) => u = v
                      /\ \A u \in Task : At(u, "connect") => path'[MyName(u)] \in {0, task[u].k}
    BY <1>8 DEF NoOverlap, At, MyName
  <2>1. PICK t \in Task : At(t, "connect") /\ task[t].k = k
    BY <1>1, <1>2 DEF NoOverlap
  <2>2. TaskOK(t)
    BY <1>1 DEF Owners
  <2>3. MyName(t) = Name(proc[k].id)
    BY <2>1, <2>2 DEF TaskOK, MyName
  <2>4. \A u, v \in Task : At(u, "connect") /\ At(v, "connect") /\ MyName(u) = MyName(v) => u = v
    BY <1>1 DEF NoOverlap
  <2>5. ASSUME NEW u \in Task, At(u, "connect") PROVE path'[MyName(u)] \in {0, task[u].k}
    <3>1. CASE u = t
      BY <1>7, <2>1, <2>3, <3>1
    <3>2. CASE u # t
      <4>1. MyName(u) # Name(proc[k].id) /\ MyName(u) \in Names
        BY <1>1, <2>1, <2>3, <2>4, <2>5, <3>2, NamesAre
      <4>2. QED
        BY <1>1, <1>7, <2>5, <4>1 DEF NoOverlap
    <3>3. QED
      BY <3>1, <3>2
  <2>6. \A j \in Spawn : proc'[j].st = "starting" =>
          \E u \in Task : At(u, "connect") /\ task[u].k = j
    BY <1>1, <1>6 DEF NoOverlap, Procs
  <2>7. QED
    BY <2>4, <2>5, <2>6
<1>13. QED
  BY <1>6, <1>8, <1>9, <1>11, <1>12, Aside

LEMMA ServeInv ==
  ASSUME HostInv, NEW k \in Spawn, Serve(k)
  PROVE  HostInv'
<1>1. HostTypeOK /\ Owners /\ WireOrder /\ NoOverlap
  BY DEF HostInv
<1>2. PICK s \in Spawn : s = Head(proc[k].conns) /\ wire[s].peer = k
  <2>1. proc[k].conns \in Seq(Spawn) /\ proc[k].conns # <<>>
    BY <1>1 DEF HostTypeOK, Proc, Serve, Serving
  <2>2. 1 \in DOMAIN proc[k].conns /\ Head(proc[k].conns) = proc[k].conns[1]
        /\ Head(proc[k].conns) \in Spawn
    BY <2>1
  <2>3. QED
    BY <1>1, <2>2 DEF Owners, ConnsMatch
<1>3. /\ wire[s] \in Wire /\ wire[s].reqs \in Seq(Tag) /\ wire[s].ans \in Seq(Tag)
      /\ wire[s].reqs # <<>> /\ proc[k].st = "serving"
  BY <1>1, <1>2 DEF HostTypeOK, Wire, Serve, Serving, Conn
<1>4. PICK r \in Tag : r = Head(wire[s].reqs)
  BY <1>3
<1> DEFINE a == IF Heard(k, r) THEN Append(wire[s].ans, r) ELSE wire[s].ans
           w == [wire[s] EXCEPT !.reqs = Tail(wire[s].reqs), !.ans = a]
<1>5. Tail(wire[s].reqs) \in Seq(Tag) /\ Append(wire[s].ans, r) \in Seq(Tag)
  BY <1>3
<1>6. a \in {wire[s].ans, Append(wire[s].ans, r)}
  OBVIOUS
<1>7. wire' = [wire EXCEPT ![s] = w]
  BY <1>1, <1>2, <1>4 DEF Serve, Conn, HostTypeOK
<1> HIDE DEF a
<1>8. a \in Seq(Tag)
  BY <1>3, <1>5, <1>6
<1>9. /\ w \in Wire /\ w.peer = k /\ w.skew = wire[s].skew /\ w.ans = a
      /\ w.reqs = Tail(wire[s].reqs)
  BY <1>2, <1>3, <1>5, <1>8 DEF Wire
<1> HIDE DEF w
<1>10. /\ wire' \in [Spawn -> Wire] /\ Peers /\ wire'[s] = w
       /\ \A x \in Spawn : x # s => wire'[x] = wire[x]
  BY <1>1, <1>2, <1>7, <1>9, OneWire
<1>11. UNCHANGED <<lock, handles, proc, path, task, spawned, ops, faults, known, overlap>>
  BY DEF Serve
<1>12. HostTypeOK'
  BY <1>1, <1>10, <1>11 DEF HostTypeOK
<1>13. ASSUME NEW x \in Spawn, Quiet(x) PROVE StillQuiet(x)
  <2>1. CASE x = s
    <3>1. wire[s].skew
      BY <1>2, <1>3, <1>13, <2>1 DEF Quiet
    <3>2. QED
      BY <1>9, <1>10, <2>1, <3>1 DEF StillQuiet
  <2>2. CASE x # s
    BY <1>10, <1>11, <1>13, <2>2 DEF Quiet, StillQuiet
  <2>3. QED
    BY <2>1, <2>2
<1>14. ASSUME NEW u \in Task, At(u, "read"), Sidecar(u) PROVE InTurn(u)'
  <2>1. InTurn(u) /\ task[u].k \in Spawn /\ task'[u] = task[u]
    BY <1>1, <1>11, <1>14 DEF WireOrder, Owners, TaskOK
  <2>2. CASE task[u].k # s
    BY <1>10, <1>11, <2>1, <2>2 DEF InTurn
  <2>3. CASE task[u].k = s
    <3> SUFFICES ASSUME ~wire[s].skew PROVE InTurn(u)'
      BY <1>9, <1>10, <2>1, <2>3 DEF InTurn
    <3>1. wire[s].reqs = <<task[u].tag>> /\ wire[s].ans = <<>>
      BY <1>2, <1>3, <2>1, <2>3 DEF InTurn
    <3>2. r = task[u].tag /\ Tail(wire[s].reqs) = <<>> /\ Append(wire[s].ans, r) = <<task[u].tag>>
      BY <1>4, <3>1
    <3>3. QED
      BY <1>6, <1>9, <1>10, <2>1, <2>3, <3>1, <3>2 DEF InTurn
  <2>4. QED
    BY <2>2, <2>3
<1>15. WireOrder'
  <2>1. ASSUME NEW i \in Id, handles[i] \in Spawn, Mode(i) = "sidecar"
        PROVE  StillQuiet(handles[i]) \/ \E u \in Task : At(u, "read") /\ task[u].id = i
    BY <1>1, <1>13, <2>1 DEF WireOrder
  <2>2. ASSUME NEW u \in Task, At(u, "lock"), task[u].op = "load", task[u].k # 0, Sidecar(u)
        PROVE  StillQuiet(task[u].k)
    <3>1. task[u].k \in Spawn /\ Quiet(task[u].k)
      BY <1>1, <2>2, TaskType, Numbers DEF WireOrder
    <3>2. QED
      BY <1>13, <3>1
  <2>3. QED
    BY <1>11, <1>14, <2>1, <2>2 DEF WireOrder, Quiet, StillQuiet, At, Sidecar
<1>16. NoOverlap'
  BY <1>1, <1>11 DEF NoOverlap, At, MyName
<1>17. QED
  BY <1>10, <1>11, <1>12, <1>15, <1>16, SameProcs, Aside

-----------------------------------------------------------------------------
(* The harness: batches and turns.                                         *)

StepRec == [batch : Seq(Episode), out : Seq(Episode \X Nat), turn : Nat, tag : Nat,
            over : SUBSET Episode]

TextTypes ==
  /\ reward \in Id \cup {NoPlugin, NoEnv}
  /\ turn \in [Episode -> Nat]
  /\ life \in [Episode -> {"unborn", "live", "closed"}]
  /\ step \in [Task -> StepRec]
  /\ given \in [Episode -> SUBSET Nat] /\ lost \in [Episode -> SUBSET Nat]

LEMMA Types == (TypeOK <=> HostTypeOK /\ TextTypes) /\ (TypeOK' <=> HostTypeOK' /\ TextTypes')
BY DEF TypeOK, TextTypes, StepRec

LEMMA NoStepIs ==
  /\ NoStep \in StepRec /\ NoStep.turn = 0 /\ NoStep.out = <<>> /\ NoStep.over = {}
  /\ NoStep.batch = <<>>
  /\ \A e : Counted(NoStep, e) = {} /\ TurnsIn(NoStep.out, e) = {}
<1>1. /\ NoStep \in StepRec /\ NoStep.turn = 0 /\ NoStep.out = <<>> /\ NoStep.over = {}
      /\ NoStep.batch = <<>>
  BY DEF NoStep, StepRec
<1>2. \A e : TurnsIn(NoStep.out, e) = {}
  BY <1>1 DEF TurnsIn
<1>3. QED
  BY <1>1, <1>2 DEF Counted

\* One result more.
LEMMA TurnsInAppend ==
  ASSUME NEW out \in Seq(Episode \X Nat), NEW e \in Episode, NEW n \in Nat
  PROVE  /\ Append(out, <<e, n>>) \in Seq(Episode \X Nat)
         /\ Len(Append(out, <<e, n>>)) = Len(out) + 1
         /\ \A f, m : m \in TurnsIn(Append(out, <<e, n>>), f)
                        <=> m \in TurnsIn(out, f) \/ (f = e /\ m = n)
<1> DEFINE o == Append(out, <<e, n>>)
<1>1. <<e, n>> \in Episode \X Nat /\ <<e, n>>[1] = e /\ <<e, n>>[2] = n
  OBVIOUS
<1>2. PICK x \in Episode \X Nat : x = <<e, n>> /\ x[1] = e /\ x[2] = n
  BY <1>1
<1>3. /\ o \in Seq(Episode \X Nat) /\ Len(o) = Len(out) + 1 /\ DOMAIN o = 1 .. Len(out) + 1
      /\ Len(out) \in Nat /\ DOMAIN out = 1 .. Len(out)
      /\ \A j \in 1 .. Len(out) : o[j] = out[j]
      /\ o[Len(out) + 1] = x
  BY <1>2
<1> HIDE DEF o
<1>4. ASSUME NEW f, NEW m
      PROVE  m \in TurnsIn(o, f) <=> m \in TurnsIn(out, f) \/ (f = e /\ m = n)
  <2>1. ASSUME m \in TurnsIn(o, f) PROVE m \in TurnsIn(out, f) \/ (f = e /\ m = n)
    <3>1. PICK j \in DOMAIN o : o[j][1] = f /\ m = o[j][2]
      BY <2>1 DEF TurnsIn
    <3>2. CASE j = Len(out) + 1
      BY <1>2, <1>3, <3>1, <3>2
    <3>3. CASE j # Len(out) + 1
      <4>1. j \in DOMAIN out /\ o[j] = out[j]
        BY <1>3, <3>1, <3>3
      <4>2. QED
        BY <3>1, <4>1 DEF TurnsIn
    <3>4. QED
      BY <3>2, <3>3
  <2>2. ASSUME m \in TurnsIn(out, f) PROVE m \in TurnsIn(o, f)
    <3>1. PICK j \in DOMAIN out : out[j][1] = f /\ m = out[j][2]
      BY <2>2 DEF TurnsIn
    <3>2. j \in DOMAIN o /\ o[j] = out[j]
      BY <1>3, <3>1
    <3>3. QED
      BY <3>1, <3>2 DEF TurnsIn
  <2>3. ASSUME f = e, m = n PROVE m \in TurnsIn(o, f)
    <3>1. Len(out) + 1 \in DOMAIN o /\ o[Len(out) + 1][1] = f /\ o[Len(out) + 1][2] = m
      BY <1>2, <1>3, <2>3
    <3>2. QED
      BY <3>1 DEF TurnsIn
  <2>4. QED
    BY <2>1, <2>2, <2>3
<1>5. QED
  BY <1>3, <1>4 DEF o

LEMMA CountedIs ==
  ASSUME NEW s, NEW e, NEW m
  PROVE  m \in Counted(s, e) <=>
           \/ m \in TurnsIn(s.out, e) /\ m # 0
           \/ s.turn # 0 /\ s.batch[Len(s.out) + 1] = e /\ m = s.turn
BY DEF Counted

\* The steps of the other tasks are left alone.
Only(t) == step' \in [Task -> StepRec] /\ \A u \in Task \ {t} : step'[u] = step[u]

NewTurns(e) == (1 .. turn'[e]) \ (1 .. turn[e])

\* A step keeps its turns, hands them over, or loses them.
LEMMA AccountedStep ==
  ASSUME TextTypes, TextTypes', Accounted, NEW t \in Task, Only(t),
         \A e \in Episode : turn'[e] \in {turn[e], turn[e] + 1},
         \A e \in Episode :
           \/ /\ Counted(step'[t], e) = Counted(step[t], e) \cup NewTurns(e)
              /\ given'[e] = given[e] /\ lost'[e] = lost[e]
           \/ /\ Counted(step'[t], e) = {} /\ lost'[e] = lost[e]
              /\ given'[e] \ {0} = (given[e] \ {0}) \cup Counted(step[t], e) \cup NewTurns(e)
           \/ /\ Counted(step'[t], e) = {} /\ given'[e] = given[e] /\ turn'[e] = turn[e]
              /\ lost'[e] = lost[e] \cup Counted(step[t], e)
  PROVE  Accounted'
<1> SUFFICES ASSUME NEW e \in Episode
             PROVE  /\ given'[e] \subseteq 0 .. turn'[e] /\ lost'[e] \subseteq 1 .. turn'[e]
                    /\ \A u \in Task : Counted(step'[u], e) \subseteq 1 .. turn'[e]
                    /\ \A n \in 1 .. turn'[e] :
                         n \in given'[e] \/ n \in lost'[e] \/ \E u \in Task : n \in Counted(step'[u], e)
                    /\ given'[e] \cap lost'[e] = {}
                    /\ \A u \in Task : Counted(step'[u], e) \cap (given'[e] \cup lost'[e]) = {}
                    /\ \A u, v \in Task : u # v => Counted(step'[u], e) \cap Counted(step'[v], e) = {}
  BY DEF Accounted
<1> DEFINE C == [u \in Task |-> Counted(step[u], e)]
           D == [u \in Task |-> Counted(step'[u], e)]
<1>1. /\ turn[e] \in Nat /\ turn'[e] \in Nat /\ turn[e] <= turn'[e]
      /\ given[e] \subseteq Nat /\ given'[e] \subseteq Nat /\ lost[e] \subseteq Nat
  BY DEF TextTypes
<1>2. /\ given[e] \subseteq 0 .. turn[e] /\ lost[e] \subseteq 1 .. turn[e]
      /\ \A u \in Task : C[u] \subseteq 1 .. turn[e]
      /\ \A n \in 1 .. turn[e] : n \in given[e] \/ n \in lost[e] \/ \E u \in Task : n \in C[u]
      /\ given[e] \cap lost[e] = {}
      /\ \A u \in Task : C[u] \cap (given[e] \cup lost[e]) = {}
      /\ \A u, v \in Task : u # v => C[u] \cap C[v] = {}
  BY DEF Accounted
<1>3. \A u \in Task \ {t} : D[u] = C[u]
  BY DEF Only
<1>4. \/ D[t] = C[t] \cup NewTurns(e) /\ given'[e] = given[e] /\ lost'[e] = lost[e]
      \/ /\ D[t] = {} /\ lost'[e] = lost[e]
         /\ given'[e] \ {0} = (given[e] \ {0}) \cup C[t] \cup NewTurns(e)
      \/ /\ D[t] = {} /\ given'[e] = given[e] /\ turn'[e] = turn[e]
         /\ lost'[e] = lost[e] \cup C[t]
  OBVIOUS
<1>5. \A u \in Task : D[u] = Counted(step'[u], e)
  OBVIOUS
<1> HIDE DEF C, D
<1>6. \A n : n \in NewTurns(e) <=> n \in 1 .. turn'[e] /\ n \notin 1 .. turn[e]
  BY DEF NewTurns
<1>7. \A n \in 1 .. turn[e] : n \in 1 .. turn'[e] /\ n # 0
  BY <1>1
<1>8. \A n \in 0 .. turn[e] : n \in 0 .. turn'[e] /\ (n # 0 => n \in 1 .. turn[e])
  BY <1>1
<1>9. \A n \in 1 .. turn'[e] : n \in 0 .. turn'[e] /\ n # 0
  BY <1>1
<1>10. 0 \in 0 .. turn'[e]
  BY <1>1
<1>11. given'[e] \subseteq 0 .. turn'[e] /\ lost'[e] \subseteq 1 .. turn'[e]
  BY ONLY <1>2, <1>4, <1>6, <1>7, <1>8, <1>9, <1>10
<1>12. \A u \in Task : D[u] \subseteq 1 .. turn'[e]
  BY ONLY <1>2, <1>3, <1>4, <1>6, <1>7
<1>13. \A n \in 1 .. turn'[e] : n \in given'[e] \/ n \in lost'[e] \/ \E u \in Task : n \in D[u]
  BY ONLY <1>2, <1>3, <1>4, <1>6, <1>9
<1>14. given'[e] \cap lost'[e] = {}
  BY ONLY <1>2, <1>4, <1>6, <1>7
<1>15. \A u \in Task : D[u] \cap (given'[e] \cup lost'[e]) = {}
  BY ONLY <1>2, <1>3, <1>4, <1>6, <1>7, <1>8
<1>16. \A u, v \in Task : u # v => D[u] \cap D[v] = {}
  BY ONLY <1>2, <1>3, <1>4, <1>6
<1>17. QED
  BY <1>5, <1>11, <1>12, <1>13, <1>14, <1>15, <1>16

\* The next entry of a batch.
LEMMA NextEntry ==
  ASSUME TextTypes, NEW t \in Task, Stepping(t), StepOK(t)
  PROVE  /\ step[t].batch[Len(step[t].out) + 1] \in Episode
         /\ step[t] \in StepRec /\ step[t].out \in Seq(Episode \X Nat)
         /\ Len(step[t].out) \in Nat /\ Len(step[t].batch) \in Nat
         /\ Len(step[t].out) < Len(step[t].batch)
         /\ step[t].turn \in Nat /\ step[t].tag \in Nat /\ step[t].over \subseteq Episode
<1>1. /\ step[t] \in StepRec /\ step[t].batch \in Seq(Episode) /\ step[t].out \in Seq(Episode \X Nat)
      /\ step[t].turn \in Nat /\ step[t].tag \in Nat /\ step[t].over \subseteq Episode
  BY DEF TextTypes, StepRec
<1>2. Len(step[t].out) < Len(step[t].batch)
  BY DEF StepOK
<1>3. Len(step[t].out) \in Nat /\ Len(step[t].batch) \in Nat
  BY <1>1
<1>4. Len(step[t].out) + 1 \in 1 .. Len(step[t].batch)
  BY <1>2, <1>3
<1>5. QED
  BY <1>1, <1>2, <1>3, <1>4

LEMMA StepSet ==
  ASSUME TextTypes, NEW t \in Task, NEW r \in StepRec, step' = [step EXCEPT ![t] = r]
  PROVE  Only(t) /\ step'[t] = r
BY DEF TextTypes, Only

\* A result is pushed.
More(t, e, n) ==
  /\ given' = given
  /\ step'[t].batch = step[t].batch /\ step'[t].tag = step[t].tag
  /\ step'[t].over = step[t].over /\ step'[t].turn = 0
  /\ Len(step'[t].out) < Len(step'[t].batch)
  /\ \A f, m : m \in TurnsIn(step'[t].out, f) <=> m \in TurnsIn(step[t].out, f) \/ (f = e /\ m = n)

Last(t, e, n) ==
  /\ step'[t] = NoStep
  /\ given' \in [Episode -> SUBSET Nat]
  /\ \A f \in Episode : \A m : m \in given'[f] <=>
       m \in given[f] \/ m \in TurnsIn(step[t].out, f) \/ (f = e /\ m = n)

LEMMA PushIs ==
  ASSUME TextTypes, NEW t \in Task, Stepping(t), StepOK(t),
         NEW e \in Episode, NEW n \in Nat, Push(t, e, n)
  PROVE  /\ Only(t) /\ lost' = lost
         /\ More(t, e, n) \/ Last(t, e, n)
<1> DEFINE out == Append(step[t].out, <<e, n>>)
<1>1. /\ step[t] \in StepRec /\ step[t].out \in Seq(Episode \X Nat)
      /\ Len(step[t].out) \in Nat /\ Len(step[t].batch) \in Nat
  BY NextEntry
<1>2. /\ out \in Seq(Episode \X Nat) /\ Len(out) = Len(step[t].out) + 1
      /\ \A f, m : m \in TurnsIn(out, f) <=> m \in TurnsIn(step[t].out, f) \/ (f = e /\ m = n)
  BY <1>1, TurnsInAppend
<1>3. CASE Len(out) < Len(step[t].batch)
  <2> DEFINE r == [step[t] EXCEPT !.out = out, !.turn = 0]
  <2>1. step' = [step EXCEPT ![t].out = out, ![t].turn = 0] /\ given' = given /\ lost' = lost
    BY <1>3 DEF Push
  <2>2. step' = [step EXCEPT ![t] = r]
    BY <2>1 DEF TextTypes
  <2> HIDE DEF out
  <2>3. /\ r \in StepRec /\ r.out = out /\ r.turn = 0 /\ r.batch = step[t].batch
        /\ r.tag = step[t].tag /\ r.over = step[t].over
    BY <1>1, <1>2 DEF StepRec
  <2> HIDE DEF r
  <2>4. Only(t) /\ step'[t] = r
    BY <2>2, <2>3, StepSet
  <2>5. More(t, e, n)
    BY <1>2, <1>3, <2>1, <2>3, <2>4 DEF More
  <2>6. QED
    BY <2>1, <2>4, <2>5
<1>4. CASE ~(Len(out) < Len(step[t].batch))
  <2>1. /\ step' = [step EXCEPT ![t] = NoStep] /\ lost' = lost
        /\ given' = [f \in Episode |-> given[f] \cup TurnsIn(out, f)]
    BY <1>4 DEF Push
  <2>2. Only(t) /\ step'[t] = NoStep
    BY <2>1, NoStepIs, StepSet
  <2>3. \A f : TurnsIn(step[t].out, f) \subseteq Nat
    <3> SUFFICES ASSUME NEW f, NEW j \in DOMAIN step[t].out PROVE step[t].out[j][2] \in Nat
      BY DEF TurnsIn
    <3>1. step[t].out[j] \in Episode \X Nat
      BY <1>1
    <3>2. QED
      BY <3>1
  <2> HIDE DEF out
  <2>4. \A f : TurnsIn(out, f) \subseteq Nat
    BY <1>2, <2>3
  <2>5. \A f \in Episode : given'[f] = given[f] \cup TurnsIn(out, f) /\ given[f] \subseteq Nat
    BY <2>1 DEF TextTypes
  <2>6. given' \in [Episode -> SUBSET Nat]
    BY <2>1, <2>4, <2>5
  <2>7. Last(t, e, n)
    BY <1>2, <2>2, <2>5, <2>6 DEF Last
  <2>8. QED
    BY <2>1, <2>2, <2>7
<1>5. QED
  BY <1>3, <1>4

\* What a step has counted is lost.
LEMMA FailIs ==
  ASSUME TextTypes, Accounted, NEW t \in Task, Fail(t)
  PROVE  /\ Only(t) /\ step'[t] = NoStep /\ given' = given
         /\ lost' \in [Episode -> SUBSET Nat]
         /\ \A e \in Episode : lost'[e] = lost[e] \cup Counted(step[t], e)
<1>1. Only(t) /\ step'[t] = NoStep /\ given' = given
  BY NoStepIs, StepSet DEF Fail
<1>2. \A e \in Episode : Counted(step[t], e) \subseteq Nat /\ lost[e] \subseteq Nat
  <2> TAKE e \in Episode
  <2>1. Counted(step[t], e) \subseteq 1 .. turn[e] /\ turn[e] \in Nat /\ lost[e] \subseteq Nat
    BY DEF Accounted, TextTypes
  <2>2. 1 .. turn[e] \subseteq Nat
    BY <2>1
  <2>3. QED
    BY <2>1, <2>2
<1>3. lost' = [e \in Episode |-> lost[e] \cup Counted(step[t], e)]
  BY DEF Fail
<1>4. QED
  BY <1>1, <1>2, <1>3

\* The last conjunct of the invariant: what was done when a step began stays so.
OverOK(t) ==
  /\ \A e \in Episode : 0 \in TurnsIn(step[t].out, e) => life[e] # "live"
  /\ \A e \in step[t].over :
       /\ life[e] # "live" \/ turn[e] >= MaxTurns
       /\ \A n \in TurnsIn(step[t].out, e) : Done(n)
       /\ step[t].turn # 0 /\ step[t].batch[Len(step[t].out) + 1] = e => Done(step[t].turn)

LEMMA OverParts ==
  (StaysOver <=> \A t \in Task : OverOK(t)) /\ (StaysOver' <=> \A t \in Task : OverOK(t)')
BY DEF StaysOver, OverOK

\* Episodes that are over stay over.
LEMMA OthersOver ==
  ASSUME TextTypes, TextTypes', StaysOver, NEW t \in Task, Only(t),
         \A e \in Episode : turn'[e] \in {turn[e], turn[e] + 1},
         \A e \in Episode : life'[e] = "live" => life[e] = "live",
         OverOK(t)'
  PROVE  StaysOver'
<1> SUFFICES ASSUME NEW u \in Task, u # t PROVE OverOK(u)'
  BY OverParts
<1>1. step'[u] = step[u] /\ OverOK(u)
  BY OverParts DEF Only
<1>2. MaxTurns \in Nat /\ \A e \in Episode : turn[e] \in Nat /\ turn'[e] >= turn[e]
  BY TextHarnessAssumption DEF TextTypes
<1>3. step[u].over \subseteq Episode
  BY DEF TextTypes, StepRec
<1>4. \A e \in Episode : life[e] # "live" \/ turn[e] >= MaxTurns =>
        life'[e] # "live" \/ turn'[e] >= MaxTurns
  BY <1>2 DEF TextTypes
<1>5. QED
  BY <1>1, <1>3, <1>4 DEF OverOK

\* The other tasks ask or step as before.
LEMMA OthersStep ==
  ASSUME NEW u \in Task, StepOK(u), step'[u] = step[u], task'[u] = task[u],
         ops \in Nat, ops' \in Nat, ops <= ops', step[u] \in StepRec,
         reward # NoEnv => reward' # NoEnv
  PROVE  StepOK(u)'
<1>1. step[u].tag \in Nat /\ Len(step[u].batch) \in Nat
  BY DEF StepRec
<1>2. step[u].tag + Len(step[u].batch) <= ops + 1 => step[u].tag + Len(step[u].batch) <= ops' + 1
  BY <1>1
<1>3. QED
  BY <1>2 DEF StepOK, Stepping, At

LEMMA Parts ==
  ASSUME IInv
  PROVE  /\ HostInv /\ HostTypeOK /\ TextTypes /\ LivesOK /\ Accounted /\ StaysOver
         /\ \A t \in Task : StepOK(t)
BY Types DEF IInv, TextInv, HostInv

LEMMA Whole ==
  ASSUME HostInv', TextTypes', LivesOK', Accounted', StaysOver', \A t \in Task : StepOK(t)'
  PROVE  IInv'
<1>1. TypeOK'
  BY Types DEF HostInv
<1>2. TextInv'
  BY <1>1 DEF TextInv
<1>3. QED
  BY <1>2 DEF IInv

\* The task of a step has no call with the host any more.
Idles(t) == task'[t].pc = "idle" /\ \A u \in Task \ {t} : task'[u] = task[u]

LEMMA ReturnIdles ==
  ASSUME IInv, NEW t \in Task, Return(t)
  PROVE  Idles(t)
BY Parts, ReturnIs DEF Idles

\* Its task goes on or has no step.
LEMMA TasksBack ==
  ASSUME IInv, NEW t \in Task, Idles(t), UNCHANGED <<ops, reward>>, Only(t),
         \/ step'[t] = NoStep
         \/ /\ Stepping(t) /\ step'[t].batch = step[t].batch /\ step'[t].tag = step[t].tag
            /\ step'[t].turn = 0 /\ Len(step'[t].out) < Len(step'[t].batch)
  PROVE  \A u \in Task : StepOK(u)'
<1>1. HostTypeOK /\ TextTypes /\ \A u \in Task : StepOK(u)
  BY Parts
<1>2. /\ \A u \in Task \ {t} : task'[u] = task[u]
      /\ task'[t].pc = "idle"
  BY DEF Idles
<1>3. ops \in Nat /\ ops <= ops
  BY <1>1, PluginHostAssumption DEF HostTypeOK, Tag
<1>4. ASSUME NEW u \in Task, u # t PROVE StepOK(u)'
  BY <1>1, <1>2, <1>3, <1>4, OthersStep DEF Only, TextTypes
<1>5. StepOK(t)'
  <2>1. CASE step'[t] = NoStep
    BY <1>2, <2>1, NoStepIs DEF StepOK, Stepping, At
  <2>2. CASE step'[t] # NoStep
    BY <1>1, <1>2, <2>2 DEF StepOK, Stepping, At
  <2>3. QED
    BY <2>1, <2>2
<1>6. QED
  BY <1>4, <1>5

LEMMA StepFails ==
  ASSUME IInv, HostInv', NEW t \in Task, Idles(t), Fail(t), UNCHANGED <<ops, reward, turn, life>>
  PROVE  IInv'
<1>1. /\ HostTypeOK /\ TextTypes /\ LivesOK /\ Accounted /\ StaysOver /\ HostTypeOK'
  BY Parts DEF HostInv
<1>2. /\ Only(t) /\ step'[t] = NoStep /\ given' = given
      /\ lost' \in [Episode -> SUBSET Nat]
      /\ \A e \in Episode : lost'[e] = lost[e] \cup Counted(step[t], e)
  BY <1>1, FailIs
<1>3. TextTypes'
  BY <1>1, <1>2 DEF TextTypes, Only
<1>4. \A u \in Task : StepOK(u)'
  BY <1>1, <1>2, TasksBack
<1>5. LivesOK'
  BY <1>1, <1>2 DEF LivesOK
<1>6. Accounted'
  <2>1. \A e : Counted(step'[t], e) = {}
    BY <1>2, NoStepIs
  <2>2. QED
    BY <1>1, <1>2, <1>3, <2>1, AccountedStep
<1>7. StaysOver'
  <2>1. OverOK(t)'
    BY <1>2, NoStepIs DEF OverOK
  <2>2. QED
    BY <1>1, <1>2, <1>3, <2>1, OthersOver
<1>8. QED
  BY <1>3, <1>4, <1>5, <1>6, <1>7, Whole

LEMMA StepScores ==
  ASSUME IInv, HostInv', NEW t \in Task, Stepping(t), step[t].turn # 0, Return(t),
         Push(t, step[t].batch[Len(step[t].out) + 1], step[t].turn),
         UNCHANGED <<ops, reward, turn, life>>
  PROVE  IInv'
<1>1. /\ HostTypeOK /\ TextTypes /\ LivesOK /\ Accounted /\ StaysOver /\ HostTypeOK' /\ StepOK(t)
      /\ OverOK(t)
  BY Parts, OverParts DEF HostInv
<1>2. PICK e \in Episode, n \in Nat : e = step[t].batch[Len(step[t].out) + 1] /\ n = step[t].turn
  BY <1>1, NextEntry
<1>3. Only(t) /\ lost' = lost /\ (More(t, e, n) \/ Last(t, e, n))
  BY <1>1, <1>2, PushIs
<1>4. TextTypes'
  BY <1>1, <1>3 DEF TextTypes, Only, More, Last
<1>5. \A u \in Task : StepOK(u)'
  BY <1>1, <1>3, ReturnIdles, TasksBack DEF More, Last
<1>6. \A f \in Episode : 0 \in given'[f] => 0 \in given[f] \/ 0 \in TurnsIn(step[t].out, f)
  BY <1>2, <1>3 DEF More, Last
<1>7. LivesOK'
  <2>1. reward # NoEnv
    BY <1>1 DEF StepOK
  <2>2. QED
    BY <1>1, <1>6, <2>1 DEF LivesOK, OverOK
<1>8. Accounted'
  <2>1. \A f \in Episode : NewTurns(f) = {}
    BY DEF NewTurns
  <2>2. ASSUME NEW f \in Episode, More(t, e, n)
        PROVE  Counted(step'[t], f) = Counted(step[t], f)
    <3>1. \A m : m \in Counted(step'[t], f) <=> m \in Counted(step[t], f)
      BY <1>2, <2>2, CountedIs DEF More
    <3>2. QED
      BY <3>1
  <2>3. ASSUME NEW f \in Episode, Last(t, e, n)
        PROVE  /\ Counted(step'[t], f) = {}
               /\ given'[f] \ {0} = (given[f] \ {0}) \cup Counted(step[t], f)
    <3>1. Counted(step'[t], f) = {}
      BY <2>3, NoStepIs DEF Last
    <3>2. \A m : m \in given'[f] \ {0} <=> m \in (given[f] \ {0}) \cup Counted(step[t], f)
      BY <1>2, <2>3, CountedIs DEF Last
    <3>3. QED
      BY <3>1, <3>2
  <2>4. QED
    BY <1>1, <1>3, <1>4, <2>1, <2>2, <2>3, AccountedStep DEF More
<1>9. OverOK(t)'
  <2>1. CASE More(t, e, n)
    <3>1. \A f \in Episode : 0 \in TurnsIn(step'[t].out, f) => life'[f] # "live"
      BY <1>1, <1>2, <2>1 DEF More, OverOK
    <3>2. \A f \in step'[t].over : /\ life'[f] # "live" \/ turn'[f] >= MaxTurns
                                   /\ \A m \in TurnsIn(step'[t].out, f) : Done(m)
      BY <1>1, <1>2, <2>1 DEF More, OverOK
    <3>3. QED
      BY <2>1, <3>1, <3>2 DEF More, OverOK
  <2>2. CASE Last(t, e, n)
    BY <2>2, NoStepIs DEF OverOK, Last
  <2>3. QED
    BY <1>3, <2>1, <2>2
<1>10. StaysOver'
  BY <1>1, <1>3, <1>4, <1>9, OthersOver
<1>11. QED
  BY <1>4, <1>5, <1>7, <1>8, <1>10, Whole

\* A task that is not idle and steps awaits a reward.
LEMMA Awaits ==
  ASSUME IInv, NEW t \in Task, Stepping(t), ~At(t, "idle")
  PROVE  step[t].turn # 0
BY Parts DEF StepOK

LEMMA CalledStep ==
  ASSUME IInv, NEW t \in Task, Called(t)
  PROVE  IInv'
<1>1. Stepping(t) /\ At(t, "read") /\ HostInv
  BY Parts DEF Called, Answered, Broken
<1>2. step[t].turn # 0
  BY <1>1, Awaits DEF At
<1>3. HostInv' /\ Return(t) /\ UNCHANGED ops
  BY <1>1, AnsweredInv, BrokenInv DEF Called, Answered, Broken
<1>4. QED
  BY <1>1, <1>2, <1>3, ReturnIdles, StepFails, StepScores DEF Called, Scored

LEMMA CalledInPlaceStep ==
  ASSUME IInv, NEW t \in Task, CalledInPlace(t)
  PROVE  IInv'
<1>1. Stepping(t) /\ At(t, "lock") /\ HostInv
  BY Parts DEF CalledInPlace, OnTheSpot
<1>2. step[t].turn # 0
  BY <1>1, Awaits DEF At
<1>3. HostInv' /\ Return(t) /\ UNCHANGED ops
  BY <1>1, OnTheSpotInv DEF CalledInPlace, OnTheSpot
<1>4. QED
  BY <1>1, <1>2, <1>3, ReturnIdles, StepFails, StepScores DEF CalledInPlace, Scored

LEMMA StepDroppedStep ==
  ASSUME IInv, NEW t \in Task, StepDropped(t)
  PROVE  IInv'
<1>1. HostInv' /\ Return(t) /\ UNCHANGED ops
  BY Parts, DroppedInv DEF StepDropped, Dropped
<1>2. QED
  BY <1>1, ReturnIdles, StepFails DEF StepDropped

\* The host is left alone, but for the number of operations and of faults.
LEMMA HostApart ==
  ASSUME HostInv, UNCHANGED <<lock, handles, proc, path, wire, task, spawned, known, overlap>>,
         ops' \in Tag, faults' \in 0 .. MaxFaults
  PROVE  HostInv'
<1>1. HostTypeOK'
  BY DEF HostInv, HostTypeOK
<1>2. QED
  BY <1>1, SameProcs, AsideQuietly

LEMMA HostAlone ==
  ASSUME HostInv, UNCHANGED <<lock, handles, proc, path, wire, task, spawned, faults, known, overlap>>,
         ops' \in Tag
  PROVE  HostInv'
BY HostApart DEF HostInv, HostTypeOK

LEMMA StoreDroppedStep ==
  ASSUME IInv, NEW t \in Task, StoreDropped(t)
  PROVE  IInv'
<1>1. HostInv /\ HostTypeOK /\ StepOK(t)
  BY Parts
<1>2. /\ Stepping(t) /\ step[t].turn = 0 /\ Fail(t) /\ faults < MaxFaults /\ faults' = faults + 1
      /\ UNCHANGED <<lock, handles, proc, path, wire, task, spawned, ops, known, overlap>>
      /\ UNCHANGED <<reward, turn, life>>
  BY DEF StoreDropped
<1>3. ops' \in Tag /\ faults' \in 0 .. MaxFaults
  BY <1>1, <1>2, PluginHostAssumption DEF HostTypeOK
<1>4. HostInv'
  BY <1>1, <1>2, <1>3, HostApart
<1>5. Idles(t)
  BY <1>1, <1>2 DEF Idles, StepOK, At
<1>6. QED
  BY <1>2, <1>4, <1>5, StepFails

\* Numbers.
LEMMA Succ ==
  ASSUME NEW n \in Nat
  PROVE  n + 1 \in Nat /\ n + 1 # 0 /\ n + 1 >= n
OBVIOUS

LEMMA NextTag ==
  ASSUME NEW a \in Nat, NEW b \in Nat, NEW c \in Nat, NEW o \in Nat, b < c, a + c <= o + 1
  PROVE  a + b \in Nat /\ a + b <= o
OBVIOUS

LEMMA CountIs ==
  ASSUME TextTypes, NEW e \in Episode, Count(e)
  PROVE  /\ turn' \in [Episode -> Nat] /\ turn'[e] = turn[e] + 1 /\ turn[e] \in Nat
         /\ \A f \in Episode \ {e} : turn'[f] = turn[f]
         /\ NewTurns(e) = {turn[e] + 1} /\ \A f \in Episode \ {e} : NewTurns(f) = {}
<1>1. /\ turn' \in [Episode -> Nat] /\ turn'[e] = turn[e] + 1 /\ turn[e] \in Nat
      /\ \A f \in Episode \ {e} : turn'[f] = turn[f]
  BY DEF TextTypes, Count
<1>2. \A m : m \in NewTurns(e) <=> m = turn[e] + 1
  BY <1>1 DEF NewTurns
<1>3. \A f \in Episode \ {e} : NewTurns(f) = {}
  BY <1>1 DEF NewTurns
<1>4. QED
  BY <1>1, <1>2, <1>3

\* An entry gets its result at once: an error, or the echo reward.
LEMMA EntryAtOnce ==
  ASSUME IInv, NEW t \in Task, Stepping(t), step[t].turn = 0,
         NEW e \in Episode, e = step[t].batch[Len(step[t].out) + 1], NEW n \in Nat, Push(t, e, n),
         \/ n = 0 /\ life[e] # "live" /\ turn' = turn
         \/ n = turn[e] + 1 /\ life[e] = "live" /\ Count(e),
         UNCHANGED <<hostVars, reward, life>>
  PROVE  IInv'
<1>1. /\ HostInv /\ HostTypeOK /\ TextTypes /\ LivesOK /\ Accounted /\ StaysOver /\ StepOK(t)
      /\ OverOK(t) /\ \A u \in Task : StepOK(u)
  BY Parts, OverParts
<1>2. /\ UNCHANGED <<lock, handles, proc, path, wire, task, spawned, faults, known, overlap, ops>>
      /\ ops \in Nat /\ ops \in Tag
  BY <1>1, PluginHostAssumption DEF hostVars, HostTypeOK, Tag
<1>3. HostInv'
  BY <1>1, <1>2, HostAlone
<1>4. Only(t) /\ lost' = lost /\ (More(t, e, n) \/ Last(t, e, n))
  BY <1>1, PushIs
<1>5. /\ turn' \in [Episode -> Nat] /\ \A f \in Episode : turn'[f] \in {turn[f], turn[f] + 1}
      /\ \A f \in Episode : \A m : m \in NewTurns(f) <=> f = e /\ m = n /\ m # 0
  <2>1. CASE n = 0 /\ turn' = turn
    BY <1>1, <2>1 DEF TextTypes, NewTurns
  <2>2. CASE n = turn[e] + 1 /\ Count(e)
    <3>1. /\ turn' \in [Episode -> Nat] /\ turn'[e] = turn[e] + 1 /\ turn[e] \in Nat
          /\ \A f \in Episode \ {e} : turn'[f] = turn[f]
          /\ NewTurns(e) = {turn[e] + 1} /\ \A f \in Episode \ {e} : NewTurns(f) = {}
      BY <1>1, <2>2, CountIs
    <3>2. turn[e] + 1 # 0
      BY <3>1, Succ
    <3>3. QED
      BY ONLY <2>2, <3>1, <3>2
  <2>3. QED
    BY <2>1, <2>2
<1>6. TextTypes'
  BY <1>1, <1>4, <1>5 DEF TextTypes, Only, More, Last
<1>7. ASSUME NEW u \in Task PROVE StepOK(u)'
  <2>1. CASE u # t
    BY <1>1, <1>2, <1>4, <2>1, OthersStep DEF Only, TextTypes
  <2>2. CASE u = t
    <3>1. At(t, "idle") /\ At(t, "idle")' /\ task' = task
      BY <1>1, <1>2 DEF StepOK, At
    <3>2. CASE More(t, e, n)
      BY <1>1, <1>2, <2>2, <3>1, <3>2 DEF StepOK, Stepping, More, At
    <3>3. CASE Last(t, e, n)
      BY <2>2, <3>1, <3>3, NoStepIs DEF StepOK, Stepping, Last, At
    <3>4. QED
      BY <1>4, <3>2, <3>3
  <2>3. QED
    BY <2>1, <2>2
<1>8. LivesOK'
  <2>1. reward # NoEnv
    BY <1>1 DEF StepOK
  <2>2. \A f \in Episode : 0 \in given'[f] =>
          0 \in given[f] \/ 0 \in TurnsIn(step[t].out, f) \/ (f = e /\ n = 0)
    BY <1>4 DEF More, Last
  <2>3. turn[e] + 1 # 0
    BY <1>1, Succ DEF TextTypes
  <2>4. QED
    BY <1>1, <2>1, <2>2, <2>3 DEF LivesOK, OverOK
<1>9. Accounted'
  <2>1. ASSUME NEW f \in Episode, More(t, e, n)
        PROVE  Counted(step'[t], f) = Counted(step[t], f) \cup NewTurns(f)
    <3>1. \A m : m \in Counted(step'[t], f) <=> m \in Counted(step[t], f) \cup NewTurns(f)
      BY <1>5, <2>1, CountedIs DEF More
    <3>2. QED
      BY <3>1
  <2>2. ASSUME NEW f \in Episode, Last(t, e, n)
        PROVE  /\ Counted(step'[t], f) = {}
               /\ given'[f] \ {0} = (given[f] \ {0}) \cup Counted(step[t], f) \cup NewTurns(f)
    <3>1. Counted(step'[t], f) = {}
      BY <2>2, NoStepIs DEF Last
    <3>2. \A m : m \in given'[f] \ {0} <=> m \in (given[f] \ {0}) \cup Counted(step[t], f) \cup NewTurns(f)
      BY <1>5, <2>2, CountedIs DEF Last
    <3>3. QED
      BY <3>1, <3>2
  <2>3. QED
    BY <1>1, <1>4, <1>5, <1>6, <2>1, <2>2, AccountedStep DEF More
<1>10. OverOK(t)'
  <2>1. CASE More(t, e, n)
    <3>1. \A f \in Episode : 0 \in TurnsIn(step'[t].out, f) => life'[f] # "live"
      <4>1. turn[e] + 1 # 0
        BY <1>1 DEF TextTypes
      <4>2. QED
        BY <1>1, <2>1, <4>1 DEF More, OverOK
    <3>2. ASSUME NEW f \in step'[t].over
          PROVE  /\ life'[f] # "live" \/ turn'[f] >= MaxTurns
                 /\ \A m \in TurnsIn(step'[t].out, f) : Done(m)
      <4>1. f \in step[t].over /\ f \in Episode
        BY <1>1, <2>1, <3>2, NextEntry DEF More
      <4>2. /\ life[f] # "live" \/ turn[f] >= MaxTurns
            /\ \A m \in TurnsIn(step[t].out, f) : Done(m)
        BY <1>1, <4>1 DEF OverOK
      <4>3. turn[f] \in Nat /\ turn'[f] \in Nat /\ turn'[f] >= turn[f] /\ MaxTurns \in Nat
        BY <1>1, <1>5, <4>1, TextHarnessAssumption DEF TextTypes
      <4>4. life'[f] # "live" \/ turn'[f] >= MaxTurns
        BY <4>2, <4>3
      <4>5. f = e => Done(n)
        BY <4>2, <4>3 DEF Done
      <4>6. QED
        BY <2>1, <4>2, <4>4, <4>5 DEF More
    <3>3. QED
      BY <2>1, <3>1, <3>2 DEF More, OverOK
  <2>2. CASE Last(t, e, n)
    BY <2>2, NoStepIs DEF OverOK, Last
  <2>3. QED
    BY <1>4, <2>1, <2>2
<1>11. StaysOver'
  BY <1>1, <1>4, <1>5, <1>6, <1>10, OthersOver
<1>12. QED
  BY <1>3, <1>6, <1>7, <1>8, <1>9, <1>11, Whole

\* An entry asks the plugin for its reward.
LEMMA EntryAsks ==
  ASSUME IInv, NEW t \in Task, Stepping(t), step[t].turn = 0,
         NEW e \in Episode, e = step[t].batch[Len(step[t].out) + 1], life[e] = "live", Count(e),
         reward # NoPlugin, step' = [step EXCEPT ![t].turn = turn[e] + 1],
         Enter(t, "call", reward, step[t].tag + Len(step[t].out)),
         UNCHANGED <<given, lost, lock, handles, proc, path, wire, spawned, ops, faults, known, overlap, reward, life>>
  PROVE  IInv'
<1>1. /\ HostInv /\ HostTypeOK /\ TextTypes /\ LivesOK /\ Accounted /\ StaysOver /\ StepOK(t)
      /\ OverOK(t) /\ \A u \in Task : StepOK(u)
  BY Parts, OverParts
<1>2. ops \in Nat /\ ops \in 0 .. MaxOps
  BY <1>1, PluginHostAssumption DEF HostTypeOK, Tag
<1>3. PICK i \in Id : i = reward
  BY <1>1 DEF StepOK, TextTypes
<1>4. PICK g \in Tag : g = step[t].tag + Len(step[t].out)
  <2>1. /\ step[t].tag \in Nat /\ Len(step[t].out) \in Nat /\ Len(step[t].batch) \in Nat
        /\ Len(step[t].out) < Len(step[t].batch)
    BY <1>1, NextEntry
  <2>2. step[t].tag + Len(step[t].batch) <= ops + 1
    BY <1>1 DEF StepOK
  <2>3. /\ step[t].tag + Len(step[t].out) \in Nat
        /\ step[t].tag + Len(step[t].out) <= ops
    BY <1>2, <2>1, <2>2, NextTag
  <2>4. ops <= MaxOps /\ MaxOps \in Nat
    BY <1>2, PluginHostAssumption
  <2>5. step[t].tag + Len(step[t].out) \in Tag
    BY <1>2, <2>3, <2>4 DEF Tag
  <2>6. QED
    BY <2>5
<1>5. At(t, "idle")
  BY <1>1 DEF StepOK
<1> DEFINE q == [pc |-> "lock", op |-> "call", id |-> i, k |-> 0, tag |-> g]
<1>6. q \in Op /\ q.pc = "lock" /\ q.op = "call"
  BY PluginHostAssumption DEF Op
<1>7. Enter(t, "call", i, g)
  BY <1>3, <1>4
<1>8. TaskIs(t, q)
  BY <1>7 DEF Enter, TaskIs
<1> HIDE DEF q
<1>9. /\ task' \in [Task -> Op] /\ task'[t].pc = "lock" /\ task'[t].op = "call"
      /\ \A u \in Task \ {t} : task'[u] = task[u]
  BY <1>1, <1>6, <1>8, TaskSet
<1>10. HostTypeOK'
  BY <1>1, <1>9 DEF HostTypeOK
<1>11. HostInv'
  BY <1>1, <1>5, <1>7, <1>10, EnterInv
<1>12. /\ turn' \in [Episode -> Nat] /\ turn'[e] = turn[e] + 1 /\ turn[e] \in Nat
       /\ \A f \in Episode \ {e} : turn'[f] = turn[f]
       /\ NewTurns(e) = {turn[e] + 1} /\ \A f \in Episode \ {e} : NewTurns(f) = {}
  BY <1>1, CountIs
<1> DEFINE r == [step[t] EXCEPT !.turn = turn[e] + 1]
<1>13. /\ r \in StepRec /\ r.turn = turn[e] + 1 /\ r.out = step[t].out /\ r.batch = step[t].batch
       /\ r.tag = step[t].tag /\ r.over = step[t].over
  <2>1. step[t] \in StepRec
    BY <1>1, NextEntry
  <2>2. turn[e] + 1 \in Nat
    BY <1>12, Succ
  <2>3. QED
    BY ONLY <2>1, <2>2 DEF StepRec
<1>14. step' = [step EXCEPT ![t] = r]
  BY <1>1 DEF TextTypes
<1> HIDE DEF r
<1>15. Only(t) /\ step'[t] = r
  BY <1>1, <1>13, <1>14, StepSet
<1>16. TextTypes'
  BY <1>1, <1>12, <1>15 DEF TextTypes, Only
<1>17. r.turn # 0
  BY <1>12, <1>13, Succ
<1>18. ASSUME NEW u \in Task PROVE StepOK(u)'
  <2>1. CASE u # t
    BY <1>1, <1>2, <1>9, <1>15, <2>1, OthersStep DEF Only, TextTypes
  <2>2. CASE u = t
    BY <1>1, <1>9, <1>13, <1>15, <1>17, <2>2 DEF StepOK, Stepping, At
  <2>3. QED
    BY <2>1, <2>2
<1>19. LivesOK'
  BY <1>1 DEF LivesOK
<1>20. Accounted'
  <2>1. ASSUME NEW f \in Episode
        PROVE  Counted(step'[t], f) = Counted(step[t], f) \cup NewTurns(f)
    <3>1. \A m : m \in NewTurns(f) <=> f = e /\ m = r.turn
      BY ONLY <1>12, <1>13, <2>1
    <3>2. \A m : m \in Counted(r, f) <=>
            \/ m \in TurnsIn(step[t].out, f) /\ m # 0
            \/ r.turn # 0 /\ e = f /\ m = r.turn
      BY <1>13, CountedIs
    <3>3. \A m : m \in Counted(step[t], f) <=> m \in TurnsIn(step[t].out, f) /\ m # 0
      BY CountedIs
    <3>4. \A m : m \in Counted(r, f) <=> m \in Counted(step[t], f) \cup NewTurns(f)
      BY ONLY <1>17, <3>1, <3>2, <3>3
    <3>5. QED
      BY <1>15, <3>4
  <2>2. \A f \in Episode : turn'[f] \in {turn[f], turn[f] + 1}
    BY <1>12
  <2>3. QED
    BY <1>1, <1>15, <1>16, <2>1, <2>2, AccountedStep
<1>21. OverOK(t)'
  <2>1. ASSUME NEW f \in step[t].over
        PROVE  life[f] # "live" \/ turn'[f] >= MaxTurns
    <3>1. f \in Episode /\ (life[f] # "live" \/ turn[f] >= MaxTurns)
      BY <1>1, <2>1, NextEntry DEF OverOK
    <3>2. turn[f] \in Nat /\ MaxTurns \in Nat
      BY <1>1, <3>1, TextHarnessAssumption DEF TextTypes
    <3>3. turn'[f] \in Nat /\ turn'[f] >= turn[f]
      BY ONLY <1>12, <3>1, <3>2
    <3>4. QED
      BY ONLY <3>1, <3>2, <3>3
  <2>2. e \in step[t].over => Done(r.turn)
    <3> SUFFICES ASSUME e \in step[t].over PROVE Done(r.turn)
      OBVIOUS
    <3>1. turn'[e] >= MaxTurns
      BY <2>1
    <3>2. QED
      BY <1>12, <1>13, <3>1 DEF Done
  <2>3. QED
    BY <1>1, <1>13, <1>15, <2>1, <2>2 DEF OverOK
<1>22. StaysOver'
  <2>1. \A f \in Episode : turn'[f] \in {turn[f], turn[f] + 1}
    BY <1>12
  <2>2. QED
    BY <1>1, <1>15, <1>16, <1>21, <2>1, OthersOver
<1>23. QED
  BY <1>11, <1>16, <1>18, <1>19, <1>20, <1>22, Whole

LEMMA EntryStep ==
  ASSUME IInv, NEW t \in Task, Entry(t)
  PROVE  IInv'
<1>1. Stepping(t) /\ step[t].turn = 0
  BY DEF Entry
<1>2. PICK e \in Episode : e = step[t].batch[Len(step[t].out) + 1]
  BY <1>1, Parts, NextEntry
<1>3. CASE life[e] # "live"
  <2>1. Push(t, e, 0) /\ turn' = turn /\ UNCHANGED <<hostVars, reward, life>>
    BY <1>2, <1>3 DEF Entry, hostVars
  <2>2. QED
    BY <1>1, <1>2, <1>3, <2>1, EntryAtOnce
<1>4. CASE life[e] = "live" /\ reward = NoPlugin
  <2>1. PICK n \in Nat : n = turn[e] + 1
    BY Parts DEF TextTypes
  <2>2. Push(t, e, n) /\ Count(e) /\ UNCHANGED <<hostVars, reward, life>>
    BY <1>2, <1>4, <2>1 DEF Entry, hostVars
  <2>3. QED
    BY <1>1, <1>2, <1>4, <2>1, <2>2, EntryAtOnce
<1>5. CASE life[e] = "live" /\ reward # NoPlugin
  <2>1. /\ Count(e) /\ step' = [step EXCEPT ![t].turn = turn[e] + 1]
        /\ Enter(t, "call", reward, step[t].tag + Len(step[t].out))
        /\ UNCHANGED <<given, lost, lock, handles, proc, path, wire, spawned, ops, faults, known, overlap, reward, life>>
    BY <1>2, <1>5 DEF Entry
  <2>2. QED
    BY <1>1, <1>2, <1>5, <2>1, EntryAsks
<1>6. QED
  BY <1>3, <1>4, <1>5

\* A batch is begun: nothing is counted yet.
LEMMA BatchIs ==
  ASSUME NEW b \in Batch
  PROVE  b \in Seq(Episode) /\ Len(b) \in Nat /\ Len(b) > 0
<1>1. PICK n \in 1 .. MaxBatch : b \in [1 .. n -> Episode]
  BY DEF Batch
<1>2. n \in Nat /\ n > 0
  BY <1>1, TextHarnessAssumption
<1>3. QED
  BY <1>1, <1>2

LEMMA OverIs ==
  ASSUME TextTypes, LivesOK, Accounted, NEW e \in Over
  PROVE  /\ e \in Episode /\ reward # NoEnv
         /\ life[e] # "live" \/ turn[e] >= MaxTurns
<1>1. e \in Episode
  BY DEF Over
<1>2. PICK n \in given[e] : Done(n)
  BY DEF Over
<1>3. reward # NoEnv
  BY <1>1, <1>2 DEF LivesOK
<1>4. n \in 0 .. turn[e] /\ turn[e] \in Nat /\ MaxTurns \in Nat
  BY <1>1, <1>2, TextHarnessAssumption DEF Accounted, TextTypes
<1>5. CASE n = 0
  BY <1>1, <1>2, <1>3, <1>5 DEF LivesOK
<1>6. CASE n >= MaxTurns
  BY <1>1, <1>3, <1>4, <1>6
<1>7. QED
  BY <1>2, <1>5, <1>6 DEF Done

LEMMA StepStep ==
  ASSUME IInv, NEW t \in Task, NEW b \in Batch, Step(t, b)
  PROVE  IInv'
<1>1. /\ HostInv /\ HostTypeOK /\ TextTypes /\ LivesOK /\ Accounted /\ StaysOver
      /\ \A u \in Task : StepOK(u)
  BY Parts
<1>2. /\ At(t, "idle") /\ step[t] = NoStep /\ Reset /\ ops + Len(b) <= MaxOps /\ ops' = ops + Len(b)
      /\ UNCHANGED <<lock, handles, proc, path, wire, task, spawned, faults, known, overlap>>
      /\ UNCHANGED <<turn, given, lost>>
  BY DEF Step, Free, Stepping
<1>3. b \in Seq(Episode) /\ Len(b) \in Nat /\ Len(b) > 0
  BY BatchIs
<1>4. ops \in Nat /\ ops' \in Nat /\ ops <= ops' /\ ops' \in Tag
  <2>1. ops \in Nat /\ MaxOps \in Nat
    BY <1>1, PluginHostAssumption DEF HostTypeOK, Tag
  <2>2. ops + Len(b) \in Nat /\ ops <= ops + Len(b) /\ ops + Len(b) <= MaxOps
    BY <1>2, <1>3, <2>1
  <2>3. QED
    BY <1>2, <2>1, <2>2 DEF Tag
<1>5. HostInv'
  BY <1>1, <1>2, <1>4, HostAlone
<1> DEFINE r == [NoStep EXCEPT !.batch = b, !.tag = ops + 1, !.over = Over]
<1>6. /\ r \in StepRec /\ r.batch = b /\ r.tag = ops + 1 /\ r.over = Over /\ r.turn = 0
      /\ r.out = <<>>
  <2>1. PICK v \in SUBSET Episode : v = Over
    BY DEF Over
  <2>2. PICK g \in Nat : g = ops + 1
    BY <1>4
  <2>3. r = [NoStep EXCEPT !.batch = b, !.tag = g, !.over = v]
    BY <2>1, <2>2
  <2>4. r \in StepRec /\ r.batch = b /\ r.tag = g /\ r.over = v /\ r.turn = 0 /\ r.out = <<>>
    BY <1>3, <2>3, NoStepIs DEF StepRec
  <2> HIDE DEF r
  <2>5. QED
    BY <2>1, <2>2, <2>4
<1>7. step' = [step EXCEPT ![t] = r]
  BY DEF Step
<1> HIDE DEF r
<1>8. Only(t) /\ step'[t] = r
  BY <1>1, <1>6, <1>7, StepSet
<1>9. /\ reward' \in Id \cup {NoPlugin} \/ (reward # NoEnv /\ reward' = reward)
      /\ reward' # NoEnv
      /\ \/ reward # NoEnv /\ life' = life
         \/ reward = NoEnv /\ life' = [e \in Episode |-> "live"]
  BY <1>1, <1>2, TextHarnessAssumption DEF Reset, HostTypeOK
<1>10. TextTypes'
  BY <1>1, <1>2, <1>8, <1>9 DEF TextTypes, Only
<1>11. ASSUME NEW u \in Task PROVE StepOK(u)'
  <2>1. CASE u # t
    BY <1>1, <1>2, <1>4, <1>8, <1>9, <2>1, OthersStep DEF Only, TextTypes
  <2>2. CASE u = t
    <3>1. task'[t].pc = "idle"
      BY <1>2 DEF At
    <3>2. Len(r.out) = 0 /\ r.tag > 0 /\ r.tag + Len(r.batch) <= ops' + 1
      BY <1>2, <1>3, <1>4, <1>6
    <3>3. QED
      BY <1>3, <1>6, <1>8, <1>9, <2>2, <3>1, <3>2 DEF StepOK, Stepping, At
  <2>3. QED
    BY <2>1, <2>2
<1>12. LivesOK'
  BY <1>1, <1>2, <1>9 DEF LivesOK
<1>13. Accounted'
  <2>1. \A e \in Episode : Counted(step'[t], e) = {} /\ Counted(step[t], e) = {} /\ NewTurns(e) = {}
    BY <1>2, <1>6, <1>8, NoStepIs DEF Counted, TurnsIn, NewTurns
  <2>2. QED
    BY <1>1, <1>2, <1>8, <1>10, <2>1, AccountedStep
<1>14. ASSUME NEW u \in Task PROVE OverOK(u)'
  <2>1. CASE u = t
    <3>1. \A e : TurnsIn(r.out, e) = {}
      BY <1>6 DEF TurnsIn
    <3>2. \A e \in Over : life'[e] # "live" \/ turn'[e] >= MaxTurns
      BY <1>1, <1>2, <1>9, OverIs
    <3>3. QED
      BY <1>6, <1>8, <2>1, <3>1, <3>2 DEF OverOK
  <2>2. CASE u # t /\ reward # NoEnv
    BY <1>1, <1>2, <1>8, <1>9, <2>2, OverParts DEF OverOK, Only
  <2>3. CASE u # t /\ reward = NoEnv
    <3>1. step'[u] = NoStep
      BY <1>1, <1>8, <2>3 DEF StepOK, Stepping, Only
    <3>2. QED
      BY <3>1, NoStepIs DEF OverOK
  <2>4. QED
    BY <2>1, <2>2, <2>3
<1>15. StaysOver'
  BY <1>14, OverParts
<1>16. QED
  BY <1>5, <1>10, <1>11, <1>12, <1>13, <1>15, Whole

LEMMA CloseStep ==
  ASSUME IInv, NEW e \in Episode, Close(e)
  PROVE  IInv'
<1>1. /\ HostInv /\ HostTypeOK /\ TextTypes /\ LivesOK /\ Accounted /\ StaysOver
      /\ \A u \in Task : StepOK(u)
  BY Parts
<1>2. /\ UNCHANGED <<lock, handles, proc, path, wire, task, spawned, faults, known, overlap, ops>>
      /\ UNCHANGED <<reward, turn, step, given, lost>>
  BY DEF Close, hostVars
<1>3. /\ life' \in [Episode -> {"unborn", "live", "closed"}] /\ life'[e] = "closed"
      /\ \A f \in Episode : f # e => life'[f] = life[f]
  BY <1>1 DEF Close, TextTypes
<1>4. HostInv'
  BY <1>1, <1>2, HostAlone DEF HostTypeOK
<1>5. TextTypes'
  BY <1>1, <1>2, <1>3 DEF TextTypes
<1>6. \A u \in Task : StepOK(u)'
  BY <1>1, <1>2 DEF StepOK, Stepping, At
<1>7. LivesOK'
  BY <1>1, <1>2, <1>3 DEF LivesOK
<1>8. Accounted'
  BY <1>1, <1>2 DEF Accounted
<1>9. ASSUME NEW u \in Task PROVE OverOK(u)'
  <2>1. step[u].over \subseteq Episode /\ OverOK(u)
    BY <1>1, OverParts DEF TextTypes, StepRec
  <2>2. \A f \in Episode : life'[f] = "live" => life[f] = "live"
    BY <1>3
  <2>3. QED
    BY <1>2, <2>1, <2>2 DEF OverOK
<1>10. QED
  BY <1>4, <1>5, <1>6, <1>7, <1>8, <1>9, OverParts, Whole

\* What an operation of the host does to its task: it leaves a step alone, but
\* for the request of a reward that is written.
HostMove(t) ==
  /\ Alone(t) /\ ops' \in Nat /\ ops <= ops'
  /\ \/ task'[t] = task[t]
     \/ ~Stepping(t) /\ (task'[t].pc = "idle" \/ task'[t].op # "call")
     \/ At(t, "lock") /\ task'[t].pc = "read" /\ task'[t].op = task[t].op

LEMMA TextStays ==
  ASSUME IInv, HostInv', UNCHANGED textVars, \A u \in Task : StepOK(u)'
  PROVE  IInv'
<1>1. TextTypes /\ LivesOK /\ Accounted /\ StaysOver
  BY Parts
<1>2. UNCHANGED <<reward, turn, life, step, given, lost>>
  BY DEF textVars
<1>3. TextTypes' /\ LivesOK' /\ Accounted' /\ StaysOver'
  BY <1>1, <1>2 DEF TextTypes, LivesOK, Accounted, StaysOver
<1>4. QED
  BY <1>3, Whole

LEMMA HostMoves ==
  ASSUME IInv, HostInv', UNCHANGED textVars, NEW t \in Task, HostMove(t)
  PROVE  IInv'
<1>1. HostTypeOK /\ TextTypes /\ \A u \in Task : StepOK(u)
  BY Parts
<1>2. ops \in Nat /\ UNCHANGED <<reward, step>>
  BY <1>1, PluginHostAssumption DEF HostTypeOK, Tag, textVars
<1>3. ASSUME NEW u \in Task, task'[u] = task[u] PROVE StepOK(u)'
  BY <1>1, <1>2, <1>3, OthersStep DEF TextTypes, HostMove
<1>4. StepOK(t)'
  <2>1. CASE task'[t] = task[t]
    BY <1>3, <2>1
  <2>2. CASE ~Stepping(t) /\ (task'[t].pc = "idle" \/ task'[t].op # "call")
    BY <1>2, <2>2, NoStepIs DEF StepOK, Stepping, At
  <2>3. CASE At(t, "lock") /\ task'[t].pc = "read" /\ task'[t].op = task[t].op
    <3>1. /\ step[t].tag \in Nat /\ Len(step[t].batch) \in Nat
      BY <1>1 DEF TextTypes, StepRec
    <3>2. step[t].tag + Len(step[t].batch) <= ops + 1 => step[t].tag + Len(step[t].batch) <= ops' + 1
      BY <1>2, <3>1 DEF HostMove
    <3>3. task[t].pc = "lock" /\ task'[t].pc = "read" /\ task'[t].op = task[t].op
      BY <2>3 DEF At
    <3>4. QED
      BY <1>1, <1>2, <3>2, <3>3 DEF StepOK, Stepping, At
  <2>4. QED
    BY <2>1, <2>2, <2>3 DEF HostMove
<1>5. \A u \in Task : StepOK(u)'
  BY <1>3, <1>4 DEF HostMove, Alone
<1>6. QED
  BY <1>5, TextStays

\* A task that is at anything but a call is not in a step.
LEMMA NotStepping ==
  ASSUME IInv, NEW t \in Task, ~At(t, "idle"),
         task[t].pc \notin {"lock", "read"} \/ task[t].op # "call"
  PROVE  ~Stepping(t) /\ task[t].op # "call"
BY Parts DEF StepOK, At

LEMMA OpsSame ==
  ASSUME IInv, UNCHANGED ops
  PROVE  ops' \in Nat /\ ops <= ops'
<1>1. ops \in Nat
  BY Parts, PluginHostAssumption DEF HostTypeOK, Tag
<1>2. QED
  BY <1>1

LEMMA OpsMore ==
  ASSUME IInv, ops' = ops + 1
  PROVE  ops' \in Nat /\ ops <= ops'
<1>1. ops \in Nat
  BY Parts, PluginHostAssumption DEF HostTypeOK, Tag
<1>2. QED
  BY <1>1

LEMMA Returns ==
  ASSUME IInv, NEW t \in Task, Return(t), ~Stepping(t), UNCHANGED ops
  PROVE  HostMove(t)
BY Parts, ReturnIs, OpsSame DEF HostMove, Alone

LEMMA GoesOn ==
  ASSUME IInv, NEW t \in Task, Goto(t, "lock") \/ Goto(t, "persist") \/ Goto(t, "reaped"),
         ~Stepping(t), task[t].op # "call", UNCHANGED ops
  PROVE  HostMove(t)
BY Parts, GotoIs, OpsSame DEF HostMove, Alone

LEMMA Stays ==
  ASSUME IInv, HostInv', UNCHANGED textVars, UNCHANGED <<task, ops>>
  PROVE  IInv'
<1>1. TextTypes /\ ops \in Nat /\ ops <= ops /\ \A u \in Task : StepOK(u)
  BY Parts, OpsSame
<1>2. UNCHANGED <<reward, step>>
  BY DEF textVars
<1>3. \A u \in Task : StepOK(u)'
  BY <1>1, <1>2, OthersStep DEF TextTypes
<1>4. QED
  BY <1>3, TextStays

LEMMA LoadText ==
  ASSUME IInv, NEW t \in Task, ~Stepping(t), NEW i \in Id, Load(t, i), UNCHANGED textVars
  PROVE  IInv'
<1>1. HostInv' /\ HostTypeOK /\ ops < MaxOps /\ ops' = ops + 1
  BY Parts, LoadInv DEF Load
<1>2. CASE UNCHANGED task
  <2>1. HostMove(t)
    BY <1>1, <1>2, OpsMore DEF HostMove, Alone, HostTypeOK
  <2>2. QED
    BY <1>1, <2>1, HostMoves
<1>3. CASE ~UNCHANGED task
  <2>1. \/ /\ spawned < MaxSpawns /\ TaskIs(t, Loading("connect", i, spawned + 1))
        \/ /\ spawned < MaxSpawns /\ TaskIs(t, Loading("lock", i, spawned + 1))
        \/ TaskIs(t, Loading("lock", i, 0))
    BY <1>3 DEF Load, SpawnSidecar, TaskIs, Loading
  <2>2. 0 \in 0 .. MaxSpawns /\ (spawned < MaxSpawns => spawned + 1 \in 0 .. MaxSpawns)
    BY <1>1, PluginHostAssumption DEF HostTypeOK
  <2>3. Alone(t) /\ task'[t].op = "load"
    BY <1>1, <2>1, <2>2, LoadIs
  <2>4. HostMove(t)
    BY <1>1, <2>3, OpsMore DEF HostMove
  <2>5. QED
    BY <1>1, <2>4, HostMoves
<1>4. QED
  BY <1>2, <1>3

LEMMA BeginText ==
  ASSUME IInv, NEW t \in Task, ~Stepping(t), NEW i \in Id, NEW op \in {"reload", "unload"},
         Begin(t, op, i), UNCHANGED textVars
  PROVE  IInv'
<1>1. HostInv' /\ HostTypeOK' /\ HostTypeOK /\ ops' = ops + 1 /\ Enter(t, op, i, ops + 1)
  BY Parts, BeginInv DEF Begin, HostInv
<1>2. task' \in [Task -> Op]
  BY <1>1 DEF HostTypeOK
<1>3. task'[t].op = op /\ \A u \in Task \ {t} : task'[u] = task[u]
  BY <1>1 DEF Enter, HostTypeOK
<1>4. HostMove(t)
  BY <1>1, <1>2, <1>3, OpsMore DEF HostMove, Alone
<1>5. QED
  BY <1>1, <1>4, HostMoves

LEMMA LockedText ==
  ASSUME IInv, NEW t \in Task, Locked(t), UNCHANGED textVars
  PROVE  IInv'
<1>1. HostInv /\ HostTypeOK
  BY Parts
<1>2. CASE Insert(t)
  <2>1. HostInv' /\ Goto(t, "persist") /\ UNCHANGED ops /\ At(t, "lock") /\ task[t].op = "load"
    BY <1>1, <1>2, InsertInv DEF Insert
  <2>2. ~Stepping(t)
    BY <2>1, NotStepping DEF At
  <2>3. QED
    BY <2>1, <2>2, GoesOn, HostMoves
<1>3. CASE Ask(t)
  <2>1. /\ HostInv' /\ At(t, "lock") /\ My(t) \in Spawn /\ UNCHANGED ops
        /\ task' = [task EXCEPT ![t].pc = "read", ![t].k = My(t)]
    BY <1>1, <1>3, AskInv DEF Ask
  <2>2. PICK k \in 0 .. MaxSpawns : k = My(t)
    BY <2>1, Numbers
  <2>3. Alone(t) /\ task'[t].pc = "read" /\ task'[t].op = task[t].op
    BY <1>1, <2>1, <2>2, MovedTo DEF Alone
  <2>4. QED
    BY <2>1, <2>3, OpsSame, HostMoves DEF HostMove
<1>4. CASE Respawn(t)
  <2>1. /\ HostInv' /\ At(t, "lock") /\ task[t].op = "reload" /\ My(t) # NoHandle /\ UNCHANGED ops
        /\ task' = [task EXCEPT ![t].pc = "reap", ![t].k = My(t)]
    BY <1>1, <1>4, RespawnInv DEF Respawn
  <2>2. PICK k \in 0 .. MaxSpawns : k = My(t)
    BY <1>1, <2>1, TaskType, Numbers, PluginHostAssumption DEF NoHandle
  <2>3. Alone(t) /\ task'[t].op = "reload"
    BY <1>1, <2>1, <2>2, MovedTo DEF Alone
  <2>4. ~Stepping(t)
    BY <2>1, NotStepping DEF At
  <2>5. QED
    BY <2>1, <2>3, <2>4, OpsSame, HostMoves DEF HostMove
<1>5. CASE Unload(t)
  <2>1. HostInv' /\ At(t, "lock") /\ task[t].op = "unload" /\ UNCHANGED ops
    BY <1>1, <1>5, UnloadEnds, UnloadSidecar DEF Unload
  <2>2. ~Stepping(t)
    BY <2>1, NotStepping DEF At
  <2>3. CASE Sidecar(t) /\ My(t) # NoHandle
    <3>1. task' = [task EXCEPT ![t].pc = "reap", ![t].k = My(t)]
      BY <1>5, <2>3 DEF Unload
    <3>2. PICK k \in 0 .. MaxSpawns : k = My(t)
      BY <1>1, <2>3, TaskType, Numbers, PluginHostAssumption DEF NoHandle
    <3>3. Alone(t) /\ task'[t].op = "unload"
      BY <1>1, <2>1, <3>1, <3>2, MovedTo DEF Alone
    <3>4. QED
      BY <2>1, <2>2, <3>3, OpsSame, HostMoves DEF HostMove
  <2>4. CASE ~(Sidecar(t) /\ My(t) # NoHandle)
    <3>1. Return(t)
      BY <1>5, <2>4 DEF Unload
    <3>2. QED
      BY <2>1, <2>2, <3>1, Returns, HostMoves
  <2>5. QED
    BY <2>3, <2>4
<1>6. QED
  BY <1>2, <1>3, <1>4, <1>5 DEF Locked

LEMMA HostStepText ==
  ASSUME IInv, NEW t \in Task, HostStep(t), UNCHANGED textVars
  PROVE  IInv'
<1>1. HostInv /\ HostTypeOK
  BY Parts
<1>2. /\ HostInv' /\ UNCHANGED ops
      /\ task[t].pc \in {"connect", "persist", "reap", "reaped"}
  BY <1>1, ConnectedInv, ConnectTimeoutInv, PersistInv, ReapInv, ShutdownInv, RestartInv
  DEF HostStep, Connected, ConnectTimeout, Persist, Reap, Shutdown, Restart, At
<1>3. ~Stepping(t) /\ task[t].op # "call"
  BY <1>2, NotStepping DEF At
<1>4. CASE Return(t)
  BY <1>2, <1>3, <1>4, Returns, HostMoves
<1>5. CASE Goto(t, "lock") \/ Goto(t, "reaped")
  BY <1>2, <1>3, <1>5, GoesOn, HostMoves
<1>6. CASE ~Return(t) /\ ~Goto(t, "lock") /\ ~Goto(t, "reaped")
  <2>1. spawned < MaxSpawns /\ task' = [task EXCEPT ![t].pc = "connect", ![t].k = spawned + 1]
    BY <1>6 DEF HostStep, Connected, ConnectTimeout, Persist, Reap, Shutdown, Restart, SpawnSidecar
  <2>2. PICK k \in 0 .. MaxSpawns : k = spawned + 1
    BY <1>1, <2>1, PluginHostAssumption DEF HostTypeOK
  <2>3. Alone(t) /\ task'[t].op = task[t].op
    BY <1>1, <2>1, <2>2, MovedTo DEF Alone
  <2>4. QED
    BY <1>2, <1>3, <2>3, OpsSame, HostMoves DEF HostMove
<1>7. QED
  BY <1>4, <1>5, <1>6

LEMMA HostText ==
  ASSUME IInv, Host, UNCHANGED textVars
  PROVE  IInv'
<1>1. HostInv /\ HostTypeOK
  BY Parts
<1>2. ASSUME NEW t \in Task, Free(t), NEW i \in Id,
             Load(t, i) \/ \E op \in {"reload", "unload"} : Begin(t, op, i)
      PROVE  IInv'
  <2>1. ~Stepping(t)
    BY <1>2 DEF Free
  <2>2. QED
    BY <1>2, <2>1, LoadText, BeginText
<1>3. ASSUME NEW t \in Task, ~Stepping(t),
             OnTheSpot(t) \/ Answered(t) \/ Broken(t) \/ Dropped(t)
      PROVE  IInv'
  <2>1. HostInv' /\ Return(t) /\ UNCHANGED ops
    BY <1>1, <1>3, OnTheSpotInv, AnsweredInv, BrokenInv, DroppedInv
    DEF OnTheSpot, Answered, Broken, Dropped
  <2>2. QED
    BY <1>3, <2>1, Returns, HostMoves
<1>4. ASSUME NEW k \in Spawn, Plugin(k) \/ Terminate(k) \/ CrashPlugin(k)
      PROVE  IInv'
  <2>1. HostInv' /\ UNCHANGED <<task, ops>>
    BY <1>1, <1>4, BindInv, ServeInv, LeaveInv, KilledInv
    DEF Plugin, Bind, Serve, Leave, Terminate, CrashPlugin
  <2>2. QED
    BY <2>1, Stays
<1>5. CASE \E t \in Task : HostLocked(t) \/ HostOther(t) \/ (~Stepping(t) /\ Dropped(t))
  BY <1>3, <1>5, LockedText, HostStepText DEF HostLocked, HostOther
<1>6. CASE \E t \in Task : /\ Free(t)
                           /\ \E i \in Id : Load(t, i) \/ \E op \in {"reload", "unload"} : Begin(t, op, i)
  BY <1>2, <1>6
<1>7. CASE \E k \in Spawn : Plugin(k) \/ Terminate(k) \/ CrashPlugin(k)
  BY <1>4, <1>7
<1>8. QED
  BY <1>5, <1>6, <1>7 DEF Host

LEMMA NextStep ==
  ASSUME IInv, [Next]_vars
  PROVE  IInv'
<1>1. CASE Host /\ UNCHANGED textVars
  BY <1>1, HostText
<1>2. CASE \E e \in Episode : Close(e)
  BY <1>2, CloseStep
<1>3. CASE \E t \in Task : \/ \E b \in Batch : Step(t, b)
                           \/ Entry(t) \/ Called(t) \/ CalledInPlace(t)
                           \/ StepDropped(t) \/ StoreDropped(t)
  BY <1>3, StepStep, EntryStep, CalledStep, CalledInPlaceStep, StepDroppedStep, StoreDroppedStep
<1>4. CASE UNCHANGED vars
  <2>1. UNCHANGED <<lock, handles, proc, path, wire, task, spawned, faults, known, overlap, ops>>
        /\ UNCHANGED textVars
    BY <1>4 DEF vars, hostVars
  <2>2. HostInv'
    BY <2>1, Parts, HostAlone DEF HostTypeOK
  <2>3. QED
    BY <2>1, <2>2, Stays
<1>5. QED
  BY <1>1, <1>2, <1>3, <1>4 DEF Next

LEMMA InitInv == Init => IInv
<1> SUFFICES ASSUME Init PROVE IInv
  OBVIOUS
<1>1. HostInit /\ MaxSpawns \in Nat /\ MaxOps \in Nat /\ MaxFaults \in Nat
  BY PluginHostAssumption DEF Init
<1>2. /\ \A k \in Spawn : proc[k] = Unborn /\ wire[k] = NoWire
      /\ \A t \in Task : task[t] = NoOp
      /\ \A i \in Id : handles[i] = NoHandle
      /\ \A k \in Spawn : NoHandle # k
  BY <1>1, Numbers DEF HostInit
<1>3. HostTypeOK
  <2>1. 0 \in 0 .. MaxSpawns /\ NoHandle \in NoHandle .. MaxSpawns /\ 0 \in Tag /\ 0 \in 0 .. MaxFaults
    BY <1>1 DEF NoHandle, Tag
  <2>2. QED
    BY <1>1, <2>1, NoOpType DEF HostTypeOK, HostInit
<1>4. LockHeld
  BY <1>1, <1>2, NoOpType, Numbers DEF LockHeld, AtWork, At, HostInit
<1>5. Owners
  <2>1. Unborn.st = "unborn"
    BY DEF Unborn
  <2>2. Fresh /\ ConnsMatch
    BY <1>2, <2>1, NoOpType DEF Fresh, ConnsMatch
  <2>3. Excl
    BY <1>2, NoOpType DEF Excl, Has, Bringing, At
  <2>4. \A i \in Id : HandleOK(i)
    BY <1>2 DEF HandleOK
  <2>5. \A t \in Task : TaskOK(t)
    BY <1>1, <1>2, NoOpType DEF TaskOK, At, HostInit
  <2>6. QED
    BY <2>2, <2>3, <2>4, <2>5 DEF Owners
<1>6. WireOrder
  BY <1>2, NoOpType DEF WireOrder, At
<1>7. NoOverlap /\ ChildrenOwned
  <2>1. Unborn.st = "unborn"
    BY DEF Unborn
  <2>2. QED
    BY <1>2, <2>1, NoOpType DEF NoOverlap, ChildrenOwned, At, Alive
<1>8. /\ reward = NoEnv /\ \A e \in Episode : turn[e] = 0 /\ given[e] = {} /\ lost[e] = {}
      /\ \A t \in Task : step[t] = NoStep
  BY DEF Init
<1>9. TextTypes
  BY NoStepIs DEF Init, TextTypes
<1>10. \A t \in Task : StepOK(t)
  BY <1>2, <1>8, NoOpType, NoStepIs DEF StepOK, Stepping, At
<1>11. LivesOK
  BY <1>8 DEF LivesOK
<1>12. Accounted
  <2>1. \A n : n \notin 1 .. 0
    OBVIOUS
  <2>2. QED
    BY <1>8, <2>1, NoStepIs DEF Accounted
<1>13. StaysOver
  BY <1>8, NoStepIs DEF StaysOver
<1>14. QED
  BY <1>3, <1>4, <1>5, <1>6, <1>7, <1>9, <1>10, <1>11, <1>12, <1>13, Types DEF IInv, TextInv, HostInv

-----------------------------------------------------------------------------
(* The theorems.                                                           *)

\* The invariant is inductive.
THEOREM Induction == Spec => []IInv
<1>1. IInv /\ [Next]_vars => IInv'
  BY NextStep
<1>2. QED
  BY <1>1, InitInv, PTL DEF Spec

\* Whichever task is dropped at whichever await, whatever crashes or cannot be
\* started: no child process of the host is without an owner that will kill it,
\* the lock is with the task at work under it, and a step awaits its reward
\* exactly while its task has a call with the host.
THEOREM Invariance == Spec => []Inv
<1>1. IInv => Inv
  <2> SUFFICES ASSUME IInv PROVE Inv
    OBVIOUS
  <2>1. TypeOK /\ LockHeld /\ ChildrenOwned /\ \A t \in Task : StepOK(t)
    BY DEF IInv, TextInv, HostInv
  <2>2. NoOrphans
    BY <2>1 DEF NoOrphans, LockHeld, AtWork, ChildrenOwned, Owned, At
  <2>3. \A t \in Task : (task[t].op = "call" /\ ~At(t, "idle")) <=> step[t].turn # 0
    BY <2>1 DEF StepOK
  <2>4. QED
    BY <2>1, <2>2, <2>3 DEF Inv
<1>2. QED
  BY <1>1, Induction, PTL

\* A call of a plugin gets the answer to its own request, from a process of its
\* own plugin: on any stream no caller of which was dropped halfway, and as long
\* as no two spawns of one name were under way together.
THEOREM OwnAnswers == Spec => []AnswerIsOwn
<1>1. IInv => AnswerIsOwn
  <2> SUFFICES ASSUME IInv, NEW t \in Task, At(t, "read")
               PROVE  /\ ~wire[task[t].k].skew /\ Answers(t) # <<>> => Answers(t) = <<task[t].tag>>
                      /\ ~overlap => proc[wire[task[t].k].peer].id = task[t].id
    BY DEF AnswerIsOwn
  <2>1. /\ ~overlap => proc[wire[task[t].k].peer].id = task[t].id
        /\ Sidecar(t) => InTurn(t)
    BY Parts, Reading
  <2>2. ASSUME ~wire[task[t].k].skew, Answers(t) # <<>>
        PROVE  Answers(t) = <<task[t].tag>>
    <3>1. CASE Sidecar(t)
      <4>1. wire[task[t].k].ans \in {<<>>, <<task[t].tag>>}
        BY <2>1, <2>2, <3>1 DEF InTurn
      <4>2. Answers(t) = <<Head(wire[task[t].k].ans)>> /\ wire[task[t].k].ans # <<>>
        BY <2>2 DEF Answers
      <4>3. Head(<<task[t].tag>>) = task[t].tag
        OBVIOUS
      <4>4. QED
        BY <4>1, <4>2, <4>3
    <3>2. CASE ~Sidecar(t)
      BY <2>2, <3>2 DEF Answers
    <3>3. QED
      BY <3>1, <3>2
  <2>3. QED
    BY <2>1, <2>2
<1>2. QED
  BY <1>1, Induction, PTL

\* However many tasks step an episode, close it, fail or are dropped: no turn of
\* it is reported twice, none that went with a failed batch is reported later,
\* and all of them are reported or on their way if none did.
THEOREM TurnsAccounted == Spec => []TurnsAreReportedOnce
<1>1. IInv => TurnsAreReportedOnce
  <2> SUFFICES ASSUME IInv, NEW e \in Episode
               PROVE  LET past == given[e] \ {0}
                          held(t) == Counted(step[t], e)
                      IN /\ past \cap lost[e] = {}
                         /\ \A t \in Task : held(t) \cap (past \cup lost[e]) = {}
                         /\ \A t, u \in Task : t # u => held(t) \cap held(u) = {}
                         /\ lost[e] = {} =>
                              \A n \in 1 .. turn[e] : n \in past \/ \E t \in Task : n \in held(t)
    BY DEF TurnsAreReportedOnce
  <2>1. Accounted
    BY Parts
  <2>2. \A n \in 1 .. turn[e] : n # 0
    OBVIOUS
  <2>3. QED
    BY <2>1, <2>2 DEF Accounted
<1>2. QED
  BY <1>1, Induction, PTL

\* What a step hands over at its end about an episode that was over.
LEMMA PushedDone ==
  ASSUME IInv, NEW t \in Task, Stepping(t), NEW e \in Episode, NEW n \in Nat, Push(t, e, n),
         e \in step[t].over => Done(n)
  PROVE  Only(t) /\ \A f \in step[t].over : \A m \in given'[f] \ given[f] : Done(m)
<1>1. TextTypes /\ StepOK(t) /\ OverOK(t)
  BY Parts, OverParts
<1>2. Only(t) /\ (More(t, e, n) \/ Last(t, e, n))
  BY <1>1, PushIs
<1>3. step[t].over \subseteq Episode
  BY <1>1, NextEntry
<1>4. CASE More(t, e, n)
  BY <1>2, <1>4 DEF More
<1>5. CASE Last(t, e, n)
  BY <1>1, <1>2, <1>3, <1>5 DEF Last, OverOK
<1>6. QED
  BY <1>2, <1>4, <1>5

LEMMA FailedDone ==
  ASSUME IInv, NEW t \in Task, Fail(t)
  PROVE  Only(t) /\ \A f \in step[t].over : \A m \in given'[f] \ given[f] : Done(m)
BY Parts, FailIs

LEMMA ScoredDone ==
  ASSUME IInv, NEW t \in Task, Stepping(t), ~At(t, "idle"), Scored(t) \/ Fail(t)
  PROVE  Only(t) /\ \A f \in step[t].over : \A m \in given'[f] \ given[f] : Done(m)
<1>1. CASE Fail(t)
  BY <1>1, FailedDone
<1>2. CASE ~Fail(t)
  <2>1. step[t].turn # 0 /\ TextTypes /\ StepOK(t) /\ OverOK(t)
    BY Awaits, Parts, OverParts
  <2>2. PICK e \in Episode, n \in Nat : e = step[t].batch[Len(step[t].out) + 1] /\ n = step[t].turn
    BY <2>1, NextEntry
  <2>3. Push(t, e, n)
    BY <1>2, <2>2 DEF Scored
  <2>4. e \in step[t].over => Done(n)
    BY <2>1, <2>2 DEF OverOK
  <2>5. QED
    BY <2>3, <2>4, PushedDone
<1>3. QED
  BY <1>1, <1>2

LEMMA EntryDone ==
  ASSUME IInv, NEW t \in Task, Entry(t)
  PROVE  Only(t) /\ \A f \in step[t].over : \A m \in given'[f] \ given[f] : Done(m)
<1>1. Stepping(t) /\ step[t].turn = 0 /\ TextTypes /\ StepOK(t) /\ OverOK(t)
  BY Parts, OverParts DEF Entry
<1>2. PICK e \in Episode : e = step[t].batch[Len(step[t].out) + 1]
  BY <1>1, NextEntry
<1>3. PICK n \in Nat : n = turn[e] + 1
  BY <1>1 DEF TextTypes
<1>4. CASE life[e] # "live"
  <2>1. Push(t, e, 0)
    BY <1>2, <1>4 DEF Entry
  <2>2. QED
    BY <1>1, <2>1, PushedDone DEF Done
<1>5. CASE life[e] = "live" /\ reward = NoPlugin
  <2>1. Push(t, e, n)
    BY <1>2, <1>3, <1>5 DEF Entry
  <2>2. ASSUME e \in step[t].over PROVE Done(n)
    <3>1. turn[e] >= MaxTurns
      BY <1>1, <1>5, <2>2 DEF OverOK
    <3>2. turn[e] \in Nat /\ MaxTurns \in Nat
      BY <1>1, TextHarnessAssumption DEF TextTypes
    <3>3. QED
      BY <1>3, <3>1, <3>2 DEF Done
  <2>3. QED
    BY <1>1, <2>1, <2>2, PushedDone
<1>6. CASE life[e] = "live" /\ reward # NoPlugin
  <2>1. given' = given /\ step' = [step EXCEPT ![t].turn = n]
    BY <1>2, <1>3, <1>6 DEF Entry
  <2> DEFINE r == [step[t] EXCEPT !.turn = n]
  <2>2. r \in StepRec
    <3>1. step[t] \in StepRec
      BY <1>1 DEF TextTypes
    <3>2. QED
      BY ONLY n \in Nat, <3>1 DEF StepRec
  <2>3. step' = [step EXCEPT ![t] = r]
    BY <2>1
  <2> HIDE DEF r
  <2>4. Only(t)
    BY <1>1, <2>2, <2>3, StepSet
  <2>5. QED
    BY <2>1, <2>4
<1>7. QED
  BY <1>4, <1>5, <1>6

\* A step that began after an episode had been reported done does not report it
\* as going on, although such a step is not refused, counts its turns, and may
\* run beside others.
THEOREM DoneStaysDone == Spec => DoneIsFinal
<1> DEFINE D(t) == \A f \in step[t].over : \A m \in given'[f] \ given[f] : Done(m)
<1>1. ASSUME IInv, [Next]_vars, NEW t \in Task, Stepping(t), step'[t] = NoStep
      PROVE  D(t)
  <2>1. ASSUME NEW u \in Task, Only(u), D(u) PROVE D(t)
    BY <1>1, <2>1 DEF Only, Stepping
  <2> HIDE DEF D
  <2>2. CASE UNCHANGED <<step, given>>
    BY <1>1, <2>2 DEF Stepping
  <2>3. ASSUME NEW u \in Task, NEW b \in Batch, Step(u, b) PROVE D(t)
    BY <2>3 DEF Step, D
  <2>4. ASSUME NEW u \in Task, Entry(u) PROVE D(t)
    BY <1>1, <2>1, <2>4, EntryDone DEF D
  <2>5. ASSUME NEW u \in Task, Called(u) \/ CalledInPlace(u) \/ StepDropped(u) PROVE D(t)
    <3>1. Stepping(u) /\ ~At(u, "idle") /\ (Scored(u) \/ Fail(u))
      BY <2>5 DEF Called, CalledInPlace, StepDropped, Answered, Broken, OnTheSpot, Dropped, At
    <3>2. QED
      BY <1>1, <2>1, <3>1, ScoredDone DEF D
  <2>6. ASSUME NEW u \in Task, StoreDropped(u) PROVE D(t)
    BY <1>1, <2>1, <2>6, FailedDone DEF StoreDropped, D
  <2>7. CASE (\E e \in Episode : Close(e)) \/ UNCHANGED textVars \/ UNCHANGED vars
    BY <2>2, <2>7 DEF Close, textVars, vars
  <2>8. QED
    BY <1>1, <2>3, <2>4, <2>5, <2>6, <2>7 DEF Next
<1>2. ASSUME IInv, [Next]_vars
      PROVE  [\A t \in Task : Stepping(t) /\ step'[t] = NoStep =>
                \A e \in step[t].over : \A n \in given'[e] \ given[e] : Done(n)]_vars
  BY <1>1, <1>2
<1>3. QED
  BY <1>2, Induction, PTL DEF Spec, DoneIsFinal
=============================================================================
