------------------------------ MODULE PluginHost ------------------------------
(***************************************************************************)
(* PluginHostImpl (crates/rollout-plugin-host/src): load, call, reload and *)
(* unload of plugins in their three modes.                                 *)
(*                                                                         *)
(* A sidecar is a child process that binds a socket and serves one         *)
(* connection; the socket's path is made of the plugin's name and the      *)
(* host's pid, so that two versions of a plugin share it.  A PyO3 plugin   *)
(* is a thread behind a channel.  A cdylib is called in place.  One lock   *)
(* guards the map of handles, and is held over calls, reloads and unloads; *)
(* a load takes it only to insert what it has spawned.                     *)
(*                                                                         *)
(* A task may be dropped at any await.                                     *)
(***************************************************************************)
EXTENDS Integers, Sequences

CONSTANTS Tasks,      \* bound: tasks of the host's process at a time
          Id,         \* plugin ids: name and version
          Name(_),    \* the plugin's name
          Mode(_),    \* its mode
          MaxSpawns,  \* bound: children and threads started
          MaxOps,     \* bound: operations begun
          MaxFaults   \* bound: crashed plugins and dropped tasks

ASSUME PluginHostAssumption ==
  /\ Id # {} /\ \A i \in Id : Mode(i) \in {"sidecar", "pyo3", "cdylib"}
  /\ Tasks \in Nat /\ MaxSpawns \in Nat /\ MaxOps \in Nat /\ MaxFaults \in Nat

Task == 1 .. Tasks
NoTask == 0
Names == {Name(i) : i \in Id}
Spawn == 1 .. MaxSpawns

VARIABLES lock,     \* who has the map of handles
          handles,  \* the map: the spawn whose child and stream a plugin has
          proc,     \* the children and threads
          path,     \* whose socket is at the path of a name (0: no file)
          wire,     \* the streams: stream s was connected by spawn s
          task,     \* what each task is doing
          spawned,  \* spawns so far
          ops,      \* operations begun so far
          faults,   \* faults so far
          known,    \* plugins whose handle a load has returned
          overlap   \* were two spawns of one name ever under way together?

hostVars == <<lock, handles, proc, path, wire, task, spawned, ops, faults, known, overlap>>

-----------------------------------------------------------------------------
NoHandle == -1  \* not in the map (0: in the map, but child and stream are None)

Unborn == [st |-> "unborn", id |-> CHOOSE i \in Id : TRUE, sig |-> FALSE, conns |-> <<>>]
NoWire == [peer |-> 0, open |-> FALSE, reqs |-> <<>>, ans |-> <<>>, skew |-> FALSE]
NoOp == [pc |-> "idle", op |-> "call", id |-> CHOOSE i \in Id : TRUE, k |-> 0, tag |-> 0]

\* A request: a call or a reload with its number, or 0 for a shutdown.
Tag == 0 .. MaxOps

Proc == [st : {"unborn", "starting", "serving", "dead"}, id : Id, sig : BOOLEAN,
         conns : Seq(Spawn)]
Wire == [peer : 0 .. MaxSpawns, open : BOOLEAN, reqs : Seq(Tag), ans : Seq(Tag),
         skew : BOOLEAN]
Op == [pc : {"idle", "connect", "lock", "read", "reap", "reaped", "persist"},
       op : {"load", "call", "reload", "unload"}, id : Id, k : 0 .. MaxSpawns, tag : Tag]

HostTypeOK ==
  /\ lock \in Task \cup {NoTask}
  /\ handles \in [Id -> NoHandle .. MaxSpawns]
  /\ proc \in [Spawn -> Proc] /\ wire \in [Spawn -> Wire]
  /\ path \in [Names -> 0 .. MaxSpawns]
  /\ task \in [Task -> Op]
  /\ spawned \in 0 .. MaxSpawns /\ ops \in Tag /\ faults \in 0 .. MaxFaults
  /\ known \subseteq Id /\ overlap \in BOOLEAN

HostInit ==
  /\ lock = NoTask
  /\ handles = [i \in Id |-> NoHandle]
  /\ proc = [k \in Spawn |-> Unborn]
  /\ path = [n \in Names |-> 0]
  /\ wire = [s \in Spawn |-> NoWire]
  /\ task = [t \in Task |-> NoOp]
  /\ spawned = 0 /\ ops = 0 /\ faults = 0 /\ known = {} /\ overlap = FALSE

-----------------------------------------------------------------------------
At(t, pc) == task[t].pc = pc
My(t) == handles[task[t].id]
Sidecar(t) == Mode(task[t].id) = "sidecar"
MyName(t) == Name(task[t].id)

Goto(t, pc) == task' = [task EXCEPT ![t].pc = pc]
Return(t) == task' = [task EXCEPT ![t] = NoOp]
Unlocked(t) == IF lock = t THEN NoTask ELSE lock
Alive(k) == proc[k].st \in {"starting", "serving"}

Closed(k) == [s \in Spawn |-> IF s = k THEN [NoWire EXCEPT !.peer = wire[s].peer, !.reqs = wire[s].reqs]
                                        ELSE wire[s]]
Dead(k) == [Unborn EXCEPT !.st = "dead", !.id = proc[k].id]

\* Slip: a state is dropped and its child left to itself.
DropLeaves(k) == proc' = proc /\ wire' = Closed(k)

\* A state is dropped: kill_on_drop, and the stream is closed.  A thread is
\* not killed; it ends by itself when its channel is closed.
Drop(k) ==
  /\ proc' = [j \in Spawn |-> IF j = k /\ Mode(proc[j].id) = "sidecar" /\ Alive(j)
                              THEN Dead(j) ELSE proc[j]]
  /\ wire' = Closed(k)

-----------------------------------------------------------------------------
(* Operations.                                                             *)

\* A call, reload or unload waits for the lock.
Enter(t, op, i, tag) ==
  task' = [task EXCEPT ![t] = [pc |-> "lock", op |-> op, id |-> i, k |-> 0, tag |-> tag]]

\* reload and unload take a handle that some load has returned.
Begin(t, op, i) ==
  /\ At(t, "idle")
  /\ i \in known
  /\ ops < MaxOps
  /\ ops' = ops + 1
  /\ Enter(t, op, i, ops + 1)
  /\ UNCHANGED <<lock, handles, proc, path, wire, spawned, faults, known, overlap>>

\* Slip: what is at the path is left there.
SpawnBeside(t, i) ==
  /\ spawned < MaxSpawns
  /\ spawned' = spawned + 1
  /\ overlap' = (overlap \/ \E u \in Task \ {t} : At(u, "connect") /\ MyName(u) = Name(i))
  /\ UNCHANGED path

\* SidecarState::spawn up to its first await: what is at the path is removed
\* and the child started.
SpawnSidecar(t, i) ==
  /\ spawned < MaxSpawns
  /\ spawned' = spawned + 1
  /\ path' = [path EXCEPT ![Name(i)] = 0]
  /\ overlap' = (overlap \/ \E u \in Task \ {t} : At(u, "connect") /\ MyName(u) = Name(i))

\* The command cannot be started.
SpawnFails(i) == path' = [path EXCEPT ![Name(i)] = 0] /\ UNCHANGED <<spawned, overlap>>

\* load: the plugin is brought up before the lock is taken.
Load(t, i) ==
  /\ At(t, "idle")
  /\ ops < MaxOps
  /\ ops' = ops + 1
  /\ LET k == spawned + 1
         T(pc, n) == [pc |-> pc, op |-> "load", id |-> i, k |-> n, tag |-> ops + 1]
     IN \/ /\ Mode(i) = "sidecar"
           /\ SpawnSidecar(t, i)
           /\ proc' = [proc EXCEPT ![k] = [Unborn EXCEPT !.st = "starting", !.id = i]]
           /\ task' = [task EXCEPT ![t] = T("connect", k)]
           /\ UNCHANGED wire
        \/ /\ Mode(i) = "sidecar"
           /\ SpawnFails(i)
           /\ UNCHANGED <<proc, wire, task>>
        \/ /\ Mode(i) = "pyo3"
           /\ spawned < MaxSpawns
           /\ spawned' = k
           /\ proc' = [proc EXCEPT ![k] = [Unborn EXCEPT !.st = "serving", !.id = i, !.conns = <<k>>]]
           /\ wire' = [wire EXCEPT ![k] = [NoWire EXCEPT !.peer = k, !.open = TRUE]]
           /\ task' = [task EXCEPT ![t] = T("lock", k)]
           /\ UNCHANGED <<path, overlap>>
        \/ /\ Mode(i) = "cdylib"
           /\ task' = [task EXCEPT ![t] = T("lock", 0)]
           /\ UNCHANGED <<proc, wire, path, spawned, overlap>>
  /\ UNCHANGED <<lock, handles, faults, known>>

\* connect_with_retry finds a listener at the path, whoever it is.
Connected(t) ==
  LET s == task[t].k
      c == path[MyName(t)]
  IN /\ At(t, "connect")
     /\ c # 0
     /\ proc[c].st = "serving"
     /\ proc' = [proc EXCEPT ![c].conns = Append(@, s)]
     /\ wire' = [wire EXCEPT ![s] = [NoWire EXCEPT !.peer = c, !.open = TRUE]]
     /\ IF task[t].op = "load"
        THEN Goto(t, "lock") /\ UNCHANGED <<lock, handles>>
        ELSE /\ handles' = [handles EXCEPT ![task[t].id] = s]
             /\ lock' = NoTask
             /\ Return(t)
     /\ UNCHANGED <<path, spawned, ops, faults, known, overlap>>

\* Five seconds are over; the child goes with the error.
ConnectTimeout(t) ==
  /\ At(t, "connect")
  /\ Drop(task[t].k)
  /\ lock' = Unlocked(t)
  /\ Return(t)
  /\ UNCHANGED <<handles, path, spawned, ops, faults, known, overlap>>

\* The new state is inserted; one that was there under this id is dropped.
Insert(t) ==
  /\ At(t, "lock") /\ task[t].op = "load"
  /\ lock = NoTask
  /\ handles' = [handles EXCEPT ![task[t].id] = task[t].k]
  /\ Drop(My(t))
  /\ Goto(t, "persist")
  /\ UNCHANGED <<lock, path, spawned, ops, faults, known, overlap>>

\* persist_manifest, which may fail: the plugin stays loaded all the same.
Persist(t) ==
  /\ At(t, "persist")
  /\ known' = known \cup {task[t].id} \/ UNCHANGED known
  /\ Return(t)
  /\ UNCHANGED <<lock, handles, proc, path, wire, spawned, ops, faults, overlap>>

\* A handle nobody knows, a stream that is not there, a cdylib (which answers,
\* or refuses to be reloaded, on the spot): the operation is over.
OnTheSpot(t) ==
  /\ At(t, "lock") /\ task[t].op \in {"call", "reload"}
  /\ lock = NoTask
  /\ \/ My(t) = NoHandle
     \/ Mode(task[t].id) = "cdylib"
     \/ task[t].op = "call" /\ My(t) = 0
  /\ Return(t)
  /\ UNCHANGED <<lock, handles, proc, path, wire, spawned, ops, faults, known, overlap>>

\* call, and the reload of a PyO3 plugin: the request is written.
Ask(t) ==
  /\ At(t, "lock")
  /\ lock = NoTask
  /\ My(t) \in Spawn
  /\ task[t].op = "call" \/ (task[t].op = "reload" /\ Mode(task[t].id) = "pyo3")
  /\ lock' = t
  /\ wire' = [wire EXCEPT ![My(t)].reqs = Append(@, task[t].tag)]
  /\ task' = [task EXCEPT ![t].pc = "read", ![t].k = My(t)]
  /\ UNCHANGED <<handles, proc, path, spawned, ops, faults, known, overlap>>

\* The answer: on a stream the next one, on a channel the one to this request.
Answers(t) ==
  LET w == wire[task[t].k]
  IN IF w.ans # <<>> /\ (Sidecar(t) \/ Head(w.ans) = task[t].tag)
     THEN <<Head(w.ans)>> ELSE <<>>

Answered(t) ==
  /\ At(t, "read")
  /\ Answers(t) # <<>>
  /\ wire' = [wire EXCEPT ![task[t].k].ans = Tail(@)]
  /\ lock' = Unlocked(t)
  /\ Return(t)
  /\ UNCHANGED <<handles, proc, path, spawned, ops, faults, known, overlap>>

\* The plugin is gone: a failed write, an early end of the stream.
Broken(t) ==
  /\ At(t, "read")
  /\ proc[wire[task[t].k].peer].st = "dead"
  /\ Answers(t) = <<>>
  /\ lock' = Unlocked(t)
  /\ Return(t)
  /\ UNCHANGED <<handles, proc, path, wire, spawned, ops, faults, known, overlap>>

\* SidecarState::respawn begins: SIGTERM to the child.
Respawn(t) ==
  /\ At(t, "lock") /\ task[t].op = "reload" /\ Sidecar(t)
  /\ lock = NoTask
  /\ My(t) # NoHandle
  /\ lock' = t
  /\ proc' = [j \in Spawn |-> IF j = My(t) THEN [proc[j] EXCEPT !.sig = TRUE] ELSE proc[j]]
  /\ task' = [task EXCEPT ![t].pc = "reap", ![t].k = My(t)]
  /\ UNCHANGED <<handles, path, wire, spawned, ops, faults, known, overlap>>

\* unload takes the state out of the map.  A thread is sent its Shutdown and
\* its channel dropped; a sidecar is written one, and waited for.
Unload(t) ==
  /\ At(t, "lock") /\ task[t].op = "unload"
  /\ lock = NoTask
  /\ handles' = [handles EXCEPT ![task[t].id] = NoHandle]
  /\ wire' = [s \in Spawn |-> IF s = My(t)
                              THEN [wire[s] EXCEPT !.reqs = Append(@, 0), !.open = Sidecar(t)]
                              ELSE wire[s]]
  /\ IF Sidecar(t) /\ My(t) # NoHandle
     THEN /\ lock' = t
          /\ task' = [task EXCEPT ![t].pc = "reap", ![t].k = My(t)]
     ELSE UNCHANGED lock /\ Return(t)
  /\ UNCHANGED <<proc, path, spawned, ops, faults, known, overlap>>

\* Slip: the host waits for the child for as long as it takes.
ReapPatiently(t) ==
  /\ At(t, "reap")
  /\ task[t].k # 0 => ~Alive(task[t].k)
  /\ Goto(t, "reaped")
  /\ UNCHANGED <<lock, handles, proc, path, wire, spawned, ops, faults, known, overlap>>

\* The child, if there is one, is gone within two seconds or killed.
Reap(t) ==
  /\ At(t, "reap")
  /\ proc' = [j \in Spawn |-> IF j = task[t].k /\ Alive(j)
                              THEN Dead(j) ELSE proc[j]]
  /\ Goto(t, "reaped")
  /\ UNCHANGED <<lock, handles, path, wire, spawned, ops, faults, known, overlap>>

\* shutdown ends: the stream is closed and the socket's file removed.
Shutdown(t) ==
  /\ At(t, "reaped") /\ task[t].op = "unload"
  /\ wire' = Closed(task[t].k)
  /\ path' = [path EXCEPT ![MyName(t)] = 0]
  /\ lock' = NoTask
  /\ Return(t)
  /\ UNCHANGED <<handles, proc, spawned, ops, faults, known, overlap>>

\* respawn goes on: child and stream are None, and another child is started at
\* the same path, or cannot be started.
Restart(t) ==
  LET k == spawned + 1
      i == task[t].id
  IN /\ At(t, "reaped") /\ task[t].op = "reload"
     /\ handles' = [handles EXCEPT ![i] = 0]
     /\ wire' = Closed(task[t].k)
     /\ \/ /\ SpawnSidecar(t, i)
           /\ proc' = [proc EXCEPT ![k] = [Unborn EXCEPT !.st = "starting", !.id = i]]
           /\ task' = [task EXCEPT ![t].pc = "connect", ![t].k = k]
           /\ UNCHANGED lock
        \/ /\ SpawnFails(i)
           /\ lock' = NoTask
           /\ Return(t)
           /\ UNCHANGED proc
     /\ UNCHANGED <<ops, faults, known>>

\* The task is dropped at an await, and with it what it holds: the lock, a
\* child it was bringing up, a state it was shutting down, and the channel on
\* which it awaits a thread's reply.  A call of a sidecar that was to be answered
\* leaves the answer on the stream.
Dropped(t) ==
  /\ ~At(t, "idle") /\ ~At(t, "reaped")
  /\ faults < MaxFaults
  /\ faults' = faults + 1
  /\ lock' = Unlocked(t)
  /\ \/ /\ At(t, "connect") \/ (At(t, "lock") /\ task[t].op = "load")
                            \/ (At(t, "reap") /\ task[t].op = "unload")
        /\ Drop(task[t].k)
     \/ /\ At(t, "read") /\ Sidecar(t)
        /\ wire' = [wire EXCEPT ![task[t].k].skew = TRUE]
        /\ UNCHANGED proc
     \/ /\ At(t, "read") /\ ~Sidecar(t)
        /\ wire' = [wire EXCEPT ![task[t].k].ans = <<>>]
        /\ UNCHANGED proc
     \/ /\ \/ At(t, "lock") /\ task[t].op # "load"
           \/ At(t, "reap") /\ task[t].op = "reload"
           \/ At(t, "persist")
        /\ UNCHANGED <<proc, wire>>
  /\ Return(t)
  /\ UNCHANGED <<handles, path, spawned, ops, known, overlap>>

-----------------------------------------------------------------------------
(* The plugins: sample_sidecar, and the Python thread.                     *)

\* A sidecar removes what is at its path and binds it.
Bind(k) ==
  /\ proc[k].st = "starting"
  /\ proc' = [proc EXCEPT ![k].st = "serving"]
  /\ path' = [path EXCEPT ![Name(proc[k].id)] = k]
  /\ UNCHANGED <<lock, handles, wire, task, spawned, ops, faults, known, overlap>>

Serving(k) == proc[k].st = "serving" /\ proc[k].conns # <<>>
Conn(k) == wire[Head(proc[k].conns)]

\* A reply to a task that was dropped goes nowhere; a stream carries it still.
Heard(k, r) == \/ Mode(proc[k].id) = "sidecar" /\ Conn(k).open
               \/ \E t \in Task : At(t, "read") /\ task[t].tag = r

\* It serves the first connection it accepts, one request after the other.
Serve(k) ==
  /\ Serving(k)
  /\ Conn(k).reqs # <<>>
  /\ Head(Conn(k).reqs) # 0
  /\ LET r == Head(Conn(k).reqs)
     IN wire' = [wire EXCEPT ![Head(proc[k].conns)].reqs = Tail(@),
                             ![Head(proc[k].conns)].ans = IF Heard(k, r) THEN Append(@, r) ELSE @]
  /\ UNCHANGED <<lock, handles, proc, path, task, spawned, ops, faults, known, overlap>>

\* At a Shutdown or at the end of the stream it leaves, and a sidecar removes
\* what is at its path.
Leave(k) ==
  /\ Serving(k)
  /\ IF Conn(k).reqs = <<>> THEN ~Conn(k).open ELSE Head(Conn(k).reqs) = 0
  /\ proc' = [proc EXCEPT ![k] = Dead(k)]
  /\ path' = IF Mode(proc[k].id) = "sidecar"
             THEN [path EXCEPT ![Name(proc[k].id)] = 0] ELSE path
  /\ UNCHANGED <<lock, handles, wire, task, spawned, ops, faults, known, overlap>>

\* The SIGTERM takes effect; a plugin may have chosen to ignore it.
Terminate(k) ==
  /\ Alive(k) /\ proc[k].sig
  /\ proc' = [proc EXCEPT ![k] = Dead(k)]
  /\ UNCHANGED <<lock, handles, path, wire, task, spawned, ops, faults, known, overlap>>

CrashPlugin(k) ==
  /\ Alive(k) /\ Mode(proc[k].id) = "sidecar"
  /\ faults < MaxFaults
  /\ faults' = faults + 1
  /\ proc' = [proc EXCEPT ![k] = Dead(k)]
  /\ UNCHANGED <<lock, handles, path, wire, task, spawned, ops, known, overlap>>

-----------------------------------------------------------------------------
\* The steps of a task that need the lock, and the others; those that end a
\* call are its caller's steps as well.
Locked(t) == Insert(t) \/ Ask(t) \/ Respawn(t) \/ Unload(t)

HostStep(t) ==
  \/ Connected(t) \/ ConnectTimeout(t) \/ Persist(t) \/ Reap(t) \/ Shutdown(t) \/ Restart(t)

Plugin(k) == Bind(k) \/ Serve(k) \/ Leave(k)

-----------------------------------------------------------------------------
(* Properties.                                                             *)

\* No child process is left to itself, whichever task was dropped and whatever
\* failed: one that is alive belongs to the handle of its plugin or to a task
\* that is bringing it up or taking it down.  And the lock is held by the task
\* that is at work under it.
NoOrphans ==
  /\ \A k \in Spawn :
       Alive(k) /\ Mode(proc[k].id) = "sidecar" =>
         \/ handles[proc[k].id] = k
         \/ \E t \in Task : /\ task[t].k = k
                            /\ \/ task[t].pc \in {"connect", "reap"}
                               \/ At(t, "lock") /\ task[t].op = "load"
  /\ \A t \in Task :
       lock = t <=> At(t, "read") \/ At(t, "reap") \/ At(t, "reaped")
                    \/ (At(t, "connect") /\ task[t].op = "reload")

\* A call gets the answer to its own request, from a process that runs its own
\* plugin.  Nothing is promised on a stream whose caller was dropped before
\* its answer came (sidecar.rs:98: the next caller reads that answer), nor
\* once two spawns of one name have been under way together (host.rs:138: the
\* path has the name in it and not the version).
AnswerIsOwn ==
  \A t \in Task : At(t, "read") =>
    LET w == wire[task[t].k]
    IN /\ ~w.skew /\ Answers(t) # <<>> => Answers(t) = <<task[t].tag>>
       /\ ~overlap => proc[w.peer].id = task[t].id
=============================================================================
