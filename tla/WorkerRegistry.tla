---------------------------- MODULE WorkerRegistry ----------------------------
(***************************************************************************)
(* Workers and their heartbeats: the beat loop of `rollout worker run`     *)
(* (crates/rollout-cli/src/worker.rs), the coordinator's register,         *)
(* heartbeat and deregister (crates/rollout-coordinator/src/heartbeat.rs,  *)
(* registry.rs) and the scan that reports silent workers                   *)
(* (failure_scan.rs, crates/rollout-transport/src/health.rs).              *)
(*                                                                         *)
(* One unit of time is the scan period, half a heartbeat_interval.  The    *)
(* heartbeat handler reads and writes in several transactions, so handlers *)
(* interleave with each other, with deregister and with the scan.          *)
(***************************************************************************)
EXTENDS Integers

CONSTANTS Worker,
          Interval,     \* heartbeat_interval
          Skew,         \* clock_skew_budget
          Timeout,      \* coordinator_failure_timeout
          LastBeat,     \* bound: no beat is sent after this time
          MaxClock,     \* bound on the clock
          Fragile,      \* bound: the workers whose connection may break, once
          MaxRestarts   \* bound on the restarts of the coordinator

ASSUME WorkerRegistryAssumption ==
  /\ Interval \in Nat \ {0}
  /\ Skew \in Nat
  /\ Timeout \in Nat
  /\ LastBeat \in Nat
  /\ MaxClock \in Nat
  /\ Fragile \subseteq Worker
  /\ MaxRestarts \in Nat

VARIABLES clock,
          registered, \* durable: the workers/ rows
          due,        \* durable: due_at of the heartbeats/ rows, NoRow if absent
          state,      \* of each worker process
          calls,      \* the heartbeat calls the coordinator is serving
          accepted,   \* due_at of the last beat each worker got an answer to
          up,         \* is the coordinator up?
          scanning,   \* is its failure scan loop running?
          scannedAt,  \* time of its last scan
          failed,     \* already_failed
          broken,     \* the workers whose connection has broken under a beat
          restarts    \* restarts so far

vars == <<clock, registered, due, state, calls, accepted, up, scanning,
          scannedAt, failed, broken, restarts>>

NoRow == 0  \* a due_at is never before 2 * Interval

\* cut: the worker's side of the connection is gone, the handler runs on.
Call == [worker : Worker, due : Nat, pc : {"get", "register", "put"},
         cut : BOOLEAN]

TypeOK ==
  /\ clock \in Nat
  /\ registered \in SUBSET Worker
  /\ due \in [Worker -> Nat]
  /\ state \in [Worker -> {"up", "leaving", "gone", "dead"}]
  /\ calls \in SUBSET Call
  /\ accepted \in [Worker -> Nat]
  /\ up \in BOOLEAN
  /\ scanning \in BOOLEAN
  /\ scannedAt \in Nat
  /\ failed \in SUBSET Worker
  /\ broken \in SUBSET Worker
  /\ restarts \in Nat

Init ==
  /\ clock = 1
  /\ registered = {}
  /\ due = [w \in Worker |-> NoRow]
  /\ state = [w \in Worker |-> "up"]
  /\ calls = {}
  /\ accepted = [w \in Worker |-> NoRow]
  /\ up = TRUE
  /\ scanning = TRUE
  /\ scannedAt = 0
  /\ failed = {}
  /\ broken = {}
  /\ restarts = 0

-----------------------------------------------------------------------------
\* next_due_at: one period of slack.
NextDueAt == clock + 2 * Interval

\* Slip: one of the two thresholds is enough.
IsFailedEither(d) == clock - d > Skew \/ clock - d > Timeout

\* Slip: the arguments of duration_since are swapped.
IsFailedSwapped(d) == d - clock > Skew /\ d - clock > Timeout

\* is_failed: both thresholds have passed.
IsFailed(d) == clock - d > Skew /\ clock - d > Timeout

\* The heartbeat rows past their deadline.
Overdue == {w \in Worker : due[w] # NoRow /\ IsFailed(due[w])}

-----------------------------------------------------------------------------
(* The worker.                                                             *)

\* The calls a worker still waits for.
Waiting(w) == {c \in calls : c.worker = w /\ ~c.cut}

Send(w) ==
  calls' = calls \cup {[worker |-> w, due |-> NextDueAt, pc |-> "get", cut |-> FALSE]}

\* A tick of the beat loop; the loop awaits each beat before the next.
Beat(w) ==
  /\ state[w] = "up"
  /\ up
  /\ clock <= LastBeat
  /\ Waiting(w) = {}
  /\ Send(w)
  /\ UNCHANGED <<clock, registered, due, state, accepted, up, scanning,
                 scannedAt, failed, broken, restarts>>

\* SIGTERM or a preemption notice: the loop ends and the drain beat goes out,
\* or fails when the coordinator cannot be reached.
Leave(w) ==
  /\ state[w] = "up"
  /\ Waiting(w) = {}
  /\ clock <= LastBeat
  /\ state' = [state EXCEPT ![w] = "leaving"]
  /\ \/ up /\ Send(w)
     \/ UNCHANGED calls
  /\ UNCHANGED <<clock, registered, due, accepted, up, scanning, scannedAt,
                 failed, broken, restarts>>

Die(w) ==
  /\ state[w] = "up"
  /\ state' = [state EXCEPT ![w] = "dead"]
  /\ calls' = {IF c.worker = w THEN [c EXCEPT !.cut = TRUE] ELSE c : c \in calls}
  /\ UNCHANGED <<clock, registered, due, accepted, up, scanning, scannedAt,
                 failed, broken, restarts>>

\* The connection breaks under a beat: the worker sees an error and beats
\* again at its next tick.  The handler may run on.
Cut(c) ==
  /\ ~c.cut
  /\ c.worker \in Fragile \ broken
  /\ broken' = broken \cup {c.worker}
  /\ calls' = (calls \ {c}) \cup {[c EXCEPT !.cut = TRUE]}
  /\ UNCHANGED <<clock, registered, due, state, accepted, up, scanning,
                 scannedAt, failed, restarts>>

-----------------------------------------------------------------------------
(* CoordinatorImpl.                                                        *)

Step(c, pc) == calls' = (calls \ {c}) \cup {[c EXCEPT !.pc = pc]}

\* heartbeat: is the worker known?
HeartbeatGet(c) ==
  /\ c.pc = "get"
  /\ Step(c, IF c.worker \in registered THEN "put" ELSE "register")
  /\ UNCHANGED <<clock, registered, due, state, accepted, up, scanning,
                 scannedAt, failed, broken, restarts>>

\* register
HeartbeatRegister(c) ==
  /\ c.pc = "register"
  /\ registered' = registered \cup {c.worker}
  /\ Step(c, "put")
  /\ UNCHANGED <<clock, due, state, accepted, up, scanning, scannedAt, failed,
                 broken, restarts>>

\* ... overwrite the heartbeat row, answer.
HeartbeatPut(c) ==
  /\ c.pc = "put"
  /\ due' = [due EXCEPT ![c.worker] = c.due]
  /\ accepted' = IF c.cut THEN accepted ELSE [accepted EXCEPT ![c.worker] = c.due]
  /\ calls' = calls \ {c}
  /\ UNCHANGED <<clock, registered, state, up, scanning, scannedAt, failed,
                 broken, restarts>>

\* A storage or emitter error, or the end of the connection, ends a handler.
HeartbeatError(c) ==
  /\ calls' = calls \ {c}
  /\ UNCHANGED <<clock, registered, due, state, accepted, up, scanning,
                 scannedAt, failed, broken, restarts>>

\* Slip: the heartbeat row is left behind.
DeregisterWorkerOnly(w) ==
  /\ registered' = registered \ {w}
  /\ UNCHANGED due

\* deregister: both rows in one transaction.
Deregister(w) ==
  /\ registered' = registered \ {w}
  /\ due' = [due EXCEPT ![w] = NoRow]

\* A worker that leaves is done with its last beat.  The drain state machine
\* ends with deregister.  When that fails, and in `rollout worker run`, which
\* just returns, the rows stay: to the coordinator the worker has died.
Exit(w) ==
  /\ state[w] = "leaving"
  /\ Waiting(w) = {}
  /\ \/ /\ up
        /\ Deregister(w)
        /\ state' = [state EXCEPT ![w] = "gone"]
     \/ /\ state' = [state EXCEPT ![w] = "dead"]
        /\ UNCHANGED <<registered, due>>
  /\ UNCHANGED <<clock, calls, accepted, up, scanning, scannedAt, failed, broken,
                 restarts>>

\* scan_once: report the overdue workers that are not in the set yet.
Scan ==
  /\ up /\ scanning
  /\ scannedAt < clock
  /\ scannedAt' = clock
  /\ failed' = failed \cup Overdue
  /\ UNCHANGED <<clock, registered, due, state, calls, accepted, up, scanning,
                 broken, restarts>>

\* SIGTERM ends the scan loop; the server goes on serving.
Sigterm ==
  /\ up /\ scanning
  /\ scanning' = FALSE
  /\ UNCHANGED <<clock, registered, due, state, calls, accepted, up, scannedAt,
                 failed, broken, restarts>>

CoordinatorCrash ==
  /\ up
  /\ restarts < MaxRestarts
  /\ up' = FALSE
  /\ scanning' = FALSE
  /\ failed' = {}
  /\ calls' = {}
  /\ UNCHANGED <<clock, registered, due, state, accepted, scannedAt, broken, restarts>>

\* The scan loop's first tick is immediate.
CoordinatorRestart ==
  /\ ~up
  /\ up' = TRUE
  /\ scanning' = TRUE
  /\ scannedAt' = 0
  /\ restarts' = restarts + 1
  /\ UNCHANGED <<clock, registered, due, state, calls, accepted, failed, broken>>

\* The scan keeps its period.  (The last tick waits for the open calls, so
\* that the bound on the clock hides no scan after them.)
Tick ==
  /\ clock < MaxClock
  /\ up /\ scanning => scannedAt = clock
  /\ clock = MaxClock - 1 => calls = {}
  /\ clock' = clock + 1
  /\ UNCHANGED <<registered, due, state, calls, accepted, up, scanning,
                 scannedAt, failed, broken, restarts>>

-----------------------------------------------------------------------------
Handle(c) == HeartbeatGet(c) \/ HeartbeatRegister(c) \/ HeartbeatPut(c)

Next ==
  \/ Tick \/ Scan \/ Sigterm \/ CoordinatorCrash \/ CoordinatorRestart
  \/ \E w \in Worker : Beat(w) \/ Leave(w) \/ Die(w) \/ Exit(w)
  \/ \E c \in calls : Cut(c) \/ Handle(c) \/ HeartbeatError(c)

Spec == Init /\ [][Next]_vars

\* Time passes, the scan loop ticks, handlers get on, and a coordinator that
\* died is restarted.
Fairness ==
  /\ WF_vars(Tick) /\ WF_vars(Scan) /\ WF_vars(CoordinatorRestart)
  /\ WF_vars(\E c \in calls : Handle(c))

FairSpec == Spec /\ Fairness

-----------------------------------------------------------------------------
(* Properties.                                                             *)

\* A heartbeat row belongs to a registered worker: a coordinator that dies
\* between the two transactions of a first beat leaves a worker without a
\* heartbeat, never the reverse.  (A handler that outlives its connection may
\* store its beat after the worker has deregistered.)
HeartbeatHasWorker ==
  \A w \in Worker \ broken : due[w] # NoRow => w \in registered

\* coordinator.md:86 "`worker_deregistered` - on graceful drain": nothing is
\* left of a worker that left in order, so no scan will report it, again
\* unless a handler outlived its connection.
GoneIsForgotten ==
  \A w \in Worker \ broken :
    state[w] = "gone" => w \notin registered /\ due[w] = NoRow

\* The state is well-formed, heartbeats have their workers, and nothing is left
\* of those that left.
Inv == TypeOK /\ HeartbeatHasWorker /\ GoneIsForgotten

\* docs/specs/01-core-runtime.md:193 "The coordinator never marks a worker failed within
\* clock_skew_budget of its due_at": a worker whose connection held is reported
\* only when every beat it got an answer to has run out by more than both
\* thresholds.  (After a broken connection the handler of the beat that broke
\* may still put its older due_at over the one of a later beat.)
NoFalseAlarm ==
  [][\A w \in (failed' \ failed) \ broken :
       clock - accepted[w] > Skew /\ clock - accepted[w] > Timeout]_vars

\* A worker that died after its first beat is reported, by the coordinator
\* that lives then, as long as its scan loop runs.
DeadIsReported ==
  \A w \in Worker :
    (state[w] = "dead" /\ due[w] # NoRow) ~> (w \in failed \/ ~scanning)
=============================================================================
