------------------------------ MODULE WorkLedger ------------------------------
(***************************************************************************)
(* The work ledger of a run: the dispatch queue and the per-item state     *)
(* machine (crates/rollout-coordinator/src/{work_item,ledger}.rs),         *)
(* coordinator-mediated stealing (steal.rs), the workers' acknowledgements *)
(* (mock_run.rs) and the crash of a worker or of the coordinator.          *)
(*                                                                         *)
(* A transaction of the embedded store is atomic, so dispatch, an ack and  *)
(* the reassignment of one stolen item are one step each.  The reads of a  *)
(* steal request and of a worker are steps of their own: what they return  *)
(* may be stale when it is used.                                           *)
(***************************************************************************)
EXTENDS Integers, FiniteSets

CONSTANTS Item,           \* work ids (content hashes): natural numbers, for their order
          Worker,         \* worker ids: positive numbers, for the tie-break of busiest
          Thief,          \* the workers that send steal requests
          Mortal,         \* the workers that may die
          MaxStealBatch,  \* MAX_STEAL_BATCH
          MaxCopies,      \* bound: how often each payload is enqueued
          MaxClock,       \* bound on the millisecond clock
          MaxRestarts,    \* bound on the restarts of the coordinator
          Random          \* the random part of a ULID: natural numbers

ASSUME WorkLedgerAssumption ==
  /\ Item \subseteq Nat
  /\ IsFiniteSet(Item)
  /\ Worker \subseteq Nat \ {0}
  /\ Thief \subseteq Worker
  /\ Mortal \subseteq Worker
  /\ MaxStealBatch \in Nat \ {0}
  /\ MaxCopies \in [Item -> Nat]
  /\ MaxClock \in Nat
  /\ MaxRestarts \in Nat
  /\ Random \subseteq Nat

VARIABLES clock,   \* milliseconds
          queue,   \* the queue_items rows
          work,    \* the work rows
          copies,  \* how often each payload was enqueued
          held,    \* the Running rows each worker read and has still to ack
          alive,   \* the workers that are up
          steal,   \* the steal request the coordinator serves for each worker
          restarts \* restarts of the coordinator so far

vars == <<clock, queue, work, copies, held, alive, steal, restarts>>

-----------------------------------------------------------------------------
(* Rows.                                                                   *)

NoWorker == 0

\* WorkItemRecord; the worker of a Done row is the one whose result it names.
Absent == [st |-> "Absent", worker |-> NoWorker, at |-> 0]
Pending == [st |-> "Pending", worker |-> NoWorker, at |-> 0]
Running(w, t) == [st |-> "Running", worker |-> w, at |-> t]
Done(w) == [st |-> "Done", worker |-> w, at |-> 0]

Row == [st : {"Absent", "Pending", "Running", "Done"},
        worker : Worker \cup {NoWorker}, at : Nat]

\* A ledger row as a reader holds it: the id and the row it saw.
Record == [item : Item, row : Row]

\* A dispatch entry: its ULID is (ms, rnd).
Entry == [ms : Nat, rnd : Random, item : Item]

StealRequest == [pc : {"idle", "victim", "scan", "reassign"},
                 now : Nat, victim : Worker \cup {NoWorker}, n : Nat,
                 batch : SUBSET Record]

NoSteal == [pc |-> "idle", now |-> 0, victim |-> NoWorker, n |-> 0, batch |-> {}]

TypeOK ==
  /\ clock \in Nat
  /\ queue \in SUBSET Entry
  /\ work \in [Item -> Row]
  /\ copies \in [Item -> Nat]
  /\ held \in [Worker -> SUBSET Record]
  /\ alive \in SUBSET Worker
  /\ steal \in [Worker -> StealRequest]
  /\ restarts \in Nat

Init ==
  /\ clock = 0
  /\ queue = {}
  /\ work = [i \in Item |-> Absent]
  /\ copies = [i \in Item |-> 0]
  /\ held = [w \in Worker |-> {}]
  /\ alive = Worker
  /\ steal = [w \in Worker |-> NoSteal]
  /\ restarts = 0

-----------------------------------------------------------------------------
(* The state machine of one item: each transition is a compare-and-swap on *)
(* the exact row its caller read, and refuses any other.                   *)

\* Slip: any Running row of the item will do.
TryCompleteAnyOwner(r) == r.row.st = "Running" /\ work[r.item].st = "Running"

\* try_complete applies: Running, and still the row that was read.
TryComplete(r) == r.row.st = "Running" /\ work[r.item] = r.row

\* Slip: the row is overwritten whatever it is by now.
TryRependingBlind(r) == r.row.st = "Running"

\* try_repending applies.
TryRepending(r) == r.row.st = "Running" /\ work[r.item] = r.row

\* try_claim of the Pending row its own transaction has just written.
TryClaim(i, w, t) == [work EXCEPT ![i] = Running(w, t)]

-----------------------------------------------------------------------------
(* Reads.                                                                  *)

RunningIds(w) == {i \in Item : work[i].st = "Running" /\ work[i].worker = w}
RunningOf(w) == {[item |-> i, row |-> work[i]] : i \in RunningIds(w)}

Backlog(w) == Cardinality(RunningIds(w))

\* Workers other than the thief that have running items.
Peers(t) == {w \in Worker \ {t} : RunningIds(w) # {}}

\* busiest: the largest backlog, the largest id among equals.
Busiest(t, w) ==
  \A v \in Peers(t) :
    Backlog(w) > Backlog(v) \/ (Backlog(w) = Backlog(v) /\ w >= v)

\* Slip: half rounded down.
StealCountFloor(b) == IF b \div 2 <= MaxStealBatch THEN b \div 2 ELSE MaxStealBatch

\* min(ceil(backlog / 2), MAX_STEAL_BATCH)
StealCount(b) ==
  IF (b + 1) \div 2 <= MaxStealBatch THEN (b + 1) \div 2 ELSE MaxStealBatch

\* The first n records by work id.
FirstN(S, n) == {r \in S : Cardinality({q \in S : q.item < r.item}) < n}

IsFirst(r, S) == \A q \in S : r.item <= q.item

\* The lowest ULID: by millisecond, then by the random part.
Before(e, f) == e.ms < f.ms \/ (e.ms = f.ms /\ e.rnd <= f.rnd)
NextPendingEntry(e) == \A f \in queue : Before(e, f)

-----------------------------------------------------------------------------
(* The coordinator's queue.                                                *)

Tick ==
  /\ clock < MaxClock
  /\ clock' = clock + 1
  /\ UNCHANGED <<queue, work, copies, held, alive, steal, restarts>>

\* enqueue: a fresh Ulid::new(), whose random part does not grow within one
\* millisecond.
Enqueue(i, rnd) ==
  /\ copies[i] < MaxCopies[i]
  /\ \A e \in queue : e.ms = clock => e.rnd # rnd
  /\ queue' = queue \cup {[ms |-> clock, rnd |-> rnd, item |-> i]}
  /\ copies' = [copies EXCEPT ![i] = @ + 1]
  /\ UNCHANGED <<clock, work, held, alive, steal, restarts>>

\* Slip: the entry outlives its dispatch.
DispatchKeepsEntry(w) ==
  /\ \E e \in queue :
       /\ NextPendingEntry(e)
       /\ work' = TryClaim(e.item, w, clock)
  /\ UNCHANGED <<clock, queue, copies, held, alive, steal, restarts>>

\* dispatch: pop the lowest entry, write its row Pending over whatever is
\* there, claim it for the worker and delete the entry, in one transaction.
Dispatch(w) ==
  /\ \E e \in queue :
       /\ NextPendingEntry(e)
       /\ work' = TryClaim(e.item, w, clock)
       /\ queue' = queue \ {e}
  /\ UNCHANGED <<clock, copies, held, alive, steal, restarts>>

-----------------------------------------------------------------------------
(* Workers.                                                                *)

\* running_items_of: the rows the worker is about to complete.
ReadRunning(w) ==
  /\ w \in alive
  /\ held[w] = {}
  /\ RunningOf(w) # {}
  /\ held' = [held EXCEPT ![w] = RunningOf(w)]
  /\ UNCHANGED <<clock, queue, work, copies, alive, steal, restarts>>

\* complete_worker, one item: ack it, or drop the result when the row moved.
Complete(w) ==
  /\ w \in alive
  /\ \E r \in held[w] :
       /\ IsFirst(r, held[w])
       /\ work' = IF TryComplete(r)
                  THEN [work EXCEPT ![r.item] = Done(w)] ELSE work
       /\ held' = [held EXCEPT ![w] = @ \ {r}]
  /\ UNCHANGED <<clock, queue, copies, alive, steal, restarts>>

WorkerCrash(w) ==
  /\ w \in alive \cap Mortal
  /\ alive' = alive \ {w}
  /\ held' = [held EXCEPT ![w] = {}]
  /\ UNCHANGED <<clock, queue, work, copies, steal, restarts>>

-----------------------------------------------------------------------------
(* handle_steal_request for an idle thief.                                 *)

SetSteal(t, r) == steal' = [steal EXCEPT ![t] = r]

\* backlog(thief) = 0; a busy thief's request changes nothing.
StealGuard(t) ==
  /\ t \in alive \cap Thief
  /\ steal[t].pc = "idle"
  /\ Backlog(t) = 0
  /\ SetSteal(t, [NoSteal EXCEPT !.pc = "victim", !.now = clock])
  /\ UNCHANGED <<clock, queue, work, copies, held, alive, restarts>>

StealVictim(t) ==
  /\ steal[t].pc = "victim"
  /\ \/ Peers(t) = {} /\ SetSteal(t, NoSteal)
     \/ \E v \in Peers(t) :
          /\ Busiest(t, v)
          /\ SetSteal(t, [steal[t] EXCEPT !.pc = "scan", !.victim = v,
                                          !.n = StealCount(Backlog(v))])
  /\ UNCHANGED <<clock, queue, work, copies, held, alive, restarts>>

StealScan(t) ==
  /\ steal[t].pc = "scan"
  /\ LET batch == FirstN(RunningOf(steal[t].victim), steal[t].n) IN
       SetSteal(t, IF batch = {} THEN NoSteal
                   ELSE [steal[t] EXCEPT !.pc = "reassign", !.batch = batch])
  /\ UNCHANGED <<clock, queue, work, copies, held, alive, restarts>>

\* One item: Running(victim) -> Pending -> Running(thief) in one transaction,
\* or skip it when the victim's ack won.
StealReassign(t) ==
  /\ steal[t].pc = "reassign"
  /\ \E r \in steal[t].batch :
       /\ IsFirst(r, steal[t].batch)
       /\ work' = IF TryRepending(r)
                  THEN TryClaim(r.item, t, steal[t].now) ELSE work
       /\ SetSteal(t, IF steal[t].batch = {r} THEN NoSteal
                      ELSE [steal[t] EXCEPT !.batch = @ \ {r}])
  /\ UNCHANGED <<clock, queue, copies, held, alive, restarts>>

\* The coordinator restarts: the steal requests it served are gone, the rows
\* stay.  Replay reads the ledger and changes nothing in it.
CoordinatorRestart ==
  /\ \E t \in Worker : steal[t].pc # "idle"
  /\ restarts < MaxRestarts
  /\ restarts' = restarts + 1
  /\ steal' = [t \in Worker |-> NoSteal]
  /\ UNCHANGED <<clock, queue, work, copies, held, alive>>

-----------------------------------------------------------------------------
ServeSteal(t) == StealVictim(t) \/ StealScan(t) \/ StealReassign(t)

StealStep(t) == StealGuard(t) \/ ServeSteal(t)

WorkerStep(w) == ReadRunning(w) \/ Complete(w)

Next ==
  \/ Tick
  \/ \E i \in Item, rnd \in Random : Enqueue(i, rnd)
  \/ \E w \in Worker :
       Dispatch(w) \/ WorkerStep(w) \/ WorkerCrash(w) \/ StealStep(w)
  \/ CoordinatorRestart

Spec == Init /\ [][Next]_vars

\* The coordinator keeps dispatching and serves the requests it has, and a live
\* worker keeps acking.  Nothing obliges an idle worker to ask for more, so no
\* fairness is assumed of StealGuard.
Fairness ==
  /\ WF_vars(\E w \in Worker : Dispatch(w))
  /\ \A w \in Worker : WF_vars(WorkerStep(w)) /\ WF_vars(ServeSteal(w))

FairSpec == Spec /\ Fairness

-----------------------------------------------------------------------------
(* Properties.                                                             *)

\* steal.rs:131 "we never strand an item Pending": no transaction commits a
\* row that waits for a worker outside the dispatch queue.  (The two swaps of
\* a reassignment are one transaction, and StealReassign takes it whole.)
NoStrandedPending == \A i \in Item : work[i].st # "Pending"

\* Work is neither dropped nor duplicated on its way from the queue to the
\* ledger: a payload that was enqueued once is in exactly one of the two, and
\* one that was enqueued again is still in one of them.
QueuedOrInLedger ==
  \A i \in Item :
    /\ copies[i] = 0 => work[i] = Absent /\ \A e \in queue : e.item # i
    /\ copies[i] = 1 => (work[i] = Absent <=> \E e \in queue : e.item = i)
    /\ copies[i] > 1 => work[i] # Absent \/ \E e \in queue : e.item = i

\* What a worker has still to ack and what a steal has still to reassign was
\* Running when it was read, and under the worker itself.
HeldWasOwn ==
  /\ \A w \in Worker : \A r \in held[w] : r.row.st = "Running" /\ r.row.worker = w
  /\ \A t \in Worker : \A r \in steal[t].batch : r.row.st = "Running"

\* A payload that was enqueued once has one entry at most.
OneEntry ==
  \A e, f \in queue : e.item = f.item /\ copies[e.item] = 1 => e = f

\* The conjunction that every step of the system preserves.
Inv ==
  /\ TypeOK
  /\ NoStrandedPending
  /\ QueuedOrInLedger
  /\ HeldWasOwn
  /\ OneEntry

\* docs/specs/05-distribution.md:114 "Stolen-then-reclaimed items never
\* double-execute" and run.rs:20 "`Done` / `Failed` -> terminal ... never
\* re-execute": a Done row is final, whoever acks, steals or dispatches.  (A
\* payload that is enqueued again has the same content-addressed row, and
\* dispatch puts it over whatever is there: ledger.rs:143.)
DoneIsTerminal ==
  [][\A i \in Item : work[i].st = "Done" /\ copies[i] = 1 => work'[i] = work[i]]_vars

\* A late ack of a worker that lost the item is dropped: only the owner on
\* record turns a row Done.
AckOnlyByOwner ==
  [][\A i \in Item :
       work[i].st # "Done" /\ work'[i].st = "Done"
         => work[i].st = "Running" /\ work'[i].worker = work[i].worker]_vars

\* The ledger as ClaimTable sees it, for payloads that are enqueued once: an
\* item waits in the queue, and a worker is at work on what it read and has
\* still to ack.
Once == {i \in Item : MaxCopies[i] <= 1}
Progress(i) == CASE work[i].st = "Absent" /\ (\A e \in queue : e.item # i) -> "none"
                 [] work[i].st = "Absent" /\ (\E e \in queue : e.item = i) -> "waiting"
                 [] work[i].st = "Running" -> "claimed"
                 [] OTHER -> "over"
AtWork == {x \in Worker \X Once : \E r \in held[x[1]] : r.item = x[2]}

Claims == INSTANCE ClaimTable WITH
  Key <- Once, NoOne <- NoWorker,
  item <- [i \in Once |-> Progress(i)],
  owner <- [i \in Once |-> IF work[i].st = "Running" THEN work[i].worker ELSE NoWorker],
  working <- AtWork

\* docs/specs/05-distribution.md:114 "never double-execute": however acks,
\* steals, dispatches and crashes come between each other, an item is claimed
\* out of the queue once, changes hands from owner to owner, and is completed
\* once, by the worker that owns it at that time.
ImplementsClaims == Claims!Spec

\* A row that changes hands although its owner is up.
TakenFromTheLiving ==
  \E i \in Item : /\ work[i].st = "Running" /\ work[i].worker \in alive
                  /\ work'[i].st = "Running" /\ work'[i].worker # work[i].worker

\* Orphaned work is rescued, and no work is lost on the way: when workers die
\* with items on their hands and the coordinator restarts in the middle of a
\* steal, then, as long as some live worker asks for work again and again, time
\* and again all of the payloads enqueued so far are Done.  The alternative the
\* code leaves open is that live workers take items from each other for ever:
\* steal.rs picks the busiest peer whether or not it is alive and about to ack,
\* and the new owner may lose the item before it acks it.
EnqueuedEventuallyDone ==
  \/ <>[][~ \E t \in Worker : StealGuard(t)]_vars
  \/ []<><<TakenFromTheLiving>>_vars
  \/ []<>(\A i \in Item : copies[i] > 0 => work[i].st = "Done")
=============================================================================
