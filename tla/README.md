# A TLA+ model of rollout

`rollout` is a Rust framework for distributed post-training: a coordinator that
hands work to workers over gRPC, a transactional key-value store that carries
all durable state, a batch-inference runtime, a vLLM backend with its training
loop, a plugin host, snapshots, cloud adapters, evaluation and tool harnesses,
and a CLI that wires them together.

This directory models the parts whose correctness depends on the order of the
steps of several actors, checks the models with TLC on small instances, and
proves the core of them with TLAPS for every value of their parameters. Paths
below are relative to `crates/` unless they start with `docs/` or `python/`.

Contents: 1 inventory, 2 modules and how they correspond to the code, 3 runs,
4 bounds, 5 fairness, 6 proofs, 7 findings, 8 divergences without a run,
9 limits of the models, 10 what is not modelled, 11 plan.

## 1. Inventory

| Component | State | Operations | What is hard about it | What makes it correct |
|---|---|---|---|---|
| Coordinator lease (`rollout-coordinator/src/{lease,run,fence,epoch}.rs`) | the `lease` row `{epoch, holder, acquired_at, expires_at}` and the `epoch` row; per process the record it serves under | `try_acquire`, `renew`, `current`, `commit_claim`, `spawn_lease_renew_loop`, `fence_old_coordinator` | row and clock are read before the swap; a commit may take effect and still report an error; processes die and are paused; clocks differ | one process per epoch; no steal before expiry; a deposed process never returns and eventually stops |
| Work ledger (`work_item.rs`, `ledger.rs`, `steal.rs`, `mock_run.rs`) | `queue_items` rows keyed by ULID, `work` rows `Pending/Running/Done/Failed` keyed by content hash | `enqueue`, `dispatch`, `try_claim`, `try_complete`, `try_repending`, `backlog`, `busiest`, `handle_steal_request` | an ack races a steal; three reads of a steal are three snapshots; the coordinator may die in the middle | no item lost, stranded or acked by a worker that lost it; `Done` is final; every item gets done |
| Batch runtime (`rollout-runtime-batch/src`, `rollout-cli/src/infer.rs`, `rollout-cloud-local/src/queue.rs`) | sample rows, prompt and completion blobs, the spilled queue, `completions.jsonl` | scan, replay, `try_claim`, generate, `complete`, `fail`, ack, report | kills between any two writes, duplicate queue entries after a restart, a claim that goes stale under a slow backend | a sample is claimed by one worker at a time and finished once, by its owner; no sample is forgotten; reruns finish every input |
| Worker registry (`heartbeat.rs`, `registry.rs`, `failure_scan.rs`, `rollout-transport/src/health.rs`, `rollout-cli/src/worker.rs`) | worker rows, heartbeat rows, `already_failed` | `register`, `heartbeat`, `deregister`, the scan loop, the beat loop, SIGTERM | a beat takes several transactions; beats overtake each other when a connection breaks; restarts forget `already_failed` | no false alarm; no report about a worker that left; a dead worker is reported |
| Key-value store (`rollout-storage/src`) | rows, locks, buffered writes, the watch channel | `begin`, `put`, `delete`, `compare_and_swap`, `commit`, `rollback`, `watch_stream` | READ COMMITTED; an absent row has no lock; events are published after the lock is free | a swap replaces what it compared with; a watcher ends up with the store's content |
| Cloud queues and drain (`rollout-cloud-aws/src/sqs`, `rollout-cloud-gcp/src/pubsub`, `rollout-coordinator/src/drain.rs`) | the service's leases, the client's table id -> receipt | `enqueue`, `dequeue`, `ack`, `nack`, `extend_lease`, `drain` | redelivery overwrites the table's entry; the entry is taken before the call; the node is reclaimed during the drain | at-least-once; no message stuck |
| Object stores and snapshots (`rollout-cloud-{local,aws,gcp}`, `rollout-snapshots/src`) | blobs, temporaries, multipart uploads, snapshot rows | `put_bytes`, `put_stream`, `get_bytes`, `save`, `restore`, `prune` | shared temporary names, cut writes, lost answers, prunes over an old list | what is acknowledged or listed is there, and whole unless two puts of it overlapped; no upload orphaned, no run emptied |
| Tool harness (`rollout-harness-tool/src`) | the command, its pipes, the cgroup subtree, the hop of a fetch | `invoke`: `python_exec`, `shell`, `http_get`, `http_post`, `file_read`, `file_write` | a full pipe against a reader that waits; death by a signal; helpers that keep a pipe open; a subtree shared by calls; a redirect to a blocked address | a success has waited for its command and read all there was; a call returns; the last call cleans up |
| vLLM backend and training loop (`rollout-backend-vllm/src`, `python/rollout/backends/vllm`, `rollout-algo-{sft,rm}`) | the channel, the thread's Python globals, the step counter | `init`, `generate`, `set_train_mode`, `forward_with_loss`, `optimizer_step`, `save_weights`, `shutdown`, `run`, `snapshot_save` | aborted callers, a full channel, errors between the two halves of a step, and in the middle of one | every call answered; within a run, counter and weights agree; a drop ends |
| Plugin host (`rollout-plugin-host/src`) | the map of handles under one lock, children, sockets, threads | `load`, `call`, `reload`, `unload` | the lock is held over calls to other processes; futures are dropped at awaits; two versions share a socket path | no child left behind; own answers; every operation returns |
| Text environment harness (`rollout-harness-text/src`) | the episodes in a map under a lock of its own: prompt, turn | `from_settings`, `with_reward_plugin`, `reset`, `step`, `close` | the turn is counted before the reward is awaited, and an error of the reward ends the whole batch; episodes are closed and plugins reloaded under a step | no turn reported twice; done stays done; every step returns |
| Evaluation harness (`rollout-harness-eval/src`, `rollout-cli/src/eval.rs`) | `work` rows by run and example, result and report blobs, `eval_reports` rows | `resolve_checkpoint`, `run`, `run_example_job`, `record`, the report | a claim or a completion that lost its swap is not an error; results of different runs are the same blob; the process dies between any two writes; the checkpoint may be pruned | a report stands on completed examples and stored results only |
| Transport, metadata and secrets clients, CLI, configuration, traits, protocol | see section 10 | | | |

How they interact: every durable row is in the key-value store, and the lease,
ledger, registry and batch models use its transactions as atomic steps (which
`Storage` and its proofs justify for the embedded backend). Workers reach the
coordinator over gRPC (beats, steal requests, acks). The batch runtime uses the
local queue, the object store and a backend; snapshots use the object store and
the store's rows; evaluations use the snapshots' rows, the work rows and the
object store; the text harness asks the plugin host for its rewards; the drain
uses the cloud queue and the snapshotter.

## 2. Modules

| Module | Models | State (variables) and actions |
|---|---|---|
| `EpochSuccession` | the abstract promise of the lease: epochs 0, 1, 2, ... each to one process | `epoch`, `holder`, `spent`; one action that hands out the next epoch |
| `StorageLease` | `lease.rs`, `run.rs`, `fence.rs` | `lease` and `epochRow` are the two rows, `stage`/`seen`/`now`/`adopted` the locals of each process between two awaits. `ReadLease`, `SampleClock`, `Claim*` are the stretches of `try_acquire`; `RenewRead`, `RenewSample`, `Renew*` one tick of the loop; `Observe` and `Fence` the end of a deposed process; `Tick`, `Crash` the environment |
| `ClaimTable` | the abstract promise of claimed work: one owner at a time, one end, by the owner | `item`, `owner`, `working`; `Offer`, `Claim`, `Begin`, `Finish`, `Leave`, `Release`, and `GiveBack` for an owner that fails. Implemented by `WorkLedger` and `BatchRuntime` |
| `WorkLedger` | `work_item.rs`, `ledger.rs`, `steal.rs`, `mock_run.rs` | `queue`, `work` are the two namespaces, `held` what a worker read, `steal` the locals of a steal request (`StealGuard`, `StealVictim`, `StealScan`, `StealReassign`) |
| `BatchRuntime` | `rollout infer batch` | rows, blobs, `spill` (durable queue), `deque` (in memory), one record per worker. A row has the age of its claim and not its time, so time is unbounded |
| `WorkerRegistry` | registration, beats, scan | `registered`, `due`, `failed`, running handlers in `calls`; `broken` remembers workers whose connection broke under a handler |
| `Storage` | the `Storage` trait over redb and Postgres | `rows`, `lock`, per transaction `buf`, `cas`, `won`; `inbox`, `cache` of a subscriber, `lost` the keys of which it missed the last event. `CommitDropped` is a caller of the embedded `commit` that is dropped while the blocking thread commits: the rows are written and nobody is told. The backend is chosen in `Init` |
| `CloudQueue` | SQS and Pub/Sub clients and `drain.rs` | `svc` is the service (external), `inflight` the client's table, `task` the consumers split at their awaits, `drain` the five steps |
| `ObjectStore`, `Snapshots` | three object stores; save, restore and prune over them | `final`, temporaries, `uploads`; `Snapshots` EXTENDS `ObjectStore` and adds rows, the scanned list of a prune and the clock. `shared` are the blobs of which two puts overlapped. `PruneAlone` is the prune of the command line, one process at a time; `Prune` itself has no such guard |
| `EvalJob` | `rollout eval` | EXTENDS `Snapshots`. `items` are the work rows, `reports` the report rows, `eval` the locals of an evaluation between two awaits (`Resolve`, `Start`, then `Look`, `Seed`, `Claim`, `StoreResult`, `Stored`, `Complete` per example, then `PutReport`, `WriteReport`). `Resolve` takes any id of `Asked`, with a snapshot row or without one; the results go through the puts of `ObjectStore` |
| `ToolHarness` | `rollout-harness-tool` | `cmd` (process, pipes, helper), `subtree`, `fetch`. `Signal` kills a command at any point, `ReadError` cuts a read short, which the code does not report |
| `VllmEngine` | the backend, its Python thread and the training loop | `channel`, `serving`, `call` per task, `py` (Python's globals and how many optimizer steps the weights have seen), `algo`, `saved` (the last snapshot), `handle`. The functions of `train.py` are operators on `py` (`Built`, `Forwarded`, `Applied`, `Stepped`, `OnDisk`, ...); each request may fail before, after or in the middle of its own |
| `PluginHost` | `rollout-plugin-host` | `lock`, `handles`, `proc`, `path`, `wire`, `task`; no specification of its own |
| `TextHarness` | `rollout-harness-text` over the plugin host | EXTENDS `PluginHost`. `turn`, `life` are the episodes, `step` the batch a task is in; `given` and `lost` remember what became of each counted turn. `Step`, `Entry` (up to the next await), `Called`, `StepDropped` (while it awaits a reward), `StoreDropped` (while it awaits the episodes' lock), `Close`; every action of the host beside them |
| `*Proofs` | theorems | section 6. `StorageProofs` extends `Storage` and `StorageLease`, `BatchRuntimeProofs` extends `BatchRuntime` and `VllmEngine`; the lease and the backend therefore prefix the names that every specification has (`LeaseInit`, `VllmNext`, ...) |
| `MC*` | instances | section 3 |

Definitions named "Slip" in their comment are deviations a careless change of
the code might introduce (a dropped guard, a missing reset). No specification
uses them; `PROJECT.json` pairs each with the definition it would replace and
the property that notices.

## 3. Runs

| Run | Specification and cfg | Checks | Shows |
|---|---|---|---|
| `storage_lease` | `MCStorageLease`, `LeaseFairSpec` | `LeaseInv` (section 6), `StealOnlyAfterExpiry`, `DeposedNeverReturns`, `ImplementsSuccession`, `DeposedEventuallyStops` | two processes with clocks apart by `ClockSkew`, ambiguous commits and crashes never share an epoch, never take the lease early, never take it back; a deposed one stops; the lease implements `EpochSuccession` |
| `work_ledger` | `MCWorkLedger`, `FairSpec` | `Inv`, `DoneIsTerminal`, `AckOnlyByOwner`, `ImplementsClaims` (of the items that are enqueued once), `EnqueuedEventuallyDone` | three items, two workers that both steal when idle, one of which may die, a coordinator that restarts within a steal. Every item gets done while somebody asks for work, unless live workers take items from each other for ever (`TakenFromTheLiving`), which the code does not exclude (section 8) |
| `batch_runtime` | `MCBatchRuntime`, `FairSpec` | `Inv` (blobs before rows; one generator per sample while the backend is fast), `NothingForgotten`, `OutputIsSound`, `ImplementsClaims` (finished once, by the owner; only the claims of the dead are taken back), `EveryInputSettles` | two workers, two samples, a backend that may be slower than the claim window, a kill and reruns |
| `batch_skipped_input` | `MCBatchRuntimeSkipped.cfg` | `CleanExitCoversInputs` (violated) | section 7 |
| `worker_registry` | `MCWorkerRegistry`, `FairSpec` | `Inv` (with `GoneIsForgotten`: no report about a worker that left), `NoFalseAlarm`, `DeadIsReported` | beats, deregistration, death, scan, SIGTERM, restarts between the transactions of a beat, a broken connection under a handler |
| `storage` | `MCStorage` | `Inv`, `CasReplacesExpected`, `QuietCacheIsCurrent` | two transactions and a watcher on each backend: the watcher has every row but those of which it missed the last event |
| `storage_pg_cas` | `MCStorageWinner.cfg`, `SwapSpec`: transactions that only swap | `CasSingleWinner` (violated) | section 7 |
| `cloud_queue` | `MCCloudQueue`, `FairSpec` | `Inv` (no message leaves unfinished; an extension that is under way holds its entry, `ExtendHoldsEntry`), `EveryMessageSettles` | two consumers of one process, one of a preempted process, both services, failed calls, a drain, a reclaimed node |
| `snapshots_and_eval` | `MCEvalJob` | `Inv` (listed implies stored, `RowHasBlob`; acknowledged implies stored, `AckedIsStored`), `TornOnlyIfShared`, `UploadsAreOwned`, `ReportIsSound`, `NeverEmptied` | two tasks that save, restore and prune over three kinds of store, or evaluate a checkpoint of an earlier process or an id under which nothing is stored, with a failed call, a lost answer or a dead process |
| `tool_harness` | `MCToolHarness`, `FairSpec` | `Inv`, `SuccessIsComplete`, `EveryCallReturns` | commands that hang, fill pipes, die of a signal and leave helpers that may never let go, reads that fail, with and without a delegated cgroup; redirects to good and blocked addresses |
| `vllm_engine` | `MCVllmEngine`, `VllmFairSpec` | `VllmInv`, `StepsAgree`, `EveryCallReturns`, `DropEnds` | a training run and a generating task that may be aborted on a channel of two, with a Python side that fails anywhere |
| `text_harness` | `MCTextHarness`, `FairSpec` | `Inv` (no orphaned child; a reward is asked for exactly while a step awaits one), `AnswerIsOwn`, `TurnsAreReportedOnce`, `DoneIsFinal`, `EveryStepReturns` | two tasks over two episodes and two versions of a sidecar, a PyO3 plugin and a cdylib, which they step, close, load, reload and unload, with dropped futures and crashed sidecars |

`CHECK_DEADLOCK FALSE` is set where the system may really come to rest: all
work done, all processes stopped, or a bound used up. `tool_harness` runs with
deadlock checking.

## 4. Bounds and why they are enough

* Lease: two processes, TTL 1, skew 1, clock to 4: room for a claim, a renewal,
  a steal and the old holder's late tick. A process serves one life, so a third
  one could only repeat the second's part; the proofs cover any number.
* Ledger: three items so that half a backlog (`steal.rs` takes the larger half,
  at most `MaxStealBatch` = 2) leaves something behind; two thieves, which may steal
  from each other; one restart. Each payload is enqueued once; a second copy, which
  is left out of most promises, occurs in the proofs only, in any number.
* Batch: two workers and two samples give one contended and one free sample;
  four worker ids are two process lives. `StaleAfter` = 0 or 1 are the claims
  that are never and for a while fresh after a kill. `MaxErrors` = 1 bounds the
  runs that end in an error: a slow backend with duplicate entries may produce
  them for ever.
* Registry: one worker (workers share no state but the scan, which treats each
  by itself), interval 2 in units of the scan period, skew 1, timeout 3 so that
  the two thresholds differ, and time enough to miss beats twice over.
* Storage: two transactions, two keys, two values, two operations each, a watch
  channel of two so that it can lag. `Txn`, `Key` and `Value` are symmetric.
* Cloud queue: one message (messages share only the table, keyed by id), three
  consumers, two faults: one each for a service call and a redelivery.
* Snapshots: an empty blob and one of three units, chunk size 2, so that a stream
  ends without a chunk, and with a full chunk and a rest, in reads of any length;
  one fault. The lengths 1, 2 and 4 in their place hold as well. The two tasks
  are symmetric.
* Evaluations: two examples, so that one is over while the next is at work; two
  evaluations, which is what it takes for one to put the result the other is
  putting. They run over the local store, the only one `rollout eval` opens. The
  ids asked for are a tar, which a prune may take off the list, and the id of
  something nobody has saved.
* Tool harness: pipes hold one unit; commands write none, one or two, to the stream
  that is read first or to the other; so do the helpers they fork, and one detaches.
* vLLM: channel of 2, up to 2 prompts, 2 steps, fresh or resumed at 3.
* Plugin host and text harness: 2 tasks, 3 operations, 2 children, 2 faults:
  load-step-step, load-load-step and load-reload-step, each with a drop and a
  crash. Two episodes, two turns and batches of at most two entries: a batch may
  name one episode twice, and a step may go past the last turn (without a reward
  plugin; with one that takes a fourth operation, for which `DoneIsFinal` rests on
  its theorem). The plugin host
  alone with 4 operations and one fault (970 000 states) holds as well.

All remaining bounds (`MaxClock`, `MaxRestarts`, `MaxFaults`, `MaxStrays`,
`MaxRedirects`, `MaxSpawns`, `MaxOps`, `MaxRuns`, `MaxBatch`) only cap counters, in guards.

## 5. Fairness

* `StorageLease`: weak fairness of the acquire path and of the renew loop: tokio
  polls a task that is ready, and the interval fires.
* `WorkLedger`: the coordinator goes on dispatching, to whichever worker asks;
  each worker that can take a step of its own, or have a step of its steal
  served, in the end does. Dying, restarting and asking for a steal are not such
  steps, and the dead take none: nothing in the code makes a worker ask, so a
  behaviour in which nobody asks any more is excepted, and so is one in which live
  workers take items from each other for ever. `EnqueuedEventuallyDone` is stated as "time and again all
  payloads enqueued so far are done": only finitely many are enqueued and
  `Done` is final for those enqueued once.
* `BatchRuntime`: the operator runs the command again, time passes, the tasks of
  a running process are scheduled. `EveryInputSettles` is under the premise that
  the backend answers within the window (`[](~slow)`).
* `WorkerRegistry`: time passes, the scan ticks, handlers get on, a coordinator
  that died is restarted.
* `CloudQueue`: consumers poll and finish, calls return, a lease nobody extends
  runs out, a preempted node is reclaimed in the end. One process is never
  preempted, and failing calls are bounded.
* `ToolHarness`: the harness gets on, names resolve or fail, time passes.
  Commands, helpers and peers are unconstrained: they may hang. That a helper lets
  go of the pipes of its command is a premise of `EveryCallReturns`, not assumed
  of the system: the reads after the wait have no deadline.
* `VllmEngine`: the thread runs and Python returns; strong fairness of `Send`,
  because tokio's bounded channel serves waiting senders in order.
* `TextHarness`: tasks get on, a plugin serves what it is asked (a call to a
  sidecar has no timeout, `sidecar.rs:101`, so one that never answers holds the
  host's lock for ever; that case is assumed away); strong fairness of taking the host's lock, because tokio's `Mutex` is first in, first out.
* `EvalJob` and `Storage` have safety properties only.

## 6. Proofs

TLAPS checks eight modules; their assumptions are the named `ASSUME`s of the
modules they extend, which TLC evaluates in the runs.

**`StorageProofs`, the lease** (from `LeaseAssumption`: naturals, and `None` is
none of the values it stands beside). That two processes never share an epoch is
not inductive: a process may be about to swap out a row it read long ago. `LeaseInv`
adds what makes the late swap harmless: what a claim swaps out had expired on
its own clock (`ClaimSawExpired`), what a renewal swaps out is the process's own
record and still there unless it was deposed (`RenewSawOwn`), the holder on
record ran its claim and adopted no other epoch (`HolderHasClaimed`,
`AdoptedWhenServing`), and a serving process is the holder or strictly behind
(`ServingIsHolderOrBehind`). `LeaseInvariance` proves
`LeaseSpec => []LeaseInv` action by action; from it follow `LeaseTypeCorrect`,
`EpochIsExclusive`, `RowsInStep`, `HolderOrBehind`, `FenceIsSound`, the action
properties `NoEarlySteal` and `NoReturn`, and `LeaseRefinement`: every step of `StorageLease` is a step of
`EpochSuccession` or leaves its variables alone.

**`StorageProofs`, the store** (from `StorageAssumption`). `SwapIsAtomic` proves
`CasReplacesExpected` for both backends, any transactions, keys and values. The
invariant: what a transaction wrote it has locked (`WritesAreLocked`), the
embedded backend's open transaction has every lock (`EmbeddedIsExclusive`), and
a swap of a row that exists keeps it locked and unchanged from its read to its
write (`SwapIsGuarded`) and to its commit (`WonIsGuarded`). The exception in the
property, an absent row on Postgres, is the finding below. `QuietMeansCurrent`
proves `QuietCacheIsCurrent`. Its invariant `News` follows an event from the
write to the subscriber: a transaction has an event for every row it wrote until
it commits (`WritesAreAnnounced`), and a row of which the subscriber's copy is
wrong has an event on its way to it (`NewsIsComing`), unless its last event was
dropped by the channel or never published by a commit whose caller was gone.

**`WorkLedgerProofs`** (from `WorkLedgerAssumption`). `Invariance`: nothing is
stranded `Pending`, a payload is in the queue or in the ledger
(`QueuedOrInLedger`), which needs that a payload enqueued once has one entry
(`OneEntry`), and what workers and steals still hold was `Running` when they
read it (`HeldWasOwn`). From it `DoneIsFinal` and `OwnerCompletes`.

The last part of the module is the refinement. `LedgerImplementsClaims` proves
`Spec => ImplementsClaims`: over the items that may be enqueued once
(`Once`), the queue and the ledger are a `ClaimTable`. The mapping reads `item`
off the two namespaces, `owner` off the `Running` row, and `working` off what
workers hold. `Inv` is not enough for it, and `RefInv` adds three parts: an
item is enqueued no more often than it may be (`CopiesBounded`, so that a
dispatch finds no row of an earlier copy), what a worker has read names each
item once (`OneRecord`, so that its ack ends its work on the item), and a thief
never steals from itself (`FromOthers`, so that a take-over changes the owner).
Then each action has a lemma: `Enqueue` is an `Offer`, `Dispatch` a `Claim`, the
last step of a steal a `Claim` from the old owner, an ack that wins a `Finish`,
one that loses or a death a `Leave`, and the rest leaves the mapped state alone.
An item enqueued twice is excluded because the code does run it twice (section 8).

**`BatchRuntimeProofs`, the runtime** (from `BatchRuntimeAssumption`). The properties say what
is so at one moment; a kill and the scan of the next process lie between two of
them, so `IInv` says how far the process has come: the rows the scan has passed
are queued (`ScanKeepsUp`), entries are in one hand at a time and stored until
they are acked (`EntriesApart`), a worker owns what it is at work on and nothing
else (`OwnersWork`), the record it read is the row's while the row is `Pending`
(`RecIsRow`), the claims of a pool that is in time are fresh (`InTime`), and the
output is what the rows before the cursor say (`Written`). From `Induction`
follow `Invariance`, `NoneForgotten`, `SoundOutput` and `BatchImplementsClaims`,
the refinement of `ClaimTable`: a claim, a finish, a failure (the row is `Failed`
and waits: `GiveBack`) and a scan that takes a dead owner's row back are its
steps, and all else leaves the mapped state alone.

**`BatchRuntimeProofs`, the vLLM backend** (from `VllmAssumption`: the trainer is
one of the tasks, the channel and a call have room for at least one request).
That an unanswered request of a waiting caller is under way is not inductive: a
caller is aborted, its requests stay in the channel without it, and it may begin
another call. `VllmIInv` reads the request in hand and the channel as one line
and relates it to the calls (`Agree`): a request with a caller is one that this
caller has sent and has no answer to, no two requests with a caller are the same,
and no unanswered one is missing; nothing is in the line once the thread is gone
(`LineFits`). For the counters it says which call the trainer is in at each phase
of the algorithm, and that nobody else trains (`AlgoFits`): what is left in the
line without a caller is then never a training request (`RequestFits`), so Python
applies a step only while the trainer waits for it, and where the counter stands
follows from whether the answer is there (`StepsFit`): weights and counter agree,
except for the step under way and one that failed after it was applied
(`Counted`). The lemmas about the line
are about any sequence of requests, one for each thing that can happen to it (a
request behind it, its first taken or served, the requests of one task given up,
all of it dropped). `VllmInvariant` proves `VllmInv`, `VllmCountsAgree` proves
`StepsAgree`.

**`ToolHarnessProofs`** (from `ToolHarnessAssumption`). `SuccessIsComplete` is
about a call that is over, whose command is long gone. `CommandAt` says what is
known of the command at each place of the call: before the spawn nothing runs; a
command that exited by itself has written all it had and forked its helper; a call
that has neither failed nor timed out is past the wait only when the command
exited or was ended by a signal, and past a stream only when its pipe is empty and
no helper can write to it any more, or its read failed.
That the pipe stays empty is what the step of every writer has to keep. The
subtree is left behind by nobody but a call that says so, because its processes
belong to calls that have still to drop it (`MembersHold`), which makes
`LastCallRemoves` inductive: a remove fails only on a process of another call,
which has yet to end, or on one that outlived its own. `FetchesFit` carries the
filter's verdict from the resolver to the connection. `ToolInvariant` proves
`Inv` and `ToolSuccess` proves `SuccessIsComplete`; `PipeSize` bounds nothing in the argument.

**`CloudQueueProofs`** (from `CloudQueueAssumption`). A delete removes whatever
its task holds, so `NoMessageLost` needs that a task which is about to delete
holds a finished message (`AcksFinished`); `ExtendHoldsEntry` needs the mutex of
the client's table (`ExtendLocks`, `OneExtends`). `Invariance` proves both.

**`WorkerRegistryProofs`** (from `WorkerRegistryAssumption`). A beat takes
several transactions, so what the rows say depends on the calls under way. While
its connection holds, a worker has one call out (`OneCall`), a call is cut by the
death of the worker only (`CutIsBroken`), a worker that has left has none
(`GoneIsSilent`), and an older beat is not answered after a newer one
(`InOrder`). From it `Invariance`, and the action property `NoFalseAlarm`
(`NoEarlyReport`).

**`EvalJobProofs`** (from the assumptions of `ObjectStore`, `Snapshots` and
`EvalJob`: finitely many tasks, at least one example, and two results of an
example are two blobs). The invariant has a part for each of the three modules:
a put that has only to finish has its blob in place and a stream that is through
was sent to its end (`OSInv`), a save is at the blob it puts and the blob of a
row about to be committed is stored (`SnapInv`), and what a report will say of
the examples so far is what the items say (`EvalInv`). `UploadsAreOwned` is an
equation between a counter and the number of puts that are uploading, so each
step has a lemma on how that set grows or shrinks. `NotTornAlone` proves
`TornOnlyIfShared`: a put that is alone with its temporary renames what it wrote.
`SoundReports` adds up: the
scores of a report are the number of items with a passing result, by the library's theorems on
cardinality, and the tar is fetchable if the report names a snapshot.
`SomeSnapshotStays` proves `NeverEmptied` from `KeepsOne`, every
policy keeps at least one row, which the code's default does; without it the
statement is false.

**`TextHarnessProofs`** (from the assumptions of `PluginHost`, which ask for at
least one plugin id and for modes among the three, and of `TextHarness`). The
module proves about the host and the harness together, because the harness's
steps are the host's callers. `HostInv` says who has which child. A spawn
belongs to one handle, or to one task that brings it up or takes it down
(`Excl`), of the plugin it was started for (`HandleOK`, `TaskOK`), and what has
not been spawned is nowhere (`Fresh`, `ConnsMatch`); the lock is held exactly at
work (`LockHeld`); a child that is alive has an owner (`ChildrenOwned`). For
`AnswerIsOwn` it follows the streams: between two calls nothing is under way on
one whose callers all had their answers (`Quiet`), and during a call nothing but
its request or its answer (`InTurn`), unless the process is dead; and while no
two spawns of a name have overlapped, the path of a name leads to the one process
that is being connected to (`NoOverlap`). `TextInv` says of every counted turn
that it is in one place, reported, lost with a batch
or held by one step (`Accounted`), of a step that it is within its batch and has numbers
for its requests (`StepOK`), and of an episode that was over when a step began
that it is closed or has used its turns (`StaysOver`, `LivesOK`). Each action has
a lemma; `Ends`, `Moves`, `Started` and `Aside` carry what a task's return, a
move under the lock, a spawn and a step of a plugin have in common. From
`Induction` follow `Invariance`, `OwnAnswers`, `TurnsAccounted` and the action
property `DoneStaysDone`.

With these, every invariant, action property and refinement that a passing run
checks is a theorem. Only model-checked, because out of the prover's reach: the
nine liveness properties (fairness and `ENABLED`). The two properties that a run
shows to be violated (section 7) are not theorems of the code.

## 7. Findings

* `batch_skipped_input`: `docs/book/src/inference/resume.md:3` promises "zero
  duplicates and no skipped inputs". A process that is started again within
  `stale_after_ms` of a kill skips the dead process's `Running` rows as live,
  acks the replayed entry because the claim is refused
  (`rollout-runtime-batch/src/worker.rs:184`), and ends without an error and
  without those inputs. A run after the window finishes them
  (`EveryInputSettles`).
* `storage_pg_cas`: on Postgres, with transactions that do nothing but swap, two
  swaps that expect the same absent row both win:
  `SELECT ... FOR UPDATE` locks nothing, and the upsert overwrites
  (`rollout-storage/src/postgres/mod.rs:254`). `traits/storage.rs:132` and
  `tests/postgres_lease.rs:110` expect a single winner. On Postgres the first
  claim of the coordinator lease would be exposed to it; `run()` uses the
  embedded store today.

## 8. Divergences met while modelling, without a run of their own

Lease and ledger
* Between a steal and the old holder's next renew tick two coordinators serve
  (`docs/specs/05-distribution.md:135`); the model bounds it by
  `DeposedEventuallyStops`.
* When `current()` fails, the fence event names the stale epoch as the observed
  one (`run.rs:201` against `fence.rs:36`).
* A payload enqueued again is dispatched over its `Done` row and runs again
  (`ledger.rs:143` against `run.rs:20`).
* `Ulid::new` is not monotonic within a millisecond (`ledger.rs:76` against `:66`).
* `05-distribution.md:126-128` has in-flight work moved back; the code never
  does. Replayed pending and in-flight items are only logged.
* Two idle workers can steal one long item from each other for ever: `steal.rs`
  picks the busiest peer whether or not it is about to ack. The run has two thieves
  and `EnqueuedEventuallyDone` excepts it (`TakenFromTheLiving`).

Registry and drain
* `worker run` never deregisters (`worker.rs:195` against `coordinator.md:86`).
* An older beat may overwrite a later one after a broken connection
  (`heartbeat.rs:121` against `coordinator.md:28`).
* A missed beat may be reported later than twice the interval
  (`failure_scan.rs:71` against `run.rs:295`).
* SIGTERM stops the failure scan only.
* `drain.rs:123` calls the nack idempotent; a worker's ack before it makes it
  fail with `NotInFlight`, which ends the drain before `deregister`.
  `SnapshotterImpl::save` refuses every `TrainState`, so a drain with a snapshot
  plan fails at that step.

Batch, store, objects, snapshots
* A `Failed` sample is enqueued again (`coordinator.rs:69`, as `batch-runtime.md:88-90`
  and `:115` say) and then skipped by the worker (`worker.rs:156`), so it is never
  retried. In the refinement such a row is waiting, not over; `EveryInputSettles`
  counts it as settled. The rewrite of `completions.jsonl` is not atomic.
* `docs/book/src/inference/resume.md:73`: "mixing models triggers
  `Fatal(ConfigInvalid)` at scan time". The scan derives new sample ids and goes
  on; the report then lists the finished rows of both models
  (`rollout-cli/src/infer.rs:262`). It pairs rows with the present inputs by
  their position, so inputs edited between two runs get completions of others.
* The embedded `commit` awaits a blocking thread and publishes afterwards
  (`embedded/txn.rs:201-208`): a future dropped at that await commits without
  announcing it, against `storage.md:40`. `QuietCacheIsCurrent` leaves out that key
  until its next event.
* `scan_bytes` treats a missing run id as a wildcard on one backend only;
  `get_many_bytes` of the embedded backend lacks the `eval_reports` namespace.
* Two puts of the same content share `<id>.tmp`, so that a torn file may stand
  at the blob's place for a while, and for good after a cut write
  (`object_store.rs:70` against `docs/specs/06-cloud-layer.md:95` and `:108`, "no torn
  writes"). `TornOnlyIfShared` says that nothing else tears a blob.
* Saving the same content again overwrites label and time of its row, and a
  prune with an older list may then delete it.
* GCS: the range of a final empty chunk (`gcs/put_stream.rs:69-74`).
* `--resume` opens the store a second time, which redb refuses
  (`docs/book/src/training/cli.md:133-141`); a resumed run restores the step
  counter only (`rollout-algo-sft/src/algo.rs:161-175`, `rollout-algo-rm/src/algo.rs:162-178`,
  `rollout-cli/src/train.rs:120-123`) and `load_weights` does nothing
  (`backend.rs:231-240`), so the step of its snapshots is not that of their weights;
  `StepsAgree` counts from the start of the run. `snapshot_save` is called by tests
  only. An exception after `optimizer.step()` and before the counter
  (`train.py:231-233`) leaves a step applied and not counted.

Backends, plugins, harnesses
* `VllmEngine::drop` with a full channel never joins (`engine.rs:148-150`); the
  mode `Inference` is never set, so `set_train_mode(true)` after `init` is not
  refused (`train.rs:43`).
* A sidecar that crashed is not started again (`docs/specs/03-plugin-system.md:96`,
  `:235`): calls fail until `reload`. `respawn` says "fresh UDS path" and uses
  the old one. Two versions of a sidecar share a path, so overlapping loads may
  connect to each other's process (`03-plugin-system.md:264` has instances fully
  isolated). A `call` future dropped before its answer
  leaves that answer to the next caller of the stream. A `load` that fails in
  `persist_manifest` leaves the plugin loaded.
* A command that writes more than a pipe holds is reported as timed out; a
  descendant that holds the pipes keeps `invoke` past its timeout, and one that
  fills stderr while stdout is read blocks it for good (`launcher.rs:204-211`
  against `docs/specs/07-harnesses.md:287`). A command that a signal ended (a limit,
  the OOM killer, seccomp) is a success with `exit_code` -1 (`launcher.rs:214`,
  `lib.rs:276-280`; `07-harnesses.md:288` has an error), and errors of the reads are
  discarded (`launcher.rs:206`, `:210`), so a success may lack output. The cgroup subtree is one per
  process, not one per call. File tools work in a fresh directory each time, so
  `file_read` never finds what `file_write` wrote (`07-harnesses.md:152`).
* `harness-eval/src/job.rs:6` calls a second enqueue of an example "a
  single-winner no-op" and `:57` the job idempotent. The code reads the row in one
  transaction and writes `Pending` blindly in another, over whatever came between,
  and returns `Ok` although its claim or its completion lost. Run ids are fresh,
  so nobody else writes these rows; `ReportIsSound` holds for that reason only.
* An IFEval prompt that is left out of the metric has the score 0.0 in its
  stored result and -1.0 in the report (`harness-eval/src/lib.rs:290-297`).
* `run_eval` promises `ConfigInvalid` for an unresolved checkpoint
  (`rollout-cli/src/eval.rs:99`); an id without a snapshot row is taken for the id
  of the blob itself, and nothing looks whether it is there.
* An error of one reward ends the batch (`harness-text/src/lib.rs:175-178`, against
  its own comment at `:165`): results
  of the entries before it are lost, their turns and its own stay counted.
  `docs/specs/07-harnesses.md:289` has "other episodes in batch unaffected; failed
  episode marked `done` with `info.error`". `TurnsAreReportedOnce`
  keeps those turns apart (`lost`): it says that they are not reported later, not
  that they are not lost.

## 9. Limits of the models

* Lease: `run()` opens the embedded store, whose file lock already excludes a
  second process. The model is of the lease's own contract over a store that
  several processes share, which is what the trait is for.
* Ledger: a transaction is one step; `Failed` rows are never written by any code.
* Batch: the deque is a set (it is in id order, section 2); backends are
  abstracted to fast or slow, and to success or failure. `poll_preemption` and
  the stop-pull flag have no caller outside tests.
* Storage: on Postgres, a statement is one step once its row lock is free;
  a transaction may abort at any point, which is how its deadlocks end.
* Cloud queue: a lease, the deadline and the reclaim may come at any moment.
* Snapshots: a prune is started by the command line, and one process has the
  embedded store open, so `PruneAlone` starts one while no other is under way; a machine crash that loses
  unsynced writes is not modelled.
* Evaluations: the embedded store is open in one process at a time, so a run
  either takes snapshots or evaluates, and a prune comes between evaluations. A
  report's put is one step: its content has times in it, so no other put shares
  its name. The checks of answers are their outcome (pass, fail, left out).
* Tool harness: file tools and unknown tools return in one step and share no
  state. What seccomp and landlock forbid is the kernel's matter.
* vLLM: one engine and one algorithm; exclusive use of the backend is Rust's
  borrow rule. `_STATE` of `train.py` is global to the process: a second backend
  would inherit it. `LoadWeights` is never sent.
* Plugin host: modelled with the `pyo3`, `sidecar`, `cdylib` and
  `dev-hot-reload` features on, and sidecars that behave as
  `python/examples/sample_sidecar` does (one connection, one request at a time).
  A write never fills the socket's buffer.
* Text harness: an environment is reset in the same step as the first batch that
  uses it, since nobody knows its episodes before; of the episodes, which are
  alike, the last is closed first; an environment without a reward plugin
  never meets the host and is considered alone. Texts and the seeded generator's
  values are left out (one value is drawn with every counted turn).

## 10. Not modelled

* Of the evaluation harness: datasets, the scoring of answers and the
  instruction-level metric, which are text processing and sums.
* Of the tool harness: the file tools, each alone in a directory of its own.
* Transport: beats and `is_failed` are in `WorkerRegistry`; the control and work
  channels answer with constants; TLS is library configuration.
* AWS and GCP metadata and secrets: clients without state. The preemption notice
  is an input of `CloudQueue`.
* Local secrets and hints, configuration, event emitter, command line, core
  traits and generated protocol code: parsing, wiring and declarations.
* `EpochGuard` and `stamp_epoch` have no caller yet.

## 11. Plan

Order: what many components rest on first, then the components by how much of
their correctness lies in interleavings.

1. Done: `StorageLease` with `EpochSuccession`, `WorkLedger` and `BatchRuntime`
   with `ClaimTable`, `WorkerRegistry`, `Storage`, `CloudQueue`, `ObjectStore`,
   `Snapshots` and `EvalJob`, `ToolHarness`, `VllmEngine`, `PluginHost` with
   `TextHarness`.
2. Done: proofs of the safety properties of all of them, with the three
   refinements.
3. Worth modelling still: an abstract at-least-once queue that `CloudQueue`
   implements, two and more kills in `BatchRuntime`, `EpochGuard` once it has a
   caller.
