----------------------------- MODULE BatchRuntime -----------------------------
(***************************************************************************)
(* `rollout infer batch` (crates/rollout-cli/src/infer.rs): one process    *)
(* opens the run's store, replays the local queue                          *)
(* (crates/rollout-cloud-local/src/queue.rs), scans its inputs             *)
(* (crates/rollout-runtime-batch/src/coordinator.rs) and lets a pool of    *)
(* workers (worker.rs, state.rs) drain the queue.  The process may be      *)
(* killed between any two steps and is run again over what it left.        *)
(*                                                                         *)
(* A row does not carry its started_at_ms but the age of its claim, which  *)
(* Tick advances and which stops counting once it is past the window: the  *)
(* model has no bound on time.  Only the scan enqueues, with growing ids,  *)
(* and no one nacks here, so the deque is in id order and a set will do.   *)
(***************************************************************************)
EXTENDS Integers, FiniteSets

CONSTANTS N,            \* number of inputs
          WorkerId,     \* worker ids, as numbers: each run takes fresh ones
          WorkerCount,  \* workers.count
          NoWorker,     \* the owner of a row that is not Running
          StaleAfter,   \* stale_after_ms
          MaxErrors     \* bound: the runs that end in an error or a kill

ASSUME BatchRuntimeAssumption ==
  /\ N \in Nat
  /\ WorkerCount \in Nat \ {0}
  /\ WorkerId \subseteq Nat
  /\ NoWorker \notin WorkerId
  /\ StaleAfter \in Nat
  /\ MaxErrors \in Nat

VARIABLES row,      \* durable: the infer/<run>/samples rows
          prompts,  \* durable: the samples whose prompt blob is stored
          completions, \* durable: the samples whose completion blob is stored
          spill,    \* durable: the cloudlocal_queue rows
          output,   \* durable: the samples listed in completions.jsonl
          exit,     \* how the last run ended
          phase,    \* of the process
          cursor,   \* the input scan_and_enqueue is at
          stage,    \* ... and how far it is with it
          stale,    \* the rows that were stale when the scan sampled the clock
          live,     \* the workers of this process
          deque,    \* the queue in memory
          wk,       \* what each worker is doing
          errors,   \* runs that ended in an error or a kill
          slow      \* has a worker been at a sample for longer than the window?

durable == <<row, prompts, completions, spill, output>>
process == <<phase, cursor, stage, stale, live, deque, wk, exit>>
vars == <<row, prompts, completions, spill, output, exit, phase, cursor, stage,
          stale, live, deque, wk, errors, slow>>

Sample == 1 .. N

Row == [st : {"Absent", "Pending", "Running", "Done", "Failed"},
        worker : WorkerId \cup {NoWorker}, age : 0 .. StaleAfter + 1]

Idle(st) == [st |-> st, worker |-> NoWorker, age |-> 0]

Running(w) == [st |-> "Running", worker |-> w, age |-> 0]

Entry == [id : Nat, sample : Sample]
NoEntry == [id |-> 0, sample |-> 0]

WorkerState == [pc : {"idle", "read", "claim", "generate", "complete", "fail",
                      "ack", "drained"},
                entry : Entry \cup {NoEntry}, rec : Row]

FreshWorker == [pc |-> "idle", entry |-> NoEntry, rec |-> Idle("Absent")]

TypeOK ==
  /\ row \in [Sample -> Row]
  /\ prompts \in SUBSET Sample
  /\ completions \in SUBSET Sample
  /\ spill \in SUBSET Entry
  /\ output \in SUBSET Sample
  /\ exit \in {"none", "clean", "error"}
  /\ phase \in {"down", "scan", "serve", "write"}
  /\ cursor \in 1 .. N + 1
  /\ stage \in {"look", "row", "enqueue"}
  /\ stale \in SUBSET Sample
  /\ live \in SUBSET WorkerId
  /\ deque \in SUBSET Entry
  /\ wk \in [WorkerId -> WorkerState]
  /\ errors \in Nat
  /\ slow \in BOOLEAN

Init ==
  /\ row = [s \in Sample |-> Idle("Absent")]
  /\ prompts = {} /\ completions = {} /\ spill = {} /\ output = {}
  /\ exit = "none"
  /\ phase = "down"
  /\ cursor = 1 /\ stage = "look" /\ stale = {}
  /\ live = {} /\ deque = {}
  /\ wk = [w \in WorkerId |-> FreshWorker]
  /\ errors = 0
  /\ slow = FALSE

-----------------------------------------------------------------------------
(* The state machine of a sample (state.rs): every transition compares the *)
(* row with the record the caller read.                                    *)

\* cas_bytes compares the encoded records; the age is not part of them.
SameRow(s, rec) == row[s].st = rec.st /\ row[s].worker = rec.worker

IsStale(s) == row[s].st = "Running" /\ row[s].age > StaleAfter

\* Slip: a Running row is claimed whether or not its owner is late.
TryClaimFresh(s, rec) == SameRow(s, rec) /\ rec.st \in {"Pending", "Running"}

\* try_claim applies: Pending, or Running past the window.
TryClaim(s, rec) == SameRow(s, rec) /\ (rec.st = "Pending" \/ IsStale(s))

\* Slip: the result is written whoever owns the row by now.
StillMineBlind(w, s) == TRUE

\* try_complete and try_fail apply: the row is the one this worker wrote.
StillMine(w, s) == SameRow(s, Running(w))

-----------------------------------------------------------------------------
(* The local queue (InMemQueue): each entry is spilled to the store.       *)

Ids == {e.id : e \in spill}
NextId == IF Ids = {} THEN 1 ELSE 1 + CHOOSE m \in Ids : \A k \in Ids : k <= m

\* pop_front
Front == CHOOSE e \in deque : \A f \in deque : e.id <= f.id

-----------------------------------------------------------------------------
(* The process.                                                            *)

Owners == {row[s].worker : s \in Sample}

\* Open the store, replay the queue, start the scan.  The workers' ids are
\* fresh ULIDs: none of them owns a row, and one is as good as another.
Start ==
  /\ phase = "down"
  /\ errors <= MaxErrors
  /\ \E L \in SUBSET (WorkerId \ Owners) :
       /\ Cardinality(L) = WorkerCount
       /\ \A w \in L, v \in (WorkerId \ Owners) \ L : w < v
       /\ live' = L
  /\ phase' = "scan"
  /\ cursor' = 1
  /\ stage' = "look"
  /\ stale' = {s \in Sample : IsStale(s)}
  /\ deque' = spill
  /\ exit' = "none"
  /\ UNCHANGED <<row, prompts, completions, spill, output, wk, errors, slow>>

\* The process ends; what it holds in memory is gone.
End(how) ==
  /\ phase' = "down"
  /\ cursor' = 1
  /\ stage' = "look"
  /\ stale' = {}
  /\ live' = {}
  /\ deque' = {}
  /\ wk' = [w \in WorkerId |-> FreshWorker]
  /\ exit' = how

Kill ==
  /\ phase # "down"
  /\ errors < MaxErrors
  /\ errors' = errors + 1
  /\ End("error")
  /\ UNCHANGED <<durable, slow>>

\* Time passes: claims age.
Tick ==
  /\ \E s \in Sample : row[s].st = "Running" /\ row[s].age <= StaleAfter
  /\ slow' = (slow \/ \E s \in Sample : row[s].worker \in live /\ row[s].age >= StaleAfter)
  /\ row' = [s \in Sample |->
               IF row[s].st = "Running" /\ row[s].age <= StaleAfter
               THEN [row[s] EXCEPT !.age = @ + 1] ELSE row[s]]
  /\ UNCHANGED <<prompts, completions, spill, output, process, errors>>

-----------------------------------------------------------------------------
(* scan_and_enqueue, input by input.                                       *)

Scanning(st) == phase = "scan" /\ cursor <= N /\ stage = st

\* Slip: a Running row is left to its owner, dead or alive.
RependStaleNever == FALSE

\* The row under the cursor is a Running one past the window.
RependStale == row[cursor].st = "Running" /\ cursor \in stale

\* An absent input: the prompt blob first.
ScanAbsent ==
  /\ Scanning("look")
  /\ row[cursor].st = "Absent"
  /\ prompts' = prompts \cup {cursor}
  /\ stage' = "row"
  /\ UNCHANGED <<row, completions, spill, output, exit, phase, cursor, stale,
                 live, deque, wk, errors, slow>>

\* ... then its Pending row.
ScanPut ==
  /\ Scanning("row")
  /\ row' = [row EXCEPT ![cursor] = Idle("Pending")]
  /\ stage' = "enqueue"
  /\ UNCHANGED <<prompts, completions, spill, output, exit, phase, cursor,
                 stale, live, deque, wk, errors, slow>>

\* An unfinished input: a stale claim is swapped back to Pending, a Pending or
\* a Failed row is left as it is; all are enqueued.
ScanUnfinished ==
  /\ Scanning("look")
  /\ \/ row[cursor].st \in {"Pending", "Failed"} /\ UNCHANGED row
     \/ RependStale /\ row' = [row EXCEPT ![cursor] = Idle("Pending")]
  /\ stage' = "enqueue"
  /\ UNCHANGED <<prompts, completions, spill, output, exit, phase, cursor,
                 stale, live, deque, wk, errors, slow>>

\* A Done row, or a Running one that is fresh: skip.
ScanSkip ==
  /\ Scanning("look")
  /\ row[cursor].st = "Done" \/ (row[cursor].st = "Running" /\ ~RependStale)
  /\ cursor' = cursor + 1
  /\ UNCHANGED <<row, prompts, completions, spill, output, exit, phase, stage,
                 stale, live, deque, wk, errors, slow>>

\* Slip: the entry is kept in memory only.
ScanEnqueueUnspilled ==
  /\ Scanning("enqueue")
  /\ deque' = deque \cup {[id |-> NextId, sample |-> cursor]}
  /\ cursor' = cursor + 1
  /\ stage' = "look"
  /\ UNCHANGED <<row, prompts, completions, spill, output, exit, phase, stale,
                 live, wk, errors, slow>>

\* enqueue: spill the entry, then push it.
ScanEnqueue ==
  /\ Scanning("enqueue")
  /\ spill' = spill \cup {[id |-> NextId, sample |-> cursor]}
  /\ deque' = deque \cup {[id |-> NextId, sample |-> cursor]}
  /\ cursor' = cursor + 1
  /\ stage' = "look"
  /\ UNCHANGED <<row, prompts, completions, output, exit, phase, stale, live,
                 wk, errors, slow>>

\* The scan is through: spawn the workers.
ScanDone ==
  /\ phase = "scan"
  /\ cursor > N
  /\ phase' = "serve"
  /\ UNCHANGED <<durable, exit, cursor, stage, stale, live, deque, wk, errors, slow>>

-----------------------------------------------------------------------------
(* run_loop and run_one of a worker.                                       *)

At(w, pc) == phase = "serve" /\ w \in live /\ wk[w].pc = pc
Goto(w, pc) == wk' = [wk EXCEPT ![w].pc = pc]
S(w) == wk[w].entry.sample

Dequeue(w) ==
  /\ At(w, "idle")
  /\ deque # {}
  /\ deque' = deque \ {Front}
  /\ wk' = [wk EXCEPT ![w] = [FreshWorker EXCEPT !.pc = "read", !.entry = Front]]
  /\ UNCHANGED <<durable, exit, phase, cursor, stage, stale, live, errors, slow>>

Drained(w) ==
  /\ At(w, "idle")
  /\ deque = {}
  /\ Goto(w, "drained")
  /\ UNCHANGED <<durable, exit, phase, cursor, stage, stale, live, deque, errors, slow>>

\* Load the record; a missing or terminal one is acked and skipped.
ReadRecord(w) ==
  /\ At(w, "read")
  /\ wk' = [wk EXCEPT ![w].rec = row[S(w)],
                      ![w].pc = IF row[S(w)].st \in {"Absent", "Done", "Failed"}
                                THEN "ack" ELSE "claim"]
  /\ UNCHANGED <<durable, exit, phase, cursor, stage, stale, live, deque, errors, slow>>

Claim(w) ==
  /\ At(w, "claim")
  /\ IF TryClaim(S(w), wk[w].rec)
     THEN row' = [row EXCEPT ![S(w)] = Running(w)] /\ Goto(w, "generate")
     ELSE UNCHANGED row /\ Goto(w, "ack")
  /\ UNCHANGED <<prompts, completions, spill, output, exit, phase, cursor,
                 stage, stale, live, deque, errors, slow>>

\* Read the prompt, generate, store the completion blob.
Generate(w) ==
  /\ At(w, "generate")
  /\ S(w) \in prompts
  /\ completions' = completions \cup {S(w)}
  /\ Goto(w, "complete")
  /\ UNCHANGED <<row, prompts, spill, output, exit, phase, cursor, stage, stale,
                 live, deque, errors, slow>>

\* The backend answers with an error.
GenerateError(w) ==
  /\ At(w, "generate")
  /\ S(w) \in prompts
  /\ Goto(w, "fail")
  /\ UNCHANGED <<durable, exit, phase, cursor, stage, stale, live, deque, errors, slow>>

Complete(w) ==
  /\ At(w, "complete")
  /\ StillMine(w, S(w))
  /\ row' = [row EXCEPT ![S(w)] = Idle("Done")]
  /\ Goto(w, "ack")
  /\ UNCHANGED <<prompts, completions, spill, output, exit, phase, cursor,
                 stage, stale, live, deque, errors, slow>>

\* The swap is lost: a Fatal error ends the loop, and with it the whole pool.
CompleteLost(w) ==
  /\ At(w, "complete")
  /\ ~StillMine(w, S(w))
  /\ errors' = errors + 1
  /\ End("error")
  /\ UNCHANGED <<durable, slow>>

\* try_fail; whether it applied is ignored.
Fail(w) ==
  /\ At(w, "fail")
  /\ row' = IF StillMine(w, S(w))
            THEN [row EXCEPT ![S(w)] = Idle("Failed")] ELSE row
  /\ Goto(w, "ack")
  /\ UNCHANGED <<prompts, completions, spill, output, exit, phase, cursor,
                 stage, stale, live, deque, errors, slow>>

Ack(w) ==
  /\ At(w, "ack")
  /\ spill' = spill \ {wk[w].entry}
  /\ wk' = [wk EXCEPT ![w] = FreshWorker]
  /\ UNCHANGED <<row, prompts, completions, output, exit, phase, cursor, stage,
                 stale, live, deque, errors, slow>>

\* All workers returned: collect the Done rows and truncate completions.jsonl.
Collect ==
  /\ phase = "serve"
  /\ \A w \in live : wk[w].pc = "drained"
  /\ phase' = "write"
  /\ cursor' = 1
  /\ output' = {}
  /\ UNCHANGED <<row, prompts, completions, spill, exit, stage, stale, live,
                 deque, wk, errors, slow>>

\* Slip: whatever has a completion is reported.
ReportedWithBlob(s) == s \in completions

Reported(s) == row[s].st = "Done"

\* write_jsonl: one line for each Done row, in input order.
WriteLine ==
  /\ phase = "write"
  /\ cursor <= N
  /\ output' = IF Reported(cursor) THEN output \cup {cursor} ELSE output
  /\ cursor' = cursor + 1
  /\ UNCHANGED <<row, prompts, completions, spill, exit, phase, stage, stale,
                 live, deque, wk, errors, slow>>

Finish ==
  /\ phase = "write"
  /\ cursor > N
  /\ End("clean")
  /\ UNCHANGED <<durable, errors, slow>>

-----------------------------------------------------------------------------
Scan == ScanAbsent \/ ScanPut \/ ScanUnfinished \/ ScanSkip \/ ScanEnqueue \/ ScanDone

Report == Collect \/ WriteLine \/ Finish

WorkerStep(w) ==
  \/ Dequeue(w) \/ Drained(w) \/ ReadRecord(w) \/ Claim(w)
  \/ Generate(w) \/ GenerateError(w)
  \/ Complete(w) \/ CompleteLost(w) \/ Fail(w) \/ Ack(w)

Next ==
  \/ Start \/ Kill \/ Tick \/ Scan \/ Report
  \/ \E w \in WorkerId : WorkerStep(w)

Spec == Init /\ [][Next]_vars

\* Time passes (past the window of no one at work), the tasks of a process are
\* scheduled, and the operator runs the command again whenever it has ended.
Fairness ==
  /\ WF_vars(Start) /\ WF_vars(Tick /\ slow' = slow) /\ WF_vars(Scan) /\ WF_vars(Report)
  /\ \A w \in WorkerId : WF_vars(WorkerStep(w))

FairSpec == Spec /\ Fairness

-----------------------------------------------------------------------------
(* Properties.                                                             *)

Held(w) == IF wk[w].entry = NoEntry THEN {} ELSE {wk[w].entry}

\* No sample is forgotten by a pool at work: a Pending row has an entry that
\* is queued or in the hands of a worker that has still to claim it, a row
\* owned by one of the pool's workers is being worked on by that worker, and
\* every such entry is in the store, so that a kill brings it back.
NothingForgotten ==
  /\ deque \cup UNION {Held(w) : w \in live} \subseteq spill
  /\ phase = "serve" => \A s \in Sample :
       /\ row[s].st # "Absent"
       /\ row[s].st = "Pending" =>
            \/ \E e \in deque : e.sample = s
            \/ \E w \in live : S(w) = s /\ wk[w].pc \in {"read", "claim"}
       /\ row[s].worker \in live =>
            S(row[s].worker) = s /\ wk[row[s].worker].pc \in {"generate", "complete", "fail"}

\* A row never names a blob that is not there, however the process died:
\* prompts are stored before their row, completions before Done.
RowsHaveBlobs ==
  \A s \in Sample :
    /\ row[s].st # "Absent" => s \in prompts
    /\ row[s].st = "Done" => s \in completions

\* As long as the backend answers within the window, no two workers generate
\* the same sample at a time, although restarts leave duplicate entries.
OneGeneratorPerSample ==
  ~slow => \A w, v \in live :
    /\ w # v
    /\ wk[w].pc \in {"generate", "complete", "fail"}
    /\ wk[v].pc \in {"generate", "complete", "fail"}
    => S(w) # S(v)

\* The state is well-formed, rows have their blobs, and samples one generator.
Inv == TypeOK /\ RowsHaveBlobs /\ OneGeneratorPerSample

\* The claims as ClaimTable sees them.  A Failed row is not at its end: the scan
\* enqueues it again (coordinator.rs:69), though no worker claims it.
Progress(s) == CASE row[s].st = "Absent" -> "none"
                 [] row[s].st \in {"Pending", "Failed"} -> "waiting"
                 [] row[s].st = "Running" -> "claimed"
                 [] OTHER -> "over"
AtWork == {<<w, S(w)>> : w \in {v \in live : wk[v].pc \in {"generate", "complete", "fail"}}}

Claims == INSTANCE ClaimTable WITH
  Key <- Sample, Worker <- WorkerId, NoOne <- NoWorker,
  item <- [s \in Sample |-> Progress(s)],
  owner <- [s \in Sample |-> row[s].worker],
  working <- AtWork

\* batch-runtime.md:153 "the CAS dance guarantees at-most-once completion per
\* sample": a Done row is never written again, by a late worker, by a duplicate
\* entry or by a later scan, a worker whose claim was taken over neither
\* finishes nor fails the sample, and a scan takes back the claims of the dead
\* only.  Whether a Failed sample is claimed again is left open.
ImplementsClaims == Claims!Spec

\* completions.jsonl lists finished samples only, whatever happened since it
\* was written, and all of them once a run ended without an error.
OutputIsSound ==
  /\ \A s \in output : row[s].st = "Done" /\ s \in completions
  /\ exit = "clean" => output = {s \in Sample : row[s].st = "Done"}

\* Run often enough, the command brings every input to Done or Failed, even the
\* ones a killed process had claimed, if the backend answers within the window.
\* (A Failed row stays Failed: the retry that batch-runtime.md:115 speaks of is
\* enqueued and then skipped by worker.rs.)
EveryInputSettles ==
  [](~slow) => \A s \in Sample : <>(row[s].st \in {"Done", "Failed"})

\* docs/book/src/inference/resume.md:3 "zero duplicates and no skipped inputs":
\* a run that ends without an error has finished every input.
CleanExitCoversInputs ==
  exit = "clean" => \A s \in Sample : row[s].st \in {"Done", "Failed"}
=============================================================================
