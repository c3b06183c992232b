-------------------------------- MODULE EvalJob --------------------------------
(***************************************************************************)
(* Evaluations of checkpoints (crates/rollout-harness-eval/src, and        *)
(* crates/rollout-cli/src/eval.rs) over the storage and the object store   *)
(* that also hold the snapshots.                                           *)
(*                                                                         *)
(* An evaluation scores one example after the other.  Each is a work item  *)
(* of a run id of its own: seeded, claimed, its result put into the object *)
(* store, and completed; a claim or a completion that loses its compare    *)
(* and swap is not an error.  Then the report is put and its row written.  *)
(* Two results with the same index and score are the same blob, whichever  *)
(* evaluation they belong to.                                              *)
(*                                                                         *)
(* The embedded storage is open in one process at a time: either snapshots *)
(* are taken and used, or checkpoints are evaluated, and while they are no *)
(* prune runs.                                                             *)
(***************************************************************************)
EXTENDS Snapshots

CONSTANTS Examples,     \* rows of the dataset
          ResultBlob,   \* the blob of an example's index and score
          Asked,        \* the ids that are given as --checkpoint
          MaxRuns       \* bound: evaluations begun

Example == 1 .. Examples
Run == 1 .. MaxRuns
NoRun == 0
Score == {0, 1}

\* The datasets are pinned by their hash and have rows; results that differ in
\* the score differ in content.
ASSUME EvalJobAssumption ==
  /\ Examples \in Nat \ {0} /\ MaxRuns \in Nat
  /\ Asked \subseteq Blob
  /\ ResultBlob \in [Example \X Score -> Blob \ DOMAIN Order]
  /\ \A i \in Example : ResultBlob[<<i, 0>>] # ResultBlob[<<i, 1>>]

VARIABLES evaluating, \* does this process evaluate?
          eval,       \* the evaluation each task is in
          items,      \* the work items, by run and example
          reports,    \* the eval_reports rows
          begun       \* evaluations begun

evalVars == <<evaluating, eval, items, reports, begun>>
vars == <<osVars, snapVars, evalVars>>

\* How an example came out.  An IFEval prompt with nothing but language
\* instructions is left out of the metric.
Outcome == {"pass", "fail", "skip"}
ScoreOf(o) == IF o = "pass" THEN 1 ELSE 0

\* WorkItemRecord: its state, when a claim started it, its result.
NoItem == [st |-> "none", at |-> 0, result |-> NoBlob]
Pending == [NoItem EXCEPT !.st = "pending"]
Running(at) == [NoItem EXCEPT !.st = "running", !.at = at]
DoneWith(b) == [NoItem EXCEPT !.st = "done", !.result = b]

\* EvalReport: the model and whether its uri names a snapshot, the results by
\* example, and the metric's fraction.
NoReport == [on |-> FALSE, model |-> NoBlob, snap |-> FALSE,
             tasks |-> [i \in Example |-> "fail"], sum |-> 0, total |-> 0]
NoEval == [pc |-> "idle", run |-> NoRun, i |-> 1, rep |-> NoReport]

\* The result of example i is added to a report.
Tally(rep, i, o) ==
  [rep EXCEPT !.tasks[i] = o, !.sum = @ + ScoreOf(o), !.total = IF o = "skip" THEN @ ELSE @ + 1]

TypeOK ==
  /\ SnapTypeOK
  /\ evaluating \in BOOLEAN
  /\ items \in [Run -> [Example -> [st : {"none", "pending", "running", "done"},
                                    at : 0 .. Examples, result : Blob \cup {NoBlob}]]]
  /\ \A t \in Task : /\ eval[t].pc \in {"idle", "resolved", "look", "seed", "claim", "store",
                                        "put", "complete", "report", "row"}
                     /\ eval[t].run \in Run \cup {NoRun} /\ eval[t].i \in Example
  /\ \A r \in Run : /\ reports[r].tasks \in [Example -> Outcome]
                    /\ reports[r].sum \in 0 .. Examples /\ reports[r].total \in 0 .. Examples
  /\ begun \in 0 .. MaxRuns

\* `rollout train` begins with nothing stored; evaluations, with the local
\* store, find the snapshots that earlier processes left.
Init ==
  /\ evaluating \in BOOLEAN
  /\ IF evaluating THEN SnapInit(DOMAIN Order) /\ store = "fs" ELSE SnapInit({})
  /\ eval = [t \in Task |-> NoEval]
  /\ items = [r \in Run |-> [i \in Example |-> NoItem]]
  /\ reports = [r \in Run |-> NoReport]
  /\ begun = 0

At(t, pc) == eval[t].pc = pc
Set(t, e) == eval' = [eval EXCEPT ![t] = e]
Step(t, pc) == eval' = [eval EXCEPT ![t].pc = pc]
\* now_ms, which the claim writes and the completion expects: idx + seed.
StartedAt(t) == eval[t].i
Result(t) == ResultBlob[<<eval[t].i, ScoreOf(eval[t].rep.tasks[eval[t].i])>>]
Row(t) == items[eval[t].run][eval[t].i]
SetItem(t, row) == items' = [items EXCEPT ![eval[t].run][eval[t].i] = row]

-----------------------------------------------------------------------------
(* run_eval.                                                               *)

\* resolve_checkpoint: the row of the snapshot leads to its tar, whose id is the
\* snapshot's own; an id without a row is taken for that of a blob, and nobody
\* looks whether there is one.
Resolve(t, b) ==
  /\ evaluating
  /\ Idle(t) /\ At(t, "idle")
  /\ begun < MaxRuns
  /\ Set(t, [NoEval EXCEPT !.pc = "resolved", !.rep.model = b,
                           !.rep.snap = (b \in Listed)])
  /\ UNCHANGED <<osVars, snapVars, evaluating, items, reports, begun>>

\* A dry run ends here; so does one whose database another process has open by
\* now, or whose dataset is not the one expected.
DryRun(t) ==
  /\ At(t, "resolved")
  /\ Set(t, NoEval)
  /\ UNCHANGED <<osVars, snapVars, evaluating, items, reports, begun>>

\* BundledEval::run: the run id and the worker id are new.
Start(t) ==
  /\ At(t, "resolved")
  /\ \A u \in Task : job[u].pc # "prune"
  /\ begun < MaxRuns
  /\ begun' = begun + 1
  /\ Set(t, [eval[t] EXCEPT !.pc = "look", !.run = begun + 1])
  /\ UNCHANGED <<osVars, snapVars, evaluating, items, reports>>

-----------------------------------------------------------------------------
(* run_example_job, for one example after the other.                       *)

\* The example is over.
Onward(e) ==
  IF e.i < Examples THEN [e EXCEPT !.pc = "look", !.i = @ + 1] ELSE [e EXCEPT !.pc = "report"]

\* The example is scored and its item looked up: one that is done is over, ...
Look(t, o) ==
  LET e == [eval[t] EXCEPT !.rep = Tally(@, eval[t].i, o)]
  IN /\ At(t, "look")
     /\ Set(t, CASE Row(t).st = "done" -> Onward(e)
                 [] Row(t) = NoItem -> [e EXCEPT !.pc = "seed"]
                 [] OTHER -> [e EXCEPT !.pc = "claim"])
     /\ UNCHANGED <<osVars, snapVars, evaluating, items, reports, begun>>

\* ... and one that was not there is put, in a transaction of its own.
Seed(t) ==
  /\ At(t, "seed")
  /\ SetItem(t, Pending)
  /\ Step(t, "claim")
  /\ UNCHANGED <<osVars, snapVars, evaluating, reports, begun>>

\* try_claim; the job goes on whether it wins or not.
Claim(t) ==
  /\ At(t, "claim")
  /\ IF Row(t) = Pending THEN SetItem(t, Running(StartedAt(t))) ELSE UNCHANGED items
  /\ Step(t, "store")
  /\ UNCHANGED <<osVars, snapVars, evaluating, reports, begun>>

StoreResult(t) ==
  /\ At(t, "store")
  /\ PutBytes(t, Result(t))
  /\ Step(t, "put")
  /\ UNCHANGED <<snapVars, evaluating, items, reports, begun>>

Stored(t) ==
  /\ At(t, "put")
  /\ Return(t)
  /\ IF put[t].pc = "err" THEN Set(t, NoEval) ELSE Step(t, "complete")
  /\ UNCHANGED <<snapVars, evaluating, items, reports, begun>>

\* Slip: the time is read once more, and the row is not the one expected.
CompleteLater(t) ==
  /\ At(t, "complete")
  /\ IF Row(t) = Running(StartedAt(t) + 1) THEN SetItem(t, DoneWith(Result(t))) ELSE UNCHANGED items
  /\ Set(t, Onward(eval[t]))
  /\ UNCHANGED <<osVars, snapVars, evaluating, reports, begun>>

\* try_complete; the job is done whether it wins or not.
Complete(t) ==
  /\ At(t, "complete")
  /\ IF Row(t) = Running(StartedAt(t)) THEN SetItem(t, DoneWith(Result(t))) ELSE UNCHANGED items
  /\ Set(t, Onward(eval[t]))
  /\ UNCHANGED <<osVars, snapVars, evaluating, reports, begun>>

-----------------------------------------------------------------------------
\* The report has its times in it, so that no other put has the same content:
\* its put succeeds or fails as if alone.
PutReport(t) ==
  /\ At(t, "report")
  /\ Step(t, "row")
  /\ UNCHANGED <<osVars, snapVars, evaluating, items, reports, begun>>

WriteReport(t) ==
  /\ At(t, "row")
  /\ reports' = [reports EXCEPT ![eval[t].run] = [eval[t].rep EXCEPT !.on = TRUE]]
  /\ Set(t, NoEval)
  /\ UNCHANGED <<osVars, snapVars, evaluating, items, begun>>

\* A storage transaction, or the put of the report, fails and ends it all.
EvalError(t) ==
  /\ eval[t].pc \in {"look", "seed", "claim", "complete", "report", "row"}
  /\ Fault
  /\ Set(t, NoEval)
  /\ UNCHANGED <<store, final, tmp, put, uploads, aborting, leaked, shared, snapVars>>
  /\ UNCHANGED <<evaluating, items, reports, begun>>

EvalCrash ==
  /\ evaluating
  /\ Crash
  /\ eval' = [t \in Task |-> NoEval]
  /\ UNCHANGED <<evaluating, items, reports, begun>>

\* `rollout snapshot prune` runs when no evaluation has the storage open.
PruneAside(t) ==
  /\ evaluating
  /\ \A u \in Task : eval[u].pc \in {"idle", "resolved"}
  /\ At(t, "idle")
  /\ (\E p \in Policies : PruneAlone(t, p)) \/ PruneRow(t) \/ Pruned(t)
  /\ UNCHANGED evalVars

Next ==
  \/ ~evaluating /\ SnapNext /\ UNCHANGED evalVars
  \/ \E t \in Task :
       \/ evaluating /\ PutStep(t) /\ UNCHANGED <<snapVars, evalVars>>
       \/ \E b \in Asked : Resolve(t, b)
       \/ DryRun(t) \/ Start(t)
       \/ \E o \in Outcome : Look(t, o)
       \/ Seed(t) \/ Claim(t) \/ StoreResult(t) \/ Stored(t) \/ Complete(t)
       \/ PutReport(t) \/ WriteReport(t) \/ EvalError(t) \/ PruneAside(t)
  \/ EvalCrash

Spec == Init /\ [][Next]_vars

-----------------------------------------------------------------------------
(* Properties.                                                             *)

\* The state is well-formed, rows of snapshots have their tars, and a put that
\* returned an id left the blob in its place, whatever other puts of the same
\* content did meanwhile.
Inv == TypeOK /\ RowHasBlob /\ AckedIsStored

\* eval_reports.rs:7 "`rollout eval` writes one row per completed eval run": a
\* report is there only when every example of its run was completed with a
\* result that is stored, its metrics are those of the results, and, if it names
\* a snapshot, the tar can still be fetched.  The code looks at none of this:
\* run_example_job would return Ok after a claim or a completion that found
\* another row than it expects, the process may die between any two steps,
\* another evaluation may be storing the same results, and a prune may come
\* first.  A report about a bare id says nothing of a blob with that id.
ReportIsSound ==
  \A r \in Run : reports[r].on =>
    LET of(s) == {i \in Example : items[r][i] = DoneWith(ResultBlob[<<i, s>>])}
    IN /\ \A i \in Example :
            LET b == ResultBlob[<<i, ScoreOf(reports[r].tasks[i])>>]
            IN items[r][i] = DoneWith(b) /\ final[b] # "none"
       /\ reports[r].sum = Cardinality(of(1))
       /\ reports[r].total + Cardinality({i \in Example : reports[r].tasks[i] = "skip"}) = Examples
       /\ reports[r].snap => final[reports[r].model] # "none"
=============================================================================
