------------------------------ MODULE VllmEngine ------------------------------
(***************************************************************************)
(* The vLLM backend (crates/rollout-backend-vllm/src and the Python        *)
(* modules under python/rollout/backends/vllm) and the training loop of    *)
(* SftAlgo and RmAlgo that drives it.                                      *)
(*                                                                         *)
(* Tasks send requests over a bounded channel to one OS thread, which      *)
(* serves them one at a time in Python and answers each over a channel of  *)
(* its own.  A caller that goes away (its task is aborted, or it gives up  *)
(* at the first error) leaves its requests in the channel; they are served *)
(* all the same, and the answer is dropped.  Dropping the backend asks the *)
(* thread to stop and joins it.                                            *)
(***************************************************************************)
EXTENDS Integers, Sequences

CONSTANTS Task,      \* tasks that share the backend
          Trainer,   \* the one that runs the algorithm
          Capacity,  \* capacity of the channel
          MaxPrompts,\* bound: prompts of one generate call
          MaxSteps,  \* budget.max_steps
          Resumes    \* the step counters a run may be restored to

ASSUME VllmAssumption ==
  /\ Trainer \in Task
  /\ Capacity \in Nat \ {0}
  /\ MaxPrompts \in Nat \ {0}
  /\ MaxSteps \in Nat
  /\ Resumes \subseteq Nat

VARIABLES channel,  \* the requests in the channel
          serving,  \* the request the thread has in hand: at most one
          thread,   \* is the thread up?
          handle,   \* the VllmEngine
          call,     \* the call each task is in
          resolved, \* is model_id the model's, and not the engine id's?
          imported, \* the lazy import of the inference module
          mode,     \* ActiveMode
          py,       \* the globals of train.py and engine.py
          algo,     \* the algorithm and its run
          saved     \* the last snapshot, and the weights in it

engineVars == <<channel, serving, thread, handle, resolved>>
pyVars == <<imported, mode, py>>
algoVars == <<algo, saved>>
vllmVars == <<channel, serving, thread, handle, call, resolved, imported, mode, py, algo, saved>>

-----------------------------------------------------------------------------
\* The methods that take &mut self: nobody else can be in a call.
Exclusive == {"Init", "TrainOn", "TrainOff", "Shutdown"}
Training == {"Forward", "Optimizer", "Save"}
Op == Exclusive \cup Training \cup {"Generate"}

\* A VllmTask; open: its caller still waits for the answer.
Request == [op : Op, task : Task, i : 1 .. MaxPrompts, open : BOOLEAN]

\* A call has n requests, of which `sent` are sent; answers come in any time
\* and are taken in order.
NoCall == [pc |-> "idle", op |-> "Init", n |-> 1, sent |-> 0,
           answers |-> [i \in 1 .. MaxPrompts |-> "none"]]
Call == [pc : {"idle", "send", "wait", "ok", "err"}, op : Op, n : 1 .. MaxPrompts,
         sent : 0 .. MaxPrompts,
         answers : [1 .. MaxPrompts -> {"none", "ok", "err"}]]

\* step: the counter; failed: an optimizer step of the run came back with an
\* error.
NoAlgo == [pc |-> "off", from |-> 0, step |-> 0, left |-> MaxSteps, failed |-> FALSE]

VllmTypeOK ==
  /\ channel \in Seq(Request) /\ Len(channel) <= Capacity
  /\ serving \in Seq(Request) /\ Len(serving) <= 1
  /\ thread \in BOOLEAN
  /\ handle \in {"held", "joining", "stuck", "dropped"}
  /\ call \in [Task -> Call]
  /\ resolved \in BOOLEAN
  /\ imported \in {"no", "yes", "failed"}
  /\ mode \in {"None", "Training"}
  /\ py \in [engine : BOOLEAN, pending : BOOLEAN, state : BOOLEAN,
             loss : BOOLEAN, grad : Nat, step : Nat, weights : Nat, disk : Nat]
  /\ algo \in [pc : {"off", "loop", "forward", "optimizer", "over", "saving"},
               from : Nat, step : Nat, left : Nat, failed : BOOLEAN]
  /\ saved \in [from : Nat, step : Nat, weights : Nat, failed : BOOLEAN]

\* weights: how many optimizer steps the weights have seen, those of them on
\* disk; step: how many Python has counted.
VllmInit ==
  /\ channel = <<>> /\ serving = <<>> /\ thread = TRUE /\ handle = "held"
  /\ call = [t \in Task |-> NoCall]
  /\ resolved = FALSE /\ imported = "no" /\ mode = "None"
  /\ py = [engine |-> FALSE, pending |-> FALSE, state |-> FALSE, loss |-> FALSE,
           grad |-> 0, step |-> 0, weights |-> 0, disk |-> 0]
  /\ algo = NoAlgo
  /\ saved = [from |-> 0, step |-> 0, weights |-> 0, failed |-> FALSE]

-----------------------------------------------------------------------------
(* Calls.                                                                  *)

IdleTask(t) == call[t].pc = "idle"
SetCall(t, c) == call' = [call EXCEPT ![t] = c]

\* The receivers of a task are dropped.
Close(q, t) == [k \in DOMAIN q |-> IF q[k].task = t THEN [q[k] EXCEPT !.open = FALSE] ELSE q[k]]
CloseAll(t) ==
  /\ channel' = Close(channel, t)
  /\ serving' = Close(serving, t)

\* The borrow rules: &mut self excludes every other call.
MayBegin(t, op) ==
  /\ handle = "held"
  /\ IdleTask(t)
  /\ \A u \in Task \ {t} :
       op \in Exclusive \/ call[u].op \in Exclusive => IdleTask(u)

Begin(t, op, n) ==
  /\ MayBegin(t, op)
  /\ SetCall(t, [NoCall EXCEPT !.pc = "send", !.op = op, !.n = n])

\* init, set_train_mode and shutdown.  (An algorithm shares the backend by an
\* Arc, and nobody has it for himself any more.)
Own(t, op) ==
  /\ op \in Exclusive
  /\ algo.pc = "off"
  /\ Begin(t, op, 1)
  /\ UNCHANGED <<engineVars, pyVars, algoVars>>

VllmGenerate(t, n) ==
  /\ t # Trainer
  /\ Begin(t, "Generate", n)
  /\ UNCHANGED <<engineVars, pyVars, algoVars>>

\* One request goes into the channel; the last one sent, the caller waits for
\* the answers.  A shutdown has none.
Send(t) ==
  /\ call[t].pc = "send"
  /\ thread
  /\ Len(channel) < Capacity
  /\ LET k == call[t].sent + 1
         r == [op |-> call[t].op, task |-> t, i |-> k, open |-> call[t].op # "Shutdown"]
     IN /\ channel' = Append(channel, r)
        /\ SetCall(t, [call[t] EXCEPT !.sent = k,
                         !.pc = IF k < call[t].n THEN "send"
                                ELSE IF r.open THEN "wait" ELSE "ok"])
  /\ UNCHANGED <<serving, thread, handle, resolved, pyVars, algoVars>>

\* Slip: a closed channel is tried again.
SendClosedRetries(t) ==
  /\ call[t].pc = "send"
  /\ ~thread
  /\ UNCHANGED vllmVars

\* The thread is gone: an error, which shutdown ignores.
SendClosed(t) ==
  /\ call[t].pc = "send"
  /\ ~thread
  /\ SetCall(t, [call[t] EXCEPT !.pc = IF call[t].op = "Shutdown" THEN "ok" ELSE "err"])
  /\ UNCHANGED <<engineVars, pyVars, algoVars>>

\* The answers are taken in the order of the prompts; the first error ends the
\* call and leaves the rest to itself.  init takes the model's id.
Await(t) ==
  /\ call[t].pc = "wait"
  /\ \E i \in 1 .. call[t].n :
       /\ \A j \in 1 .. i - 1 : call[t].answers[j] = "ok"
       /\ \/ call[t].answers[i] = "err" /\ SetCall(t, [call[t] EXCEPT !.pc = "err"])
          \/ /\ i = call[t].n /\ call[t].answers[i] = "ok"
             /\ SetCall(t, [call[t] EXCEPT !.pc = "ok"])
  /\ resolved' = (resolved \/ (call[t].op = "Init" /\ call'[t].pc = "ok"))
  /\ CloseAll(t)
  /\ UNCHANGED <<thread, handle, pyVars, algoVars>>

\* The caller has its result.
Return(t) ==
  /\ call[t].pc \in {"ok", "err"}
  /\ call[t].op \notin Training
  /\ SetCall(t, NoCall)
  /\ UNCHANGED <<engineVars, pyVars, algoVars>>

\* The caller's task is aborted in the middle of a call.  (The run of an
\* algorithm ends between two steps only.)
Aborted(t) ==
  /\ call[t].pc \in {"send", "wait"}
  /\ call[t].op = "Generate"
  /\ SetCall(t, NoCall)
  /\ CloseAll(t)
  /\ UNCHANGED <<thread, handle, resolved, pyVars, algoVars>>

-----------------------------------------------------------------------------
(* The Python thread.                                                      *)

Answer(r, result) ==
  call' = IF r.open THEN [call EXCEPT ![r.task].answers[r.i] = result] ELSE call

Take ==
  /\ thread /\ serving = <<>> /\ channel # <<>>
  /\ Head(channel).op # "Shutdown"
  /\ serving' = <<Head(channel)>>
  /\ channel' = Tail(channel)
  /\ UNCHANGED <<thread, handle, resolved, call, pyVars, algoVars>>

\* Slip: the channel outlives the loop.
DroppedNever == call

\* The requests that are left in the channel go with it: their callers see
\* their answer channels closed.
Dropped == [t \in Task |->
              [call[t] EXCEPT !.answers =
                 [i \in 1 .. MaxPrompts |->
                    IF \E k \in DOMAIN channel :
                         channel[k].task = t /\ channel[k].i = i /\ channel[k].open
                    THEN "err" ELSE call[t].answers[i]]]]

\* Slip: the loop is left in the arm that shuts an inference engine down.
StopIfImported ==
  /\ thread /\ serving = <<>> /\ channel # <<>>
  /\ Head(channel).op = "Shutdown"
  /\ py' = [py EXCEPT !.engine = FALSE]
  /\ IF imported = "yes"
     THEN thread' = FALSE /\ call' = Dropped /\ channel' = <<>>
     ELSE UNCHANGED <<thread, call>> /\ channel' = Tail(channel)
  /\ UNCHANGED <<serving, handle, resolved, imported, mode, algoVars>>

\* Shutdown: the inference engine is shut down if there is one, and the loop
\* is left.
Stop ==
  /\ thread /\ serving = <<>> /\ channel # <<>>
  /\ Head(channel).op = "Shutdown"
  /\ py' = [py EXCEPT !.engine = FALSE]
  /\ thread' = FALSE /\ call' = Dropped /\ channel' = <<>>
  /\ UNCHANGED <<serving, handle, resolved, imported, mode, algoVars>>

\* import_inference: tried once; its error sticks.
Import ==
  IF imported = "no" THEN imported' \in {"yes", "failed"} ELSE UNCHANGED imported

ServeInit ==
  /\ Import
  /\ \E ok \in BOOLEAN :
       /\ ok => imported' = "yes"
       /\ py' = [py EXCEPT !.engine = @ \/ ok]
       /\ Answer(serving[1], IF ok THEN "ok" ELSE "err")
  /\ UNCHANGED mode

\* Generating needs an engine.
ServeGenerate ==
  /\ Import
  /\ \E ok \in BOOLEAN :
       /\ ok => imported' = "yes" /\ py.engine
       /\ Answer(serving[1], IF ok THEN "ok" ELSE "err")
  /\ UNCHANGED <<mode, py>>

\* What the functions of train.py leave behind.  init_train builds a model that
\* has seen no step; an optimizer step is applied to the weights and then
\* counted, and its step is the handle's, which the caller hands back as it came.
Configured == [py EXCEPT !.pending = TRUE]
Built(y) == [y EXCEPT !.state = TRUE]
TornDown == [py EXCEPT !.pending = FALSE, !.state = FALSE, !.loss = FALSE,
                       !.grad = 0, !.step = 0, !.weights = 0]
Forwarded == [py EXCEPT !.loss = TRUE, !.grad = py.step + 1]
Applied == [py EXCEPT !.weights = @ + 1]
Stepped == [Applied EXCEPT !.loss = FALSE, !.step = py.grad]
OnDisk == [py EXCEPT !.disk = py.weights]

\* The train module is imported and told the model, which may fail.
ServeTrainOn ==
  /\ \/ /\ mode' = "Training"
        /\ py' = Configured
        /\ Answer(serving[1], "ok")
     \/ Answer(serving[1], "err") /\ UNCHANGED <<mode, py>>
  /\ UNCHANGED imported

\* teardown_train; nothing to do when the mode is None.  Its error leaves the
\* mode, and the state or not.
ServeTrainOff ==
  /\ \/ /\ mode' = "None"
        /\ py' = IF mode = "None" THEN py ELSE TornDown
        /\ Answer(serving[1], "ok")
     \/ /\ mode = "Training" /\ UNCHANGED mode
        /\ py' \in {py, TornDown}
        /\ Answer(serving[1], "err")
  /\ UNCHANGED imported

\* _require_state builds the state when a model is pending.  Then the
\* operation may be carried out, which leaves Python as `done`, or fail, before
\* it has done anything or `half` way.
ServeTraining(done, half) ==
  /\ \/ /\ py.state \/ py.pending
        /\ \/ py' = Built(done) /\ Answer(serving[1], "ok")
           \/ /\ \E y \in {py, half} : py' = Built(y)
              /\ Answer(serving[1], "err")
     \/ ~py.state /\ UNCHANGED py /\ Answer(serving[1], "err")
  /\ UNCHANGED <<imported, mode>>

\* The handle that comes back names the next step.
ServeForward == ServeTraining(Forwarded, [py EXCEPT !.loss = TRUE])

\* Without a pending loss it is an error.
ServeOptimizer ==
  IF py.state /\ ~py.loss
  THEN Answer(serving[1], "err") /\ UNCHANGED pyVars
  ELSE ServeTraining(Stepped, Applied)

ServeSave == ServeTraining(OnDisk, py)

Serve ==
  /\ serving # <<>>
  /\ \/ serving[1].op = "Init" /\ ServeInit
     \/ serving[1].op = "Generate" /\ ServeGenerate
     \/ serving[1].op = "TrainOn" /\ ServeTrainOn
     \/ serving[1].op = "TrainOff" /\ ServeTrainOff
     \/ serving[1].op = "Forward" /\ ServeForward
     \/ serving[1].op = "Optimizer" /\ ServeOptimizer
     \/ serving[1].op = "Save" /\ ServeSave
  /\ serving' = <<>>
  /\ UNCHANGED <<channel, thread, handle, resolved, algoVars>>

-----------------------------------------------------------------------------
(* Drop of the engine: nobody is in a call.                                *)

DropEngine ==
  /\ handle = "held"
  /\ \A t \in Task : IdleTask(t)
  /\ algo.pc \in {"off", "over"}
  /\ IF thread /\ Len(channel) = Capacity
     THEN handle' = "stuck" /\ UNCHANGED channel
     ELSE /\ handle' = "joining"
          /\ channel' = IF thread
                        THEN Append(channel, [op |-> "Shutdown", task |-> Trainer,
                                              i |-> 1, open |-> FALSE])
                        ELSE channel
  /\ UNCHANGED <<serving, thread, resolved, call, pyVars, algoVars>>

Join ==
  /\ handle = "joining"
  /\ ~thread
  /\ handle' = "dropped"
  /\ UNCHANGED <<channel, serving, thread, resolved, call, pyVars, algoVars>>

-----------------------------------------------------------------------------
(* The run of SftAlgo or RmAlgo, after set_train_mode(true).               *)

Result(op) == IF call[Trainer].op = op THEN call[Trainer].pc ELSE "none"

\* snapshot_restore: the step counter, and the weights stay those of the base
\* model.
Resumed(k) == [NoAlgo EXCEPT !.from = k, !.step = k]

\* A restored step counter if there is one, and run().
Run(k) ==
  /\ algo.pc = "off"
  /\ handle = "held"
  /\ mode = "Training"
  /\ \A t \in Task : call[t].op \in Exclusive => IdleTask(t)
  /\ IdleTask(Trainer)
  /\ algo' = [Resumed(k) EXCEPT !.pc = "loop"]
  /\ UNCHANGED <<engineVars, call, pyVars, saved>>

\* Slip: the token is raced against the step, whose future is dropped.
EndsMidStep ==
  /\ algo.pc \in {"loop", "forward", "optimizer"}
  /\ algo' = [algo EXCEPT !.pc = "over"]
  /\ SetCall(Trainer, NoCall)
  /\ CloseAll(Trainer)
  /\ UNCHANGED <<thread, handle, resolved, pyVars, saved>>

\* The budget is used up, or the token is cancelled: Completed or Preempted.
Ends ==
  /\ algo.pc = "loop"
  /\ algo' = [algo EXCEPT !.pc = "over"]
  /\ UNCHANGED <<engineVars, call, pyVars, saved>>

\* step_once: forward_with_loss ...
StepForward ==
  /\ algo.pc = "loop"
  /\ algo.left > 0
  /\ Begin(Trainer, "Forward", 1)
  /\ algo' = [algo EXCEPT !.pc = "forward", !.left = @ - 1]
  /\ UNCHANGED <<engineVars, pyVars, saved>>

\* ... optimizer_step ...
StepOptimizer ==
  /\ algo.pc = "forward"
  /\ Result("Forward") = "ok"
  /\ SetCall(Trainer, [NoCall EXCEPT !.pc = "send", !.op = "Optimizer"])
  /\ algo' = [algo EXCEPT !.pc = "optimizer"]
  /\ UNCHANGED <<engineVars, pyVars, saved>>

\* ... and the counter.
StepDone ==
  /\ algo.pc = "optimizer"
  /\ Result("Optimizer") = "ok"
  /\ SetCall(Trainer, NoCall)
  /\ algo' = [algo EXCEPT !.pc = "loop", !.step = @ + 1]
  /\ UNCHANGED <<engineVars, pyVars, saved>>

\* An error of either ends the run.
StepError ==
  /\ algo.pc \in {"forward", "optimizer"}
  /\ call[Trainer].pc = "err"
  /\ SetCall(Trainer, NoCall)
  /\ algo' = [algo EXCEPT !.pc = "over", !.failed = (algo.pc = "optimizer")]
  /\ UNCHANGED <<engineVars, pyVars, saved>>

\* snapshot_save of an algorithm whose run is over, in whichever way.
SnapshotSave ==
  /\ algo.pc = "over"
  /\ Begin(Trainer, "Save", 1)
  /\ algo' = [algo EXCEPT !.pc = "saving"]
  /\ UNCHANGED <<engineVars, pyVars, saved>>

\* The snapshot holds the counter, and the weights as they were saved.
SnapshotDone ==
  /\ algo.pc = "saving"
  /\ Result("Save") \in {"ok", "err"}
  /\ SetCall(Trainer, NoCall)
  /\ saved' = IF Result("Save") = "ok"
              THEN [from |-> algo.from, step |-> algo.step, weights |-> py.disk,
                    failed |-> algo.failed]
              ELSE saved
  /\ algo' = [algo EXCEPT !.pc = "over"]
  /\ UNCHANGED <<engineVars, pyVars>>

-----------------------------------------------------------------------------
Calling(t) ==
  \/ \E op \in Exclusive : Own(t, op)
  \/ \E n \in 1 .. MaxPrompts : VllmGenerate(t, n)
  \/ Send(t) \/ SendClosed(t) \/ Await(t) \/ Return(t) \/ Aborted(t)

Algorithm ==
  \/ \E k \in Resumes : Run(k)
  \/ Ends \/ StepForward \/ StepOptimizer \/ StepDone \/ StepError
  \/ SnapshotSave \/ SnapshotDone

VllmNext ==
  \/ (\E t \in Task : Calling(t)) \/ Algorithm
  \/ Take \/ Serve \/ Stop
  \/ DropEngine \/ Join

VllmSpec == VllmInit /\ [][VllmNext]_vllmVars

\* The thread runs and Python comes back; a task that can go on does.  Waiting
\* senders get room in the order in which they came.
VllmFairness ==
  /\ WF_vllmVars(Take) /\ WF_vllmVars(Serve) /\ WF_vllmVars(Stop) /\ WF_vllmVars(Join)
  /\ \A t \in Task :
       SF_vllmVars(Send(t)) /\ WF_vllmVars(SendClosed(t)) /\ WF_vllmVars(Await(t))

VllmFairSpec == VllmSpec /\ VllmFairness

-----------------------------------------------------------------------------
(* Properties.                                                             *)

\* While a caller waits, each of its requests is under way or answered.
OneAnswer ==
  \A t \in Task : \A i \in 1 .. MaxPrompts :
    call[t].pc = "wait" /\ i <= call[t].n =>
      (call[t].answers[i] = "none" <=>
         \E q \in {channel, serving} : \E k \in DOMAIN q :
           q[k].task = t /\ q[k].i = i /\ q[k].open)

\* The state is well-formed and every request has its one answer.
VllmInv == VllmTypeOK /\ OneAnswer

\* n optimizer steps are what the counter has advanced by, or one more than
\* that when `ahead`.
Counted(n, from, step, ahead) ==
  n = step - from \/ (ahead /\ n = step - from + 1)

\* The weights have seen as many optimizer steps as the counter of the run has
\* advanced by, whatever fails on either side of the channel, and so have those
\* of a snapshot: no request of an unfinished step is ahead of the save.  They
\* may be one step ahead while an optimizer step is under way, and for good
\* when it failed after it had been applied (train.py:231-233) and the run was
\* left.  (The step of a snapshot also counts the steps of the run that was
\* resumed, which these weights have not seen: see Run.)
StepsAgree ==
  /\ algo.pc # "off" =>
       Counted(py.weights, algo.from, algo.step, algo.pc = "optimizer" \/ algo.failed)
  /\ Counted(saved.weights, saved.from, saved.step, saved.failed)

\* Every call comes back, with the answers or with an error: when the channel
\* is full, when the thread was told to stop before the request was served,
\* and when it is gone.
EveryCallReturns ==
  \A t \in Task : call[t].pc \in {"send", "wait"} ~> call[t].pc \notin {"send", "wait"}

\* engine.rs:148 "`try_send` fails silently if the channel is full (which it
\* shouldn't be": a drop that found room for its Shutdown comes to its end
\* behind all that aborted callers left in the channel.  (One that found none
\* is "stuck": the thread waits for a sender that is dropped after the join.)
DropEnds == handle = "joining" ~> handle = "dropped"
=============================================================================
