------------------------------ MODULE CloudQueue ------------------------------
(***************************************************************************)
(* The cloud queues (crates/rollout-cloud-aws/src/sqs and                  *)
(* crates/rollout-cloud-gcp/src/pubsub) under several consumers, and the   *)
(* graceful drain of a preempted process                                   *)
(* (crates/rollout-coordinator/src/drain.rs).                              *)
(*                                                                         *)
(* The service leases a message with a fresh receipt at every delivery and *)
(* delivers it again when the lease runs out.  The Queue trait names a     *)
(* message by its id only, so a client keeps the receipts in a table, id   *)
(* -> receipt, that all tasks of its process share: the last delivery      *)
(* overwrites the entry, ack and nack take it out before they call the     *)
(* service.                                                                *)
(*                                                                         *)
(* Durations are left out: a lease may run out at any moment.              *)
(***************************************************************************)
EXTENDS Integers, FiniteSets

CONSTANTS Proc,      \* processes, each with its queue client
          Spot,      \* the processes that may be preempted and reclaimed
          Task,      \* consumer tasks
          Client,    \* the process of each task
          Msg,
          NoMsg,
          Providers, \* the services considered
          Plans,     \* what a drain's SnapshotPlan comes to: "skip" or "save"
          MaxFaults  \* bound: failed calls, nacks, late consumers, timeouts

ASSUME CloudQueueAssumption ==
  /\ Spot \subseteq Proc
  /\ Client \in [Task -> Proc]
  /\ NoMsg \notin Msg
  /\ Providers \subseteq {"sqs", "pubsub"}
  /\ Plans \subseteq {"skip", "save"}
  /\ MaxFaults \in Nat

VARIABLES provider,
          svc,      \* the service: each message's state and last receipt
          inflight, \* each client's table; 0 is no entry
          mutex,    \* the clients whose table is locked across a call
          task,     \* what each task is doing
          drain,    \* how far each process's drain is
          finished, \* messages some consumer has finished
          faults

vars == <<provider, svc, inflight, mutex, task, drain, finished, faults>>

Receipt == Nat
Idle == [pc |-> "idle", msg |-> NoMsg, token |-> 0, call |-> 0, fresh |-> TRUE]
Running == [pc |-> "run", todo |-> {}, msg |-> NoMsg, call |-> 0]
Draining == {"nack", "nackcall", "deregister"}
Ended(pc) == [Running EXCEPT !.pc = pc]

TypeOK ==
  /\ provider \in {"sqs", "pubsub"}
  /\ svc \in [Msg -> [st : {"unsent", "visible", "leased", "gone"}, receipt : Receipt]]
  /\ inflight \in [Proc -> [Msg -> Receipt]]
  /\ mutex \subseteq Proc
  /\ task \in [Task -> [pc : {"idle", "receive", "work", "extend", "ack", "delete",
                              "nack", "release"},
                        msg : Msg \cup {NoMsg}, token : Receipt, call : Receipt,
                        fresh : BOOLEAN]]
  /\ drain \in [Proc -> [pc : Draining \cup {"run", "exited", "failed", "dead"},
                         todo : SUBSET Msg, msg : Msg \cup {NoMsg},
                         call : Receipt]]
  /\ finished \subseteq Msg
  /\ faults \in 0..MaxFaults

Init ==
  /\ provider \in Providers
  /\ svc = [m \in Msg |-> [st |-> "unsent", receipt |-> 0]]
  /\ inflight = [p \in Proc |-> [m \in Msg |-> 0]]
  /\ mutex = {}
  /\ task = [t \in Task |-> Idle]
  /\ drain = [p \in Proc |-> Running]
  /\ finished = {}
  /\ faults = 0

-----------------------------------------------------------------------------
(* The service.                                                            *)

Current(m, r) == svc[m].receipt = r

\* DeleteMessage / Acknowledge.  With a receipt that a later delivery has
\* replaced the call succeeds and may or may not remove the message.
Deletes(m, r) ==
  \/ svc' = [svc EXCEPT ![m].st = "gone"]
  \/ ~Current(m, r) /\ UNCHANGED svc

\* ChangeMessageVisibility / ModifyAckDeadline with 0.
Releases(m, r) ==
  \/ svc' = [svc EXCEPT ![m].st = IF @ = "leased" THEN "visible" ELSE @]
  \/ ~Current(m, r) /\ UNCHANGED svc

Fault == faults < MaxFaults /\ faults' = faults + 1

\* A consumer that lives still counts on the delivery.
Counted(m) ==
  \/ \E t \in Task : task[t].msg = m /\ Current(m, task[t].token)
  \/ \E p \in Proc : drain[p].pc = "nackcall" /\ drain[p].msg = m

\* The visibility timeout or the ack deadline passes.  That it does so under a
\* live consumer is a fault.
Expire(m) ==
  /\ svc[m].st = "leased"
  /\ svc' = [svc EXCEPT ![m].st = "visible"]
  /\ IF Counted(m) THEN Fault ELSE UNCHANGED faults
  /\ UNCHANGED <<provider, inflight, mutex, task, drain, finished>>

Enqueue(m) ==
  /\ svc[m].st = "unsent"
  /\ svc' = [svc EXCEPT ![m].st = "visible"]
  /\ UNCHANGED <<provider, inflight, mutex, task, drain, finished, faults>>

-----------------------------------------------------------------------------
(* The client.                                                             *)

\* Slip: the table is not locked across the call of extend_lease.
UnlockedBlind(p) == TRUE

\* The mutex of the client's table is free.
Unlocked(p) == p \notin mutex

\* register_inflight: the last delivery to be registered has the entry.
Insert(p, m, r) == inflight' = [inflight EXCEPT ![p][m] = r]

Remove(p, m) == inflight' = [inflight EXCEPT ![p][m] = 0]

Goto(t, pc) == task' = [task EXCEPT ![t].pc = pc]
Done(t) == task' = [task EXCEPT ![t] = Idle]

\* dequeue: the service delivers a message.  A draining process pulls no more.
Receive(t, m) ==
  /\ task[t].pc = "idle"
  /\ drain[Client[t]].pc = "run"
  /\ svc[m].st = "visible"
  /\ svc' = [svc EXCEPT ![m] = [st |-> "leased", receipt |-> @.receipt + 1]]
  /\ task' = [task EXCEPT ![t] = [pc |-> "receive", msg |-> m,
                                  token |-> svc[m].receipt + 1, call |-> 0,
                                  fresh |-> TRUE]]
  /\ UNCHANGED <<provider, inflight, mutex, drain, finished, faults>>

\* The response is lost or malformed, or the ack deadline cannot be set: the
\* message stays leased to nobody.
ReceiveError(t) ==
  /\ task[t].pc = "receive"
  /\ Fault
  /\ Done(t)
  /\ UNCHANGED <<provider, svc, inflight, mutex, drain, finished>>

Register(t) ==
  /\ task[t].pc = "receive"
  /\ Unlocked(Client[t])
  /\ Insert(Client[t], task[t].msg, task[t].token)
  /\ Goto(t, "work")
  /\ UNCHANGED <<provider, svc, mutex, drain, finished, faults>>

Finish(t) ==
  /\ task[t].pc = "work"
  /\ finished' = finished \cup {task[t].msg}
  /\ task' = [task EXCEPT ![t].pc = "ack", ![t].fresh = TRUE]
  /\ UNCHANGED <<provider, svc, inflight, mutex, drain, faults>>

GiveUp(t) ==
  /\ task[t].pc = "work"
  /\ Fault
  /\ task' = [task EXCEPT ![t].pc = "nack", ![t].fresh = TRUE]
  /\ UNCHANGED <<provider, svc, inflight, mutex, drain, finished>>

\* ack and nack look the receipt up by the message's id and take the entry
\* out; without one they fail with "not in-flight".
TakeReceipt(t) ==
  LET p == Client[t]  m == task[t].msg
  IN  /\ task[t].pc \in {"ack", "nack"}
      /\ Unlocked(p)
      /\ IF inflight[p][m] = 0
         THEN Done(t)
         ELSE task' = [task EXCEPT ![t].pc = IF @ = "ack" THEN "delete" ELSE "release",
                                   ![t].call = inflight[p][m]]
      /\ Remove(p, m)
      /\ UNCHANGED <<provider, svc, mutex, drain, finished, faults>>

\* Slip: nack acknowledges.
NackCallDeletes(t) ==
  /\ task[t].pc = "release"
  /\ Deletes(task[t].msg, task[t].call)
  /\ Done(t)
  /\ UNCHANGED <<provider, inflight, mutex, drain, finished, faults>>

AckCall(t) ==
  /\ task[t].pc = "delete"
  /\ Deletes(task[t].msg, task[t].call)
  /\ Done(t)
  /\ UNCHANGED <<provider, inflight, mutex, drain, finished, faults>>

NackCall(t) ==
  /\ task[t].pc = "release"
  /\ Releases(task[t].msg, task[t].call)
  /\ Done(t)
  /\ UNCHANGED <<provider, inflight, mutex, drain, finished, faults>>

\* The call fails, before or after it took effect; the entry is gone all the
\* same.
CallError(t) ==
  /\ Fault
  /\ \/ task[t].pc \in {"delete", "release"} /\ UNCHANGED svc
     \/ task[t].pc = "delete" /\ Deletes(task[t].msg, task[t].call)
     \/ task[t].pc = "release" /\ Releases(task[t].msg, task[t].call)
  /\ Done(t)
  /\ UNCHANGED <<provider, inflight, mutex, drain, finished>>

\* extend_lease.  SQS calls the service with the caller's token; Pub/Sub first
\* compares it with the table's entry and keeps the table locked during the
\* call.  (Bound: once per delivery.)
Extend(t) ==
  LET p == Client[t]
  IN  /\ task[t].pc = "work"
      /\ task[t].fresh
      /\ \/ provider = "sqs" /\ UNCHANGED mutex
         \/ /\ provider = "pubsub"
            /\ Unlocked(p)
            /\ inflight[p][task[t].msg] = task[t].token
            /\ mutex' = mutex \cup {p}
      /\ task' = [task EXCEPT ![t].pc = "extend", ![t].fresh = FALSE]
      /\ UNCHANGED <<provider, svc, inflight, drain, finished, faults>>

\* Slip: the table stays locked.
ExtendCallLocked(t) ==
  /\ task[t].pc = "extend"
  /\ Goto(t, "work")
  /\ UNCHANGED <<provider, svc, inflight, mutex, drain, finished, faults>>

\* The answer, good or bad, unlocks the table.
ExtendCall(t) ==
  /\ task[t].pc = "extend"
  /\ mutex' = mutex \ {Client[t]}
  /\ Goto(t, "work")
  /\ UNCHANGED <<provider, svc, inflight, drain, finished, faults>>

-----------------------------------------------------------------------------
(* The drain of a preempted process.                                       *)

Tasks(p) == {t \in Task : Client[t] = p}

\* The items the worker has in flight when the drain begins.
InFlight(p) == {task[t].msg : t \in {u \in Tasks(p) : task[u].pc \notin {"idle", "receive"}}}

\* Step 1, stop-pull.
DrainStart(p) ==
  /\ p \in Spot
  /\ drain[p].pc = "run"
  /\ drain' = [drain EXCEPT ![p].pc = "nack", ![p].todo = InFlight(p)]
  /\ UNCHANGED <<provider, svc, inflight, mutex, task, finished, faults>>

\* Step 2, nack each item; an item that is not in flight ends the drain.
DrainNack(p, m) ==
  /\ drain[p].pc = "nack"
  /\ m \in drain[p].todo
  /\ Unlocked(p)
  /\ drain' = IF inflight[p][m] = 0
              THEN [drain EXCEPT ![p] = Ended("failed")]
              ELSE [drain EXCEPT ![p].pc = "nackcall", ![p].msg = m,
                                 ![p].call = inflight[p][m]]
  /\ Remove(p, m)
  /\ UNCHANGED <<provider, svc, mutex, task, finished, faults>>

DrainNackCall(p) ==
  /\ drain[p].pc = "nackcall"
  /\ Releases(drain[p].msg, drain[p].call)
  /\ drain' = [drain EXCEPT ![p].pc = "nack", ![p].todo = @ \ {drain[p].msg},
                            ![p].msg = NoMsg, ![p].call = 0]
  /\ UNCHANGED <<provider, inflight, mutex, task, finished, faults>>

\* Step 3, the snapshot: SnapshotterImpl::save refuses TrainState requests.
DrainSnapshot(p) ==
  /\ drain[p].pc = "nack"
  /\ drain[p].todo = {}
  /\ \E plan \in Plans :
       drain' = IF plan = "save" THEN [drain EXCEPT ![p] = Ended("failed")]
                ELSE [drain EXCEPT ![p].pc = "deregister"]
  /\ UNCHANGED <<provider, svc, inflight, mutex, task, finished, faults>>

\* A process that is over takes its tasks and its table along.
Vanish(p) ==
  /\ task' = [t \in Task |-> IF Client[t] = p THEN Idle ELSE task[t]]
  /\ inflight' = [inflight EXCEPT ![p] = [m \in Msg |-> 0]]
  /\ mutex' = mutex \ {p}

\* Steps 4 and 5, deregister and exit.
DrainExit(p) ==
  /\ drain[p].pc = "deregister"
  /\ drain' = [drain EXCEPT ![p] = Ended("exited")]
  /\ Vanish(p)
  /\ UNCHANGED <<provider, svc, finished, faults>>

\* A call of the drain fails, or the drain deadline passes.
DrainError(p) ==
  /\ drain[p].pc \in Draining
  /\ Fault
  /\ drain' = [drain EXCEPT ![p] = Ended("failed")]
  /\ UNCHANGED <<provider, svc, inflight, mutex, task, finished>>

\* The cloud takes the node back.
Reclaim(p) ==
  /\ p \in Spot
  /\ drain[p].pc \notin {"exited", "dead"}
  /\ drain' = [drain EXCEPT ![p] = Ended("dead")]
  /\ Vanish(p)
  /\ UNCHANGED <<provider, svc, finished, faults>>

-----------------------------------------------------------------------------
Consume(t) ==
  \/ \E m \in Msg : Receive(t, m)
  \/ Register(t) \/ Finish(t) \/ GiveUp(t)
  \/ TakeReceipt(t) \/ AckCall(t) \/ NackCall(t)
  \/ Extend(t) \/ ExtendCall(t)
  \/ ReceiveError(t) \/ CallError(t)

Drain(p) ==
  \/ DrainStart(p)
  \/ \E m \in Msg : DrainNack(p, m)
  \/ DrainNackCall(p) \/ DrainSnapshot(p) \/ DrainExit(p)
  \/ DrainError(p)

Next ==
  \/ \E m \in Msg : Enqueue(m) \/ Expire(m)
  \/ \E t \in Task : Consume(t)
  \/ \E p \in Proc : Drain(p) \/ Reclaim(p)

Spec == Init /\ [][Next]_vars

\* Consumers poll and finish what they work on, calls return and release the
\* mutex, a lease that nobody counts on runs out, and a preempted node is taken
\* back.
Progress(t) ==
  \/ \E m \in Msg : Receive(t, m)
  \/ Register(t) \/ Finish(t) \/ TakeReceipt(t)
  \/ AckCall(t) \/ NackCall(t) \/ ExtendCall(t)

Fairness ==
  /\ \A m \in Msg : WF_vars(~Counted(m) /\ Expire(m))
  /\ \A t \in Task : WF_vars(Progress(t))
  /\ \A p \in Proc : WF_vars(drain[p].pc # "run" /\ Reclaim(p))

FairSpec == Spec /\ Fairness

-----------------------------------------------------------------------------
(* Properties.                                                             *)

\* traits/cloud.rs "at-least-once work queue": a message leaves the service
\* only after some consumer finished it, whichever receipts, redeliveries and
\* reclaimed processes were involved.
NoMessageLost ==
  \A m \in Msg : svc[m].st = "gone" => m \in finished

\* pubsub/mod.rs "stale-token guard": while extend_lease is out for a delivery,
\* that delivery still has the client's entry, whatever the other tasks and the
\* drain of the process do meanwhile.
ExtendHoldsEntry ==
  \A t \in Task :
    provider = "pubsub" /\ task[t].pc = "extend" =>
      inflight[Client[t]][task[t].msg] = task[t].token

\* The state is well-formed, no message is lost and no entry is taken away.
Inv == TypeOK /\ NoMessageLost /\ ExtendHoldsEntry

\* Every message that was sent is finished and deleted in the end, as long as
\* one process is not preempted.
EveryMessageSettles ==
  \A m \in Msg : svc[m].st # "unsent" ~> svc[m].st = "gone"
=============================================================================
