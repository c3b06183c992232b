--------------------------- MODULE CloudQueueProofs ---------------------------
(***************************************************************************)
(* Proofs about CloudQueue, for any number of processes, tasks, messages   *)
(* and faults, and for both services.                                      *)
(*                                                                         *)
(* NoMessageLost is not inductive: a delete removes whatever message its   *)
(* task holds, so the proof needs that every task that is about to delete  *)
(* holds a message that was finished.  ExtendHoldsEntry needs the mutex of *)
(* the table: a task that extends holds it, and no two tasks of a process  *)
(* do, so nobody inserts or takes an entry meanwhile, the answer of one    *)
(* extend does not unlock the table under another, and a process that ends *)
(* takes its extends along.                                                *)
(***************************************************************************)
EXTENDS CloudQueue, TLAPS

PCs == {"idle", "receive", "work", "extend", "ack", "delete", "nack", "release"}
Svc == [st : {"unsent", "visible", "leased", "gone"}, receipt : Receipt]
TaskRec == [pc : PCs, msg : Msg \cup {NoMsg}, token : Receipt, call : Receipt, fresh : BOOLEAN]
DrainRec == [pc : Draining \cup {"run", "exited", "failed", "dead"},
             todo : SUBSET Msg, msg : Msg \cup {NoMsg}, call : Receipt]

\* A task with something to do, and a nack of the drain, have a message.
HandsFull ==
  /\ \A t \in Task : task[t].pc # "idle" => task[t].msg \in Msg
  /\ \A p \in Proc : drain[p].pc = "nackcall" => drain[p].msg \in Msg

\* Only what was finished is acknowledged.
AcksFinished ==
  \A t \in Task : task[t].pc \in {"ack", "delete"} => task[t].msg \in finished

Extending(t) == provider = "pubsub" /\ task[t].pc = "extend"

\* A task that extends has the table of its process locked ...
ExtendLocks == \A t \in Task : Extending(t) => Client[t] \in mutex

\* ... and it alone.
OneExtends ==
  \A t, u \in Task : Extending(t) /\ Extending(u) /\ Client[t] = Client[u] => t = u

IInv ==
  /\ TypeOK /\ NoMessageLost /\ ExtendHoldsEntry
  /\ HandsFull /\ AcksFinished /\ ExtendLocks /\ OneExtends

-----------------------------------------------------------------------------
(* What the steps do, one message and one task at a time.                  *)

\* The service changes the state of message m to st, or of none.
SvcStep(m, st) ==
  /\ svc' \in [Msg -> Svc]
  /\ svc'[m].st = st
  /\ \A x \in Msg : x # m => svc'[x] = svc[x]

\* Task t is at pc now, with message m and token r.
TaskStep(t, pc, m, r) ==
  /\ task' \in [Task -> TaskRec]
  /\ task'[t].pc = pc /\ task'[t].msg = m /\ task'[t].token = r
  /\ \A u \in Task : u # t => task'[u] = task[u]

\* The entry of m in the table of p becomes r.
EntryStep(p, m, r) ==
  /\ inflight' \in [Proc -> [Msg -> Receipt]]
  /\ \A q \in Proc, x \in Msg : inflight'[q][x] = IF q = p /\ x = m THEN r ELSE inflight[q][x]

\* The types, in the words of this module.
LEMMA Types ==
  TypeOK <=>
    /\ provider \in {"sqs", "pubsub"} /\ svc \in [Msg -> Svc]
    /\ inflight \in [Proc -> [Msg -> Receipt]] /\ mutex \subseteq Proc
    /\ task \in [Task -> TaskRec] /\ drain \in [Proc -> DrainRec]
    /\ finished \subseteq Msg /\ faults \in 0..MaxFaults
  BY DEF TypeOK, Svc, TaskRec, DrainRec, PCs

LEMMA TypesNext ==
  ASSUME provider' \in {"sqs", "pubsub"}, svc' \in [Msg -> Svc],
         inflight' \in [Proc -> [Msg -> Receipt]], mutex' \subseteq Proc,
         task' \in [Task -> TaskRec], drain' \in [Proc -> DrainRec],
         finished' \subseteq Msg, faults' \in 0..MaxFaults
  PROVE  TypeOK'
  BY DEF TypeOK, Svc, TaskRec, DrainRec, PCs

LEMMA IdleType ==
  /\ Idle \in TaskRec
  /\ Idle.pc = "idle" /\ Idle.msg = NoMsg /\ Idle.token = 0
  BY DEF Idle, TaskRec, PCs, Receipt

LEMMA EndedType ==
  /\ \A pc \in {"failed", "exited", "dead"} : Ended(pc) \in DrainRec /\ Ended(pc).pc = pc
  /\ Running \in DrainRec /\ Running.pc = "run"
  BY DEF Ended, Running, DrainRec, Receipt, Draining

LEMMA FaultDoes ==
  ASSUME TypeOK, Fault
  PROVE  faults' \in 0..MaxFaults
  BY CloudQueueAssumption DEF TypeOK, Fault

LEMMA GotoDoes ==
  ASSUME TypeOK, NEW t \in Task, NEW pc \in PCs, Goto(t, pc)
  PROVE  TaskStep(t, pc, task[t].msg, task[t].token)
<1> DEFINE k == [task[t] EXCEPT !.pc = pc]
<1>1. task \in [Task -> TaskRec]
  BY Types
<1>2. k \in TaskRec /\ k.pc = pc /\ k.msg = task[t].msg /\ k.token = task[t].token
  BY <1>1 DEF TaskRec
<1>3. task' = [task EXCEPT ![t] = k]
  BY DEF Goto
<1> HIDE DEF k
<1>4. QED
  BY <1>1, <1>2, <1>3 DEF TaskStep

LEMMA MarkDoes ==
  ASSUME TypeOK, NEW t \in Task, NEW pc \in PCs, NEW b \in BOOLEAN,
         task' = [task EXCEPT ![t].pc = pc, ![t].fresh = b]
  PROVE  TaskStep(t, pc, task[t].msg, task[t].token)
<1> DEFINE k == [task[t] EXCEPT !.pc = pc, !.fresh = b]
<1>1. task \in [Task -> TaskRec]
  BY Types
<1>2. k \in TaskRec /\ k.pc = pc /\ k.msg = task[t].msg /\ k.token = task[t].token
  BY <1>1 DEF TaskRec
<1>3. task' = [task EXCEPT ![t] = k]
  BY <1>1 DEF TaskRec
<1> HIDE DEF k
<1>4. QED
  BY <1>1, <1>2, <1>3 DEF TaskStep

LEMMA DoneDoes ==
  ASSUME TypeOK, NEW t \in Task, Done(t)
  PROVE  TaskStep(t, "idle", NoMsg, 0)
<1>1. task \in [Task -> TaskRec]
  BY Types
<1>2. QED
  BY <1>1, IdleType DEF TaskStep, Done

LEMMA ReceiveDoes ==
  ASSUME TypeOK, NEW t \in Task, NEW m \in Msg, Receive(t, m)
  PROVE  TaskStep(t, "receive", m, svc[m].receipt + 1) /\ SvcStep(m, "leased")
<1>1. task \in [Task -> TaskRec] /\ svc \in [Msg -> Svc]
  BY Types
<1>2. svc[m].receipt + 1 \in Receipt
  BY <1>1 DEF Svc, Receipt
<1> DEFINE k == [pc |-> "receive", msg |-> m, token |-> svc[m].receipt + 1,
                 call |-> 0, fresh |-> TRUE]
<1> DEFINE v == [st |-> "leased", receipt |-> svc[m].receipt + 1]
<1>3. /\ k \in TaskRec /\ k.pc = "receive" /\ k.msg = m /\ k.token = svc[m].receipt + 1
      /\ v \in Svc /\ v.st = "leased"
  BY <1>2 DEF TaskRec, Svc, PCs, Receipt
<1>4. task' = [task EXCEPT ![t] = k] /\ svc' = [svc EXCEPT ![m] = v]
  BY DEF Receive
<1> HIDE DEF k, v
<1>5. QED
  BY <1>1, <1>3, <1>4 DEF TaskStep, SvcStep

\* A transition of a message's state.
LEMMA StateDoes ==
  ASSUME TypeOK, NEW m \in Msg, NEW st \in {"unsent", "visible", "leased", "gone"},
         svc' = [svc EXCEPT ![m].st = st]
  PROVE  SvcStep(m, st)
<1> DEFINE v == [svc[m] EXCEPT !.st = st]
<1>1. svc \in [Msg -> Svc]
  BY Types
<1>2. v \in Svc /\ v.st = st
  BY <1>1 DEF Svc
<1>3. svc' = [svc EXCEPT ![m] = v]
  OBVIOUS
<1> HIDE DEF v
<1>4. QED
  BY <1>1, <1>2, <1>3 DEF SvcStep

LEMMA DeletesDoes ==
  ASSUME TypeOK, NEW m \in Msg, NEW r, Deletes(m, r)
  PROVE  SvcStep(m, "gone") \/ svc' = svc
  BY StateDoes DEF Deletes

\* A release makes nothing disappear.
LEMMA ReleasesDoes ==
  ASSUME TypeOK, NEW m \in Msg, NEW r, Releases(m, r)
  PROVE  (SvcStep(m, svc[m].st) \/ SvcStep(m, "visible")) \/ svc' = svc
<1>1. svc \in [Msg -> Svc]
  BY Types
<1>2. svc[m].st \in {"unsent", "visible", "leased", "gone"}
  BY <1>1 DEF Svc
<1>3. CASE svc' = svc
  BY <1>3
<1>4. CASE svc' = [svc EXCEPT ![m].st = IF @ = "leased" THEN "visible" ELSE @]
  <2>1. CASE svc[m].st = "leased"
    <3>1. svc' = [svc EXCEPT ![m].st = "visible"]
      BY <1>4, <2>1
    <3>2. QED
      BY <3>1, StateDoes
  <2>2. CASE svc[m].st # "leased"
    <3>1. svc' = [svc EXCEPT ![m].st = svc[m].st]
      BY <1>4, <2>2
    <3>2. QED
      BY <1>2, <3>1, StateDoes
  <2>3. QED
    BY <2>1, <2>2
<1>5. QED
  BY <1>3, <1>4 DEF Releases

LEMMA InsertDoes ==
  ASSUME TypeOK, NEW p \in Proc, NEW m \in Msg, NEW r \in Receipt, Insert(p, m, r)
  PROVE  EntryStep(p, m, r)
  BY DEF TypeOK, Insert, EntryStep

LEMMA RemoveDoes ==
  ASSUME TypeOK, NEW p \in Proc, NEW m \in Msg, Remove(p, m)
  PROVE  EntryStep(p, m, 0)
  BY DEF TypeOK, Remove, EntryStep, Receipt

\* A process that is over has no task at work; the others go on.
LEMMA VanishDoes ==
  ASSUME TypeOK, NEW p \in Proc, Vanish(p)
  PROVE  /\ task' \in [Task -> TaskRec]
         /\ \A t \in Task : Client[t] = p => task'[t].pc = "idle"
         /\ \A t \in Task : Client[t] # p => task'[t] = task[t]
         /\ inflight' \in [Proc -> [Msg -> Receipt]]
         /\ \A q \in Proc : q # p => inflight'[q] = inflight[q]
         /\ mutex' = mutex \ {p}
<1>1. task \in [Task -> TaskRec] /\ inflight \in [Proc -> [Msg -> Receipt]]
  BY Types
<1>2. QED
  BY <1>1, IdleType DEF Vanish, Receipt

LEMMA TakeDoes ==
  ASSUME TypeOK, HandsFull, NEW t \in Task, TakeReceipt(t)
  PROVE  /\ task[t].msg \in Msg /\ Client[t] \notin mutex
         /\ EntryStep(Client[t], task[t].msg, 0)
         /\ \/ TaskStep(t, "idle", NoMsg, 0)
            \/ task[t].pc = "ack" /\ TaskStep(t, "delete", task[t].msg, task[t].token)
            \/ TaskStep(t, "release", task[t].msg, task[t].token)
         /\ UNCHANGED <<provider, svc, mutex, drain, finished, faults>>
<1> USE CloudQueueAssumption
<1>0. UNCHANGED <<provider, svc, mutex, drain, finished, faults>>
  BY DEF TakeReceipt
<1>1. task \in [Task -> TaskRec] /\ inflight \in [Proc -> [Msg -> Receipt]]
  BY Types
<1>2. task[t].msg \in Msg /\ task[t].pc \in {"ack", "nack"} /\ Client[t] \notin mutex
  BY DEF HandsFull, TakeReceipt, Unlocked
<1>3. EntryStep(Client[t], task[t].msg, 0)
  BY <1>2, RemoveDoes DEF TakeReceipt
<1> DEFINE c == inflight[Client[t]][task[t].msg]
           pc == IF task[t].pc = "ack" THEN "delete" ELSE "release"
           k == [task[t] EXCEPT !.pc = pc, !.call = c]
<1>4. CASE c = 0
  <2>1. Done(t)
    BY <1>4 DEF TakeReceipt
  <2>2. QED
    BY <1>0, <1>2, <1>3, <2>1, DoneDoes
<1>5. CASE c # 0
  <2>1. c \in Receipt
    BY <1>1, <1>2
  <2>2. task' = [task EXCEPT ![t] = k]
    BY <1>1, <1>5 DEF TakeReceipt, TaskRec
  <2>3. /\ k \in TaskRec /\ k.pc = pc /\ k.msg = task[t].msg /\ k.token = task[t].token
    <3>1. task[t] \in TaskRec /\ pc \in PCs
      BY <1>1 DEF PCs
    <3> HIDE DEF pc, c
    <3>2. QED
      BY <2>1, <3>1 DEF TaskRec
  <2> HIDE DEF k
  <2>4. TaskStep(t, pc, task[t].msg, task[t].token)
    BY <1>1, <2>2, <2>3 DEF TaskStep
  <2>5. QED
    BY <1>0, <1>2, <1>3, <2>4
<1>6. QED
  BY <1>4, <1>5

\* Drain p is at pc now, with message m in its hands.
DrainStep(p, pc, m) ==
  /\ drain' \in [Proc -> DrainRec]
  /\ drain'[p].pc = pc /\ drain'[p].msg = m
  /\ \A q \in Proc : q # p => drain'[q] = drain[q]

LEMMA EndDoes ==
  ASSUME TypeOK, NEW p \in Proc, NEW pc \in {"failed", "exited", "dead"},
         drain' = [drain EXCEPT ![p] = Ended(pc)]
  PROVE  DrainStep(p, pc, Ended(pc).msg)
<1>1. drain \in [Proc -> DrainRec]
  BY Types
<1>2. QED
  BY <1>1, EndedType DEF DrainStep

LEMMA DrainStartDoes ==
  ASSUME TypeOK, HandsFull, NEW p \in Proc, DrainStart(p)
  PROVE  DrainStep(p, "nack", drain[p].msg)
<1>1. task \in [Task -> TaskRec] /\ drain \in [Proc -> DrainRec]
  BY Types
<1>2. InFlight(p) \subseteq Msg
  BY DEF InFlight, Tasks, HandsFull
<1> DEFINE k == [drain[p] EXCEPT !.pc = "nack", !.todo = InFlight(p)]
<1>3. k \in DrainRec /\ k.pc = "nack" /\ k.msg = drain[p].msg
  BY <1>1, <1>2 DEF DrainRec, Draining
<1>4. drain' = [drain EXCEPT ![p] = k]
  BY <1>1 DEF DrainStart, DrainRec
<1> HIDE DEF k
<1>5. QED
  BY <1>1, <1>3, <1>4 DEF DrainStep

LEMMA DrainNackDoes ==
  ASSUME TypeOK, NEW p \in Proc, NEW m \in Msg, DrainNack(p, m)
  PROVE  /\ DrainStep(p, "failed", Ended("failed").msg) \/ DrainStep(p, "nackcall", m)
         /\ EntryStep(p, m, 0) /\ p \notin mutex
         /\ UNCHANGED <<provider, svc, mutex, task, finished, faults>>
<1>0. UNCHANGED <<provider, svc, mutex, task, finished, faults>>
  BY DEF DrainNack
<1>1. drain \in [Proc -> DrainRec] /\ inflight \in [Proc -> [Msg -> Receipt]]
  BY Types
<1>2. EntryStep(p, m, 0) /\ p \notin mutex
  BY RemoveDoes DEF DrainNack, Unlocked
<1>3. CASE inflight[p][m] = 0
  BY <1>0, <1>2, <1>3, EndDoes DEF DrainNack
<1>4. CASE inflight[p][m] # 0
  <2> DEFINE k == [drain[p] EXCEPT !.pc = "nackcall", !.msg = m, !.call = inflight[p][m]]
  <2>1. k \in DrainRec /\ k.pc = "nackcall" /\ k.msg = m
    BY <1>1 DEF DrainRec, Draining
  <2>2. drain' = [drain EXCEPT ![p] = k]
    BY <1>1, <1>4 DEF DrainNack, DrainRec
  <2> HIDE DEF k
  <2>3. QED
    BY <1>0, <1>1, <1>2, <2>1, <2>2 DEF DrainStep
<1>5. QED
  BY <1>3, <1>4

LEMMA DrainNackCallDoes ==
  ASSUME TypeOK, HandsFull, NEW p \in Proc, DrainNackCall(p)
  PROVE  /\ DrainStep(p, "nack", NoMsg)
         /\ \E m \in Msg : \/ SvcStep(m, svc[m].st) \/ SvcStep(m, "visible")
                           \/ svc' = svc
         /\ UNCHANGED <<provider, inflight, mutex, task, finished, faults>>
<1>0. \E m \in Msg : (SvcStep(m, svc[m].st) \/ SvcStep(m, "visible")) \/ svc' = svc
  BY ReleasesDoes DEF DrainNackCall, HandsFull
<1>1. drain \in [Proc -> DrainRec]
  BY Types
<1> DEFINE k == [drain[p] EXCEPT !.pc = "nack", !.todo = @ \ {drain[p].msg},
                                 !.msg = NoMsg, !.call = 0]
<1>2. k \in DrainRec /\ k.pc = "nack" /\ k.msg = NoMsg
  BY <1>1 DEF DrainRec, Draining, Receipt
<1>3. drain' = [drain EXCEPT ![p] = k]
  BY <1>1 DEF DrainNackCall, DrainRec
<1> HIDE DEF k
<1>4. DrainStep(p, "nack", NoMsg)
  BY <1>1, <1>2, <1>3 DEF DrainStep
<1>5. QED
  BY <1>0, <1>4 DEF DrainNackCall

LEMMA DrainSnapshotDoes ==
  ASSUME TypeOK, NEW p \in Proc, DrainSnapshot(p)
  PROVE  \/ DrainStep(p, "failed", Ended("failed").msg)
         \/ DrainStep(p, "deregister", drain[p].msg)
<1>1. drain \in [Proc -> DrainRec]
  BY Types
<1> DEFINE k == [drain[p] EXCEPT !.pc = "deregister"]
<1>2. k \in DrainRec /\ k.pc = "deregister" /\ k.msg = drain[p].msg
  BY <1>1 DEF DrainRec, Draining
<1>3. drain' = [drain EXCEPT ![p] = Ended("failed")] \/ drain' = [drain EXCEPT ![p] = k]
  BY DEF DrainSnapshot
<1> HIDE DEF k
<1>4. QED
  BY <1>1, <1>2, <1>3, EndDoes DEF DrainStep

LEMMA RegisterDoes ==
  ASSUME TypeOK, HandsFull, NEW t \in Task, Register(t)
  PROVE  /\ TaskStep(t, "work", task[t].msg, task[t].token)
         /\ task[t].msg \in Msg /\ Client[t] \in Proc \ mutex
         /\ EntryStep(Client[t], task[t].msg, task[t].token)
         /\ UNCHANGED <<provider, svc, mutex, drain, finished, faults>>
<1>1. task[t].msg \in Msg /\ task[t].token \in Receipt
  BY Types DEF Register, HandsFull, TaskRec
<1>2. Client[t] \in Proc \ mutex
  BY CloudQueueAssumption DEF Register, Unlocked
<1>3. QED
  BY <1>1, <1>2, GotoDoes, InsertDoes DEF Register, PCs

LEMMA FinishDoes ==
  ASSUME TypeOK, HandsFull, NEW t \in Task, Finish(t)
  PROVE  /\ TaskStep(t, "ack", task[t].msg, task[t].token)
         /\ task[t].msg \in Msg /\ finished' = finished \cup {task[t].msg}
         /\ UNCHANGED <<provider, svc, inflight, mutex, drain, faults>>
  BY MarkDoes DEF Finish, HandsFull, PCs

LEMMA GiveUpDoes ==
  ASSUME TypeOK, HandsFull, NEW t \in Task, GiveUp(t)
  PROVE  /\ TaskStep(t, "nack", task[t].msg, task[t].token)
         /\ task[t].msg \in Msg /\ faults' \in 0..MaxFaults
         /\ UNCHANGED <<provider, svc, inflight, mutex, drain, finished>>
  BY MarkDoes, FaultDoes DEF GiveUp, HandsFull, PCs

LEMMA ExtendDoes ==
  ASSUME TypeOK, HandsFull, NEW t \in Task, Extend(t)
  PROVE  /\ TaskStep(t, "extend", task[t].msg, task[t].token)
         /\ task[t].msg \in Msg /\ task[t].pc = "work" /\ Client[t] \in Proc
         /\ \/ provider = "sqs" /\ mutex' = mutex
            \/ /\ provider = "pubsub" /\ Client[t] \notin mutex
               /\ inflight[Client[t]][task[t].msg] = task[t].token
               /\ mutex' = mutex \cup {Client[t]}
         /\ UNCHANGED <<provider, svc, inflight, drain, finished, faults>>
<1>1. task' = [task EXCEPT ![t].pc = "extend", ![t].fresh = FALSE]
  BY DEF Extend
<1>2. TaskStep(t, "extend", task[t].msg, task[t].token)
  BY <1>1, MarkDoes DEF PCs
<1>3. QED
  BY <1>2, CloudQueueAssumption DEF Extend, HandsFull, Unlocked

LEMMA ExtendCallDoes ==
  ASSUME TypeOK, NEW t \in Task, ExtendCall(t)
  PROVE  /\ TaskStep(t, "work", task[t].msg, task[t].token)
         /\ task[t].pc = "extend" /\ mutex' = mutex \ {Client[t]}
         /\ UNCHANGED <<provider, svc, inflight, drain, finished, faults>>
  BY GotoDoes DEF ExtendCall, PCs

\* A process that exits or is reclaimed.
Vanishes(p) ==
  /\ task' \in [Task -> TaskRec] /\ inflight' \in [Proc -> [Msg -> Receipt]]
  /\ \A t \in Task : IF Client[t] = p THEN task'[t].pc = "idle" ELSE task'[t] = task[t]
  /\ \A q \in Proc : q # p => inflight'[q] = inflight[q]
  /\ mutex' = mutex \ {p}
  /\ drain' \in [Proc -> DrainRec]
  /\ drain'[p].pc # "nackcall" /\ \A q \in Proc : q # p => drain'[q] = drain[q]
  /\ UNCHANGED <<provider, svc, finished, faults>>

LEMMA VanishesDoes ==
  ASSUME TypeOK, NEW p \in Proc, DrainExit(p) \/ Reclaim(p)
  PROVE  Vanishes(p)
<1>1. Vanish(p) /\ UNCHANGED <<provider, svc, finished, faults>>
  BY DEF DrainExit, Reclaim
<1>2. DrainStep(p, "exited", Ended("exited").msg) \/ DrainStep(p, "dead", Ended("dead").msg)
  BY EndDoes DEF DrainExit, Reclaim
<1>3. QED
  BY <1>1, <1>2, VanishDoes DEF Vanishes, DrainStep

-----------------------------------------------------------------------------
(* Every step keeps the invariant.                                         *)

\* Every step keeps the types.
LEMMA TypeStep ==
  ASSUME IInv, [Next]_vars
  PROVE  TypeOK'
<1> USE CloudQueueAssumption DEF IInv
<1>1. /\ provider \in {"sqs", "pubsub"} /\ svc \in [Msg -> Svc]
      /\ inflight \in [Proc -> [Msg -> Receipt]] /\ mutex \subseteq Proc
      /\ task \in [Task -> TaskRec] /\ drain \in [Proc -> DrainRec]
      /\ finished \subseteq Msg /\ faults \in 0..MaxFaults
  BY Types
<1>2. /\ \A t \in Task : task[t].pc # "idle" => task[t].msg \in Msg
      /\ \A p \in Proc : drain[p].pc = "nackcall" => drain[p].msg \in Msg
  BY DEF HandsFull
<1>3. \A t \in Task : task[t].token \in Receipt
  BY Types DEF TaskRec
<1>4. ASSUME NEW m \in Msg, Enqueue(m) PROVE TypeOK'
  BY <1>1, <1>2, <1>3, <1>4, StateDoes, TypesNext DEF Enqueue, SvcStep
<1>5. ASSUME NEW m \in Msg, Expire(m) PROVE TypeOK'
  <2>1. /\ svc' \in [Msg -> Svc] /\ faults' \in 0..MaxFaults
    BY <1>1, <1>5, StateDoes, FaultDoes DEF Expire, SvcStep
  <2>2. QED
    BY <1>1, <1>5, <2>1, TypesNext DEF Expire, SvcStep
<1>6. ASSUME NEW t \in Task, NEW m \in Msg, Receive(t, m) PROVE TypeOK'
  BY <1>1, <1>2, <1>3, <1>6, ReceiveDoes, TypesNext
  DEF Receive, TaskStep, SvcStep
<1>7. ASSUME NEW t \in Task, ReceiveError(t) PROVE TypeOK'
  BY <1>1, <1>2, <1>3, <1>7, DoneDoes, FaultDoes, TypesNext
  DEF ReceiveError, TaskStep
<1>8. ASSUME NEW t \in Task, Register(t) PROVE TypeOK'
  BY <1>1, <1>2, <1>3, <1>8, RegisterDoes, TypesNext DEF TaskStep, EntryStep
<1>9. ASSUME NEW t \in Task, Finish(t) PROVE TypeOK'
  BY <1>1, <1>2, <1>3, <1>9, FinishDoes, TypesNext DEF TaskStep
<1>10. ASSUME NEW t \in Task, GiveUp(t) PROVE TypeOK'
  BY <1>1, <1>2, <1>3, <1>10, GiveUpDoes, TypesNext DEF TaskStep
<1>11. ASSUME NEW t \in Task, TakeReceipt(t) PROVE TypeOK'
  BY <1>1, <1>2, <1>3, <1>11, TakeDoes, TypesNext DEF TaskStep, EntryStep
<1>12. ASSUME NEW t \in Task, AckCall(t) PROVE TypeOK'
  BY <1>1, <1>2, <1>3, <1>12, DeletesDoes, DoneDoes, TypesNext
  DEF AckCall, TaskStep, SvcStep
<1>13. ASSUME NEW t \in Task, NackCall(t) PROVE TypeOK'
  BY <1>1, <1>2, <1>3, <1>13, ReleasesDoes, DoneDoes, TypesNext
  DEF NackCall, TaskStep, SvcStep
<1>14. ASSUME NEW t \in Task, CallError(t) PROVE TypeOK'
  BY <1>1, <1>2, <1>3, <1>14, DeletesDoes, ReleasesDoes, DoneDoes, FaultDoes,
     TypesNext
  DEF CallError, TaskStep, SvcStep
<1>15. ASSUME NEW t \in Task, Extend(t) PROVE TypeOK'
  BY <1>1, <1>2, <1>3, <1>15, ExtendDoes, TypesNext DEF TaskStep
<1>16. ASSUME NEW t \in Task, ExtendCall(t) PROVE TypeOK'
  BY <1>1, <1>2, <1>3, <1>16, ExtendCallDoes, TypesNext DEF TaskStep
<1>17. ASSUME NEW p \in Proc, DrainStart(p) PROVE TypeOK'
  BY <1>1, <1>2, <1>3, <1>17, DrainStartDoes, TypesNext
  DEF DrainStart, DrainStep
<1>18. ASSUME NEW p \in Proc, NEW m \in Msg, DrainNack(p, m) PROVE TypeOK'
  BY <1>1, <1>2, <1>3, <1>18, DrainNackDoes, TypesNext
  DEF DrainStep, EntryStep
<1>19. ASSUME NEW p \in Proc, DrainNackCall(p) PROVE TypeOK'
  BY <1>1, <1>2, <1>3, <1>19, DrainNackCallDoes, TypesNext
  DEF DrainStep, SvcStep
<1>20. ASSUME NEW p \in Proc, DrainSnapshot(p) PROVE TypeOK'
  BY <1>1, <1>2, <1>3, <1>20, DrainSnapshotDoes, TypesNext
  DEF DrainSnapshot, DrainStep
<1>21. ASSUME NEW p \in Proc, DrainExit(p) PROVE TypeOK'
  BY <1>1, <1>2, <1>3, <1>21, VanishesDoes, TypesNext DEF Vanishes
<1>22. ASSUME NEW p \in Proc, DrainError(p) PROVE TypeOK'
  BY <1>1, <1>2, <1>3, <1>22, EndDoes, FaultDoes, TypesNext
  DEF DrainError, DrainStep
<1>23. ASSUME NEW p \in Proc, Reclaim(p) PROVE TypeOK'
  BY <1>1, <1>2, <1>3, <1>23, VanishesDoes, TypesNext DEF Vanishes
<1>24. CASE UNCHANGED vars
  BY <1>24, <1>1, <1>2, <1>3, TypesNext DEF vars
<1>25. QED
  BY <1>4, <1>5, <1>6, <1>7, <1>8, <1>9, <1>10, <1>11, <1>12, <1>13, <1>14,
     <1>15, <1>16, <1>17, <1>18, <1>19, <1>20, <1>21, <1>22, <1>23, <1>24
  DEF Next, Consume, Drain, vars

\* What is deleted was finished, by the task that deletes it or by another.
LEMMA LossStep ==
  ASSUME IInv, [Next]_vars
  PROVE  (NoMessageLost /\ HandsFull /\ AcksFinished)'
<1> USE CloudQueueAssumption DEF IInv, NoMessageLost, HandsFull, AcksFinished
<1>1. ASSUME NEW m \in Msg, Enqueue(m) PROVE (NoMessageLost /\ HandsFull /\ AcksFinished)'
  BY <1>1, StateDoes DEF Enqueue, SvcStep
<1>2. ASSUME NEW m \in Msg, Expire(m) PROVE (NoMessageLost /\ HandsFull /\ AcksFinished)'
  BY <1>2, StateDoes, FaultDoes DEF Expire, SvcStep
<1>3. ASSUME NEW t \in Task, NEW m \in Msg, Receive(t, m)
      PROVE (NoMessageLost /\ HandsFull /\ AcksFinished)'
  BY <1>3, ReceiveDoes DEF Receive, TaskStep, SvcStep
<1>4. ASSUME NEW t \in Task, ReceiveError(t)
      PROVE (NoMessageLost /\ HandsFull /\ AcksFinished)'
  BY <1>4, DoneDoes, FaultDoes DEF ReceiveError, TaskStep
<1>5. ASSUME NEW t \in Task, Register(t) PROVE (NoMessageLost /\ HandsFull /\ AcksFinished)'
  BY <1>5, RegisterDoes DEF TaskStep, EntryStep
<1>6. ASSUME NEW t \in Task, Finish(t) PROVE (NoMessageLost /\ HandsFull /\ AcksFinished)'
  BY <1>6, FinishDoes DEF TaskStep
<1>7. ASSUME NEW t \in Task, GiveUp(t) PROVE (NoMessageLost /\ HandsFull /\ AcksFinished)'
  BY <1>7, GiveUpDoes DEF TaskStep
<1>8. ASSUME NEW t \in Task, TakeReceipt(t)
      PROVE (NoMessageLost /\ HandsFull /\ AcksFinished)'
  BY <1>8, TakeDoes DEF TaskStep, EntryStep
<1>9. ASSUME NEW t \in Task, AckCall(t) PROVE (NoMessageLost /\ HandsFull /\ AcksFinished)'
  BY <1>9, DeletesDoes, DoneDoes DEF AckCall, TaskStep, SvcStep
<1>10. ASSUME NEW t \in Task, NackCall(t)
      PROVE (NoMessageLost /\ HandsFull /\ AcksFinished)'
  BY <1>10, ReleasesDoes, DoneDoes DEF NackCall, TaskStep, SvcStep
<1>11. ASSUME NEW t \in Task, CallError(t)
      PROVE (NoMessageLost /\ HandsFull /\ AcksFinished)'
  BY <1>11, DeletesDoes, ReleasesDoes, DoneDoes, FaultDoes
  DEF CallError, TaskStep, SvcStep
<1>12. ASSUME NEW t \in Task, Extend(t) PROVE (NoMessageLost /\ HandsFull /\ AcksFinished)'
  BY <1>12, ExtendDoes DEF TaskStep
<1>13. ASSUME NEW t \in Task, ExtendCall(t)
      PROVE (NoMessageLost /\ HandsFull /\ AcksFinished)'
  BY <1>13, ExtendCallDoes DEF TaskStep
<1>14. ASSUME NEW p \in Proc, DrainStart(p)
      PROVE (NoMessageLost /\ HandsFull /\ AcksFinished)'
  BY <1>14, DrainStartDoes DEF DrainStart, DrainStep
<1>15. ASSUME NEW p \in Proc, NEW m \in Msg, DrainNack(p, m)
      PROVE (NoMessageLost /\ HandsFull /\ AcksFinished)'
  <2>1. \A q \in Proc : drain'[q].pc = "nackcall" => drain'[q].msg \in Msg
    BY <1>15, DrainNackDoes DEF DrainStep
  <2>2. QED
    BY <1>15, <2>1, DrainNackDoes
<1>16. ASSUME NEW p \in Proc, DrainNackCall(p)
      PROVE (NoMessageLost /\ HandsFull /\ AcksFinished)'
  BY <1>16, DrainNackCallDoes DEF DrainStep, SvcStep
<1>17. ASSUME NEW p \in Proc, DrainSnapshot(p)
      PROVE (NoMessageLost /\ HandsFull /\ AcksFinished)'
  BY <1>17, DrainSnapshotDoes DEF DrainSnapshot, DrainStep
<1>18. ASSUME NEW p \in Proc, DrainExit(p)
      PROVE (NoMessageLost /\ HandsFull /\ AcksFinished)'
  BY <1>18, VanishesDoes DEF Vanishes
<1>19. ASSUME NEW p \in Proc, DrainError(p)
      PROVE (NoMessageLost /\ HandsFull /\ AcksFinished)'
  BY <1>19, EndDoes, FaultDoes DEF DrainError, DrainStep
<1>20. ASSUME NEW p \in Proc, Reclaim(p) PROVE (NoMessageLost /\ HandsFull /\ AcksFinished)'
  BY <1>20, VanishesDoes DEF Vanishes
<1>21. CASE UNCHANGED <<svc, task, drain, finished>>
  BY <1>21
<1>22. QED
  BY <1>1, <1>2, <1>3, <1>4, <1>5, <1>6, <1>7, <1>8, <1>9, <1>10, <1>11,
     <1>12, <1>13, <1>14, <1>15, <1>16, <1>17, <1>18, <1>19, <1>20, <1>21
  DEF Next, Consume, Drain, vars

\* The table is locked while a lease is extended.
LEMMA ExtendStep ==
  ASSUME IInv, [Next]_vars
  PROVE  (ExtendHoldsEntry /\ ExtendLocks /\ OneExtends)'
<1> USE CloudQueueAssumption DEF IInv, ExtendHoldsEntry, ExtendLocks, OneExtends, Extending
<1>1. /\ \A t \in Task : task[t].pc # "idle" => task[t].msg \in Msg
      /\ \A p \in Proc : drain[p].pc = "nackcall" => drain[p].msg \in Msg
  BY DEF HandsFull
<1>2. \A t \in Task : Client[t] \in Proc
  BY CloudQueueAssumption
<1>3. ASSUME NEW t \in Task, NEW m \in Msg, Receive(t, m)
      PROVE (ExtendHoldsEntry /\ ExtendLocks /\ OneExtends)'
  BY <1>1, <1>2, <1>3, ReceiveDoes DEF Receive, TaskStep, SvcStep
<1>4. ASSUME NEW t \in Task, ReceiveError(t)
      PROVE (ExtendHoldsEntry /\ ExtendLocks /\ OneExtends)'
  BY <1>1, <1>2, <1>4, DoneDoes, FaultDoes DEF ReceiveError, TaskStep
<1>5. ASSUME NEW t \in Task, Register(t)
      PROVE (ExtendHoldsEntry /\ ExtendLocks /\ OneExtends)'
  <2>1. \A u \in Task : Extending(u)' => Extending(u) /\ task'[u] = task[u]
    BY <1>5, RegisterDoes DEF TaskStep
  <2>2. \A u \in Task : Extending(u) => Client[u] # Client[t]
    BY <1>5, RegisterDoes
  <2>3. \A u \in Task : Extending(u) =>
          inflight'[Client[u]][task[u].msg] = inflight[Client[u]][task[u].msg]
    BY <1>5, <1>1, <1>2, <2>2, RegisterDoes DEF EntryStep
  <2>4. QED
    BY <1>5, <2>1, <2>3, RegisterDoes
<1>6. ASSUME NEW t \in Task, Finish(t)
      PROVE (ExtendHoldsEntry /\ ExtendLocks /\ OneExtends)'
  BY <1>1, <1>2, <1>6, FinishDoes DEF TaskStep
<1>7. ASSUME NEW t \in Task, GiveUp(t)
      PROVE (ExtendHoldsEntry /\ ExtendLocks /\ OneExtends)'
  BY <1>1, <1>2, <1>7, GiveUpDoes DEF TaskStep
<1>8. ASSUME NEW t \in Task, TakeReceipt(t)
      PROVE (ExtendHoldsEntry /\ ExtendLocks /\ OneExtends)'
  <2>1. \A u \in Task : Extending(u)' => Extending(u) /\ task'[u] = task[u]
    BY <1>8, TakeDoes DEF TaskStep
  <2>2. \A u \in Task : Extending(u) => Client[u] # Client[t]
    BY <1>8, TakeDoes
  <2>3. \A u \in Task : Extending(u) =>
          inflight'[Client[u]][task[u].msg] = inflight[Client[u]][task[u].msg]
    BY <1>8, <1>1, <1>2, <2>2, TakeDoes DEF EntryStep
  <2>4. QED
    BY <1>8, <2>1, <2>3, TakeDoes
<1>9. ASSUME NEW t \in Task, AckCall(t)
      PROVE (ExtendHoldsEntry /\ ExtendLocks /\ OneExtends)'
  BY <1>1, <1>2, <1>9, DeletesDoes, DoneDoes DEF AckCall, TaskStep, SvcStep
<1>10. ASSUME NEW t \in Task, NackCall(t)
      PROVE (ExtendHoldsEntry /\ ExtendLocks /\ OneExtends)'
  BY <1>1, <1>2, <1>10, ReleasesDoes, DoneDoes DEF NackCall, TaskStep, SvcStep
<1>11. ASSUME NEW t \in Task, CallError(t)
      PROVE (ExtendHoldsEntry /\ ExtendLocks /\ OneExtends)'
  BY <1>1, <1>2, <1>11, DeletesDoes, ReleasesDoes, DoneDoes, FaultDoes
  DEF CallError, TaskStep, SvcStep
<1>12. ASSUME NEW t \in Task, Extend(t)
      PROVE (ExtendHoldsEntry /\ ExtendLocks /\ OneExtends)'
  BY <1>1, <1>2, <1>12, ExtendDoes DEF TaskStep
<1>13. ASSUME NEW t \in Task, ExtendCall(t)
      PROVE (ExtendHoldsEntry /\ ExtendLocks /\ OneExtends)'
  BY <1>1, <1>2, <1>13, ExtendCallDoes DEF TaskStep
<1>14. ASSUME NEW p \in Proc, NEW m \in Msg, DrainNack(p, m)
      PROVE (ExtendHoldsEntry /\ ExtendLocks /\ OneExtends)'
  BY <1>1, <1>2, <1>14, DrainNackDoes DEF DrainStep, EntryStep
<1>15. ASSUME NEW p \in Proc, DrainExit(p)
      PROVE (ExtendHoldsEntry /\ ExtendLocks /\ OneExtends)'
  <2>1. \A u \in Task : Extending(u)' => Extending(u) /\ task'[u] = task[u] /\ Client[u] # p
    BY <1>15, VanishesDoes DEF Vanishes
  <2>2. \A u \in Task : Client[u] # p => inflight'[Client[u]] = inflight[Client[u]]
    BY <1>15, <1>2, VanishesDoes DEF Vanishes
  <2>3. QED
    BY <1>15, <2>1, <2>2, VanishesDoes DEF Vanishes
<1>16. ASSUME NEW p \in Proc, Reclaim(p)
      PROVE (ExtendHoldsEntry /\ ExtendLocks /\ OneExtends)'
  <2>1. \A u \in Task : Extending(u)' => Extending(u) /\ task'[u] = task[u] /\ Client[u] # p
    BY <1>16, VanishesDoes DEF Vanishes
  <2>2. \A u \in Task : Client[u] # p => inflight'[Client[u]] = inflight[Client[u]]
    BY <1>16, <1>2, VanishesDoes DEF Vanishes
  <2>3. QED
    BY <1>16, <2>1, <2>2, VanishesDoes DEF Vanishes
<1>17. CASE UNCHANGED <<provider, inflight, mutex, task>>
  BY <1>17
<1>18. QED
  BY <1>3, <1>4, <1>5, <1>6, <1>7, <1>8, <1>9, <1>10, <1>11, <1>12, <1>13,
     <1>14, <1>15, <1>16, <1>17
  DEF Next, Consume, Drain, vars, Enqueue, Expire, DrainStart, DrainNackCall,
      DrainSnapshot, DrainError

LEMMA InitInv == Init => IInv
<1> SUFFICES ASSUME Init PROVE IInv
  OBVIOUS
<1>1. \A t \in Task : task[t].pc = "idle"
  BY IdleType DEF Init
<1>2. \A p \in Proc : drain[p].pc = "run"
  BY EndedType DEF Init
<1>3. \A m \in Msg : svc[m].st = "unsent"
  BY DEF Init
<1>4. TypeOK
  <2>1. svc \in [Msg -> Svc] /\ inflight \in [Proc -> [Msg -> Receipt]]
    BY DEF Init, Svc, Receipt
  <2>2. task \in [Task -> TaskRec] /\ drain \in [Proc -> DrainRec]
    BY IdleType, EndedType DEF Init
  <2>3. QED
    BY <2>1, <2>2, Types, CloudQueueAssumption DEF Init
<1>5. QED
  BY <1>1, <1>2, <1>3, <1>4
  DEF IInv, NoMessageLost, ExtendHoldsEntry, HandsFull, AcksFinished, ExtendLocks,
      OneExtends, Extending

\* The inductive invariant holds throughout.
THEOREM Induction == Spec => []IInv
<1>1. IInv /\ [Next]_vars => IInv'
  BY TypeStep, LossStep, ExtendStep DEF IInv
<1>2. QED
  BY <1>1, InitInv, PTL DEF Spec

\* A message leaves the service only after some consumer finished it, and a
\* delivery whose lease is being extended keeps the client's entry: for both
\* services, under any redeliveries, stale receipts, drains and reclaims.
THEOREM Invariance == Spec => []Inv
<1>1. IInv => Inv
  BY DEF IInv, Inv
<1>2. QED
  BY <1>1, Induction, PTL
=============================================================================
