--------------------------- MODULE WorkLedgerProofs ---------------------------
(***************************************************************************)
(* Proofs about WorkLedger, for any number of items, workers and thieves:  *)
(* no item is lost or stranded between the queue and the ledger, a Done    *)
(* row is final, only the owner on record completes an item, and the       *)
(* ledger implements ClaimTable.                                           *)
(*                                                                         *)
(* The swaps compare with rows that were read some steps before; what the  *)
(* proof needs of those copies is that they were Running, and of a         *)
(* worker's own that they name the worker (HeldWasOwn).  That an item in   *)
(* the ledger is not dispatched a second time needs that a payload has one *)
(* entry only (OneEntry).                                                  *)
(***************************************************************************)
EXTENDS WorkLedger, FiniteSetTheorems, TLAPS

\* A backlog is a number.
LEMMA BacklogIsNat == ASSUME NEW w PROVE Backlog(w) \in Nat
  BY FS_Subset, FS_CardinalityType, WorkLedgerAssumption DEF Backlog, RunningIds

\* The initial states satisfy the invariant.
LEMMA InitInv == Init => Inv
<1> SUFFICES ASSUME Init PROVE Inv
  OBVIOUS
<1> USE WorkLedgerAssumption DEF Init
<1>1. TypeOK
  BY DEF TypeOK, Row, Absent, StealRequest, NoSteal, NoWorker
<1>2. NoStrandedPending
  BY DEF NoStrandedPending, Absent
<1>3. QueuedOrInLedger
  BY DEF QueuedOrInLedger
<1>4. HeldWasOwn
  BY DEF HeldWasOwn, NoSteal
<1>5. OneEntry
  BY DEF OneEntry
<1>6. QED
  BY <1>1, <1>2, <1>3, <1>4, <1>5 DEF Inv

\* What a reader finds are records of Running rows of the worker.
LEMMA RunningOfType ==
  ASSUME TypeOK, NEW w
  PROVE  /\ RunningOf(w) \subseteq Record
         /\ \A r \in RunningOf(w) : r.row.st = "Running" /\ r.row.worker = w
  BY DEF TypeOK, RunningOf, RunningIds, Record

\* A claim writes a row of its type.
LEMMA ClaimType ==
  ASSUME TypeOK, NEW i \in Item, NEW w \in Worker, NEW t \in Nat
  PROVE  TryClaim(i, w, t) \in [Item -> Row]
  BY DEF TypeOK, TryClaim, Running, Row

\* The steal request of one worker changes to another of its type.
LEMMA SetStealType ==
  ASSUME TypeOK, NEW t \in Worker, NEW r \in StealRequest, SetSteal(t, r)
  PROVE  steal' \in [Worker -> StealRequest]
  BY DEF TypeOK, SetSteal

LEMMA NoStealType == NoSteal \in StealRequest
  BY DEF NoSteal, StealRequest, NoWorker

\* Every step keeps the types.
LEMMA TypeStep == TypeOK /\ [Next]_vars => TypeOK'
<1> SUFFICES ASSUME TypeOK, [Next]_vars PROVE TypeOK'
  OBVIOUS
<1> USE WorkLedgerAssumption
<1>1. CASE Tick
  BY <1>1 DEF Tick, TypeOK
<1>2. ASSUME NEW i \in Item, NEW rnd \in Random, Enqueue(i, rnd) PROVE TypeOK'
  BY <1>2 DEF Enqueue, TypeOK, Entry
<1>3. ASSUME NEW w \in Worker, Dispatch(w) PROVE TypeOK'
  <2>1. PICK e \in queue : work' = TryClaim(e.item, w, clock) /\ queue' = queue \ {e}
    BY <1>3 DEF Dispatch
  <2>2. e.item \in Item /\ clock \in Nat
    BY DEF TypeOK, Entry
  <2>3. work' \in [Item -> Row]
    BY <2>1, <2>2, ClaimType
  <2>4. QED
    BY <1>3, <2>1, <2>3 DEF Dispatch, TypeOK
<1>4. ASSUME NEW w \in Worker, ReadRunning(w) PROVE TypeOK'
  <2>1. RunningOf(w) \subseteq Record
    BY RunningOfType
  <2>2. QED
    BY <1>4, <2>1 DEF ReadRunning, TypeOK
<1>5. ASSUME NEW w \in Worker, Complete(w) PROVE TypeOK'
  <2>1. PICK r \in held[w] :
          /\ work' = IF TryComplete(r)
                     THEN [work EXCEPT ![r.item] = Done(w)] ELSE work
          /\ held' = [held EXCEPT ![w] = @ \ {r}]
    BY <1>5 DEF Complete
  <2>2. work' \in [Item -> Row]
    BY <2>1 DEF TypeOK, Done, Row
  <2>3. held' \in [Worker -> SUBSET Record]
    BY <2>1 DEF TypeOK
  <2>4. QED
    BY <1>5, <2>2, <2>3 DEF Complete, TypeOK
<1>6. ASSUME NEW w \in Worker, WorkerCrash(w) PROVE TypeOK'
  BY <1>6 DEF WorkerCrash, TypeOK
<1>7. ASSUME NEW t \in Worker, StealGuard(t) PROVE TypeOK'
  <2>1. [NoSteal EXCEPT !.pc = "victim", !.now = clock] \in StealRequest
    BY DEF NoSteal, StealRequest, TypeOK, NoWorker
  <2>2. steal' \in [Worker -> StealRequest]
    BY <1>7, <2>1, SetStealType DEF StealGuard
  <2>3. QED
    BY <1>7, <2>2 DEF StealGuard, TypeOK
<1>8. ASSUME NEW t \in Worker, StealVictim(t) PROVE TypeOK'
  <2>1. ASSUME NEW v \in Peers(t)
        PROVE  [steal[t] EXCEPT !.pc = "scan", !.victim = v,
                                !.n = StealCount(Backlog(v))] \in StealRequest
    <3>1. StealCount(Backlog(v)) \in Nat
      BY BacklogIsNat DEF StealCount
    <3>2. v \in Worker
      BY DEF Peers
    <3>3. steal[t] \in StealRequest
      BY DEF TypeOK
    <3>4. ASSUME NEW n \in Nat
          PROVE  [steal[t] EXCEPT !.pc = "scan", !.victim = v, !.n = n] \in StealRequest
      BY <3>2, <3>3 DEF StealRequest
    <3>5. QED
      BY <3>1, <3>4
  <2>2. steal' \in [Worker -> StealRequest]
    BY <1>8, <2>1, SetStealType, NoStealType DEF StealVictim
  <2>3. QED
    BY <1>8, <2>2 DEF StealVictim, TypeOK
<1>9. ASSUME NEW t \in Worker, StealScan(t) PROVE TypeOK'
  <2> DEFINE batch == FirstN(RunningOf(steal[t].victim), steal[t].n)
  <2>1. batch \subseteq Record
    BY RunningOfType DEF FirstN
  <2> HIDE DEF batch
  <2>2. [steal[t] EXCEPT !.pc = "reassign", !.batch = batch] \in StealRequest
    <3>1. steal[t] \in StealRequest
      BY DEF TypeOK
    <3>2. QED
      BY <2>1, <3>1 DEF StealRequest
  <2>3. SetSteal(t, NoSteal)
          \/ SetSteal(t, [steal[t] EXCEPT !.pc = "reassign", !.batch = batch])
    BY <1>9 DEF StealScan, batch
  <2>4. steal' \in [Worker -> StealRequest]
    BY <2>2, <2>3, SetStealType, NoStealType
  <2>5. QED
    BY <1>9, <2>4 DEF StealScan, TypeOK
<1>10. ASSUME NEW t \in Worker, StealReassign(t) PROVE TypeOK'
  <2>1. PICK r \in steal[t].batch :
          /\ work' = IF TryRepending(r)
                     THEN TryClaim(r.item, t, steal[t].now) ELSE work
          /\ SetSteal(t, IF steal[t].batch = {r} THEN NoSteal
                         ELSE [steal[t] EXCEPT !.batch = @ \ {r}])
    BY <1>10 DEF StealReassign
  <2>2. r.item \in Item /\ steal[t].now \in Nat
    BY DEF TypeOK, StealRequest, Record
  <2>3. work' \in [Item -> Row]
    BY <2>1, <2>2, ClaimType DEF TypeOK
  <2>4. [steal[t] EXCEPT !.batch = @ \ {r}] \in StealRequest
    BY DEF TypeOK, StealRequest
  <2>5. steal' \in [Worker -> StealRequest]
    BY <2>1, <2>4, SetStealType, NoStealType
  <2>6. QED
    BY <1>10, <2>3, <2>5 DEF StealReassign, TypeOK
<1>11. CASE CoordinatorRestart
  BY <1>11, NoStealType DEF CoordinatorRestart, TypeOK
<1>12. CASE UNCHANGED vars
  BY <1>12 DEF vars, TypeOK
<1>13. QED
  BY <1>1, <1>2, <1>3, <1>4, <1>5, <1>6, <1>7, <1>8, <1>9, <1>10, <1>11, <1>12
  DEF Next, WorkerStep, StealStep, ServeSteal

\* The steps that touch queue, ledger or counters, and all the others.
LEMMA LedgerSteps ==
  ASSUME [Next]_vars
  PROVE  \/ \E i \in Item, rnd \in Random : Enqueue(i, rnd)
         \/ \E w \in Worker : Dispatch(w) \/ Complete(w) \/ StealReassign(w)
         \/ UNCHANGED <<queue, work, copies>>
  BY DEF Next, WorkerStep, StealStep, ServeSteal, Tick, ReadRunning, WorkerCrash, StealGuard,
         StealVictim, StealScan, CoordinatorRestart, vars

\* A dispatch claims the item of one entry and removes that entry.
LEMMA DispatchStep ==
  ASSUME TypeOK, NEW w \in Worker, Dispatch(w)
  PROVE  \E e \in queue :
           /\ e.item \in Item
           /\ queue' = queue \ {e}
           /\ work' = [work EXCEPT ![e.item] = Running(w, clock)]
           /\ copies' = copies
  BY DEF Dispatch, TryClaim, TypeOK, Entry

\* A completion turns a row Done that is Running under the worker, or leaves
\* the ledger as it is.
LEMMA CompleteStep ==
  ASSUME TypeOK, HeldWasOwn, NEW w \in Worker, Complete(w)
  PROVE  /\ UNCHANGED <<queue, copies>>
         /\ \/ work' = work
            \/ \E i \in Item :
                 /\ work[i].st = "Running" /\ work[i].worker = w
                 /\ work' = [work EXCEPT ![i] = Done(w)]
<1>1. PICK r \in held[w] :
        work' = IF TryComplete(r) THEN [work EXCEPT ![r.item] = Done(w)] ELSE work
  BY DEF Complete
<1>2. r.item \in Item /\ r.row.st = "Running" /\ r.row.worker = w
  BY DEF TypeOK, Record, HeldWasOwn
<1>3. QED
  BY <1>1, <1>2 DEF Complete, TryComplete

\* A reassignment moves a Running row to the thief, or leaves the ledger as it
\* is.
LEMMA ReassignStep ==
  ASSUME TypeOK, NEW t \in Worker, StealReassign(t)
  PROVE  /\ UNCHANGED <<queue, copies>>
         /\ \/ work' = work
            \/ \E i \in Item :
                 /\ work[i].st = "Running"
                 /\ work' = [work EXCEPT ![i] = Running(t, steal[t].now)]
<1>1. PICK r \in steal[t].batch :
        work' = IF TryRepending(r) THEN TryClaim(r.item, t, steal[t].now) ELSE work
  BY DEF StealReassign
<1>2. r.item \in Item
  BY DEF TypeOK, Record, StealRequest
<1>3. QED
  BY <1>1, <1>2 DEF StealReassign, TryRepending, TryClaim

\* No step leaves a row Pending.
LEMMA StrandedStep ==
  ASSUME TypeOK, HeldWasOwn, NoStrandedPending, [Next]_vars
  PROVE  NoStrandedPending'
<1> USE DEF NoStrandedPending, TypeOK
<1>1. CASE \E i \in Item, rnd \in Random : Enqueue(i, rnd)
  BY <1>1 DEF Enqueue
<1>2. ASSUME NEW w \in Worker, Dispatch(w) PROVE NoStrandedPending'
  <2>1. PICK e \in queue : /\ e.item \in Item
                            /\ work' = [work EXCEPT ![e.item] = Running(w, clock)]
    BY <1>2, DispatchStep
  <2>2. Running(w, clock).st # "Pending"
    BY DEF Running
  <2>3. QED
    BY <2>1, <2>2
<1>3. ASSUME NEW w \in Worker, Complete(w) PROVE NoStrandedPending'
  BY <1>3, CompleteStep DEF Done
<1>4. ASSUME NEW w \in Worker, StealReassign(w) PROVE NoStrandedPending'
  BY <1>4, ReassignStep DEF Running
<1>5. QED
  BY <1>1, <1>2, <1>3, <1>4, LedgerSteps

\* No step loses an item, nor brings a second one where there was one.
LEMMA QueuedStep ==
  ASSUME TypeOK, HeldWasOwn, OneEntry, QueuedOrInLedger, [Next]_vars
  PROVE  QueuedOrInLedger'
<1> USE DEF QueuedOrInLedger
<1> DEFINE SameAbsent == \A i \in Item : (work'[i] = Absent) <=> (work[i] = Absent)
<1>1. ASSUME NEW i \in Item, NEW rnd \in Random, Enqueue(i, rnd)
      PROVE  QueuedOrInLedger'
  <2>1. PICK e : /\ e.item = i
                 /\ queue' = queue \cup {e}
                 /\ copies' = [copies EXCEPT ![i] = copies[i] + 1]
                 /\ work' = work
    BY <1>1 DEF Enqueue
  <2>2. copies \in [Item -> Nat]
    BY DEF TypeOK
  <2>3. \A j \in Item : j # i => /\ copies'[j] = copies[j]
                                  /\ (\E f \in queue' : f.item = j)
                                       <=> \E f \in queue : f.item = j
    BY <2>1, <2>2
  <2>4. copies'[i] = copies[i] + 1 /\ \E f \in queue' : f.item = i
    BY <2>1, <2>2
  <2>5. copies[i] = 0 => work[i] = Absent
    OBVIOUS
  <2>6. ASSUME NEW j \in Item
        PROVE  /\ copies'[j] = 0 => work'[j] = Absent /\ \A f \in queue' : f.item # j
               /\ copies'[j] = 1 => (work'[j] = Absent <=> \E f \in queue' : f.item = j)
               /\ copies'[j] > 1 => work'[j] # Absent \/ \E f \in queue' : f.item = j
    <3>1. CASE j = i
      BY <3>1, <2>1, <2>2, <2>4, <2>5
    <3>2. CASE j # i
      BY <3>2, <2>1, <2>2, <2>3
    <3>3. QED
      BY <3>1, <3>2
  <2>7. QED
    BY <2>6
<1>2. ASSUME NEW w \in Worker, Dispatch(w) PROVE QueuedOrInLedger'
  <2>1. PICK e \in queue :
          /\ e.item \in Item
          /\ queue' = queue \ {e}
          /\ work' = [work EXCEPT ![e.item] = Running(w, clock)]
          /\ copies' = copies
    BY <1>2, DispatchStep
  <2>2. Running(w, clock) # Absent
    BY DEF Running, Absent
  <2>3. copies \in [Item -> Nat] /\ work \in [Item -> Row]
    BY DEF TypeOK
  <2>4. copies[e.item] # 0
    BY <2>1
  <2>5. copies[e.item] = 1 => \A f \in queue' : f.item # e.item
    BY <2>1 DEF OneEntry
  <2>6. QED
    BY <2>1, <2>2, <2>3, <2>4, <2>5
<1>3. ASSUME NEW w \in Worker, Complete(w) PROVE QueuedOrInLedger'
  <2>1. UNCHANGED <<queue, copies>> /\ SameAbsent
    <3>1. Done(w) # Absent
      BY DEF Done, Absent
    <3>2. QED
      BY <1>3, <3>1, CompleteStep DEF Absent, TypeOK
  <2>2. QED
    BY <2>1
<1>4. ASSUME NEW w \in Worker, StealReassign(w) PROVE QueuedOrInLedger'
  <2>1. UNCHANGED <<queue, copies>> /\ SameAbsent
    <3>1. Running(w, steal[w].now) # Absent
      BY DEF Running, Absent
    <3>2. QED
      BY <1>4, <3>1, ReassignStep DEF Absent, TypeOK
  <2>2. QED
    BY <2>1
<1>5. QED
  BY <1>1, <1>2, <1>3, <1>4, LedgerSteps

\* No step adds an entry of a payload that has one and was enqueued once.
LEMMA OneEntryStep ==
  ASSUME TypeOK, HeldWasOwn, QueuedOrInLedger, OneEntry, [Next]_vars
  PROVE  OneEntry'
<1> USE DEF OneEntry
<1>1. ASSUME NEW i \in Item, NEW rnd \in Random, Enqueue(i, rnd) PROVE OneEntry'
  <2>1. PICK e : /\ e.item = i
                 /\ queue' = queue \cup {e}
                 /\ copies' = [copies EXCEPT ![i] = copies[i] + 1]
    BY <1>1 DEF Enqueue
  <2>2. copies \in [Item -> Nat] /\ \A f \in queue : f.item \in Item
    BY DEF TypeOK, Entry
  <2>3. copies'[i] = 1 => \A f \in queue : f.item # i
    <3>1. copies'[i] = 1 => copies[i] = 0
      BY <2>1, <2>2
    <3>2. QED
      BY <3>1 DEF QueuedOrInLedger
  <2>4. QED
    BY <2>1, <2>2, <2>3
<1>2. ASSUME NEW w \in Worker, Dispatch(w) PROVE OneEntry'
  BY <1>2, DispatchStep
<1>3. ASSUME NEW w \in Worker, Complete(w) PROVE OneEntry'
  BY <1>3, CompleteStep
<1>4. ASSUME NEW w \in Worker, StealReassign(w) PROVE OneEntry'
  BY <1>4, ReassignStep
<1>5. QED
  BY <1>1, <1>2, <1>3, <1>4, LedgerSteps

\* What is read is Running and the reader's own; it is only used up after.
LEMMA HeldStep == ASSUME TypeOK, HeldWasOwn, [Next]_vars PROVE HeldWasOwn'
<1> USE DEF HeldWasOwn
<1>1. ASSUME NEW w \in Worker, ReadRunning(w) PROVE HeldWasOwn'
  <2>1. \A r \in RunningOf(w) : r.row.st = "Running" /\ r.row.worker = w
    BY RunningOfType
  <2>2. QED
    BY <1>1, <2>1 DEF ReadRunning, TypeOK
<1>2. ASSUME NEW w \in Worker, Complete(w) PROVE HeldWasOwn'
  BY <1>2 DEF Complete, TypeOK
<1>3. ASSUME NEW w \in Worker, WorkerCrash(w) PROVE HeldWasOwn'
  BY <1>3 DEF WorkerCrash, TypeOK
<1>4. ASSUME NEW t \in Worker, StealGuard(t) PROVE HeldWasOwn'
  BY <1>4 DEF StealGuard, SetSteal, NoSteal, TypeOK
<1>5. ASSUME NEW t \in Worker, StealVictim(t) PROVE HeldWasOwn'
  <2>1. steal'[t].batch \in {{}, steal[t].batch}
    <3>1. NoSteal.batch = {}
      BY DEF NoSteal
    <3>2. ASSUME NEW v, NEW n
          PROVE  [steal[t] EXCEPT !.pc = "scan", !.victim = v, !.n = n].batch = steal[t].batch
      BY DEF TypeOK, StealRequest
    <3>3. PICK r : SetSteal(t, r) /\ r.batch \in {{}, steal[t].batch}
      <4>1. CASE SetSteal(t, NoSteal)
        BY <3>1, <4>1
      <4>2. ASSUME NEW v, NEW n,
                   SetSteal(t, [steal[t] EXCEPT !.pc = "scan", !.victim = v, !.n = n])
            PROVE  \E r : SetSteal(t, r) /\ r.batch \in {{}, steal[t].batch}
        <5> DEFINE req == [steal[t] EXCEPT !.pc = "scan", !.victim = v, !.n = n]
        <5>1. SetSteal(t, req) /\ req.batch = steal[t].batch
          BY <3>2, <4>2
        <5> HIDE DEF req
        <5>2. QED
          BY <5>1
      <4>3. QED
        BY <1>5, <4>1, <4>2 DEF StealVictim
    <3>4. QED
      BY <3>3 DEF SetSteal, TypeOK
  <2>2. \A u \in Worker : u # t => steal'[u] = steal[u]
    BY <1>5 DEF StealVictim, SetSteal, TypeOK
  <2>3. QED
    <3>1. held' = held
      BY <1>5 DEF StealVictim
    <3>2. \A u \in Worker : steal'[u].batch \subseteq steal[u].batch
      BY <2>1, <2>2
    <3>3. QED
      BY <3>1, <3>2
<1>6. ASSUME NEW t \in Worker, StealScan(t) PROVE HeldWasOwn'
  <2>1. \A r \in RunningOf(steal[t].victim) : r.row.st = "Running"
    BY RunningOfType
  <2>2. steal'[t].batch = {}
          \/ steal'[t].batch = FirstN(RunningOf(steal[t].victim), steal[t].n)
    BY <1>6 DEF StealScan, SetSteal, NoSteal, TypeOK, StealRequest
  <2>3. \A r \in steal'[t].batch : r.row.st = "Running"
    BY <2>1, <2>2 DEF FirstN
  <2>4. \A u \in Worker : u # t => steal'[u] = steal[u]
    BY <1>6 DEF StealScan, SetSteal, TypeOK
  <2>5. QED
    BY <1>6, <2>3, <2>4 DEF StealScan
<1>7. ASSUME NEW t \in Worker, StealReassign(t) PROVE HeldWasOwn'
  <2>1. steal'[t].batch \subseteq steal[t].batch
    BY <1>7 DEF StealReassign, SetSteal, NoSteal, TypeOK, StealRequest
  <2>2. \A u \in Worker : u # t => steal'[u] = steal[u]
    BY <1>7 DEF StealReassign, SetSteal, TypeOK
  <2>3. QED
    BY <1>7, <2>1, <2>2 DEF StealReassign
<1>8. CASE CoordinatorRestart
  BY <1>8 DEF CoordinatorRestart, NoSteal
<1>9. CASE UNCHANGED <<held, steal>>
  BY <1>9
<1>10. QED
  BY <1>1, <1>2, <1>3, <1>4, <1>5, <1>6, <1>7, <1>8, <1>9
  DEF Next, WorkerStep, StealStep, ServeSteal, Tick, Enqueue, Dispatch, vars

\* The invariant holds in every reachable state, for any number of items,
\* workers, restarts and thieves.
THEOREM Invariance == Spec => []Inv
<1>1. Inv /\ [Next]_vars => Inv'
  <2> SUFFICES ASSUME Inv, [Next]_vars PROVE Inv'
    OBVIOUS
  <2> USE DEF Inv
  <2>1. TypeOK'
    BY TypeStep
  <2>2. NoStrandedPending'
    BY StrandedStep
  <2>3. QueuedOrInLedger'
    BY QueuedStep
  <2>4. HeldWasOwn'
    BY HeldStep
  <2>5. OneEntry'
    BY OneEntryStep
  <2>6. QED
    BY <2>1, <2>2, <2>3, <2>4, <2>5
<1>2. QED
  BY InitInv, <1>1, PTL DEF Spec

\* A Done row of a payload that was enqueued once never changes again: no late
\* ack, no steal of an earlier copy and no dispatch touches it.
THEOREM DoneIsFinal == Spec => DoneIsTerminal
<1>1. ASSUME Inv, [Next]_vars, NEW i \in Item, work[i].st = "Done", copies[i] = 1
      PROVE  work'[i] = work[i]
  <2> USE <1>1 DEF Inv
  <2>1. ASSUME NEW w \in Worker, Dispatch(w) PROVE work'[i] = work[i]
    <3>1. PICK e \in queue :
            /\ e.item \in Item
            /\ work' = [work EXCEPT ![e.item] = Running(w, clock)]
      BY <2>1, DispatchStep
    <3>2. e.item # i
      <4>1. work[i] # Absent
        BY DEF Absent
      <4>2. QED
        BY <3>1, <4>1 DEF QueuedOrInLedger
    <3>3. QED
      BY <3>1, <3>2 DEF TypeOK
  <2>2. ASSUME NEW w \in Worker, Complete(w) PROVE work'[i] = work[i]
    BY <2>2, CompleteStep DEF TypeOK
  <2>3. ASSUME NEW w \in Worker, StealReassign(w) PROVE work'[i] = work[i]
    BY <2>3, ReassignStep DEF TypeOK
  <2>4. QED
    BY <2>1, <2>2, <2>3, LedgerSteps DEF Enqueue
<1>2. Inv /\ [Next]_vars =>
        [\A i \in Item : work[i].st = "Done" /\ copies[i] = 1 => work'[i] = work[i]]_vars
  BY <1>1
<1>3. QED
  BY Invariance, <1>2, PTL DEF Spec, DoneIsTerminal

\* Only the worker on record completes an item: a worker whose item was stolen
\* in the meantime cannot.
THEOREM OwnerCompletes == Spec => AckOnlyByOwner
<1>1. ASSUME Inv, [Next]_vars, NEW i \in Item,
             work[i].st # "Done", work'[i].st = "Done"
      PROVE  work[i].st = "Running" /\ work'[i].worker = work[i].worker
  <2> USE <1>1 DEF Inv
  <2>1. ASSUME NEW w \in Worker, Dispatch(w) PROVE FALSE
    <3>1. PICK e \in queue : /\ e.item \in Item
                              /\ work' = [work EXCEPT ![e.item] = Running(w, clock)]
      BY <2>1, DispatchStep
    <3>2. Running(w, clock).st = "Running"
      BY DEF Running
    <3>3. QED
      BY <3>1, <3>2 DEF TypeOK
  <2>2. ASSUME NEW w \in Worker, Complete(w)
        PROVE  work[i].st = "Running" /\ work'[i].worker = work[i].worker
    BY <2>2, CompleteStep DEF TypeOK, Done
  <2>3. ASSUME NEW w \in Worker, StealReassign(w) PROVE FALSE
    BY <2>3, ReassignStep DEF TypeOK, Running
  <2>4. QED
    BY <2>1, <2>2, <2>3, LedgerSteps DEF Enqueue
<1>2. Inv /\ [Next]_vars =>
        [\A i \in Item :
           work[i].st # "Done" /\ work'[i].st = "Done"
             => work[i].st = "Running" /\ work'[i].worker = work[i].worker]_vars
  BY <1>1
<1>3. QED
  BY Invariance, <1>2, PTL DEF Spec, AckOnlyByOwner
-----------------------------------------------------------------------------
(***************************************************************************)
(* WorkLedger implements ClaimTable.                                       *)
(*                                                                         *)
(* Beyond the invariant the step needs three facts: a payload is not       *)
(* enqueued more often than MaxCopies says (so that a dispatch of one that *)
(* may come once finds no row), what a worker has read names each item     *)
(* once (so that with its ack the work on the item is over), and a thief   *)
(* never steals from itself.                                               *)
(***************************************************************************)

CopiesBounded == \A i \in Item : copies[i] <= MaxCopies[i]

OneRecord ==
  \A w \in Worker : \A r, q \in held[w] : r.item = q.item => r = q

FromOther(t, r) ==
  /\ r.victim # t
  /\ \A q \in r.batch : r.pc = "reassign" /\ q.row.worker = r.victim

FromOthers == \A t \in Worker : FromOther(t, steal[t])

\* The conjunction under which every step is a step of ClaimTable.
RefInv == Inv /\ CopiesBounded /\ OneRecord /\ FromOthers

-----------------------------------------------------------------------------
\* Only Enqueue counts, up to the bound.
LEMMA BoundedStep ==
  ASSUME TypeOK, CopiesBounded, [Next]_vars PROVE CopiesBounded'
<1> USE WorkLedgerAssumption DEF CopiesBounded, TypeOK
<1>1. ASSUME NEW i \in Item, NEW rnd \in Random, Enqueue(i, rnd) PROVE CopiesBounded'
  <2>1. copies[i] < MaxCopies[i] /\ copies' = [copies EXCEPT ![i] = copies[i] + 1]
    BY <1>1 DEF Enqueue
  <2>2. QED
    BY <2>1
<1>2. CASE UNCHANGED copies
  BY <1>2
<1>3. QED
  BY <1>1, <1>2, LedgerSteps DEF Dispatch, Complete, StealReassign

\* A worker reads the whole ledger at once, and then only uses records up.
LEMMA OneRecordStep == ASSUME TypeOK, OneRecord, [Next]_vars PROVE OneRecord'
<1> USE DEF OneRecord
<1>1. ASSUME NEW w \in Worker, ReadRunning(w) PROVE OneRecord'
  <2>1. \A r, q \in RunningOf(w) : r.item = q.item => r = q
    BY DEF RunningOf
  <2>2. held'[w] = RunningOf(w) /\ \A v \in Worker : v # w => held'[v] = held[v]
    BY <1>1 DEF ReadRunning, TypeOK
  <2>3. QED
    BY <2>1, <2>2
<1>2. ASSUME NEW w \in Worker, Complete(w) PROVE OneRecord'
  BY <1>2 DEF Complete, TypeOK
<1>3. ASSUME NEW w \in Worker, WorkerCrash(w) PROVE OneRecord'
  BY <1>3 DEF WorkerCrash, TypeOK
<1>4. CASE UNCHANGED held
  BY <1>4
<1>5. QED
  BY <1>1, <1>2, <1>3, <1>4
  DEF Next, WorkerStep, StealStep, ServeSteal, Tick, Enqueue, Dispatch, StealGuard, StealVictim,
      StealScan, StealReassign, CoordinatorRestart, vars

\* The steal request of t is replaced by one that keeps to it.
LEMMA SetStealKeeps ==
  ASSUME TypeOK, FromOthers, NEW t \in Worker, NEW r, SetSteal(t, r), FromOther(t, r)
  PROVE  FromOthers'
<1>1. steal'[t] = r /\ \A u \in Worker : u # t => steal'[u] = steal[u]
  BY DEF SetSteal, TypeOK
<1>2. QED
  BY <1>1 DEF FromOthers, FromOther

\* A victim is one of the thief's peers, and the batch is its rows.
LEMMA FromOthersStep == ASSUME TypeOK, FromOthers, [Next]_vars PROVE FromOthers'
<1> USE WorkLedgerAssumption
<1>0. \A t \in Worker : FromOther(t, NoSteal)
  BY DEF NoSteal, NoWorker, FromOther
<1>1. ASSUME NEW t \in Worker, StealGuard(t) PROVE FromOthers'
  <2>1. FromOther(t, [NoSteal EXCEPT !.pc = "victim", !.now = clock])
    BY DEF NoSteal, NoWorker, FromOther
  <2>2. QED
    BY <1>1, <2>1, SetStealKeeps DEF StealGuard
<1>2. ASSUME NEW t \in Worker, StealVictim(t) PROVE FromOthers'
  <2>1. ASSUME NEW v \in Peers(t), NEW n,
               SetSteal(t, [steal[t] EXCEPT !.pc = "scan", !.victim = v, !.n = n])
        PROVE  FromOthers'
    <3> DEFINE r == [steal[t] EXCEPT !.pc = "scan", !.victim = v, !.n = n]
    <3>1. steal[t] \in StealRequest /\ steal[t].pc = "victim" /\ FromOther(t, steal[t])
      BY <1>2 DEF StealVictim, TypeOK, FromOthers
    <3>2. r.victim = v /\ r.batch = steal[t].batch
      BY <3>1 DEF StealRequest
    <3>3. v # t /\ steal[t].batch = {}
      BY <3>1 DEF Peers, FromOther
    <3>4. SetSteal(t, r)
      BY <2>1
    <3> HIDE DEF r
    <3>5. FromOther(t, r)
      BY <3>2, <3>3 DEF FromOther
    <3>6. QED
      BY <3>4, <3>5, SetStealKeeps
  <2>2. QED
    BY <1>2, <2>1, <1>0, SetStealKeeps DEF StealVictim
<1>3. ASSUME NEW t \in Worker, StealScan(t) PROVE FromOthers'
  <2> DEFINE batch == FirstN(RunningOf(steal[t].victim), steal[t].n)
             r == [steal[t] EXCEPT !.pc = "reassign", !.batch = batch]
  <2>1. \A q \in batch : q.row.worker = steal[t].victim
    BY RunningOfType DEF FirstN
  <2>2. SetSteal(t, NoSteal) \/ SetSteal(t, r)
    BY <1>3 DEF StealScan
  <2> HIDE DEF batch
  <2>3. steal[t] \in StealRequest /\ steal[t].victim # t
    BY DEF TypeOK, FromOthers, FromOther
  <2>4. r.victim = steal[t].victim /\ r.batch = batch /\ r.pc = "reassign"
    BY <2>3 DEF StealRequest
  <2> HIDE DEF r
  <2>5. FromOther(t, r)
    BY <2>1, <2>3, <2>4 DEF FromOther
  <2>6. QED
    BY <2>2, <2>5, <1>0, SetStealKeeps
<1>4. ASSUME NEW t \in Worker, StealReassign(t) PROVE FromOthers'
  <2>1. PICK q \in steal[t].batch :
          SetSteal(t, IF steal[t].batch = {q} THEN NoSteal
                      ELSE [steal[t] EXCEPT !.batch = @ \ {q}])
    BY <1>4 DEF StealReassign
  <2> DEFINE r == [steal[t] EXCEPT !.batch = @ \ {q}]
  <2>2. steal[t] \in StealRequest /\ FromOther(t, steal[t])
    BY DEF TypeOK, FromOthers
  <2>3. r.victim = steal[t].victim /\ r.batch = steal[t].batch \ {q} /\ r.pc = steal[t].pc
    BY <2>2 DEF StealRequest
  <2>4. SetSteal(t, NoSteal) \/ SetSteal(t, r)
    BY <2>1
  <2> HIDE DEF r
  <2>5. FromOther(t, r)
    BY <2>2, <2>3 DEF FromOther
  <2>6. QED
    BY <2>4, <2>5, <1>0, SetStealKeeps
<1>5. CASE CoordinatorRestart
  BY <1>5, <1>0 DEF CoordinatorRestart, FromOthers
<1>6. CASE UNCHANGED steal
  BY <1>6 DEF FromOthers
<1>7. QED
  BY <1>1, <1>2, <1>3, <1>4, <1>5, <1>6
  DEF Next, WorkerStep, StealStep, ServeSteal, Tick, Enqueue, Dispatch, ReadRunning, Complete,
      WorkerCrash, vars

\* The invariant of the refinement holds in every reachable state.
LEMMA RefInvariance == Spec => []RefInv
<1>1. Init => CopiesBounded /\ OneRecord /\ FromOthers
  BY WorkLedgerAssumption
  DEF Init, CopiesBounded, OneRecord, FromOthers, FromOther, NoSteal, NoWorker
<1>2. Inv /\ CopiesBounded /\ OneRecord /\ FromOthers /\ [Next]_vars
        => (CopiesBounded /\ OneRecord /\ FromOthers)'
  BY BoundedStep, OneRecordStep, FromOthersStep DEF Inv
<1>3. QED
  BY Invariance, <1>1, <1>2, PTL DEF Spec, RefInv

-----------------------------------------------------------------------------
(* The abstract state, item by item.                                       *)

Owner(i) == IF work[i].st = "Running" THEN work[i].worker ELSE NoWorker
Queued(i) == \E e \in queue : e.item = i
ItemMap == [i \in Once |-> Progress(i)]
OwnerMap == [i \in Once |-> Owner(i)]

\* An item whose row and entries are left alone stays as it is.
LEMMA Untouched ==
  ASSUME NEW i \in Item, work'[i] = work[i], Queued(i)' = Queued(i)
  PROVE  Progress(i)' = Progress(i) /\ Owner(i)' = Owner(i)
  BY DEF Progress, Owner, Queued

\* A step that changes one item is an update of the abstract functions.
LEMMA OneTouched ==
  ASSUME NEW k \in Once,
         \A i \in Once : i # k => Progress(i)' = Progress(i) /\ Owner(i)' = Owner(i)
  PROVE  /\ ItemMap' = [ItemMap EXCEPT ![k] = Progress(k)']
         /\ OwnerMap' = [OwnerMap EXCEPT ![k] = Owner(k)']
<1>1. \A i \in Once : Progress(i)' = [ItemMap EXCEPT ![k] = Progress(k)'][i]
  BY DEF ItemMap
<1>2. \A i \in Once : Owner(i)' = [OwnerMap EXCEPT ![k] = Owner(k)'][i]
  BY DEF OwnerMap
<1>3. QED
  BY <1>1, <1>2 DEF ItemMap, OwnerMap

LEMMA NoneTouched ==
  ASSUME \A i \in Once : Progress(i)' = Progress(i) /\ Owner(i)' = Owner(i)
  PROVE  ItemMap' = ItemMap /\ OwnerMap' = OwnerMap
  BY DEF ItemMap, OwnerMap

\* A worker is at work on the items of the records it holds.
LEMMA AtWorkOf ==
  ASSUME NEW w \in Worker, NEW i \in Once
  PROVE  <<w, i>> \in AtWork <=> \E r \in held[w] : r.item = i
  BY DEF AtWork

\* Held records only go away: work is given up.
LEMMA LeaveStep ==
  ASSUME \A w \in Worker : held'[w] \subseteq held[w], UNCHANGED <<queue, work>>
  PROVE  Claims!Leave
<1>1. AtWork' \in SUBSET AtWork
  BY DEF AtWork
<1>2. ItemMap' = ItemMap /\ OwnerMap' = OwnerMap
  BY NoneTouched, Untouched DEF Once, Queued
<1>3. QED
  BY <1>1, <1>2 DEF Claims!Leave, ItemMap, OwnerMap, Owner

-----------------------------------------------------------------------------
(* One step per action of the ledger.                                      *)

LEMMA EnqueueRefines ==
  ASSUME RefInv, NEW i \in Item, NEW rnd \in Random, Enqueue(i, rnd)
  PROVE  [Claims!Next]_Claims!vars
<1> USE WorkLedgerAssumption
<1>1. PICK e : e.item = i /\ queue' = queue \cup {e}
  BY DEF Enqueue
<1>2. UNCHANGED <<work, held>> /\ copies[i] < MaxCopies[i]
  BY DEF Enqueue
<1>3. AtWork' = AtWork
  BY <1>2 DEF AtWork
<1>4. \A j \in Item : j # i => Progress(j)' = Progress(j) /\ Owner(j)' = Owner(j)
  BY <1>1, <1>2, Untouched DEF Queued
<1>5. CASE i \in Once
  <2>1. copies[i] = 0
    BY <1>2, <1>5 DEF Once, RefInv, Inv, TypeOK
  <2>2. work[i] = Absent /\ ~Queued(i) /\ Queued(i)'
    BY <1>1, <2>1 DEF RefInv, Inv, QueuedOrInLedger, Queued
  <2>3. Progress(i) = "none" /\ Progress(i)' = "waiting" /\ Owner(i)' = Owner(i)
    BY <1>2, <2>2 DEF Progress, Owner, Queued, Absent
  <2>4. ItemMap' = [ItemMap EXCEPT ![i] = "waiting"] /\ OwnerMap' = OwnerMap
    <3>1. ItemMap' = [ItemMap EXCEPT ![i] = Progress(i)']
      BY <1>4, <1>5, OneTouched DEF Once
    <3>2. \A j \in Once : Owner(j)' = Owner(j)
      BY <1>4, <2>3 DEF Once
    <3>3. QED
      BY <3>1, <3>2, <2>3 DEF OwnerMap
  <2>5. Claims!Offer(i)
    BY <1>3, <1>5, <2>3, <2>4 DEF Claims!Offer, ItemMap, OwnerMap, Owner
  <2>6. QED
    BY <1>5, <2>5 DEF Claims!Next
<1>6. CASE i \notin Once
  <2>1. ItemMap' = ItemMap /\ OwnerMap' = OwnerMap
    BY <1>4, <1>6, NoneTouched DEF Once
  <2>2. QED
    BY <1>3, <2>1 DEF Claims!vars, ItemMap, OwnerMap, Owner
<1>7. QED
  BY <1>5, <1>6

\* A row of the ledger goes to worker w.
LEMMA ClaimRefines ==
  ASSUME NEW w \in Worker, NEW i \in Item, NEW t,
         work \in [Item -> Row],
         work' = [work EXCEPT ![i] = Running(w, t)],
         held' = held,
         \A j \in Item : j # i => Queued(j)' = Queued(j),
         i \in Once => \/ Progress(i) = "waiting"
                       \/ Progress(i) = "claimed" /\ Owner(i) # w
  PROVE  [Claims!Next]_Claims!vars
<1>1. AtWork' = AtWork
  BY DEF AtWork
<1>2. \A j \in Item : j # i => Progress(j)' = Progress(j) /\ Owner(j)' = Owner(j)
  BY Untouched
<1>3. Progress(i)' = "claimed" /\ Owner(i)' = w
  BY DEF Progress, Owner, Running
<1>4. CASE i \in Once
  <2>1. /\ ItemMap' = [ItemMap EXCEPT ![i] = "claimed"]
        /\ OwnerMap' = [OwnerMap EXCEPT ![i] = w]
    <3>1. /\ ItemMap' = [ItemMap EXCEPT ![i] = Progress(i)']
          /\ OwnerMap' = [OwnerMap EXCEPT ![i] = Owner(i)']
      BY <1>2, <1>4, OneTouched DEF Once
    <3>2. QED
      BY <3>1, <1>3
  <2>2. ItemMap[i] = Progress(i) /\ OwnerMap[i] = Owner(i)
    BY <1>4 DEF ItemMap, OwnerMap
  <2>3. Claims!Claim(w, i)
    BY <1>1, <1>4, <2>1, <2>2 DEF Claims!Claim, ItemMap, OwnerMap, Owner
  <2>4. QED
    BY <1>4, <2>3 DEF Claims!Next
<1>5. CASE i \notin Once
  <2>1. ItemMap' = ItemMap /\ OwnerMap' = OwnerMap
    BY <1>2, <1>5, NoneTouched DEF Once
  <2>2. QED
    BY <1>1, <2>1 DEF Claims!vars, ItemMap, OwnerMap, Owner
<1>6. QED
  BY <1>4, <1>5

LEMMA DispatchRefines ==
  ASSUME RefInv, NEW w \in Worker, Dispatch(w)
  PROVE  [Claims!Next]_Claims!vars
<1> USE WorkLedgerAssumption DEF RefInv, Inv
<1>1. PICK e \in queue :
        /\ e.item \in Item
        /\ queue' = queue \ {e}
        /\ work' = [work EXCEPT ![e.item] = Running(w, clock)]
  BY DispatchStep
<1>2. held' = held /\ work \in [Item -> Row]
  BY DEF Dispatch, TypeOK
<1>3. \A j \in Item : j # e.item => Queued(j)' = Queued(j)
  BY <1>1 DEF Queued
<1>4. ASSUME e.item \in Once PROVE Progress(e.item) = "waiting"
  <2>1. copies[e.item] = 1
    <3>1. copies[e.item] # 0
      BY <1>1 DEF QueuedOrInLedger
    <3>2. copies[e.item] \in Nat /\ MaxCopies[e.item] \in Nat
      BY <1>1 DEF TypeOK
    <3>3. copies[e.item] <= MaxCopies[e.item] /\ MaxCopies[e.item] <= 1
      BY <1>1, <1>4 DEF Once, CopiesBounded
    <3>4. QED
      BY <3>1, <3>2, <3>3
  <2>2. work[e.item] = Absent
    BY <1>1, <2>1 DEF QueuedOrInLedger
  <2>3. QED
    BY <1>1, <2>2 DEF Progress, Absent
<1>5. QED
  BY <1>1, <1>2, <1>3, <1>4, ClaimRefines

LEMMA ReassignRefines ==
  ASSUME RefInv, NEW t \in Worker, StealReassign(t)
  PROVE  [Claims!Next]_Claims!vars
<1> USE DEF RefInv, Inv
<1>1. PICK r \in steal[t].batch :
        work' = IF TryRepending(r) THEN TryClaim(r.item, t, steal[t].now) ELSE work
  BY DEF StealReassign
<1>2. UNCHANGED <<queue, held>> /\ work \in [Item -> Row]
  BY DEF StealReassign, TypeOK
<1>3. r.item \in Item
  BY DEF TypeOK, StealRequest, Record
<1>4. r.row.worker # t
  BY DEF FromOthers, FromOther
<1>5. CASE TryRepending(r)
  <2>1. work[r.item].st = "Running" /\ work[r.item].worker # t
    BY <1>4, <1>5 DEF TryRepending
  <2>2. Progress(r.item) = "claimed" /\ Owner(r.item) # t
    BY <2>1 DEF Progress, Owner
  <2>3. \A j \in Item : Queued(j)' = Queued(j)
    BY <1>2 DEF Queued
  <2>4. work' = [work EXCEPT ![r.item] = Running(t, steal[t].now)]
    BY <1>1, <1>5 DEF TryClaim
  <2>5. QED
    BY <1>2, <1>3, <2>2, <2>3, <2>4, ClaimRefines
<1>6. CASE ~TryRepending(r)
  <2>1. Claims!Leave
    BY <1>1, <1>2, <1>6, LeaveStep
  <2>2. QED
    BY <2>1 DEF Claims!Next
<1>7. QED
  BY <1>5, <1>6

LEMMA ReadRefines ==
  ASSUME RefInv, NEW w \in Worker, ReadRunning(w)
  PROVE  [Claims!Next]_Claims!vars
<1> DEFINE K == RunningIds(w) \cap Once
<1>1. UNCHANGED <<queue, work>> /\ held[w] = {} /\ held' = [held EXCEPT ![w] = RunningOf(w)]
  BY DEF ReadRunning
<1>2. held'[w] = RunningOf(w) /\ \A v \in Worker : v # w => held'[v] = held[v]
  BY <1>1 DEF RefInv, Inv, TypeOK
<1>3. ItemMap' = ItemMap /\ OwnerMap' = OwnerMap
  BY <1>1, NoneTouched, Untouched DEF Once, Queued
<1>4. \A i \in K : ItemMap[i] = "claimed" /\ OwnerMap[i] = w
  BY DEF ItemMap, OwnerMap, Progress, Owner, RunningIds
<1>5. AtWork' = AtWork \cup ({w} \X K)
  <2>1. ASSUME NEW i \in Once
        PROVE  (\E r \in RunningOf(w) : r.item = i) <=> i \in K
    <3>1. ASSUME i \in K PROVE \E r \in RunningOf(w) : r.item = i
      <4>1. [item |-> i, row |-> work[i]] \in RunningOf(w)
        BY <3>1 DEF RunningOf
      <4>2. QED
        BY <4>1
    <3>2. ASSUME NEW r \in RunningOf(w), r.item = i PROVE i \in K
      BY <3>2 DEF RunningOf
    <3>3. QED
      BY <3>1, <3>2
  <2>2. ASSUME NEW v \in Worker, NEW i \in Once
        PROVE  <<v, i>> \in AtWork' <=> (<<v, i>> \in AtWork \/ (v = w /\ i \in K))
    <3>1. <<v, i>> \in AtWork' <=> \E r \in held'[v] : r.item = i
      BY DEF AtWork
    <3>2. QED
      BY <3>1, <1>1, <1>2, <2>1, AtWorkOf
  <2>3. AtWork \subseteq Worker \X Once /\ AtWork' \subseteq Worker \X Once
    BY DEF AtWork
  <2>4. {w} \X K \subseteq Worker \X Once
    OBVIOUS
  <2> HIDE DEF K
  <2>5. QED
    BY <2>2, <2>3, <2>4
<1>6. Claims!Begin(w)
  <2>1. K \in SUBSET {k \in Once : ItemMap[k] = "claimed" /\ OwnerMap[k] = w}
    BY <1>4
  <2> HIDE DEF K
  <2>2. QED
    BY <1>3, <1>5, <2>1 DEF Claims!Begin, ItemMap, OwnerMap, Owner
<1>7. QED
  BY <1>6 DEF Claims!Next

LEMMA CompleteRefines ==
  ASSUME RefInv, NEW w \in Worker, Complete(w)
  PROVE  [Claims!Next]_Claims!vars
<1> USE DEF RefInv, Inv
<1>1. PICK r \in held[w] :
        /\ work' = IF TryComplete(r) THEN [work EXCEPT ![r.item] = Done(w)] ELSE work
        /\ held' = [held EXCEPT ![w] = @ \ {r}]
  BY DEF Complete
<1>2. /\ r.item \in Item /\ queue' = queue /\ work \in [Item -> Row]
      /\ held'[w] = held[w] \ {r} /\ \A v \in Worker : v # w => held'[v] = held[v]
  BY <1>1 DEF Complete, TypeOK, Record
<1>3. CASE ~TryComplete(r)
  <2>1. Claims!Leave
    BY <1>1, <1>2, <1>3, LeaveStep
  <2>2. QED
    BY <2>1 DEF Claims!Next
<1>4. CASE TryComplete(r)
  <2> DEFINE i == r.item
  <2>1. work[i].st = "Running" /\ work[i].worker = w
    BY <1>4 DEF TryComplete, HeldWasOwn
  <2>2. work' = [work EXCEPT ![i] = Done(w)]
    BY <1>1, <1>4
  <2>3. /\ Progress(i) = "claimed" /\ Owner(i) = w
        /\ Progress(i)' = "over" /\ Owner(i)' = NoWorker
    BY <1>2, <2>1, <2>2 DEF Progress, Owner, Done
  <2>4. \A j \in Item : j # i => Progress(j)' = Progress(j) /\ Owner(j)' = Owner(j)
    BY <1>2, <2>2, Untouched DEF Queued
  <2>5. AtWork' = AtWork \ {<<w, i>>}
    <3>1. ASSUME NEW v \in Worker, NEW j \in Once
          PROVE  <<v, j>> \in AtWork' <=> (<<v, j>> \in AtWork /\ <<v, j>> # <<w, i>>)
      <4>1. <<v, j>> \in AtWork' <=> \E q \in held'[v] : q.item = j
        BY DEF AtWork
      <4>2. \A q \in held[w] : q.item = i => q = r
        BY DEF OneRecord
      <4>3. QED
        BY <4>1, <4>2, <1>2, AtWorkOf
    <3>2. AtWork \subseteq Worker \X Once /\ AtWork' \subseteq Worker \X Once
      BY DEF AtWork
    <3>3. QED
      BY <3>1, <3>2
  <2>6. CASE i \in Once
    <3>1. /\ ItemMap' = [ItemMap EXCEPT ![i] = "over"]
          /\ OwnerMap' = [OwnerMap EXCEPT ![i] = NoWorker]
      <4>1. /\ ItemMap' = [ItemMap EXCEPT ![i] = Progress(i)']
            /\ OwnerMap' = [OwnerMap EXCEPT ![i] = Owner(i)']
        BY <2>4, <2>6, OneTouched DEF Once
      <4>2. QED
        BY <4>1, <2>3
    <3>2. ItemMap[i] = "claimed" /\ OwnerMap[i] = w
      BY <2>3, <2>6 DEF ItemMap, OwnerMap
    <3>3. <<w, i>> \in AtWork
      BY <2>6, AtWorkOf
    <3>4. Claims!Finish(w, i)
      BY <2>5, <3>1, <3>2, <3>3 DEF Claims!Finish, ItemMap, OwnerMap, Owner
    <3>5. QED
      BY <2>6, <3>4 DEF Claims!Next
  <2>7. CASE i \notin Once
    <3>1. ItemMap' = ItemMap /\ OwnerMap' = OwnerMap
      BY <2>4, <2>7, NoneTouched DEF Once
    <3>2. AtWork' = AtWork
      BY <2>5, <2>7 DEF AtWork
    <3>3. QED
      BY <3>1, <3>2 DEF Claims!vars, ItemMap, OwnerMap, Owner
  <2>8. QED
    BY <2>6, <2>7
<1>5. QED
  BY <1>3, <1>4

\* The work ledger implements the table of claims: dispatch and steal are
\* claims, an ack is the end of an item, or comes too late and is given up,
\* and the death of a worker gives its work up.
THEOREM LedgerImplementsClaims == Spec => ImplementsClaims
<1>1. Init => Claims!Init
  <2> SUFFICES ASSUME Init PROVE Claims!Init
    OBVIOUS
  <2>1. \A i \in Once : Progress(i) = "none" /\ Owner(i) = NoWorker
    BY DEF Init, Once, Progress, Owner, Absent
  <2>2. AtWork = {}
    BY DEF Init, AtWork
  <2>3. QED
    BY <2>1, <2>2 DEF Claims!Init, Owner
<1>2. RefInv /\ [Next]_vars => [Claims!Next]_Claims!vars
  <2> SUFFICES ASSUME RefInv, [Next]_vars PROVE [Claims!Next]_Claims!vars
    OBVIOUS
  <2>1. ASSUME NEW w \in Worker, WorkerCrash(w) PROVE [Claims!Next]_Claims!vars
    <3>1. /\ \A v \in Worker : held'[v] \subseteq held[v]
          /\ UNCHANGED <<queue, work>>
      BY <2>1 DEF WorkerCrash, RefInv, Inv, TypeOK
    <3>2. Claims!Leave
      BY <3>1, LeaveStep
    <3>3. QED
      BY <3>2 DEF Claims!Next
  <2>2. CASE UNCHANGED <<queue, work, held>>
    <3>1. Claims!Leave
      BY <2>2, LeaveStep
    <3>2. QED
      BY <3>1 DEF Claims!Next
  <2>3. QED
    BY <2>1, <2>2, EnqueueRefines, DispatchRefines, ReadRefines, CompleteRefines,
       ReassignRefines
    DEF Next, WorkerStep, StealStep, ServeSteal, Tick, StealGuard, StealVictim, StealScan,
        CoordinatorRestart, vars
<1>3. QED
  BY <1>1, <1>2, RefInvariance, PTL DEF Spec, ImplementsClaims, Claims!Spec
=============================================================================
