-------------------------- MODULE BatchRuntimeProofs --------------------------
(***************************************************************************)
(* Proofs about the batch runtime and the vLLM backend it generates with.  *)
(*                                                                         *)
(* BatchRuntime, for any number of inputs and workers and any number of    *)
(* kills.                                                                  *)
(*                                                                         *)
(* What the runs check is not inductive.  IInv adds what a step relies on: *)
(* the rows that a scan has passed are queued (ScanKeepsUp), entries are   *)
(* in one hand at a time and stored until they are acked (EntriesApart),   *)
(* a worker owns what it is at work on and nothing else (OwnersWork), the  *)
(* record a worker read is the row's while the row is Pending (RecIsRow),  *)
(* and claims of a pool that is in time are fresh (InTime).                *)
(*                                                                         *)
(* VllmEngine, for any tasks, channel, budget and restored step.  VllmIInv *)
(* adds the line of requests under way (Line) and its agreement with the   *)
(* calls (Agree): an open request is one its caller sent and waits for, no *)
(* two are the same, and none that is unanswered is missing.  What Python  *)
(* has applied follows from where the trainer's one request is (StepsFit): *)
(* requests of aborted callers are never training ones (RequestFits).      *)
(***************************************************************************)
EXTENDS BatchRuntime, VllmEngine, WellFoundedInduction, TLAPS

Working == {"generate", "complete", "fail"}

\* A row has an owner exactly while it is Running.
RowsOwned == \A s \in Sample : row[s].st = "Running" <=> row[s].worker # NoWorker

\* What a process has in memory, by phase.
ProcessShape ==
  /\ phase = "down" => live = {}
  /\ \A w \in WorkerId : w \notin live \/ phase = "scan" => wk[w] = FreshWorker
  /\ phase = "write" => \A w \in live : wk[w].pc = "drained"
  /\ \A w \in WorkerId : wk[w].entry = NoEntry <=> wk[w].pc \in {"idle", "drained"}
  /\ stage # "look" => phase = "scan" /\ cursor <= N
  /\ exit # "none" => phase = "down"

\* A number bounds the ids in the store.
IdsBounded == \E b \in Nat : \A e \in spill : e.id <= b

\* Entries in memory are in the store, and in one hand at a time.
EntriesApart ==
  /\ deque \subseteq spill
  /\ \A w \in WorkerId : wk[w].entry # NoEntry =>
       /\ wk[w].entry \in spill \ deque
       /\ \A v \in WorkerId \ {w} : wk[v].entry # wk[w].entry

\* What the scan has passed is stored, and queued if it waits; while it runs,
\* none of the process's workers owns a row.
ScanKeepsUp ==
  phase = "scan" =>
    /\ \A s \in 1 .. cursor - 1 :
         /\ row[s].st # "Absent"
         /\ row[s].st = "Pending" => \E e \in deque : e.sample = s
    /\ stage = "row" => row[cursor].st = "Absent" /\ cursor \in prompts
    /\ stage = "enqueue" => row[cursor].st # "Absent"
    /\ \A s \in Sample : row[s].worker \notin live

\* A pool that serves has every row; those that wait are queued or in hand.
WaitingIsQueued ==
  phase = "serve" => \A s \in Sample :
    /\ row[s].st # "Absent"
    /\ row[s].st = "Pending" =>
         \/ \E e \in deque : e.sample = s
         \/ \E w \in live : S(w) = s /\ wk[w].pc \in {"read", "claim"}

\* A worker is at work on what it owns.
OwnersWork ==
  \A s \in Sample : row[s].worker \in live =>
    S(row[s].worker) = s /\ wk[row[s].worker].pc \in Working

\* A row that waits is still the one that was read.
RecIsRow ==
  \A w \in live : wk[w].pc = "claim" /\ row[S(w)].st = "Pending" =>
    wk[w].rec.st = "Pending" /\ wk[w].rec.worker = NoWorker

\* A worker completes what it has stored.
CompletesStored == \A w \in live : wk[w].pc = "complete" => S(w) \in completions

\* A worker in time still owns what it is at work on.
InTime ==
  ~slow => \A w \in live : wk[w].pc \in Working =>
    /\ row[S(w)].st = "Running" /\ row[S(w)].worker = w
    /\ row[S(w)].age <= StaleAfter

\* The output file so far.
Written ==
  phase = "write" => output = {s \in Sample : s < cursor /\ row[s].st = "Done"}

ListedIsDone == \A s \in output : row[s].st = "Done"
CleanIsComplete == exit = "clean" => output = {s \in Sample : row[s].st = "Done"}

IInv ==
  /\ TypeOK /\ RowsOwned /\ ProcessShape /\ IdsBounded /\ EntriesApart
  /\ ScanKeepsUp /\ WaitingIsQueued /\ OwnersWork /\ RecIsRow /\ CompletesStored
  /\ InTime /\ RowsHaveBlobs /\ Written /\ ListedIsDone /\ CleanIsComplete

-----------------------------------------------------------------------------
(* The queue.                                                              *)

\* A set of naturals that is not empty has a least element.
LEMMA LeastExists ==
  ASSUME NEW T, T \subseteq Nat, T # {}
  PROVE  \E x \in T : \A y \in T : x <= y
<1> DEFINE R == OpToRel(<, Nat)
<1>1. IsWellFoundedOn(R, Nat)
  BY NatLessThanWellFounded
<1>2. \A x, y \in Nat : y < x => <<y, x>> \in R
  BY DEF OpToRel
<1> HIDE DEF R
<1>3. PICK x \in T : \A y \in T : ~(<<y, x>> \in R)
  BY <1>1, WFMin
<1>4. \A y \in T : ~(y < x)
  BY <1>2, <1>3
<1>5. QED
  BY <1>4

\* pop_front returns an entry of the queue.
LEMMA FrontIsQueued ==
  ASSUME deque \subseteq Entry, deque # {}
  PROVE  Front \in deque
<1> DEFINE T == {e.id : e \in deque}
<1>1. T \subseteq Nat /\ T # {}
  BY DEF Entry
<1>2. PICK i \in T : \A j \in T : i <= j
  BY <1>1, LeastExists
<1>3. \E e \in deque : \A f \in deque : e.id <= f.id
  BY <1>2
<1>4. QED
  BY <1>3 DEF Front

\* The next id is a number.
LEMMA NextIdIsNat ==
  ASSUME spill \subseteq Entry, IdsBounded
  PROVE  NextId \in Nat
<1>1. Ids \subseteq Nat
  BY DEF Ids, Entry
<1>2. CASE Ids = {}
  BY <1>2 DEF NextId
<1>3. CASE Ids # {}
  <2> DEFINE B == {b \in Nat : \A k \in Ids : k <= b}
  <2>1. B \subseteq Nat /\ B # {}
    BY DEF IdsBounded, Ids
  <2>2. PICK m \in B : \A b \in B : m <= b
    BY <2>1, LeastExists
  <2>3. m \in Ids
    <3>1. SUFFICES ASSUME m \notin Ids PROVE FALSE
      OBVIOUS
    <3>2. \A k \in Ids : k <= m - 1
      BY <1>1, <2>2, <3>1
    <3>3. m - 1 \in Nat
      <4>1. PICK k \in Ids : TRUE
        BY <1>3
      <4>2. k \in Nat /\ k <= m - 1 /\ m \in Nat
        BY <1>1, <3>2
      <4>3. QED
        BY <4>2
    <3>4. m - 1 \in B
      BY <3>2, <3>3
    <3>5. QED
      BY <2>2, <3>4
  <2>4. \E x \in Ids : \A k \in Ids : k <= x
    BY <2>2, <2>3
  <2> DEFINE top == CHOOSE x \in Ids : \A k \in Ids : k <= x
  <2>5. NextId = 1 + top
    BY <1>3, Zenon DEF NextId
  <2>6. top \in Ids
    BY <2>4, Zenon
  <2> HIDE DEF top
  <2>7. QED
    BY <1>1, <2>5, <2>6
<1>4. QED
  BY <1>2, <1>3

-----------------------------------------------------------------------------
(* What the steps do, one row and one worker at a time.                    *)

\* Row s gets state st and owner o.
Writes(s, st, o) ==
  /\ row' \in [Sample -> Row]
  /\ row'[s].st = st /\ row'[s].worker = o /\ row'[s].age = 0
  /\ \A x \in Sample : x # s => row'[x] = row[x]

\* Worker w is at pc now, with entry e and record r.
Becomes(w, pc, e, r) ==
  /\ wk' \in [WorkerId -> WorkerState]
  /\ wk'[w].pc = pc /\ wk'[w].entry = e /\ wk'[w].rec = r
  /\ \A v \in WorkerId : v # w => wk'[v] = wk[v]

\* Worker w goes on to pc.
Moves(w, pc) == Becomes(w, pc, wk[w].entry, wk[w].rec)

\* All workers are as new.
Resets ==
  /\ wk' \in [WorkerId -> WorkerState]
  /\ \A w \in WorkerId : wk'[w] = FreshWorker

Mine(w) == row[S(w)].st = "Running" /\ row[S(w)].worker = w

\* Worker w is one of a pool that serves, and its step leaves the pool.
Serves(w) ==
  /\ phase = "serve" /\ w \in live
  /\ UNCHANGED <<prompts, output, exit, phase, cursor, stage, stale, live, errors, slow>>

PCs == {"idle", "read", "claim", "generate", "complete", "fail", "ack", "drained"}

LEMMA RowTypes ==
  /\ \A w \in WorkerId : Running(w) \in Row
  /\ \A st \in {"Absent", "Pending", "Done", "Failed"} : Idle(st) \in Row
  BY BatchRuntimeAssumption DEF Row, Running, Idle

LEMMA WriteIdle ==
  ASSUME TypeOK, NEW s \in Sample, NEW st \in {"Pending", "Done", "Failed"},
         row' = [row EXCEPT ![s] = Idle(st)]
  PROVE  Writes(s, st, NoWorker)
<1>1. Idle(st) \in Row /\ row \in [Sample -> Row]
  BY RowTypes DEF TypeOK
<1>2. Idle(st).st = st /\ Idle(st).worker = NoWorker /\ Idle(st).age = 0
  BY DEF Idle
<1>3. QED
  BY <1>1, <1>2 DEF Writes

LEMMA WriteRunning ==
  ASSUME TypeOK, NEW s \in Sample, NEW w \in WorkerId, row' = [row EXCEPT ![s] = Running(w)]
  PROVE  Writes(s, "Running", w)
<1>1. Running(w) \in Row /\ row \in [Sample -> Row]
  BY RowTypes DEF TypeOK
<1>2. Running(w).st = "Running" /\ Running(w).worker = w /\ Running(w).age = 0
  BY DEF Running
<1>3. QED
  BY <1>1, <1>2 DEF Writes

LEMMA BecomeOf ==
  ASSUME TypeOK, NEW w \in WorkerId, NEW k \in WorkerState, wk' = [wk EXCEPT ![w] = k]
  PROVE  Becomes(w, k.pc, k.entry, k.rec)
  BY DEF TypeOK, Becomes

LEMMA FreshType ==
  /\ FreshWorker \in WorkerState
  /\ FreshWorker.pc = "idle" /\ FreshWorker.entry = NoEntry
<1>1. Idle("Absent") \in Row
  BY RowTypes
<1>2. QED
  BY <1>1 DEF WorkerState, FreshWorker

LEMMA EndDoes ==
  ASSUME NEW how, End(how)
  PROVE  Resets
  BY FreshType DEF End, Resets

LEMMA MoveOf ==
  ASSUME TypeOK, NEW w \in WorkerId, NEW pc \in PCs, Goto(w, pc)
  PROVE  Moves(w, pc)
<1> DEFINE k == [wk[w] EXCEPT !.pc = pc]
<1>1. wk[w] \in WorkerState
  BY DEF TypeOK
<1>2. k \in WorkerState /\ k.pc = pc /\ k.entry = wk[w].entry /\ k.rec = wk[w].rec
  BY <1>1 DEF WorkerState, PCs
<1>3. wk' = [wk EXCEPT ![w] = k]
  BY DEF Goto
<1> HIDE DEF k
<1>4. QED
  BY <1>2, <1>3, BecomeOf DEF Moves

\* A worker with an entry in hand has a sample.
LEMMA HandIsSample ==
  ASSUME IInv, NEW w \in WorkerId, wk[w].pc \notin {"idle", "drained"}
  PROVE  S(w) \in Sample /\ wk[w].entry \in Entry
  BY DEF IInv, ProcessShape, TypeOK, WorkerState, Entry, S

LEMMA DequeueDoes ==
  ASSUME IInv, NEW w \in WorkerId, Dequeue(w)
  PROVE  /\ Front \in deque /\ Front \in Entry /\ deque' = deque \ {Front}
         /\ \E r \in Row : Becomes(w, "read", Front, r)
         /\ Serves(w) /\ wk[w].pc = "idle" /\ UNCHANGED <<row, completions, spill>>
<1>1. Front \in deque /\ deque \subseteq Entry /\ TypeOK
  BY FrontIsQueued DEF Dequeue, IInv, TypeOK
<1> DEFINE k == [FreshWorker EXCEPT !.pc = "read", !.entry = Front]
<1>2. k \in WorkerState /\ k.pc = "read" /\ k.entry = Front /\ k.rec \in Row
  BY <1>1, FreshType DEF WorkerState
<1>3. wk' = [wk EXCEPT ![w] = k]
  BY DEF Dequeue
<1> HIDE DEF k
<1>4. QED
  BY <1>1, <1>2, <1>3, BecomeOf DEF Dequeue, At, Serves, durable

LEMMA ReadDoes ==
  ASSUME IInv, NEW w \in WorkerId, ReadRecord(w)
  PROVE  /\ S(w) \in Sample /\ wk[w].pc = "read"
         /\ \/ /\ row[S(w)].st \in {"Pending", "Running"}
               /\ Becomes(w, "claim", wk[w].entry, row[S(w)])
            \/ /\ row[S(w)].st \in {"Absent", "Done", "Failed"}
               /\ Becomes(w, "ack", wk[w].entry, row[S(w)])
         /\ Serves(w) /\ UNCHANGED <<row, completions, spill, deque>>
<1>0. Serves(w) /\ UNCHANGED <<row, completions, spill, deque>>
  BY DEF ReadRecord, At, Serves, durable
<1>1. S(w) \in Sample /\ wk[w].pc = "read"
  BY HandIsSample DEF ReadRecord, At
<1>2. row[S(w)] \in Row /\ wk[w] \in WorkerState /\ TypeOK
  BY <1>1 DEF IInv, TypeOK
<1> DEFINE k(pc) == [wk[w] EXCEPT !.rec = row[S(w)], !.pc = pc]
<1>3. \A pc \in {"claim", "ack"} :
        /\ k(pc) \in WorkerState /\ k(pc).pc = pc
        /\ k(pc).entry = wk[w].entry /\ k(pc).rec = row[S(w)]
  BY <1>2 DEF WorkerState
<1>4. wk' = [wk EXCEPT ![w] = k(IF row[S(w)].st \in {"Absent", "Done", "Failed"}
                                THEN "ack" ELSE "claim")]
  BY <1>2 DEF ReadRecord, TypeOK, WorkerState
<1> HIDE DEF k
<1>5. CASE row[S(w)].st \in {"Absent", "Done", "Failed"}
  <2>1. wk' = [wk EXCEPT ![w] = k("ack")]
    BY <1>4, <1>5
  <2>2. Becomes(w, k("ack").pc, k("ack").entry, k("ack").rec)
    BY <1>2, <1>3, <2>1, BecomeOf
  <2>3. QED
    BY <1>0, <1>1, <1>3, <1>5, <2>2
<1>6. CASE row[S(w)].st \in {"Pending", "Running"}
  <2>1. wk' = [wk EXCEPT ![w] = k("claim")]
    BY <1>4, <1>6
  <2>2. Becomes(w, k("claim").pc, k("claim").entry, k("claim").rec)
    BY <1>2, <1>3, <2>1, BecomeOf
  <2>3. QED
    BY <1>0, <1>1, <1>3, <1>6, <2>2
<1>7. QED
  BY <1>2, <1>5, <1>6 DEF Row

LEMMA ClaimDoes ==
  ASSUME IInv, NEW w \in WorkerId, Claim(w)
  PROVE  /\ S(w) \in Sample /\ wk[w].pc = "claim"
         /\ \/ TryClaim(S(w), wk[w].rec) /\ Writes(S(w), "Running", w) /\ Moves(w, "generate")
            \/ ~TryClaim(S(w), wk[w].rec) /\ row' = row /\ Moves(w, "ack")
         /\ Serves(w) /\ UNCHANGED <<completions, spill, deque>>
<1>1. S(w) \in Sample /\ wk[w].pc = "claim" /\ TypeOK
  BY HandIsSample DEF Claim, At, IInv
<1>2. QED
  BY <1>1, WriteRunning, MoveOf DEF Claim, PCs, At, Serves

LEMMA GenerateDoes ==
  ASSUME IInv, NEW w \in WorkerId, Generate(w) \/ GenerateError(w)
  PROVE  /\ S(w) \in Sample /\ wk[w].pc = "generate"
         /\ \/ Moves(w, "complete") /\ S(w) \in completions'
            \/ Moves(w, "fail")
         /\ completions \subseteq completions'
         /\ Serves(w) /\ UNCHANGED <<row, spill, deque>>
<1>1. S(w) \in Sample /\ wk[w].pc = "generate" /\ TypeOK
  BY HandIsSample DEF Generate, GenerateError, At, IInv
<1>2. QED
  BY <1>1, MoveOf DEF Generate, GenerateError, durable, PCs, At, Serves

LEMMA CompleteDoes ==
  ASSUME IInv, NEW w \in WorkerId, Complete(w)
  PROVE  /\ S(w) \in Sample /\ wk[w].pc = "complete" /\ Mine(w)
         /\ Writes(S(w), "Done", NoWorker) /\ Moves(w, "ack")
         /\ Serves(w) /\ UNCHANGED <<completions, spill, deque>>
<1>1. S(w) \in Sample /\ wk[w].pc = "complete" /\ TypeOK
  BY HandIsSample DEF Complete, At, IInv
<1>2. QED
  BY <1>1, WriteIdle, MoveOf DEF Complete, StillMine, SameRow, Mine, Running, PCs,
      At, Serves

LEMMA FailDoes ==
  ASSUME IInv, NEW w \in WorkerId, Fail(w)
  PROVE  /\ S(w) \in Sample /\ wk[w].pc = "fail" /\ Moves(w, "ack")
         /\ \/ Mine(w) /\ Writes(S(w), "Failed", NoWorker)
            \/ ~Mine(w) /\ row' = row
         /\ Serves(w) /\ UNCHANGED <<completions, spill, deque>>
<1>1. S(w) \in Sample /\ wk[w].pc = "fail" /\ TypeOK
  BY HandIsSample DEF Fail, At, IInv
<1>2. QED
  BY <1>1, WriteIdle, MoveOf DEF Fail, StillMine, SameRow, Mine, Running, PCs,
      At, Serves

LEMMA AckDoes ==
  ASSUME IInv, NEW w \in WorkerId, Ack(w)
  PROVE  Becomes(w, "idle", NoEntry, FreshWorker.rec) /\ wk'[w] = FreshWorker
         /\ wk[w].pc = "ack" /\ spill' = spill \ {wk[w].entry}
         /\ Serves(w) /\ UNCHANGED <<row, completions, deque>>
<1>1. Becomes(w, FreshWorker.pc, FreshWorker.entry, FreshWorker.rec)
  BY FreshType, BecomeOf DEF IInv, Ack
<1>2. QED
  BY <1>1, FreshType DEF Ack, IInv, TypeOK, At, Serves

LEMMA DrainedDoes ==
  ASSUME IInv, NEW w \in WorkerId, Drained(w)
  PROVE  /\ Moves(w, "drained") /\ wk[w].pc = "idle" /\ deque = {}
         /\ Serves(w) /\ UNCHANGED <<row, completions, spill, deque>>
  BY MoveOf DEF IInv, Drained, PCs, At, Serves, durable

\* Time changes ages only, and a claim of the pool that gets late is noticed.
LEMMA TickDoes ==
  ASSUME IInv, Tick
  PROVE  /\ row' \in [Sample -> Row]
         /\ \A s \in Sample : /\ row'[s].st = row[s].st /\ row'[s].worker = row[s].worker
                             /\ row'[s].age \in Nat /\ row'[s].age <= row[s].age + 1
         /\ ~slow' => ~slow /\ \A s \in Sample : row[s].worker \in live => row[s].age < StaleAfter
         /\ UNCHANGED <<prompts, completions, spill, output, exit, phase, cursor, stage,
                        stale, live, deque, wk, errors>>
<1>1. \A s \in Sample : row[s] \in Row
  BY DEF IInv, TypeOK
<1> DEFINE older(s) == IF row[s].st = "Running" /\ row[s].age <= StaleAfter
                       THEN [row[s] EXCEPT !.age = @ + 1] ELSE row[s]
<1>2. \A s \in Sample : /\ older(s) \in Row
                        /\ older(s).st = row[s].st /\ older(s).worker = row[s].worker
                        /\ older(s).age \in Nat /\ older(s).age <= row[s].age + 1
  BY <1>1, BatchRuntimeAssumption DEF Row
<1>3. row' = [s \in Sample |-> older(s)]
  BY DEF Tick
<1> HIDE DEF older
<1>4. ~slow' => ~slow /\ \A s \in Sample : row[s].worker \in live => row[s].age < StaleAfter
  <2>1. ~slow' => ~slow /\ \A s \in Sample : ~(row[s].worker \in live /\ row[s].age >= StaleAfter)
    BY Zenon DEF Tick
  <2>2. \A s \in Sample : row[s].age \in Nat
    BY <1>1 DEF Row
  <2>3. QED
    BY <2>1, <2>2, BatchRuntimeAssumption
<1>5. QED
  BY <1>2, <1>3, <1>4 DEF Tick, process

\* A scan writes a Pending row over an absent or a stale one.
LEMMA ScanDoes ==
  ASSUME IInv, ScanPut \/ ScanUnfinished
  PROVE  /\ cursor \in Sample /\ phase = "scan" /\ stage' = "enqueue"
         /\ ScanPut => row[cursor].st = "Absent" /\ cursor \in prompts
         /\ ScanUnfinished => row[cursor].st # "Absent"
         /\ UNCHANGED <<prompts, completions, spill, output, exit, phase, cursor,
                        stale, live, deque, wk, errors, slow>>
         /\ \/ row[cursor].st \in {"Absent", "Running"} /\ Writes(cursor, "Pending", NoWorker)
            \/ row' = row /\ row[cursor].st \in {"Pending", "Failed"}
<1>1. cursor \in Sample /\ TypeOK /\ phase = "scan"
  BY BatchRuntimeAssumption DEF ScanPut, ScanUnfinished, Scanning, IInv, TypeOK, Sample
<1>2. ScanPut => row[cursor].st = "Absent" /\ cursor \in prompts
  BY DEF ScanPut, Scanning, IInv, ScanKeepsUp
<1>3. QED
  BY <1>1, <1>2, WriteIdle DEF ScanPut, ScanUnfinished, RependStale

-----------------------------------------------------------------------------
(* Every step keeps every part of the invariant.                           *)

\* The types that the steps need.
BasicTypes ==
  /\ N \in Nat /\ StaleAfter \in Nat /\ NoWorker \notin WorkerId
  /\ live \subseteq WorkerId /\ cursor \in 1 .. N + 1 /\ NoEntry \notin Entry
  /\ spill \subseteq Entry /\ deque \subseteq Entry
  /\ \A s \in Sample : /\ s \in Nat /\ row[s].age \in Nat
                       /\ row[s].worker \in WorkerId \cup {NoWorker}
                       /\ row[s].st \in {"Absent", "Pending", "Running", "Done", "Failed"}

LEMMA TypesFollow == ASSUME IInv PROVE BasicTypes
  BY BatchRuntimeAssumption
  DEF IInv, TypeOK, BasicTypes, Row, Sample, NoEntry, Entry

\* Every step keeps the types.
LEMMA TypeStep == ASSUME IInv, [Next]_vars PROVE TypeOK'
<1> USE DEF IInv, durable, TypeOK
<1>1. BasicTypes
  BY TypesFollow
<1>2. CASE Start
  BY <1>1, <1>2 DEF BasicTypes, Start, Sample
<1>3. CASE Kill
  BY <1>1, <1>3, EndDoes, FreshType DEF BasicTypes, Kill, End, Resets, Sample
<1>4. CASE Tick
  BY <1>1, <1>4, TickDoes DEF BasicTypes, Tick
<1>5. CASE ScanAbsent
  BY <1>1, <1>5 DEF BasicTypes, ScanAbsent, Scanning, Sample
<1>6. CASE ScanPut
  BY <1>1, <1>6, ScanDoes DEF BasicTypes, Writes
<1>7. CASE ScanUnfinished
  BY <1>1, <1>7, ScanDoes DEF BasicTypes, Writes
<1>8. CASE ScanSkip
  BY <1>1, <1>8 DEF BasicTypes, ScanSkip, Scanning
<1>9. CASE ScanEnqueue
  BY <1>1, <1>9, NextIdIsNat
  DEF BasicTypes, ScanEnqueue, Scanning, Entry, Sample
<1>10. CASE ScanDone
  BY <1>1, <1>10 DEF BasicTypes, ScanDone
<1>11. CASE Collect
  BY <1>1, <1>11 DEF BasicTypes, Collect
<1>12. CASE WriteLine
  BY <1>1, <1>12 DEF BasicTypes, WriteLine, Sample
<1>13. CASE Finish
  BY <1>1, <1>13, EndDoes, FreshType DEF BasicTypes, Finish, End, Resets
<1>14. ASSUME NEW w \in WorkerId, Dequeue(w) PROVE TypeOK'
  BY <1>1, <1>14, DequeueDoes DEF BasicTypes, Serves, Becomes
<1>15. ASSUME NEW w \in WorkerId, Drained(w) PROVE TypeOK'
  BY <1>1, <1>15, DrainedDoes DEF BasicTypes, Serves, Moves, Becomes
<1>16. ASSUME NEW w \in WorkerId, ReadRecord(w) PROVE TypeOK'
  BY <1>1, <1>16, ReadDoes DEF BasicTypes, Serves, Becomes
<1>17. ASSUME NEW w \in WorkerId, Claim(w) PROVE TypeOK'
  BY <1>1, <1>17, ClaimDoes DEF BasicTypes, Serves, Moves, Becomes, Writes
<1>18. ASSUME NEW w \in WorkerId, Generate(w) PROVE TypeOK'
  BY <1>1, <1>18, GenerateDoes, HandIsSample
  DEF BasicTypes, Serves, Moves, Becomes, Generate
<1>19. ASSUME NEW w \in WorkerId, GenerateError(w) PROVE TypeOK'
  BY <1>1, <1>19, GenerateDoes
  DEF BasicTypes, Serves, Moves, Becomes, GenerateError
<1>20. ASSUME NEW w \in WorkerId, Complete(w) PROVE TypeOK'
  BY <1>1, <1>20, CompleteDoes DEF BasicTypes, Serves, Moves, Becomes, Writes
<1>21. ASSUME NEW w \in WorkerId, CompleteLost(w) PROVE TypeOK'
  BY <1>1, <1>21, EndDoes, FreshType DEF BasicTypes, CompleteLost, End, Resets
<1>22. ASSUME NEW w \in WorkerId, Fail(w) PROVE TypeOK'
  BY <1>1, <1>22, FailDoes DEF BasicTypes, Serves, Moves, Becomes, Writes
<1>23. ASSUME NEW w \in WorkerId, Ack(w) PROVE TypeOK'
  BY <1>1, <1>23, AckDoes DEF BasicTypes, Serves, Becomes
<1>24. CASE UNCHANGED vars
  BY <1>24 DEF vars
<1>25. QED
  BY <1>2, <1>3, <1>4, <1>5, <1>6, <1>7, <1>8, <1>9, <1>10, <1>11,
     <1>12, <1>13, <1>14, <1>15, <1>16, <1>17, <1>18, <1>19, <1>20,
     <1>21, <1>22, <1>23, <1>24
  DEF Next, Scan, Report, WorkerStep, vars, process

\* Rows are written with an owner if and only if they are Running.
LEMMA OwnedStep == ASSUME IInv, [Next]_vars PROVE RowsOwned'
<1> USE DEF IInv, durable, RowsOwned
<1>1. BasicTypes
  BY TypesFollow
<1>2. CASE Tick
  BY <1>1, <1>2, TickDoes DEF BasicTypes
<1>3. CASE ScanPut
  BY <1>1, <1>3, ScanDoes DEF BasicTypes, Writes
<1>4. CASE ScanUnfinished
  BY <1>1, <1>4, ScanDoes DEF BasicTypes, Writes
<1>5. ASSUME NEW w \in WorkerId, Claim(w) PROVE RowsOwned'
  BY <1>1, <1>5, ClaimDoes DEF BasicTypes, Serves, Moves, Becomes, Writes
<1>6. ASSUME NEW w \in WorkerId, Complete(w) PROVE RowsOwned'
  BY <1>1, <1>6, CompleteDoes DEF BasicTypes, Serves, Moves, Becomes, Writes
<1>7. ASSUME NEW w \in WorkerId, Fail(w) PROVE RowsOwned'
  BY <1>1, <1>7, FailDoes DEF BasicTypes, Serves, Moves, Becomes, Writes
<1>8. CASE UNCHANGED row
  BY <1>8
<1>9. QED
  BY <1>2, <1>3, <1>4, <1>5, <1>6, <1>7, <1>8
  DEF Next, Scan, Report, WorkerStep, vars, process, Start, Kill,
      ScanAbsent, ScanSkip, ScanEnqueue, ScanDone, Collect, WriteLine,
      Finish, Dequeue, Drained, ReadRecord, Generate, GenerateError,
      CompleteLost, Ack

\* The phases of a process.
LEMMA ShapeStep == ASSUME IInv, [Next]_vars PROVE ProcessShape'
<1> USE DEF IInv, durable, ProcessShape
<1>1. BasicTypes
  BY TypesFollow
<1>2. FreshWorker.pc = "idle" /\ FreshWorker.entry = NoEntry
  BY FreshType
<1>3. CASE Start
  BY <1>1, <1>2, <1>3 DEF BasicTypes, Start
<1>4. CASE Kill
  BY <1>1, <1>2, <1>4, EndDoes DEF BasicTypes, Kill, End, Resets
<1>5. CASE ScanAbsent
  BY <1>1, <1>2, <1>5 DEF BasicTypes, ScanAbsent, Scanning
<1>6. CASE ScanPut
  BY <1>1, <1>2, <1>6, ScanDoes DEF BasicTypes, Writes, Sample
<1>7. CASE ScanUnfinished
  BY <1>1, <1>2, <1>7, ScanDoes DEF BasicTypes, Writes, Sample
<1>8. CASE ScanSkip
  BY <1>1, <1>2, <1>8 DEF BasicTypes, ScanSkip, Scanning
<1>9. CASE ScanEnqueue
  BY <1>1, <1>2, <1>9, NextIdIsNat DEF BasicTypes, ScanEnqueue, Scanning
<1>10. CASE ScanDone
  BY <1>1, <1>2, <1>10 DEF BasicTypes, ScanDone
<1>11. CASE Collect
  BY <1>1, <1>2, <1>11 DEF BasicTypes, Collect
<1>12. CASE WriteLine
  BY <1>1, <1>2, <1>12 DEF BasicTypes, WriteLine
<1>13. CASE Finish
  BY <1>1, <1>2, <1>13, EndDoes DEF BasicTypes, Finish, End, Resets
<1>14. ASSUME NEW w \in WorkerId, Dequeue(w) PROVE ProcessShape'
  BY <1>1, <1>2, <1>14, DequeueDoes DEF BasicTypes, Serves, Becomes
<1>15. ASSUME NEW w \in WorkerId, Drained(w) PROVE ProcessShape'
  BY <1>1, <1>2, <1>15, DrainedDoes DEF BasicTypes, Serves, Moves, Becomes
<1>16. ASSUME NEW w \in WorkerId, ReadRecord(w) PROVE ProcessShape'
  BY <1>1, <1>2, <1>16, ReadDoes DEF BasicTypes, Serves, Becomes
<1>17. ASSUME NEW w \in WorkerId, Claim(w) PROVE ProcessShape'
  BY <1>1, <1>2, <1>17, ClaimDoes
  DEF BasicTypes, Serves, Moves, Becomes, Writes
<1>18. ASSUME NEW w \in WorkerId, Generate(w) PROVE ProcessShape'
  BY <1>1, <1>2, <1>18, GenerateDoes DEF BasicTypes, Serves, Moves, Becomes
<1>19. ASSUME NEW w \in WorkerId, GenerateError(w) PROVE ProcessShape'
  BY <1>1, <1>2, <1>19, GenerateDoes DEF BasicTypes, Serves, Moves, Becomes
<1>20. ASSUME NEW w \in WorkerId, Complete(w) PROVE ProcessShape'
  BY <1>1, <1>2, <1>20, CompleteDoes
  DEF BasicTypes, Serves, Moves, Becomes, Writes
<1>21. ASSUME NEW w \in WorkerId, CompleteLost(w) PROVE ProcessShape'
  BY <1>1, <1>2, <1>21, EndDoes DEF BasicTypes, CompleteLost, End, Resets
<1>22. ASSUME NEW w \in WorkerId, Fail(w) PROVE ProcessShape'
  BY <1>1, <1>2, <1>22, FailDoes
  DEF BasicTypes, Serves, Moves, Becomes, Writes
<1>23. ASSUME NEW w \in WorkerId, Ack(w) PROVE ProcessShape'
  BY <1>1, <1>2, <1>23, AckDoes DEF BasicTypes, Serves, Becomes
<1>24. CASE UNCHANGED <<phase, live, wk, stage, cursor, exit>>
  BY <1>24
<1>25. QED
  BY <1>3, <1>4, <1>5, <1>6, <1>7, <1>8, <1>9, <1>10, <1>11, <1>12,
     <1>13, <1>14, <1>15, <1>16, <1>17, <1>18, <1>19, <1>20, <1>21,
     <1>22, <1>23, <1>24
  DEF Next, Scan, Report, WorkerStep, vars, process, Tick

\* An entry goes from the queue to a worker, and out of the store with its ack.
LEMMA ApartStep == ASSUME IInv, [Next]_vars PROVE EntriesApart'
<1> USE DEF IInv, durable, EntriesApart
<1>1. BasicTypes
  BY TypesFollow
<1>2. FreshWorker.entry = NoEntry
  BY FreshType
<1>3. CASE Start
  BY <1>1, <1>2, <1>3 DEF BasicTypes, Start, ProcessShape
<1>4. CASE Kill
  BY <1>1, <1>2, <1>4, EndDoes DEF BasicTypes, Kill, End, Resets
<1>5. CASE ScanEnqueue
  BY <1>1, <1>2, <1>5, NextIdIsNat
  DEF BasicTypes, ScanEnqueue, Scanning, ProcessShape
<1>6. CASE Finish
  BY <1>1, <1>2, <1>6, EndDoes DEF BasicTypes, Finish, End, Resets
<1>7. ASSUME NEW w \in WorkerId, Dequeue(w) PROVE EntriesApart'
  BY <1>1, <1>2, <1>7, DequeueDoes DEF BasicTypes, Serves, Becomes
<1>8. ASSUME NEW w \in WorkerId, Drained(w) PROVE EntriesApart'
  BY <1>1, <1>2, <1>8, DrainedDoes DEF BasicTypes, Serves, Moves, Becomes
<1>9. ASSUME NEW w \in WorkerId, ReadRecord(w) PROVE EntriesApart'
  BY <1>1, <1>2, <1>9, ReadDoes DEF BasicTypes, Serves, Becomes
<1>10. ASSUME NEW w \in WorkerId, Claim(w) PROVE EntriesApart'
  BY <1>1, <1>2, <1>10, ClaimDoes
  DEF BasicTypes, Serves, Moves, Becomes, Writes
<1>11. ASSUME NEW w \in WorkerId, Generate(w) PROVE EntriesApart'
  BY <1>1, <1>2, <1>11, GenerateDoes DEF BasicTypes, Serves, Moves, Becomes
<1>12. ASSUME NEW w \in WorkerId, GenerateError(w) PROVE EntriesApart'
  BY <1>1, <1>2, <1>12, GenerateDoes DEF BasicTypes, Serves, Moves, Becomes
<1>13. ASSUME NEW w \in WorkerId, Complete(w) PROVE EntriesApart'
  BY <1>1, <1>2, <1>13, CompleteDoes
  DEF BasicTypes, Serves, Moves, Becomes, Writes
<1>14. ASSUME NEW w \in WorkerId, CompleteLost(w) PROVE EntriesApart'
  BY <1>1, <1>2, <1>14, EndDoes DEF BasicTypes, CompleteLost, End, Resets
<1>15. ASSUME NEW w \in WorkerId, Fail(w) PROVE EntriesApart'
  BY <1>1, <1>2, <1>15, FailDoes
  DEF BasicTypes, Serves, Moves, Becomes, Writes
<1>16. ASSUME NEW w \in WorkerId, Ack(w) PROVE EntriesApart'
  BY <1>1, <1>2, <1>16, AckDoes DEF BasicTypes, Serves, Becomes
<1>17. CASE UNCHANGED <<deque, spill, wk>>
  BY <1>17
<1>18. QED
  BY <1>3, <1>4, <1>5, <1>6, <1>7, <1>8, <1>9, <1>10, <1>11, <1>12,
     <1>13, <1>14, <1>15, <1>16, <1>17
  DEF Next, Scan, Report, WorkerStep, vars, process, Tick, ScanAbsent,
      ScanPut, ScanUnfinished, ScanSkip, ScanDone, Collect, WriteLine

\* The scan leaves nothing behind.
LEMMA ScanStep == ASSUME IInv, [Next]_vars PROVE ScanKeepsUp'
<1> USE DEF IInv, durable, ScanKeepsUp
<1>1. BasicTypes
  BY TypesFollow
<1>2. CASE Start
  BY <1>1, <1>2 DEF BasicTypes, Start, Owners
<1>3. CASE Kill
  BY <1>1, <1>3, EndDoes DEF BasicTypes, Kill, End, Resets
<1>4. CASE Tick
  <2>1. /\ \A s \in 1 .. cursor - 1 : s \in Sample
        /\ stage = "row" \/ stage = "enqueue" => cursor \in Sample
    BY <1>1 DEF BasicTypes, Sample, ProcessShape
  <2>2. QED
    BY <1>1, <1>4, <2>1, TickDoes DEF BasicTypes
<1>5. CASE ScanAbsent
  BY <1>1, <1>5 DEF BasicTypes, ScanAbsent, Scanning, Sample
<1>6. CASE ScanPut
  BY <1>1, <1>6, ScanDoes DEF BasicTypes, Writes, Sample
<1>7. CASE ScanUnfinished
  BY <1>1, <1>7, ScanDoes DEF BasicTypes, Writes, Sample
<1>8. CASE ScanSkip
  BY <1>1, <1>8 DEF BasicTypes, ScanSkip, Scanning, Sample
<1>9. CASE ScanEnqueue
  <2> DEFINE e == [id |-> NextId, sample |-> cursor]
  <2>1. e.sample = cursor /\ e \in deque' /\ deque \subseteq deque'
    BY <1>9 DEF ScanEnqueue
  <2> HIDE DEF e
  <2>2. cursor' = cursor + 1 /\ row[cursor].st # "Absent" /\ phase = "scan"
        /\ stage' = "look" /\ UNCHANGED <<row, live>>
    BY <1>9 DEF ScanEnqueue, Scanning
  <2>3. ASSUME NEW s \in 1 .. cursor
        PROVE  row[s].st # "Absent" /\ (row[s].st = "Pending" => \E f \in deque' : f.sample = s)
    <3>1. CASE s = cursor
      BY <2>1, <2>2, <3>1
    <3>2. CASE s \in 1 .. cursor - 1
      BY <2>1, <2>2, <3>2
    <3>3. QED
      BY <1>1, <3>1, <3>2 DEF BasicTypes
  <2>4. QED
    BY <1>1, <2>2, <2>3 DEF BasicTypes
<1>10. CASE ScanDone
  BY <1>1, <1>10 DEF BasicTypes, ScanDone
<1>11. CASE Collect
  BY <1>1, <1>11 DEF BasicTypes, Collect
<1>12. CASE WriteLine
  BY <1>1, <1>12 DEF BasicTypes, WriteLine
<1>13. CASE Finish
  BY <1>1, <1>13, EndDoes DEF BasicTypes, Finish, End, Resets
<1>14. ASSUME NEW w \in WorkerId, Dequeue(w) PROVE ScanKeepsUp'
  BY <1>1, <1>14, DequeueDoes DEF BasicTypes, Serves, Becomes
<1>15. ASSUME NEW w \in WorkerId, Claim(w) PROVE ScanKeepsUp'
  BY <1>1, <1>15, ClaimDoes DEF BasicTypes, Serves, Moves, Becomes, Writes
<1>16. ASSUME NEW w \in WorkerId, Complete(w) PROVE ScanKeepsUp'
  BY <1>1, <1>16, CompleteDoes DEF BasicTypes, Serves, Moves, Becomes, Writes
<1>17. ASSUME NEW w \in WorkerId, CompleteLost(w) PROVE ScanKeepsUp'
  BY <1>1, <1>17, EndDoes DEF BasicTypes, CompleteLost, End, Resets
<1>18. ASSUME NEW w \in WorkerId, Fail(w) PROVE ScanKeepsUp'
  BY <1>1, <1>18, FailDoes DEF BasicTypes, Serves, Moves, Becomes, Writes
<1>19. CASE UNCHANGED <<phase, row, cursor, deque, prompts, stage, live>>
  BY <1>19
<1>20. QED
  BY <1>2, <1>3, <1>4, <1>5, <1>6, <1>7, <1>8, <1>9, <1>10, <1>11,
     <1>12, <1>13, <1>14, <1>15, <1>16, <1>17, <1>18, <1>19
  DEF Next, Scan, Report, WorkerStep, vars, process, Drained, ReadRecord,
      Generate, GenerateError, Ack

\* What waits stays queued until it is claimed.
LEMMA WaitingStep == ASSUME IInv, [Next]_vars PROVE WaitingIsQueued'
<1> USE DEF IInv, durable, WaitingIsQueued, S
<1>1. BasicTypes
  BY TypesFollow
<1>2. CASE Start
  BY <1>1, <1>2 DEF BasicTypes, Start
<1>3. CASE Kill
  BY <1>1, <1>3, EndDoes DEF BasicTypes, Kill, End, Resets
<1>4. CASE Tick
  BY <1>1, <1>4, TickDoes DEF BasicTypes
<1>5. CASE ScanPut
  BY <1>1, <1>5, ScanDoes DEF BasicTypes, Writes
<1>6. CASE ScanUnfinished
  BY <1>1, <1>6, ScanDoes DEF BasicTypes, Writes
<1>7. CASE ScanEnqueue
  BY <1>1, <1>7, NextIdIsNat DEF BasicTypes, ScanEnqueue, Scanning
<1>8. CASE ScanDone
  BY <1>1, <1>8 DEF BasicTypes, ScanDone, ScanKeepsUp, Sample
<1>9. CASE Collect
  BY <1>1, <1>9 DEF BasicTypes, Collect
<1>10. CASE Finish
  BY <1>1, <1>10, EndDoes DEF BasicTypes, Finish, End, Resets
<1>11. ASSUME NEW w \in WorkerId, Dequeue(w) PROVE WaitingIsQueued'
  BY <1>1, <1>11, DequeueDoes DEF BasicTypes, Serves, Becomes
<1>12. ASSUME NEW w \in WorkerId, Drained(w) PROVE WaitingIsQueued'
  BY <1>1, <1>12, DrainedDoes DEF BasicTypes, Serves, Moves, Becomes
<1>13. ASSUME NEW w \in WorkerId, ReadRecord(w) PROVE WaitingIsQueued'
  BY <1>1, <1>13, ReadDoes DEF BasicTypes, Serves, Becomes
<1>14. ASSUME NEW w \in WorkerId, Claim(w) PROVE WaitingIsQueued'
  BY <1>1, <1>14, ClaimDoes
  DEF BasicTypes, Serves, Moves, Becomes, Writes, RecIsRow, TryClaim,
      SameRow, RowsOwned
<1>15. ASSUME NEW w \in WorkerId, Generate(w) PROVE WaitingIsQueued'
  BY <1>1, <1>15, GenerateDoes DEF BasicTypes, Serves, Moves, Becomes
<1>16. ASSUME NEW w \in WorkerId, GenerateError(w) PROVE WaitingIsQueued'
  BY <1>1, <1>16, GenerateDoes DEF BasicTypes, Serves, Moves, Becomes
<1>17. ASSUME NEW w \in WorkerId, Complete(w) PROVE WaitingIsQueued'
  BY <1>1, <1>17, CompleteDoes DEF BasicTypes, Serves, Moves, Becomes, Writes
<1>18. ASSUME NEW w \in WorkerId, CompleteLost(w) PROVE WaitingIsQueued'
  BY <1>1, <1>18, EndDoes DEF BasicTypes, CompleteLost, End, Resets
<1>19. ASSUME NEW w \in WorkerId, Fail(w) PROVE WaitingIsQueued'
  BY <1>1, <1>19, FailDoes DEF BasicTypes, Serves, Moves, Becomes, Writes
<1>20. ASSUME NEW w \in WorkerId, Ack(w) PROVE WaitingIsQueued'
  BY <1>1, <1>20, AckDoes DEF BasicTypes, Serves, Becomes
<1>21. CASE UNCHANGED <<phase, row, deque, live, wk>>
  BY <1>21
<1>22. QED
  BY <1>2, <1>3, <1>4, <1>5, <1>6, <1>7, <1>8, <1>9, <1>10, <1>11,
     <1>12, <1>13, <1>14, <1>15, <1>16, <1>17, <1>18, <1>19, <1>20,
     <1>21
  DEF Next, Scan, Report, WorkerStep, vars, process, ScanAbsent, ScanSkip,
      WriteLine

\* Claims come and go with the work.
LEMMA OwnersStep == ASSUME IInv, [Next]_vars PROVE OwnersWork'
<1> USE DEF IInv, durable, OwnersWork, S, Working
<1>1. BasicTypes
  BY TypesFollow
<1>2. CASE Start
  BY <1>1, <1>2 DEF BasicTypes, Start, Owners
<1>3. CASE Kill
  BY <1>1, <1>3, EndDoes DEF BasicTypes, Kill, End, Resets
<1>4. CASE Tick
  BY <1>1, <1>4, TickDoes DEF BasicTypes
<1>5. CASE ScanPut
  BY <1>1, <1>5, ScanDoes DEF BasicTypes, Writes
<1>6. CASE ScanUnfinished
  BY <1>1, <1>6, ScanDoes DEF BasicTypes, Writes
<1>7. CASE Finish
  BY <1>1, <1>7, EndDoes DEF BasicTypes, Finish, End, Resets
<1>8. ASSUME NEW w \in WorkerId, Dequeue(w) PROVE OwnersWork'
  BY <1>1, <1>8, DequeueDoes DEF BasicTypes, Serves, Becomes
<1>9. ASSUME NEW w \in WorkerId, Drained(w) PROVE OwnersWork'
  BY <1>1, <1>9, DrainedDoes DEF BasicTypes, Serves, Moves, Becomes
<1>10. ASSUME NEW w \in WorkerId, ReadRecord(w) PROVE OwnersWork'
  BY <1>1, <1>10, ReadDoes DEF BasicTypes, Serves, Becomes
<1>11. ASSUME NEW w \in WorkerId, Claim(w) PROVE OwnersWork'
  BY <1>1, <1>11, ClaimDoes DEF BasicTypes, Serves, Moves, Becomes, Writes
<1>12. ASSUME NEW w \in WorkerId, Generate(w) PROVE OwnersWork'
  BY <1>1, <1>12, GenerateDoes DEF BasicTypes, Serves, Moves, Becomes
<1>13. ASSUME NEW w \in WorkerId, GenerateError(w) PROVE OwnersWork'
  BY <1>1, <1>13, GenerateDoes DEF BasicTypes, Serves, Moves, Becomes
<1>14. ASSUME NEW w \in WorkerId, Complete(w) PROVE OwnersWork'
  BY <1>1, <1>14, CompleteDoes
  DEF BasicTypes, Serves, Moves, Becomes, Writes, Mine, RowsOwned
<1>15. ASSUME NEW w \in WorkerId, CompleteLost(w) PROVE OwnersWork'
  BY <1>1, <1>15, EndDoes DEF BasicTypes, CompleteLost, End, Resets
<1>16. ASSUME NEW w \in WorkerId, Fail(w) PROVE OwnersWork'
  BY <1>1, <1>16, FailDoes
  DEF BasicTypes, Serves, Moves, Becomes, Writes, Mine, RowsOwned
<1>17. ASSUME NEW w \in WorkerId, Ack(w) PROVE OwnersWork'
  BY <1>1, <1>17, AckDoes DEF BasicTypes, Serves, Becomes
<1>18. CASE UNCHANGED <<row, live, wk>>
  BY <1>18
<1>19. QED
  BY <1>2, <1>3, <1>4, <1>5, <1>6, <1>7, <1>8, <1>9, <1>10, <1>11,
     <1>12, <1>13, <1>14, <1>15, <1>16, <1>17, <1>18
  DEF Next, Scan, Report, WorkerStep, vars, process, ScanAbsent, ScanSkip,
      ScanEnqueue, ScanDone, Collect, WriteLine

\* A record read of a waiting row stays good while the row waits.
LEMMA RecStep == ASSUME IInv, [Next]_vars PROVE RecIsRow'
<1> USE DEF IInv, durable, RecIsRow, S, RowsOwned
<1>1. BasicTypes
  BY TypesFollow
<1>2. \A v \in live : wk[v].pc \notin {"idle", "drained"} => S(v) \in Sample
  BY <1>1, HandIsSample DEF BasicTypes
<1>3. CASE Start
  BY <1>1, <1>2, <1>3, FreshType DEF BasicTypes, Start, ProcessShape
<1>4. CASE Kill
  BY <1>1, <1>2, <1>4, EndDoes DEF BasicTypes, Kill, End, Resets
<1>5. CASE Tick
  BY <1>1, <1>2, <1>5, TickDoes DEF BasicTypes
<1>6. CASE ScanPut
  BY <1>1, <1>2, <1>6, ScanDoes, FreshType
  DEF BasicTypes, Writes, ProcessShape
<1>7. CASE ScanUnfinished
  BY <1>1, <1>2, <1>7, ScanDoes, FreshType
  DEF BasicTypes, Writes, ProcessShape
<1>8. CASE Finish
  BY <1>1, <1>2, <1>8, EndDoes DEF BasicTypes, Finish, End, Resets
<1>9. ASSUME NEW w \in WorkerId, Dequeue(w) PROVE RecIsRow'
  BY <1>1, <1>2, <1>9, DequeueDoes DEF BasicTypes, Serves, Becomes
<1>10. ASSUME NEW w \in WorkerId, Drained(w) PROVE RecIsRow'
  BY <1>1, <1>2, <1>10, DrainedDoes DEF BasicTypes, Serves, Moves, Becomes
<1>11. ASSUME NEW w \in WorkerId, ReadRecord(w) PROVE RecIsRow'
  BY <1>1, <1>2, <1>11, ReadDoes DEF BasicTypes, Serves, Becomes
<1>12. ASSUME NEW w \in WorkerId, Claim(w) PROVE RecIsRow'
  BY <1>1, <1>2, <1>12, ClaimDoes
  DEF BasicTypes, Serves, Moves, Becomes, Writes
<1>13. ASSUME NEW w \in WorkerId, Generate(w) PROVE RecIsRow'
  BY <1>1, <1>2, <1>13, GenerateDoes DEF BasicTypes, Serves, Moves, Becomes
<1>14. ASSUME NEW w \in WorkerId, GenerateError(w) PROVE RecIsRow'
  BY <1>1, <1>2, <1>14, GenerateDoes DEF BasicTypes, Serves, Moves, Becomes
<1>15. ASSUME NEW w \in WorkerId, Complete(w) PROVE RecIsRow'
  BY <1>1, <1>2, <1>15, CompleteDoes
  DEF BasicTypes, Serves, Moves, Becomes, Writes
<1>16. ASSUME NEW w \in WorkerId, CompleteLost(w) PROVE RecIsRow'
  BY <1>1, <1>2, <1>16, EndDoes DEF BasicTypes, CompleteLost, End, Resets
<1>17. ASSUME NEW w \in WorkerId, Fail(w) PROVE RecIsRow'
  BY <1>1, <1>2, <1>17, FailDoes
  DEF BasicTypes, Serves, Moves, Becomes, Writes
<1>18. ASSUME NEW w \in WorkerId, Ack(w) PROVE RecIsRow'
  BY <1>1, <1>2, <1>18, AckDoes DEF BasicTypes, Serves, Becomes
<1>19. CASE UNCHANGED <<row, live, wk>>
  BY <1>19
<1>20. QED
  BY <1>3, <1>4, <1>5, <1>6, <1>7, <1>8, <1>9, <1>10, <1>11, <1>12,
     <1>13, <1>14, <1>15, <1>16, <1>17, <1>18, <1>19
  DEF Next, Scan, Report, WorkerStep, vars, process, ScanAbsent, ScanSkip,
      ScanEnqueue, ScanDone, Collect, WriteLine

\* Blobs come before the swap.
LEMMA StoredStep == ASSUME IInv, [Next]_vars PROVE CompletesStored'
<1> USE DEF IInv, durable, CompletesStored, S
<1>1. BasicTypes
  BY TypesFollow
<1>2. CASE Start
  BY <1>1, <1>2, FreshType DEF BasicTypes, Start, ProcessShape
<1>3. CASE Kill
  BY <1>1, <1>3, EndDoes DEF BasicTypes, Kill, End, Resets
<1>4. CASE Finish
  BY <1>1, <1>4, EndDoes DEF BasicTypes, Finish, End, Resets
<1>5. ASSUME NEW w \in WorkerId, Dequeue(w) PROVE CompletesStored'
  BY <1>1, <1>5, DequeueDoes DEF BasicTypes, Serves, Becomes
<1>6. ASSUME NEW w \in WorkerId, Drained(w) PROVE CompletesStored'
  BY <1>1, <1>6, DrainedDoes DEF BasicTypes, Serves, Moves, Becomes
<1>7. ASSUME NEW w \in WorkerId, ReadRecord(w) PROVE CompletesStored'
  BY <1>1, <1>7, ReadDoes DEF BasicTypes, Serves, Becomes
<1>8. ASSUME NEW w \in WorkerId, Claim(w) PROVE CompletesStored'
  BY <1>1, <1>8, ClaimDoes DEF BasicTypes, Serves, Moves, Becomes, Writes
<1>9. ASSUME NEW w \in WorkerId, Generate(w) PROVE CompletesStored'
  BY <1>1, <1>9, GenerateDoes DEF BasicTypes, Serves, Moves, Becomes
<1>10. ASSUME NEW w \in WorkerId, GenerateError(w) PROVE CompletesStored'
  BY <1>1, <1>10, GenerateDoes DEF BasicTypes, Serves, Moves, Becomes
<1>11. ASSUME NEW w \in WorkerId, Complete(w) PROVE CompletesStored'
  BY <1>1, <1>11, CompleteDoes DEF BasicTypes, Serves, Moves, Becomes, Writes
<1>12. ASSUME NEW w \in WorkerId, CompleteLost(w) PROVE CompletesStored'
  BY <1>1, <1>12, EndDoes DEF BasicTypes, CompleteLost, End, Resets
<1>13. ASSUME NEW w \in WorkerId, Fail(w) PROVE CompletesStored'
  BY <1>1, <1>13, FailDoes DEF BasicTypes, Serves, Moves, Becomes, Writes
<1>14. ASSUME NEW w \in WorkerId, Ack(w) PROVE CompletesStored'
  BY <1>1, <1>14, AckDoes DEF BasicTypes, Serves, Becomes
<1>15. CASE UNCHANGED <<completions, live, wk>>
  BY <1>15
<1>16. QED
  BY <1>2, <1>3, <1>4, <1>5, <1>6, <1>7, <1>8, <1>9, <1>10, <1>11,
     <1>12, <1>13, <1>14, <1>15
  DEF Next, Scan, Report, WorkerStep, vars, process, Tick, ScanAbsent,
      ScanPut, ScanUnfinished, ScanSkip, ScanEnqueue, ScanDone, Collect,
      WriteLine

\* Claims in time are fresh, and nobody takes a fresh claim over.
LEMMA InTimeStep == ASSUME IInv, [Next]_vars PROVE InTime'
<1> USE DEF IInv, durable, InTime, Working, S
<1>1. BasicTypes
  BY TypesFollow
<1>2. \A v \in live : wk[v].pc \notin {"idle", "drained"} => S(v) \in Sample
  BY <1>1, HandIsSample DEF BasicTypes
<1>3. CASE Start
  BY <1>1, <1>2, <1>3, FreshType DEF BasicTypes, Start, ProcessShape
<1>4. CASE Kill
  BY <1>1, <1>2, <1>4, EndDoes DEF BasicTypes, Kill, End, Resets
<1>5. CASE Tick
  BY <1>1, <1>2, <1>5, TickDoes DEF BasicTypes
<1>6. CASE ScanPut
  BY <1>1, <1>2, <1>6, ScanDoes, FreshType
  DEF BasicTypes, Writes, ProcessShape
<1>7. CASE ScanUnfinished
  BY <1>1, <1>2, <1>7, ScanDoes, FreshType
  DEF BasicTypes, Writes, ProcessShape
<1>8. CASE Finish
  BY <1>1, <1>2, <1>8, EndDoes DEF BasicTypes, Finish, End, Resets
<1>9. ASSUME NEW w \in WorkerId, Dequeue(w) PROVE InTime'
  BY <1>1, <1>2, <1>9, DequeueDoes DEF BasicTypes, Serves, Becomes
<1>10. ASSUME NEW w \in WorkerId, Drained(w) PROVE InTime'
  BY <1>1, <1>2, <1>10, DrainedDoes DEF BasicTypes, Serves, Moves, Becomes
<1>11. ASSUME NEW w \in WorkerId, ReadRecord(w) PROVE InTime'
  BY <1>1, <1>2, <1>11, ReadDoes DEF BasicTypes, Serves, Becomes
<1>12. ASSUME NEW w \in WorkerId, Claim(w) PROVE InTime'
  BY <1>1, <1>2, <1>12, ClaimDoes
  DEF BasicTypes, Serves, Moves, Becomes, Writes, TryClaim, SameRow, IsStale
<1>13. ASSUME NEW w \in WorkerId, Generate(w) PROVE InTime'
  BY <1>1, <1>2, <1>13, GenerateDoes DEF BasicTypes, Serves, Moves, Becomes
<1>14. ASSUME NEW w \in WorkerId, GenerateError(w) PROVE InTime'
  BY <1>1, <1>2, <1>14, GenerateDoes DEF BasicTypes, Serves, Moves, Becomes
<1>15. ASSUME NEW w \in WorkerId, Complete(w) PROVE InTime'
  BY <1>1, <1>2, <1>15, CompleteDoes
  DEF BasicTypes, Serves, Moves, Becomes, Writes, Mine
<1>16. ASSUME NEW w \in WorkerId, CompleteLost(w) PROVE InTime'
  BY <1>1, <1>2, <1>16, EndDoes DEF BasicTypes, CompleteLost, End, Resets
<1>17. ASSUME NEW w \in WorkerId, Fail(w) PROVE InTime'
  BY <1>1, <1>2, <1>17, FailDoes
  DEF BasicTypes, Serves, Moves, Becomes, Writes, Mine
<1>18. ASSUME NEW w \in WorkerId, Ack(w) PROVE InTime'
  BY <1>1, <1>2, <1>18, AckDoes DEF BasicTypes, Serves, Becomes
<1>19. CASE UNCHANGED <<row, live, wk, slow>>
  BY <1>19
<1>20. QED
  BY <1>3, <1>4, <1>5, <1>6, <1>7, <1>8, <1>9, <1>10, <1>11, <1>12,
     <1>13, <1>14, <1>15, <1>16, <1>17, <1>18, <1>19
  DEF Next, Scan, Report, WorkerStep, vars, process, ScanAbsent, ScanSkip,
      ScanEnqueue, ScanDone, Collect, WriteLine

\* Rows are written after their blobs.
LEMMA BlobsStep == ASSUME IInv, [Next]_vars PROVE RowsHaveBlobs'
<1> USE DEF IInv, durable, RowsHaveBlobs
<1>1. BasicTypes
  BY TypesFollow
<1>2. CASE Tick
  BY <1>1, <1>2, TickDoes DEF BasicTypes
<1>3. CASE ScanAbsent
  BY <1>1, <1>3 DEF BasicTypes, ScanAbsent, Scanning
<1>4. CASE ScanPut
  BY <1>1, <1>4, ScanDoes DEF BasicTypes, Writes, ScanKeepsUp
<1>5. CASE ScanUnfinished
  BY <1>1, <1>5, ScanDoes DEF BasicTypes, Writes
<1>6. ASSUME NEW w \in WorkerId, Claim(w) PROVE RowsHaveBlobs'
  BY <1>1, <1>6, ClaimDoes
  DEF BasicTypes, Serves, Moves, Becomes, Writes, TryClaim, SameRow, IsStale
<1>7. ASSUME NEW w \in WorkerId, Generate(w) PROVE RowsHaveBlobs'
  BY <1>1, <1>7, GenerateDoes DEF BasicTypes, Serves, Moves, Becomes
<1>8. ASSUME NEW w \in WorkerId, Complete(w) PROVE RowsHaveBlobs'
  BY <1>1, <1>8, CompleteDoes
  DEF BasicTypes, Serves, Moves, Becomes, Writes, CompletesStored, Mine
<1>9. ASSUME NEW w \in WorkerId, Fail(w) PROVE RowsHaveBlobs'
  BY <1>1, <1>9, FailDoes DEF BasicTypes, Serves, Moves, Becomes, Writes, Mine
<1>10. CASE UNCHANGED <<row, prompts, completions>>
  BY <1>10
<1>11. QED
  BY <1>2, <1>3, <1>4, <1>5, <1>6, <1>7, <1>8, <1>9, <1>10
  DEF Next, Scan, Report, WorkerStep, vars, process, Start, Kill,
      ScanSkip, ScanEnqueue, ScanDone, Collect, WriteLine, Finish,
      Dequeue, Drained, ReadRecord, GenerateError, CompleteLost, Ack

\* The store holds finitely many ids.
LEMMA BoundStep == ASSUME IInv, [Next]_vars PROVE IdsBounded'
<1> USE DEF IInv, durable, IdsBounded
<1>1. BasicTypes
  BY TypesFollow
<1>2. CASE ScanEnqueue
  <2>1. PICK b \in Nat : \A e \in spill : e.id <= b
    OBVIOUS
  <2>2. NextId \in Nat
    BY <1>1, NextIdIsNat DEF BasicTypes
  <2>3. \A e \in spill : e.id \in Nat
    BY <1>1 DEF BasicTypes, Entry
  <2> DEFINE new == [id |-> NextId, sample |-> cursor]
  <2>4. new.id = NextId /\ spill' = spill \cup {new}
    BY <1>2 DEF ScanEnqueue
  <2> HIDE DEF new
  <2>5. b + NextId \in Nat /\ \A e \in spill' : e.id <= b + NextId
    BY <2>1, <2>2, <2>3, <2>4
  <2>6. QED
    BY <2>5
<1>3. ASSUME NEW w \in WorkerId, Ack(w) PROVE IdsBounded'
  BY <1>1, <1>3, AckDoes DEF BasicTypes, Serves, Becomes
<1>4. CASE UNCHANGED spill
  BY <1>4
<1>5. QED
  BY <1>2, <1>3, <1>4
  DEF Next, Scan, Report, WorkerStep, vars, process, Start, Kill, Tick,
      ScanAbsent, ScanPut, ScanUnfinished, ScanSkip, ScanDone, Collect,
      WriteLine, Finish, Dequeue, Drained, ReadRecord, Claim, Generate,
      GenerateError, Complete, CompleteLost, Fail

\* A finished row is never written again.
LEMMA ListedStep == ASSUME IInv, [Next]_vars PROVE ListedIsDone'
<1> USE DEF IInv, durable, ListedIsDone
<1>1. BasicTypes
  BY TypesFollow
<1>2. output \subseteq Sample
  BY DEF TypeOK
<1>3. CASE Tick
  BY <1>1, <1>2, <1>3, TickDoes DEF BasicTypes
<1>4. CASE ScanPut
  BY <1>1, <1>2, <1>4, ScanDoes DEF BasicTypes, Writes
<1>5. CASE ScanUnfinished
  BY <1>1, <1>2, <1>5, ScanDoes DEF BasicTypes, Writes
<1>6. CASE Collect
  BY <1>1, <1>2, <1>6 DEF BasicTypes, Collect
<1>7. CASE WriteLine
  BY <1>1, <1>2, <1>7 DEF BasicTypes, WriteLine, Reported
<1>8. ASSUME NEW w \in WorkerId, Claim(w) PROVE ListedIsDone'
  BY <1>1, <1>2, <1>8, ClaimDoes
  DEF BasicTypes, Serves, Moves, Becomes, Writes, TryClaim, SameRow, IsStale
<1>9. ASSUME NEW w \in WorkerId, Complete(w) PROVE ListedIsDone'
  BY <1>1, <1>2, <1>9, CompleteDoes
  DEF BasicTypes, Serves, Moves, Becomes, Writes, Mine
<1>10. ASSUME NEW w \in WorkerId, Fail(w) PROVE ListedIsDone'
  BY <1>1, <1>2, <1>10, FailDoes
  DEF BasicTypes, Serves, Moves, Becomes, Writes, Mine
<1>11. CASE UNCHANGED <<output, row>>
  BY <1>11
<1>12. QED
  BY <1>3, <1>4, <1>5, <1>6, <1>7, <1>8, <1>9, <1>10, <1>11
  DEF Next, Scan, Report, WorkerStep, vars, process, Start, Kill,
      ScanAbsent, ScanSkip, ScanEnqueue, ScanDone, Finish, Dequeue,
      Drained, ReadRecord, Generate, GenerateError, CompleteLost, Ack

\* The lines written so far are those of the finished rows.
LEMMA WrittenStep == ASSUME IInv, [Next]_vars PROVE Written'
<1> USE DEF IInv, durable, Written
<1>1. BasicTypes
  BY TypesFollow
<1>2. CASE Start
  BY <1>1, <1>2 DEF BasicTypes, Start
<1>3. CASE Kill
  BY <1>1, <1>3, EndDoes DEF BasicTypes, Kill, End, Resets
<1>4. CASE Tick
  BY <1>1, <1>4, TickDoes DEF BasicTypes
<1>5. CASE ScanPut
  BY <1>1, <1>5, ScanDoes DEF BasicTypes, Writes
<1>6. CASE ScanUnfinished
  BY <1>1, <1>6, ScanDoes DEF BasicTypes, Writes
<1>7. CASE ScanSkip
  BY <1>1, <1>7 DEF BasicTypes, ScanSkip, Scanning
<1>8. CASE ScanEnqueue
  BY <1>1, <1>8, NextIdIsNat DEF BasicTypes, ScanEnqueue, Scanning
<1>9. CASE ScanDone
  BY <1>1, <1>9 DEF BasicTypes, ScanDone
<1>10. CASE Collect
  BY <1>1, <1>10 DEF BasicTypes, Collect, Sample
<1>11. CASE WriteLine
  BY <1>1, <1>11 DEF BasicTypes, WriteLine, Reported, Sample
<1>12. CASE Finish
  BY <1>1, <1>12, EndDoes DEF BasicTypes, Finish, End, Resets
<1>13. ASSUME NEW w \in WorkerId, Claim(w) PROVE Written'
  BY <1>1, <1>13, ClaimDoes DEF BasicTypes, Serves, Moves, Becomes, Writes
<1>14. ASSUME NEW w \in WorkerId, Complete(w) PROVE Written'
  BY <1>1, <1>14, CompleteDoes DEF BasicTypes, Serves, Moves, Becomes, Writes
<1>15. ASSUME NEW w \in WorkerId, CompleteLost(w) PROVE Written'
  BY <1>1, <1>15, EndDoes DEF BasicTypes, CompleteLost, End, Resets
<1>16. ASSUME NEW w \in WorkerId, Fail(w) PROVE Written'
  BY <1>1, <1>16, FailDoes DEF BasicTypes, Serves, Moves, Becomes, Writes
<1>17. CASE UNCHANGED <<phase, output, cursor, row>>
  BY <1>17
<1>18. QED
  BY <1>2, <1>3, <1>4, <1>5, <1>6, <1>7, <1>8, <1>9, <1>10, <1>11,
     <1>12, <1>13, <1>14, <1>15, <1>16, <1>17
  DEF Next, Scan, Report, WorkerStep, vars, process, ScanAbsent, Dequeue,
      Drained, ReadRecord, Generate, GenerateError, Ack

\* Nothing is finished after the file is.
LEMMA CleanStep == ASSUME IInv, [Next]_vars PROVE CleanIsComplete'
<1> USE DEF IInv, durable, CleanIsComplete
<1>1. BasicTypes
  BY TypesFollow
<1>2. exit = "clean" => phase = "down"
  BY DEF ProcessShape
<1>3. CASE Start
  BY <1>1, <1>2, <1>3 DEF BasicTypes, Start
<1>4. CASE Kill
  BY <1>1, <1>2, <1>4, EndDoes DEF BasicTypes, Kill, End, Resets
<1>5. CASE Tick
  BY <1>1, <1>2, <1>5, TickDoes DEF BasicTypes
<1>6. CASE ScanPut
  BY <1>1, <1>2, <1>6, ScanDoes DEF BasicTypes, Writes
<1>7. CASE ScanUnfinished
  BY <1>1, <1>2, <1>7, ScanDoes DEF BasicTypes, Writes
<1>8. CASE Collect
  BY <1>1, <1>2, <1>8 DEF BasicTypes, Collect
<1>9. CASE WriteLine
  BY <1>1, <1>2, <1>9 DEF BasicTypes, WriteLine
<1>10. CASE Finish
  BY <1>1, <1>2, <1>10, EndDoes
  DEF BasicTypes, Finish, End, Resets, Written, Sample
<1>11. ASSUME NEW w \in WorkerId, Claim(w) PROVE CleanIsComplete'
  BY <1>1, <1>2, <1>11, ClaimDoes
  DEF BasicTypes, Serves, Moves, Becomes, Writes
<1>12. ASSUME NEW w \in WorkerId, Complete(w) PROVE CleanIsComplete'
  BY <1>1, <1>2, <1>12, CompleteDoes
  DEF BasicTypes, Serves, Moves, Becomes, Writes
<1>13. ASSUME NEW w \in WorkerId, CompleteLost(w) PROVE CleanIsComplete'
  BY <1>1, <1>2, <1>13, EndDoes DEF BasicTypes, CompleteLost, End, Resets
<1>14. ASSUME NEW w \in WorkerId, Fail(w) PROVE CleanIsComplete'
  BY <1>1, <1>2, <1>14, FailDoes
  DEF BasicTypes, Serves, Moves, Becomes, Writes
<1>15. CASE UNCHANGED <<exit, output, row>>
  BY <1>15
<1>16. QED
  BY <1>3, <1>4, <1>5, <1>6, <1>7, <1>8, <1>9, <1>10, <1>11, <1>12,
     <1>13, <1>14, <1>15
  DEF Next, Scan, Report, WorkerStep, vars, process, ScanAbsent, ScanSkip,
      ScanEnqueue, ScanDone, Dequeue, Drained, ReadRecord, Generate,
      GenerateError, Ack

LEMMA InitInv == Init => IInv
<1> SUFFICES ASSUME Init PROVE IInv
  OBVIOUS
<1> USE BatchRuntimeAssumption
<1>1. Idle("Absent") \in Row /\ Idle("Absent").st = "Absent" /\ Idle("Absent").worker = NoWorker
  BY RowTypes DEF Idle
<1>2. \A s \in Sample : row[s].st = "Absent" /\ row[s].worker = NoWorker
  BY <1>1 DEF Init
<1>3. FreshWorker.pc = "idle" /\ FreshWorker.entry = NoEntry /\ FreshWorker \in WorkerState
  BY FreshType
<1>4. TypeOK
  <2>1. row \in [Sample -> Row] /\ wk \in [WorkerId -> WorkerState]
    BY <1>1, <1>3 DEF Init
  <2>2. cursor \in 1 .. N + 1 /\ errors \in Nat
    BY DEF Init
  <2>3. QED
    BY <2>1, <2>2 DEF Init, TypeOK
<1>5. ProcessShape
  BY <1>3 DEF Init, ProcessShape
<1>6. EntriesApart
  BY <1>3 DEF Init, EntriesApart
<1>7. IdsBounded
  BY DEF Init, IdsBounded
<1>8. QED
  BY <1>2, <1>4, <1>5, <1>6, <1>7
  DEF Init, IInv, RowsOwned, ScanKeepsUp, WaitingIsQueued, OwnersWork, RecIsRow,
      CompletesStored, InTime, RowsHaveBlobs, Written, ListedIsDone, CleanIsComplete

LEMMA StepInv == IInv /\ [Next]_vars => IInv'
  BY TypeStep, OwnedStep, ShapeStep, BoundStep, ApartStep, ScanStep, WaitingStep,
     OwnersStep, RecStep, StoredStep, InTimeStep, BlobsStep, WrittenStep, ListedStep,
     CleanStep
  DEF IInv

\* The inductive invariant holds throughout, over any number of kills.
THEOREM Induction == Spec => []IInv
  BY InitInv, StepInv, PTL DEF Spec

-----------------------------------------------------------------------------
(* What the runs check.                                                    *)

\* Types, blobs before the rows that name them, and one generator per sample
\* while the backend answers within the window: a claim in time is Running,
\* owned and fresh, and TryClaim takes over stale rows only.
THEOREM Invariance == Spec => []Inv
<1>1. ASSUME IInv PROVE OneGeneratorPerSample
  BY <1>1 DEF IInv, OneGeneratorPerSample, InTime, Working
<1>2. IInv => Inv
  BY <1>1 DEF IInv, Inv
<1>3. QED
  BY <1>2, Induction, PTL

\* A pool at work has every sample that waits in its queue or in a worker's
\* hand, works on every sample it owns, and all its entries are in the store.
THEOREM NoneForgotten == Spec => []NothingForgotten
<1>1. ASSUME IInv PROVE NothingForgotten
  <2>1. BasicTypes
    BY <1>1, TypesFollow
  <2>2. \A w \in live : Held(w) \subseteq spill
    BY <1>1, <2>1 DEF IInv, EntriesApart, Held, BasicTypes
  <2>3. deque \cup UNION {Held(w) : w \in live} \subseteq spill
    BY <1>1, <2>2 DEF IInv, EntriesApart
  <2>4. QED
    BY <1>1, <2>3 DEF IInv, NothingForgotten, WaitingIsQueued, OwnersWork, Working
<1>2. QED
  BY <1>1, Induction, PTL

\* completions.jsonl lists finished samples that have their blobs, and all of
\* them after a run that ended without an error.
THEOREM SoundOutput == Spec => []OutputIsSound
<1>1. ASSUME IInv PROVE OutputIsSound
  BY <1>1 DEF IInv, OutputIsSound, ListedIsDone, CleanIsComplete, RowsHaveBlobs, TypeOK
<1>2. QED
  BY <1>1, Induction, PTL

-----------------------------------------------------------------------------
(* The runtime implements ClaimTable.                                      *)

ItemMap == [s \in Sample |-> Progress(s)]
OwnerMap == [s \in Sample |-> row[s].worker]

\* Progress depends on the state of the row alone.
LEMMA SameRows ==
  ASSUME \A s \in Sample : row'[s].st = row[s].st /\ row'[s].worker = row[s].worker
  PROVE  ItemMap' = ItemMap /\ OwnerMap' = OwnerMap
<1>1. \A s \in Sample : Progress(s)' = Progress(s)
  BY DEF Progress
<1>2. QED
  BY <1>1 DEF ItemMap, OwnerMap

LEMMA OneRow ==
  ASSUME NEW k \in Sample, NEW st, NEW o, Writes(k, st, o)
  PROVE  /\ ItemMap' = [ItemMap EXCEPT ![k] = Progress(k)']
         /\ OwnerMap' = [OwnerMap EXCEPT ![k] = o]
<1>1. \A s \in Sample : s # k => Progress(s)' = Progress(s) /\ row'[s].worker = row[s].worker
  BY DEF Progress, Writes
<1>2. row'[k].worker = o
  BY DEF Writes
<1>3. \A s \in Sample : Progress(s)' = [ItemMap EXCEPT ![k] = Progress(k)'][s]
  BY <1>1 DEF ItemMap
<1>4. \A s \in Sample : row'[s].worker = [OwnerMap EXCEPT ![k] = o][s]
  BY <1>1, <1>2 DEF OwnerMap
<1>5. QED
  BY <1>3, <1>4 DEF ItemMap, OwnerMap

\* No row is written and nobody turns to work: at most, work is given up.
LEMMA LeaveStep ==
  ASSUME \A s \in Sample : row'[s].st = row[s].st /\ row'[s].worker = row[s].worker,
         \A v \in live' : wk'[v].pc \in Working =>
           v \in live /\ wk[v].pc \in Working /\ wk'[v].entry = wk[v].entry
  PROVE  Claims!Leave
<1>1. AtWork' \in SUBSET AtWork
  BY DEF AtWork, S, Working
<1>2. ItemMap' = ItemMap /\ OwnerMap' = OwnerMap
  BY SameRows
<1>3. QED
  BY <1>1, <1>2 DEF Claims!Leave, ItemMap, OwnerMap

\* A claim: the worker owned nothing, and is at work at once.
LEMMA ClaimRefines ==
  ASSUME IInv, NEW w \in WorkerId, Claim(w)
  PROVE  Claims!Next
<1>1. BasicTypes
  BY TypesFollow
<1>2. S(w) \in Sample /\ wk[w].pc = "claim" /\ w \in live /\ live' = live
  BY ClaimDoes DEF Serves
<1>3. CASE TryClaim(S(w), wk[w].rec)
  <2>0. PICK s \in Sample : s = S(w)
    BY <1>2
  <2>1. Writes(s, "Running", w) /\ Moves(w, "generate") /\ row[s].st \in {"Pending", "Running"}
    BY <1>3, <2>0, ClaimDoes DEF TryClaim, SameRow, IsStale
  <2>2. row[s].worker # w
    BY <1>1, <1>2 DEF IInv, OwnersWork, Working, BasicTypes
  <2>3. AtWork' = AtWork \cup {<<w, s>>}
    BY <1>1, <1>2, <2>0, <2>1 DEF AtWork, S, Moves, Becomes, BasicTypes
  <2>4. Progress(s)' = "claimed" /\ Progress(s) \in {"waiting", "claimed"}
    BY <2>1, <1>2 DEF Progress, Writes
  <2>5. /\ ItemMap' = [ItemMap EXCEPT ![s] = "claimed"]
        /\ OwnerMap' = [OwnerMap EXCEPT ![s] = w]
    BY <1>2, <2>1, <2>4, OneRow
  <2>6. ItemMap[s] = Progress(s) /\ OwnerMap[s] = row[s].worker
    BY <1>2 DEF ItemMap, OwnerMap
  <2>7. Claims!Claim(w, s)
    BY <2>2, <2>3, <2>4, <2>5, <2>6 DEF Claims!Claim, ItemMap, OwnerMap
  <2>8. QED
    BY <2>7 DEF Claims!Next
<1>4. CASE ~TryClaim(S(w), wk[w].rec)
  <2>1. Claims!Leave
    BY <1>1, <1>2, <1>4, ClaimDoes, LeaveStep DEF Moves, Becomes, Working, BasicTypes
  <2>2. QED
    BY <2>1 DEF Claims!Next
<1>5. QED
  BY <1>3, <1>4

\* The owner's swap to Done, or to Failed, which gives the sample back.
LEMMA FinishRefines ==
  ASSUME IInv, NEW w \in WorkerId, w \in live, live' = live,
         S(w) \in Sample, wk[w].pc \in Working, Mine(w), Moves(w, "ack"),
         NEW st \in {"Done", "Failed"}, Writes(S(w), st, NoWorker)
  PROVE  Claims!Next
<1>1. BasicTypes
  BY TypesFollow
<1>0. PICK s \in Sample : s = S(w)
  OBVIOUS
<1>2. AtWork' = AtWork \ {<<w, s>>} /\ <<w, s>> \in AtWork
  BY <1>0, <1>1 DEF AtWork, S, Moves, Becomes, BasicTypes, Working
<1>3. Progress(s) = "claimed" /\ row[s].worker = w
  BY <1>0 DEF Progress, Mine
<1>4. /\ ItemMap' = [ItemMap EXCEPT ![s] = Progress(s)']
      /\ OwnerMap' = [OwnerMap EXCEPT ![s] = NoWorker]
  BY <1>0, OneRow
<1>5. ItemMap[s] = Progress(s) /\ OwnerMap[s] = row[s].worker
  BY DEF ItemMap, OwnerMap
<1>6. CASE st = "Done"
  <2>1. Progress(s)' = "over"
    BY <1>0, <1>6 DEF Progress, Writes
  <2>2. Claims!Finish(w, s)
    BY <1>2, <1>3, <1>4, <1>5, <2>1 DEF Claims!Finish, ItemMap, OwnerMap
  <2>3. QED
    BY <2>2 DEF Claims!Next
<1>7. CASE st = "Failed"
  <2>1. Progress(s)' = "waiting"
    BY <1>0, <1>7 DEF Progress, Writes
  <2>2. Claims!GiveBack(w, s)
    BY <1>2, <1>3, <1>4, <1>5, <2>1 DEF Claims!GiveBack, ItemMap, OwnerMap
  <2>3. QED
    BY <2>2 DEF Claims!Next
<1>8. QED
  BY <1>6, <1>7

\* The scan offers a new sample, or takes back the claim of a dead process:
\* the workers of this one have not begun.
LEMMA ScanRefines ==
  ASSUME IInv, ScanPut \/ ScanUnfinished
  PROVE  Claims!Next
<1>1. BasicTypes
  BY TypesFollow
<1>0. PICK c \in Sample : c = cursor
  BY ScanDoes
<1>2. phase = "scan" /\ UNCHANGED <<live, wk>>
  BY ScanDoes
<1>3. AtWork = {} /\ AtWork' = {}
  BY <1>1, <1>2, FreshType DEF IInv, ProcessShape, AtWork, BasicTypes
<1>4. CASE row' = row
  <2>1. Claims!Leave
    BY <1>2, <1>4, LeaveStep
  <2>2. QED
    BY <2>1 DEF Claims!Next
<1>5. CASE row[c].st \in {"Absent", "Running"} /\ Writes(c, "Pending", NoWorker)
  <2>1. Progress(c)' = "waiting"
    BY <1>2, <1>5 DEF Progress, Writes
  <2>2. /\ ItemMap' = [ItemMap EXCEPT ![c] = "waiting"]
        /\ OwnerMap' = [OwnerMap EXCEPT ![c] = NoWorker]
    BY <1>2, <1>5, <2>1, OneRow
  <2>3. ItemMap[c] = Progress(c) /\ OwnerMap[c] = row[c].worker
    BY <1>2 DEF ItemMap, OwnerMap
  <2>4. CASE row[c].st = "Absent"
    <3>1. row[c].worker = NoWorker /\ Progress(c) = "none"
      BY <1>2, <2>4 DEF IInv, RowsOwned, Progress
    <3>2. OwnerMap' = OwnerMap
      BY <2>2, <2>3, <3>1, <1>2 DEF OwnerMap
    <3>3. Claims!Offer(c)
      BY <1>3, <2>2, <2>3, <3>1, <3>2 DEF Claims!Offer, ItemMap, OwnerMap
    <3>4. QED
      BY <1>2, <3>3 DEF Claims!Next
  <2>5. CASE row[c].st = "Running"
    <3>1. Progress(c) = "claimed"
      BY <2>5 DEF Progress
    <3>2. Claims!Release(c)
      BY <1>3, <2>2, <2>3, <3>1 DEF Claims!Release, ItemMap, OwnerMap
    <3>3. QED
      BY <1>2, <3>2 DEF Claims!Next
  <2>6. QED
    BY <1>5, <2>4, <2>5
<1>6. QED
  BY <1>0, <1>4, <1>5, ScanDoes

\* The CAS dance of the rows: a Done row is never written again, a worker that
\* was overtaken neither finishes nor fails the sample, and a scan takes back
\* the claims of the dead only.
THEOREM BatchImplementsClaims == Spec => ImplementsClaims
<1>1. Init => Claims!Init
  <2> SUFFICES ASSUME Init PROVE Claims!Init
    OBVIOUS
  <2>1. \A s \in Sample : Progress(s) = "none" /\ row[s].worker = NoWorker
    BY DEF Init, Progress, Idle
  <2>2. AtWork = {}
    BY DEF Init, AtWork
  <2>3. QED
    BY <2>1, <2>2 DEF Claims!Init
<1>2. IInv /\ [Next]_vars => [Claims!Next]_Claims!vars
  <2> SUFFICES ASSUME IInv, [Next]_vars PROVE Claims!Next
    OBVIOUS
  <2>1. BasicTypes
    BY TypesFollow
  <2>2. ASSUME row' = row, live' = {} PROVE Claims!Leave
    BY <2>2, LeaveStep
  <2>3. CASE Start
    <3>1. row' = row /\ \A v \in WorkerId : wk'[v].pc = "idle"
      BY <2>3, FreshType DEF Start, IInv, ProcessShape
    <3>2. live' \subseteq WorkerId
      BY TypeStep DEF TypeOK
    <3>3. QED
      BY <3>1, <3>2, LeaveStep DEF Working, Claims!Next
  <2>4. CASE Kill \/ Finish \/ \E w \in WorkerId : CompleteLost(w)
    BY <2>2, <2>4 DEF Kill, Finish, CompleteLost, End, durable, Claims!Next
  <2>5. CASE Tick
    BY <2>5, TickDoes, LeaveStep DEF Claims!Next
  <2>6. CASE ScanPut \/ ScanUnfinished
    BY <2>6, ScanRefines
  <2>7. CASE UNCHANGED <<row, live, wk>>
    BY <2>7, LeaveStep DEF Claims!Next
  <2>8. ASSUME NEW w \in WorkerId, Dequeue(w) PROVE Claims!Next
    <3>1. Claims!Leave
      BY <2>1, <2>8, DequeueDoes, LeaveStep DEF Serves, Becomes, Working, BasicTypes
    <3>2. QED
      BY <3>1 DEF Claims!Next
  <2>9. ASSUME NEW w \in WorkerId, Drained(w) PROVE Claims!Next
    <3>1. Claims!Leave
      BY <2>1, <2>9, DrainedDoes, LeaveStep DEF Serves, Moves, Becomes, Working, BasicTypes
    <3>2. QED
      BY <3>1 DEF Claims!Next
  <2>10. ASSUME NEW w \in WorkerId, ReadRecord(w) PROVE Claims!Next
    <3>1. Claims!Leave
      BY <2>1, <2>10, ReadDoes, LeaveStep DEF Serves, Becomes, Working, BasicTypes
    <3>2. QED
      BY <3>1 DEF Claims!Next
  <2>11. ASSUME NEW w \in WorkerId, Generate(w) \/ GenerateError(w) PROVE Claims!Next
    <3>1. Claims!Leave
      BY <2>1, <2>11, GenerateDoes, LeaveStep DEF Serves, Moves, Becomes, Working, BasicTypes
    <3>2. QED
      BY <3>1 DEF Claims!Next
  <2>12. ASSUME NEW w \in WorkerId, Complete(w) PROVE Claims!Next
    BY <2>12, CompleteDoes, FinishRefines DEF Serves, Working
  <2>13. ASSUME NEW w \in WorkerId, Fail(w) PROVE Claims!Next
    <3>1. CASE Mine(w)
      BY <2>13, <3>1, FailDoes, FinishRefines DEF Serves, Working
    <3>2. CASE ~Mine(w)
      <4>1. Claims!Leave
        BY <2>1, <2>13, <3>2, FailDoes, LeaveStep DEF Serves, Moves, Becomes, Working, BasicTypes
      <4>2. QED
        BY <4>1 DEF Claims!Next
    <3>3. QED
      BY <3>1, <3>2
  <2>14. ASSUME NEW w \in WorkerId, Ack(w) PROVE Claims!Next
    <3>1. Claims!Leave
      BY <2>1, <2>14, AckDoes, LeaveStep DEF Serves, Becomes, Working, BasicTypes
    <3>2. QED
      BY <3>1 DEF Claims!Next
  <2>15. QED
    BY <2>3, <2>4, <2>5, <2>6, <2>7, <2>8, <2>9, <2>10, <2>11, <2>12, <2>13, <2>14,
       ClaimRefines
    DEF Next, Scan, Report, WorkerStep, ScanAbsent, ScanSkip, ScanEnqueue, ScanDone,
        Collect, WriteLine, vars, durable
<1>3. QED
  BY <1>1, <1>2, Induction, PTL DEF Spec, ImplementsClaims, Claims!Spec

-----------------------------------------------------------------------------
(* The vLLM backend: the inductive invariant.                              *)

\* The requests under way, in the order in which they are served.
Line == serving \o channel

\* What a call may be at each of its points.
CallFits(c) ==
  /\ c.pc = "idle" => c.op = "Init"
  /\ c.pc = "send" => c.sent < c.n
  /\ c.pc = "wait" => c.sent = c.n /\ c.op # "Shutdown"
  /\ c.op # "Generate" => c.n = 1
  /\ c.pc \in {"send", "wait"} =>
       \A i \in 1 .. MaxPrompts : i > c.sent => c.answers[i] = "none"
  /\ c.op \in Training =>
       /\ c.pc = "ok" => c.answers[1] = "ok"
       /\ c.pc = "err" => c.answers[1] # "ok"

\* A request with a caller is one of those the caller has sent and has no answer
\* to.  Only those of a generate call are given up.
RequestFits(r, c) ==
  /\ r.open => /\ c.pc \in {"send", "wait"} /\ c.op = r.op /\ r.op # "Shutdown"
               /\ r.i <= c.sent /\ c.answers[r.i] = "none"
  /\ ~r.open => r.op \in {"Generate", "Shutdown"}

Matches(r, t, i) == r.task = t /\ r.i = i /\ r.open

\* The requests L and the calls c agree: every open request is one its caller
\* waits for, no two are the same, and every unanswered one is there.
Agree(L, c) ==
  /\ \A k \in 1 .. Len(L) : RequestFits(L[k], c[L[k].task])
  /\ \A k, l \in 1 .. Len(L) :
       L[k].open /\ L[l].open /\ L[k].task = L[l].task /\ L[k].i = L[l].i => k = l
  /\ \A t \in Task : \A i \in 1 .. MaxPrompts :
       c[t].pc \in {"send", "wait"} /\ i <= c[t].sent /\ c[t].answers[i] = "none" =>
         \E k \in 1 .. Len(L) : Matches(L[k], t, i)

\* The trainer's call is the one of the phase the algorithm is in.
PhaseFits(a, c) ==
  /\ a.pc = "off" => c.op \notin Training
  /\ a.pc \in {"loop", "over"} => c.pc = "idle"
  /\ a.pc = "forward" => c.pc # "idle" /\ c.op = "Forward"
  /\ a.pc = "optimizer" => c.pc # "idle" /\ c.op = "Optimizer"
  /\ a.pc = "saving" => c.pc # "idle" /\ c.op = "Save"

\* The weights' steps and the counters, given the trainer's call: an optimizer
\* step that failed may have been applied.
StepsFit(a, c, y) ==
  /\ a.pc = "off" => y.step = 0 /\ y.weights = 0
  /\ a.pc \in {"loop", "forward", "over", "saving"} => y.step + a.from = a.step
  /\ a.pc \in {"loop", "forward"} => y.weights = y.step
  /\ a.pc \in {"over", "saving"} =>
       y.weights = y.step \/ (a.failed /\ y.weights = y.step + 1)
  /\ a.pc = "forward" /\ c.answers[1] = "ok" => y.grad = y.step + 1
  /\ a.pc = "optimizer" =>
       /\ c.answers[1] = "none" => y.grad = y.step + 1 /\ y.weights = y.step
       /\ c.answers[1] # "ok" => /\ y.step + a.from = a.step
                                 /\ y.weights = y.step \/ y.weights = y.step + 1
       /\ c.answers[1] = "ok" => y.step + a.from = a.step + 1 /\ y.weights = y.step
  /\ a.pc = "saving" /\ c.answers[1] = "ok" => y.disk = y.weights

\* The same of a snapshot.
SavedFits(v) ==
  v.weights + v.from = v.step \/ (v.failed /\ v.weights + v.from = v.step + 1)

\* Nobody else trains, and beside an algorithm nobody has the backend for
\* himself.
OthersFit ==
  /\ \A t \in Task \ {Trainer} : call[t].op \notin Training
  /\ algo.pc # "off" => \A t \in Task : call[t].op \in Exclusive => IdleTask(t)

\* The parts of the inductive invariant.
CallsFit == \A t \in Task : CallFits(call[t])
LineFits == Agree(Line, call) /\ (~thread => Line = <<>>)
AlgoFits == PhaseFits(algo, call[Trainer]) /\ OthersFit
CountsFit == StepsFit(algo, call[Trainer], py) /\ SavedFits(saved)

\* The inductive invariant of the backend.
VllmIInv == VllmTypeOK /\ CallsFit /\ LineFits /\ AlgoFits /\ CountsFit

\* M is L with r behind it, or without its first.
Behind(M, L, r) ==
  Len(M) = Len(L) + 1 /\ M[Len(L) + 1] = r /\ \A k \in 1 .. Len(L) : M[k] = L[k]
Rest(M, L) == Len(M) = Len(L) - 1 /\ \A k \in 1 .. Len(M) : M[k] = L[k + 1]

\* The requests of t are given up.
Closed(r, t) == IF r.task = t THEN [r EXCEPT !.open = FALSE] ELSE r
GivenUp(M, L, t) == Len(M) = Len(L) /\ \A k \in 1 .. Len(L) : M[k] = Closed(L[k], t)

NoneOpen(L, t) == \A k \in 1 .. Len(L) : L[k].task = t => ~L[k].open

-----------------------------------------------------------------------------
(* Requests and calls.                                                     *)

\* What is known of a request in a queue.
LEMMA RequestsOf ==
  ASSUME NEW L \in Seq(Request), MaxPrompts \in Nat, NEW k \in 1 .. Len(L)
  PROVE  /\ L[k] \in Request /\ L[k].task \in Task /\ L[k].op \in Op
         /\ L[k].i \in 1 .. MaxPrompts /\ L[k].i \in Nat /\ L[k].open \in BOOLEAN
<1>1. L[k] \in Request
  OBVIOUS
<1> QED BY <1>1 DEF Request

\* A task that is not in a call has no open request.
LEMMA NotCalling ==
  ASSUME NEW L, NEW c, NEW t, Agree(L, c),
         c[t].pc \notin {"send", "wait"} \/ c[t].op = "Shutdown"
  PROVE  NoneOpen(L, t)
  BY DEF Agree, RequestFits, NoneOpen

\* A task without open requests may go over to another call.
LEMMA AgreeSet ==
  ASSUME MaxPrompts \in Nat, NEW L \in Seq(Request), NEW c \in [Task -> Call],
         NEW t \in Task, NEW d \in Call,
         Agree(L, c), NoneOpen(L, t), d.pc \in {"send", "wait"} => d.sent = 0
  PROVE  Agree(L, [c EXCEPT ![t] = d])
<1> DEFINE e == [c EXCEPT ![t] = d]
<1>1. \A u \in Task : e[u] = IF u = t THEN d ELSE c[u]
  OBVIOUS
<1>2. \A k \in 1 .. Len(L) : L[k] \in Request /\ L[k].task \in Task
  BY RequestsOf
<1> HIDE DEF e
<1>3. \A k \in 1 .. Len(L) : RequestFits(L[k], e[L[k].task])
  BY <1>1, <1>2 DEF Agree, NoneOpen, RequestFits
<1>4. ASSUME NEW u \in Task, NEW i \in 1 .. MaxPrompts, e[u].pc \in {"send", "wait"},
             i <= e[u].sent, e[u].answers[i] = "none"
      PROVE  \E k \in 1 .. Len(L) : Matches(L[k], u, i)
  <2>1. u # t
    BY <1>1, <1>4
  <2> QED BY <1>1, <1>4, <2>1 DEF Agree
<1>5. Agree(L, e)
  BY <1>3, <1>4 DEF Agree
<1> QED BY <1>5 DEF e

\* A caller sends its next request: the line grows by it, the call counts it.
LEMMA AgreeAppendOpen ==
  ASSUME MaxPrompts \in Nat, NEW L \in Seq(Request), NEW c \in [Task -> Call],
         NEW t \in Task, NEW d \in Call,
         Agree(L, c), NEW r \in Request, r.task = t, r.open, r.op # "Shutdown",
         c[t].pc = "send", r.op = c[t].op, r.i = c[t].sent + 1, CallFits(c[t]),
         d.pc \in {"send", "wait"}, d.op = c[t].op, d.sent = r.i, d.answers = c[t].answers,
         NEW M, Behind(M, L, r)
  PROVE  Agree(M, [c EXCEPT ![t] = d])
<1> DEFINE e == [c EXCEPT ![t] = d]
<1>1. \A u \in Task : e[u] = IF u = t THEN d ELSE c[u]
  OBVIOUS
<1>2. \A k \in 1 .. Len(L) : L[k] \in Request /\ L[k].task \in Task /\ L[k].i \in Nat
  BY RequestsOf
<1>3. Len(M) = Len(L) + 1 /\ M[Len(L) + 1] = r /\ \A k \in 1 .. Len(L) : M[k] = L[k]
  BY DEF Behind
<1>4. Len(L) \in Nat /\ r.i \in 1 .. MaxPrompts /\ c[t].sent \in Nat
  BY DEF Request, Call
<1> HIDE DEF e
<1>5. ASSUME NEW k \in 1 .. Len(M)
      PROVE  k = Len(L) + 1 \/ k \in 1 .. Len(L)
  BY <1>3, <1>4
<1>6. c[t].answers[r.i] = "none"
  BY <1>4 DEF CallFits
<1>7. \A k \in 1 .. Len(L) : L[k].open /\ L[k].task = t => L[k].i < r.i
  BY <1>2, <1>4 DEF Agree, RequestFits
<1>8. ASSUME NEW k \in 1 .. Len(M)
      PROVE  RequestFits(M[k], e[M[k].task])
  <2>1. CASE k = Len(L) + 1
    BY <1>1, <1>3, <1>4, <1>6, <2>1 DEF RequestFits
  <2>2. CASE k \in 1 .. Len(L)
    <3>1. M[k] = L[k] /\ RequestFits(L[k], c[L[k].task]) /\ L[k].task \in Task
      BY <1>2, <1>3, <2>2 DEF Agree
    <3>2. CASE L[k].task # t
      BY <1>1, <3>1, <3>2
    <3>3. CASE L[k].task = t
      BY <1>1, <1>2, <1>4, <2>2, <3>1, <3>3 DEF RequestFits
    <3> QED BY <3>2, <3>3
  <2> QED BY <1>5, <2>1, <2>2
<1>9. ASSUME NEW k \in 1 .. Len(M), NEW l \in 1 .. Len(M), M[k].open, M[l].open,
             M[k].task = M[l].task, M[k].i = M[l].i
      PROVE  k = l
  <2>1. CASE k \in 1 .. Len(L) /\ l \in 1 .. Len(L)
    BY <1>3, <1>9, <2>1 DEF Agree
  <2>2. CASE k = Len(L) + 1 /\ l \in 1 .. Len(L)
    BY <1>2, <1>3, <1>4, <1>7, <1>9, <2>2
  <2>3. CASE l = Len(L) + 1 /\ k \in 1 .. Len(L)
    BY <1>2, <1>3, <1>4, <1>7, <1>9, <2>3
  <2> QED BY <1>5, <2>1, <2>2, <2>3
<1>10. ASSUME NEW u \in Task, NEW i \in 1 .. MaxPrompts, e[u].pc \in {"send", "wait"},
              i <= e[u].sent, e[u].answers[i] = "none"
       PROVE  \E k \in 1 .. Len(M) : Matches(M[k], u, i)
  <2>1. CASE u = t /\ i = r.i
    <3>1. Len(L) + 1 \in 1 .. Len(M) /\ Matches(M[Len(L) + 1], u, i)
      BY <1>3, <1>4, <2>1 DEF Matches
    <3> QED BY <3>1
  <2>2. CASE ~(u = t /\ i = r.i)
    <3>1. c[u].pc \in {"send", "wait"} /\ i <= c[u].sent /\ c[u].answers[i] = "none"
      BY <1>1, <1>4, <1>10, <2>2
    <3>2. PICK k \in 1 .. Len(L) : Matches(L[k], u, i)
      BY <3>1 DEF Agree
    <3>3. k \in 1 .. Len(M) /\ M[k] = L[k]
      BY <1>3, <1>4
    <3> QED BY <3>2, <3>3
  <2> QED BY <2>1, <2>2
<1>11. Agree(M, e)
  BY <1>8, <1>9, <1>10 DEF Agree
<1> QED BY <1>11 DEF e

\* A Shutdown behind the line has no caller and changes nothing for the others.
LEMMA AgreeAppendClosed ==
  ASSUME MaxPrompts \in Nat, NEW L \in Seq(Request), NEW c \in [Task -> Call], Agree(L, c),
         NEW r \in Request, ~r.open, r.op = "Shutdown", NEW M, Behind(M, L, r)
  PROVE  /\ Agree(M, c)
         /\ \A t \in Task : NoneOpen(L, t) => NoneOpen(M, t)
<1>1. Len(M) = Len(L) + 1 /\ M[Len(L) + 1] = r /\ \A k \in 1 .. Len(L) : M[k] = L[k]
  BY DEF Behind
<1>2. Len(L) \in Nat
  OBVIOUS
<1>3. \A k \in 1 .. Len(M) : k = Len(L) + 1 \/ k \in 1 .. Len(L)
  BY <1>1, <1>2
<1>4. \A k \in 1 .. Len(L) : k \in 1 .. Len(M)
  BY <1>1, <1>2
<1>5. \A k \in 1 .. Len(M) : RequestFits(M[k], c[M[k].task])
  BY <1>1, <1>3 DEF Agree, RequestFits
<1>6. \A k \in 1 .. Len(M) : M[k].open => k \in 1 .. Len(L) /\ M[k] = L[k]
  BY <1>1, <1>3
<1>7. \A k, l \in 1 .. Len(M) :
        M[k].open /\ M[l].open /\ M[k].task = M[l].task /\ M[k].i = M[l].i => k = l
  BY <1>6 DEF Agree
<1>8. \A t, i : (\E k \in 1 .. Len(L) : Matches(L[k], t, i))
                  => \E k \in 1 .. Len(M) : Matches(M[k], t, i)
  BY <1>1, <1>4
<1>9. Agree(M, c)
  BY <1>5, <1>7, <1>8 DEF Agree
<1>10. \A t \in Task : NoneOpen(L, t) => NoneOpen(M, t)
  BY <1>1, <1>3 DEF NoneOpen
<1> QED BY <1>9, <1>10

\* A task may give up a generate call, and any call without open requests.
LEMMA AgreeClose ==
  ASSUME MaxPrompts \in Nat, NEW L \in Seq(Request), NEW c \in [Task -> Call],
         NEW t \in Task, NEW d \in Call, Agree(L, c), d.pc \notin {"send", "wait"},
         c[t].op = "Generate" \/ NoneOpen(L, t), NEW M, GivenUp(M, L, t)
  PROVE  Agree(M, [c EXCEPT ![t] = d])
<1> DEFINE e == [c EXCEPT ![t] = d]
<1>1. \A u \in Task : e[u] = IF u = t THEN d ELSE c[u]
  OBVIOUS
<1> HIDE DEF e
<1>2. ASSUME NEW k \in 1 .. Len(L)
      PROVE  /\ L[k].task \in Task /\ M[k].task = L[k].task /\ M[k].i = L[k].i /\ M[k].op = L[k].op
             /\ IF L[k].task = t THEN ~M[k].open ELSE M[k] = L[k]
  <2>1. L[k] \in Request
    OBVIOUS
  <2>2. M[k] = Closed(L[k], t)
    BY DEF GivenUp
  <2>3. \A r \in Request : LET x == Closed(r, t) IN
           /\ r.task \in Task /\ x.task = r.task /\ x.i = r.i /\ x.op = r.op
           /\ IF r.task = t THEN ~x.open ELSE x = r
    BY DEF Closed, Request
  <2> QED BY <2>1, <2>2, <2>3
<1>3. Len(M) = Len(L)
  BY DEF GivenUp
<1>4. ASSUME NEW k \in 1 .. Len(M)
      PROVE  RequestFits(M[k], e[M[k].task])
  <2>1. k \in 1 .. Len(L) /\ RequestFits(L[k], c[L[k].task])
    BY <1>3 DEF Agree
  <2>2. CASE L[k].task # t
    BY <1>1, <1>2, <2>1, <2>2
  <2>3. CASE L[k].task = t
    BY <1>1, <1>2, <2>1, <2>3 DEF RequestFits, NoneOpen
  <2> QED BY <2>2, <2>3
<1>5. \A k \in 1 .. Len(M) : M[k].open => M[k] = L[k]
  BY <1>2, <1>3
<1>6. \A k, l \in 1 .. Len(M) :
        M[k].open /\ M[l].open /\ M[k].task = M[l].task /\ M[k].i = M[l].i => k = l
  BY <1>3, <1>5 DEF Agree
<1>7. ASSUME NEW u \in Task, NEW i \in 1 .. MaxPrompts, e[u].pc \in {"send", "wait"},
             i <= e[u].sent, e[u].answers[i] = "none"
      PROVE  \E k \in 1 .. Len(M) : Matches(M[k], u, i)
  <2>1. u # t /\ e[u] = c[u]
    BY <1>1, <1>7
  <2>2. PICK k \in 1 .. Len(L) : Matches(L[k], u, i)
    BY <1>7, <2>1 DEF Agree
  <2>3. M[k] = L[k]
    BY <1>2, <2>1, <2>2 DEF Matches
  <2> QED BY <1>3, <2>2, <2>3
<1>8. Agree(M, e)
  BY <1>4, <1>6, <1>7 DEF Agree
<1> QED BY <1>8 DEF e

\* The answer to a request, where somebody waits for it.
Answered(c, r, result) ==
  IF r.open THEN [c EXCEPT ![r.task].answers[r.i] = result] ELSE c

\* An answer changes one place of one call.
LEMMA AnsweredIs ==
  ASSUME MaxPrompts \in Nat, NEW c \in [Task -> Call], NEW r \in Request,
         NEW result \in {"ok", "err"}
  PROVE  LET e == Answered(c, r, result) IN
         /\ e \in [Task -> Call]
         /\ \A u \in Task : /\ e[u].pc = c[u].pc /\ e[u].op = c[u].op /\ e[u].n = c[u].n
                            /\ e[u].sent = c[u].sent
                            /\ \A i \in 1 .. MaxPrompts :
                                 e[u].answers[i] = IF r.open /\ u = r.task /\ i = r.i
                                                   THEN result ELSE c[u].answers[i]
<1> DEFINE e == Answered(c, r, result)
<1>1. r.task \in Task /\ r.i \in 1 .. MaxPrompts
  BY DEF Request
<1>2. CASE ~r.open
  BY <1>2 DEF Answered
<1>3. CASE r.open
  <2> DEFINE k == c[r.task]
             g == [k.answers EXCEPT ![r.i] = result]
             d == [k EXCEPT !.answers = g]
  <2>1. k \in Call
    BY <1>1
  <2>2. e = [c EXCEPT ![r.task] = d]
    BY <1>1, <1>3 DEF Answered
  <2> HIDE DEF k
  <2>3. k.answers \in [1 .. MaxPrompts -> {"none", "ok", "err"}]
    BY <2>1 DEF Call
  <2>4. g \in [1 .. MaxPrompts -> {"none", "ok", "err"}]
        /\ \A i \in 1 .. MaxPrompts : g[i] = IF i = r.i THEN result ELSE k.answers[i]
    BY <1>1, <2>3
  <2> HIDE DEF g
  <2>5. /\ d \in Call /\ d.pc = k.pc /\ d.op = k.op /\ d.n = k.n /\ d.sent = k.sent
        /\ d.answers = g
    BY <2>1, <2>4 DEF Call
  <2> HIDE DEF d
  <2>6. e \in [Task -> Call] /\ \A u \in Task : e[u] = IF u = r.task THEN d ELSE c[u]
    BY <1>1, <2>2, <2>5
  <2> HIDE DEF e
  <2>7. \A u \in Task : /\ e[u].pc = c[u].pc /\ e[u].op = c[u].op /\ e[u].n = c[u].n
                       /\ e[u].sent = c[u].sent
    BY <2>5, <2>6 DEF k
  <2>8. \A u \in Task : \A i \in 1 .. MaxPrompts :
          e[u].answers[i] = IF r.open /\ u = r.task /\ i = r.i
                            THEN result ELSE c[u].answers[i]
    BY <1>3, <2>4, <2>5, <2>6 DEF k
  <2> QED BY <2>6, <2>7, <2>8 DEF e
<1> QED BY <1>2, <1>3

\* The first request is answered.
LEMMA AgreeTail ==
  ASSUME MaxPrompts \in Nat, NEW L \in Seq(Request), NEW c \in [Task -> Call],
         Agree(L, c), L # <<>>, NEW result \in {"ok", "err"}, NEW M, Rest(M, L)
  PROVE  Agree(M, Answered(c, L[1], result))
<1> DEFINE r == L[1]
           e == Answered(c, r, result)
<1>1. Len(L) \in Nat \ {0} /\ 1 \in 1 .. Len(L)
  OBVIOUS
<1>2. r \in Request
  BY <1>1
<1>3. \A u \in Task : /\ e[u].pc = c[u].pc /\ e[u].op = c[u].op /\ e[u].sent = c[u].sent
                     /\ \A i \in 1 .. MaxPrompts :
                          e[u].answers[i] = IF r.open /\ u = r.task /\ i = r.i
                                            THEN result ELSE c[u].answers[i]
  BY <1>2, AnsweredIs
<1> HIDE DEF e
<1>4. Len(M) = Len(L) - 1 /\ \A k \in 1 .. Len(M) : M[k] = L[k + 1] /\ k + 1 \in 1 .. Len(L) /\ k + 1 # 1
  BY <1>1 DEF Rest
<1>5. ASSUME NEW k \in 1 .. Len(M)
      PROVE  RequestFits(M[k], e[M[k].task])
  <2> DEFINE l == k + 1
  <2>1. l \in 1 .. Len(L) /\ M[k] = L[l] /\ l # 1
    BY <1>4
  <2> HIDE DEF l
  <2>2. L[l].task \in Task /\ L[l].i \in 1 .. MaxPrompts
    BY <2>1, RequestsOf
  <2>3. RequestFits(L[l], c[L[l].task])
    BY <2>1 DEF Agree
  <2>4. L[l].open => ~(r.open /\ L[l].task = r.task /\ L[l].i = r.i)
    BY <1>1, <2>1 DEF Agree
  <2> QED BY <1>3, <2>1, <2>2, <2>3, <2>4 DEF RequestFits
<1>6. \A k, l \in 1 .. Len(M) :
        M[k].open /\ M[l].open /\ M[k].task = M[l].task /\ M[k].i = M[l].i => k = l
  <2> TAKE k, l \in 1 .. Len(M)
  <2> HAVE M[k].open /\ M[l].open /\ M[k].task = M[l].task /\ M[k].i = M[l].i
  <2> DEFINE a == k + 1
             b == l + 1
  <2>1. /\ a \in 1 .. Len(L) /\ M[k] = L[a]
        /\ b \in 1 .. Len(L) /\ M[l] = L[b]
    BY <1>4
  <2> HIDE DEF a, b
  <2>2. a = b
    BY <2>1 DEF Agree
  <2> QED BY <1>1, <1>4, <2>2 DEF a, b
<1>7. ASSUME NEW u \in Task, NEW i \in 1 .. MaxPrompts, e[u].pc \in {"send", "wait"},
             i <= e[u].sent, e[u].answers[i] = "none"
      PROVE  \E k \in 1 .. Len(M) : Matches(M[k], u, i)
  <2>1. /\ c[u].pc \in {"send", "wait"} /\ i <= c[u].sent /\ c[u].answers[i] = "none"
        /\ ~(r.open /\ u = r.task /\ i = r.i)
    BY <1>3, <1>7
  <2>2. PICK l \in 1 .. Len(L) : Matches(L[l], u, i)
    BY <2>1 DEF Agree
  <2>3. l # 1
    BY <2>1, <2>2 DEF Matches
  <2>4. l - 1 \in 1 .. Len(M) /\ (l - 1) + 1 = l
    BY <1>1, <1>4, <2>3
  <2>5. M[l - 1] = L[l]
    BY <1>4, <2>4
  <2> QED BY <2>2, <2>4, <2>5
<1>8. Agree(M, e)
  BY <1>5, <1>6, <1>7 DEF Agree
<1> QED BY <1>8 DEF e

-----------------------------------------------------------------------------
(* The requests under way, as the channel and the thread have them.        *)

\* Positions in the request in hand and the channel, taken together.
LEMMA LineOf ==
  ASSUME NEW s \in Seq(Request), NEW q \in Seq(Request)
  PROVE  /\ s \o q \in Seq(Request) /\ Len(s \o q) = Len(s) + Len(q)
         /\ \A k \in 1 .. Len(s) : (s \o q)[k] = s[k]
         /\ \A k \in 1 .. Len(q) : (s \o q)[Len(s) + k] = q[k]
         /\ \A k \in 1 .. Len(s \o q) : k \in 1 .. Len(s) \/ k - Len(s) \in 1 .. Len(q)
  OBVIOUS

\* A send puts a request at the end of the line.
LEMMA LineBehind ==
  ASSUME NEW s \in Seq(Request), NEW q \in Seq(Request), NEW r \in Request
  PROVE  Behind(s \o Append(q, r), s \o q, r) /\ Append(q, r) \in Seq(Request)
  BY DEF Behind

\* The thread takes a request in hand: the line is as it was.
LEMMA LineTaken ==
  ASSUME NEW q \in Seq(Request), q # <<>>
  PROVE  /\ <<>> \o q = <<Head(q)>> \o Tail(q) /\ Head(q) \in Request
         /\ Tail(q) \in Seq(Request) /\ Len(Tail(q)) = Len(q) - 1
         /\ <<Head(q)>> \in Seq(Request) /\ Len(<<Head(q)>>) = 1
  OBVIOUS

\* A request that was served was the first of the line.
LEMMA LineServed ==
  ASSUME NEW s \in Seq(Request), NEW q \in Seq(Request), Len(s) = 1
  PROVE  /\ Rest(<<>> \o q, s \o q) /\ s[1] \in Request /\ (s \o q)[1] = s[1]
         /\ s \o q # <<>>
<1>1. Len(q) \in Nat /\ 1 \in 1 .. Len(s)
  OBVIOUS
<1>2. s[1] \in Request
  BY <1>1
<1>3. (s \o q)[1] = s[1] /\ Len(s \o q) = 1 + Len(q)
  <2>1. \A k \in 1 .. Len(s) : (s \o q)[k] = s[k]
    BY LineOf
  <2>2. Len(s \o q) = Len(s) + Len(q)
    BY LineOf
  <2>3. (s \o q)[1] = s[1]
    BY <1>1, <2>1
  <2> QED BY <2>2, <2>3
<1>4. \A k \in 1 .. Len(q) : (s \o q)[Len(s) + k] = q[k]
  BY LineOf
<1>5. \A k \in 1 .. Len(q) : Len(s) + k = k + 1
  BY <1>1
<1>6. \A k \in 1 .. Len(q) : (s \o q)[k + 1] = q[k]
  BY <1>4, <1>5
<1>7. <<>> \o q = q
  OBVIOUS
<1>8. s \o q # <<>>
  BY <1>1, <1>3
<1> QED BY <1>1, <1>2, <1>3, <1>6, <1>7, <1>8 DEF Rest

\* Dropping the receivers of t leaves every request in its place.
LEMMA CloseIs ==
  ASSUME NEW q \in Seq(Request), NEW t
  PROVE  Close(q, t) \in Seq(Request) /\ GivenUp(Close(q, t), q, t)
<1>1. \A r \in Request : Closed(r, t) \in Request
  BY DEF Closed, Request
<1>2. Close(q, t) = [k \in 1 .. Len(q) |-> Closed(q[k], t)]
  BY DEF Close, Closed
<1>3. \A k \in 1 .. Len(q) : Closed(q[k], t) \in Request
  BY <1>1
<1> DEFINE h == [k \in 1 .. Len(q) |-> Closed(q[k], t)]
<1>4. h \in Seq(Request) /\ Len(h) = Len(q)
  BY <1>3
<1> QED BY <1>2, <1>4 DEF GivenUp

\* The same for the line.
LEMMA LineClosed ==
  ASSUME NEW s \in Seq(Request), NEW q \in Seq(Request), NEW t
  PROVE  GivenUp(Close(s, t) \o Close(q, t), s \o q, t)
<1> DEFINE x == Close(s, t)
           y == Close(q, t)
<1>1. x \in Seq(Request) /\ y \in Seq(Request) /\ GivenUp(x, s, t) /\ GivenUp(y, q, t)
  BY CloseIs
<1> HIDE DEF x, y
<1>2. Len(x) = Len(s) /\ Len(y) = Len(q) /\ Len(s) \in Nat /\ Len(q) \in Nat
  BY <1>1 DEF GivenUp
<1>3. Len(x \o y) = Len(s \o q) /\ Len(s \o q) = Len(s) + Len(q)
  BY <1>1, <1>2
<1>4. ASSUME NEW k \in 1 .. Len(s \o q)
      PROVE  (x \o y)[k] = Closed((s \o q)[k], t)
  <2>1. CASE k \in 1 .. Len(s)
    <3>1. (x \o y)[k] = x[k] /\ (s \o q)[k] = s[k]
      BY <1>1, <1>2, <2>1
    <3> QED BY <1>1, <2>1, <3>1 DEF GivenUp
  <2>2. CASE k \notin 1 .. Len(s)
    <3> DEFINE l == k - Len(s)
    <3>1. l \in 1 .. Len(q) /\ k = Len(s) + l
      BY <1>2, <1>3, <2>2
    <3>2. (x \o y)[k] = y[l] /\ (s \o q)[k] = q[l]
      BY <1>1, <1>2, <1>3, <2>2
    <3> HIDE DEF l
    <3> QED BY <1>1, <3>1, <3>2 DEF GivenUp
  <2> QED BY <2>1, <2>2
<1>5. GivenUp(x \o y, s \o q, t)
  BY <1>3, <1>4 DEF GivenUp
<1> QED BY <1>5 DEF x, y

\* A stopped thread has answered everybody in the channel with an error.
LEMMA DroppedIs ==
  ASSUME MaxPrompts \in Nat, VllmTypeOK
  PROVE  /\ Dropped \in [Task -> Call]
         /\ \A u \in Task :
              /\ Dropped[u].pc = call[u].pc /\ Dropped[u].op = call[u].op
              /\ Dropped[u].n = call[u].n /\ Dropped[u].sent = call[u].sent
              /\ \A i \in 1 .. MaxPrompts :
                   Dropped[u].answers[i] =
                     IF \E k \in 1 .. Len(channel) : Matches(channel[k], u, i)
                     THEN "err" ELSE call[u].answers[i]
<1>1. DOMAIN channel = 1 .. Len(channel)
  BY DEF VllmTypeOK
<1>2. ASSUME NEW u \in Task
      PROVE  /\ Dropped[u] \in Call
             /\ Dropped[u].pc = call[u].pc /\ Dropped[u].op = call[u].op
             /\ Dropped[u].n = call[u].n /\ Dropped[u].sent = call[u].sent
             /\ \A i \in 1 .. MaxPrompts :
                   Dropped[u].answers[i] =
                     IF \E k \in 1 .. Len(channel) : Matches(channel[k], u, i)
                     THEN "err" ELSE call[u].answers[i]
  <2> DEFINE c == call[u]
             g == [i \in 1 .. MaxPrompts |->
                     IF \E k \in 1 .. Len(channel) : Matches(channel[k], u, i)
                     THEN "err" ELSE c.answers[i]]
             d == [c EXCEPT !.answers = g]
  <2>1. Dropped[u] = d
    BY <1>1 DEF Dropped, Matches
  <2>2. c \in Call
    BY DEF VllmTypeOK
  <2> HIDE DEF c
  <2>3. c.answers \in [1 .. MaxPrompts -> {"none", "ok", "err"}]
    BY <2>2 DEF Call
  <2>4. g \in [1 .. MaxPrompts -> {"none", "ok", "err"}]
    BY <2>3
  <2>5. \A i \in 1 .. MaxPrompts :
          g[i] = IF \E k \in 1 .. Len(channel) : Matches(channel[k], u, i)
                 THEN "err" ELSE c.answers[i]
    OBVIOUS
  <2> HIDE DEF g
  <2>6. /\ d \in Call /\ d.pc = c.pc /\ d.op = c.op /\ d.n = c.n /\ d.sent = c.sent
        /\ d.answers = g
    BY <2>2, <2>4 DEF Call
  <2> HIDE DEF d
  <2> QED BY <2>1, <2>5, <2>6 DEF c
<1>3. Dropped \in [Task -> Call]
  <2>1. Dropped = [u \in Task |-> Dropped[u]]
    BY DEF Dropped
  <2> QED BY <1>2, <2>1
<1> QED BY <1>2, <1>3

\* When the channel goes, every request in it is answered with an error.
LEMMA AgreeDropped ==
  ASSUME MaxPrompts \in Nat, VllmTypeOK, Agree(channel, call)
  PROVE  Agree(<<>>, Dropped)
<1>1. \A k \in 1 .. Len(<<>>) : FALSE
  OBVIOUS
<1>2. ASSUME NEW u \in Task, NEW i \in 1 .. MaxPrompts, Dropped[u].pc \in {"send", "wait"},
             i <= Dropped[u].sent, Dropped[u].answers[i] = "none"
      PROVE  FALSE
  <2>1. /\ call[u].pc \in {"send", "wait"} /\ i <= call[u].sent /\ call[u].answers[i] = "none"
        /\ ~\E k \in 1 .. Len(channel) : Matches(channel[k], u, i)
    BY <1>2, DroppedIs
  <2> QED BY <2>1 DEF Agree
<1> QED BY <1>1, <1>2 DEF Agree

-----------------------------------------------------------------------------
(* The calls of a step.                                                    *)

\* A task that is not in a call.
LEMMA NoCallIs ==
  /\ NoCall \in Call /\ CallFits(NoCall) /\ NoCall.pc = "idle" /\ NoCall.op = "Init"
  /\ NoCall.sent = 0 /\ NoCall.n = 1
  /\ \A i \in 1 .. MaxPrompts : NoCall.answers[i] = "none"
<1>1. MaxPrompts \in Nat /\ 1 \in 1 .. MaxPrompts /\ 0 \in 0 .. MaxPrompts
  BY VllmAssumption
<1>2. [i \in 1 .. MaxPrompts |-> "none"] \in [1 .. MaxPrompts -> {"none", "ok", "err"}]
  OBVIOUS
<1>3. NoCall \in Call
  BY <1>1, <1>2 DEF NoCall, Call, Op, Exclusive
<1>4. /\ NoCall.pc = "idle" /\ NoCall.op = "Init" /\ NoCall.sent = 0 /\ NoCall.n = 1
      /\ \A i \in 1 .. MaxPrompts : NoCall.answers[i] = "none"
  BY DEF NoCall
<1> QED BY <1>3, <1>4 DEF CallFits, Training

Fresh(op, n) == [NoCall EXCEPT !.pc = "send", !.op = op, !.n = n]
FreshOne(op) == [NoCall EXCEPT !.pc = "send", !.op = op]

\* A call that has just begun.
LEMMA FreshIs ==
  ASSUME NEW op \in Op, NEW n \in 1 .. MaxPrompts, op # "Generate" => n = 1
  PROVE  LET d == Fresh(op, n) IN
         /\ d \in Call /\ CallFits(d) /\ d.pc = "send" /\ d.op = op /\ d.sent = 0
         /\ d.answers[1] = "none"
<1> DEFINE e == NoCall
           d == [e EXCEPT !.pc = "send", !.op = op, !.n = n]
<1>1. MaxPrompts \in Nat /\ 1 \in 1 .. MaxPrompts
  BY VllmAssumption
<1>2. /\ e \in Call /\ e.sent = 0 /\ e.n = 1
      /\ \A i \in 1 .. MaxPrompts : e.answers[i] = "none"
  BY NoCallIs
<1> HIDE DEF e
<1>3. /\ d \in Call /\ d.pc = "send" /\ d.op = op /\ d.sent = 0 /\ d.n = n
      /\ d.answers = e.answers
  BY <1>2 DEF Call
<1> HIDE DEF d
<1>4. CallFits(d)
  BY <1>1, <1>2, <1>3 DEF CallFits
<1> QED BY <1>1, <1>2, <1>3, <1>4 DEF d, e, Fresh

\* The same of a call with one request.
LEMMA FreshOneIs ==
  ASSUME NEW op \in Op
  PROVE  LET d == FreshOne(op) IN
         /\ d \in Call /\ CallFits(d) /\ d.pc = "send" /\ d.op = op /\ d.sent = 0
         /\ d.answers[1] = "none"
<1> DEFINE e == NoCall
           d == [e EXCEPT !.pc = "send", !.op = op]
<1>1. MaxPrompts \in Nat /\ 1 \in 1 .. MaxPrompts
  BY VllmAssumption
<1>2. /\ e \in Call /\ e.sent = 0 /\ e.n = 1
      /\ \A i \in 1 .. MaxPrompts : e.answers[i] = "none"
  BY NoCallIs
<1> HIDE DEF e
<1>3. /\ d \in Call /\ d.pc = "send" /\ d.op = op /\ d.sent = 0 /\ d.n = 1
      /\ d.answers = e.answers
  BY <1>2 DEF Call
<1> HIDE DEF d
<1>4. CallFits(d)
  BY <1>1, <1>2, <1>3 DEF CallFits
<1> QED BY <1>1, <1>2, <1>3, <1>4 DEF d, e, FreshOne

\* What the invariant says of one call.
LEMMA CallIs ==
  ASSUME VllmIInv, NEW t \in Task
  PROVE  call[t] \in Call /\ CallFits(call[t]) /\ call \in [Task -> Call]
         /\ Line \in Seq(Request) /\ Agree(Line, call)
         /\ serving \in Seq(Request) /\ channel \in Seq(Request)
  BY LineOf DEF VllmIInv, VllmTypeOK, CallsFit, LineFits, Line

\* The trainer is in a call of its own only before the algorithm runs.
LEMMA TrainerIs ==
  ASSUME VllmIInv, call[Trainer].pc # "idle", call[Trainer].op \notin Training
  PROVE  algo.pc = "off"
  BY DEF VllmIInv, VllmTypeOK, AlgoFits, PhaseFits, Training

Algo == [pc : {"off", "loop", "forward", "optimizer", "over", "saving"},
         from : Nat, step : Nat, left : Nat, failed : BOOLEAN]
Saved == [from : Nat, step : Nat, weights : Nat, failed : BOOLEAN]
Py == [engine : BOOLEAN, pending : BOOLEAN, state : BOOLEAN,
       loss : BOOLEAN, grad : Nat, step : Nat, weights : Nat, disk : Nat]

\* The call of t becomes d, and the algorithm and Python what they become.
LEMMA CallerStep ==
  ASSUME VllmIInv, NEW t \in Task, NEW d \in Call, CallFits(d),
         call' = [call EXCEPT ![t] = d],
         t # Trainer => d.op \notin Training,
         algo'.pc # "off" => /\ d.op \in Exclusive => d.pc = "idle"
                             /\ \A u \in Task : call[u].op \in Exclusive => IdleTask(u),
         PhaseFits(algo', IF t = Trainer THEN d ELSE call[Trainer]),
         StepsFit(algo', IF t = Trainer THEN d ELSE call[Trainer], py'),
         SavedFits(saved')
  PROVE  call' \in [Task -> Call] /\ CallsFit' /\ AlgoFits' /\ CountsFit'
<1>1. call \in [Task -> Call] /\ Trainer \in Task
  BY VllmAssumption DEF VllmIInv, VllmTypeOK
<1>2. call' \in [Task -> Call] /\ \A u \in Task : call'[u] = IF u = t THEN d ELSE call[u]
  BY <1>1
<1>3. CallsFit'
  BY <1>2 DEF VllmIInv, CallsFit
<1>4. OthersFit'
  BY <1>2 DEF VllmIInv, AlgoFits, OthersFit, IdleTask
<1>5. call'[Trainer] = IF t = Trainer THEN d ELSE call[Trainer]
  BY <1>1, <1>2
<1> QED BY <1>2, <1>3, <1>4, <1>5 DEF AlgoFits, CountsFit

\* The same where the channel is not concerned: t has nothing in it.
LEMMA QuietStep ==
  ASSUME VllmIInv, NEW t \in Task, NEW d \in Call, CallFits(d),
         call' = [call EXCEPT ![t] = d],
         t # Trainer => d.op \notin Training,
         algo'.pc # "off" => /\ d.op \in Exclusive => d.pc = "idle"
                             /\ \A u \in Task : call[u].op \in Exclusive => IdleTask(u),
         PhaseFits(algo', IF t = Trainer THEN d ELSE call[Trainer]),
         StepsFit(algo', IF t = Trainer THEN d ELSE call[Trainer], py),
         SavedFits(saved'), algo' \in Algo, saved' \in Saved,
         UNCHANGED <<engineVars, pyVars>>,
         NoneOpen(Line, t), d.pc \in {"send", "wait"} => d.sent = 0
  PROVE  VllmIInv'
<1>1. /\ channel' = channel /\ serving' = serving /\ thread' = thread /\ handle' = handle
      /\ resolved' = resolved /\ imported' = imported /\ mode' = mode /\ py' = py
  BY DEF engineVars, pyVars
<1>2. call' \in [Task -> Call] /\ CallsFit' /\ AlgoFits' /\ CountsFit'
  BY <1>1, CallerStep
<1>3. VllmTypeOK'
  BY <1>1, <1>2 DEF VllmIInv, VllmTypeOK, Algo, Saved
<1>4. Line' = Line
  BY <1>1 DEF Line
<1>5. MaxPrompts \in Nat
  BY VllmAssumption
<1>6. Agree(Line, [call EXCEPT ![t] = d])
  BY <1>5, CallIs, AgreeSet
<1>7. LineFits'
  BY <1>1, <1>4, <1>6 DEF VllmIInv, LineFits
<1> QED BY <1>2, <1>3, <1>7 DEF VllmIInv

\* The same, and the algorithm is not concerned.
LEMMA CalmStep ==
  ASSUME VllmIInv, NEW t \in Task, NEW d \in Call, CallFits(d),
         call' = [call EXCEPT ![t] = d], d.op \notin Training, t = Trainer => algo.pc = "off",
         algo.pc # "off" => (d.op \in Exclusive => d.pc = "idle"),
         UNCHANGED <<engineVars, pyVars, algoVars>>,
         NoneOpen(Line, t), d.pc \in {"send", "wait"} => d.sent = 0
  PROVE  VllmIInv'
<1>1. algo' = algo /\ saved' = saved
  BY DEF algoVars
<1>2. algo \in Algo /\ saved \in Saved /\ SavedFits(saved)
  BY DEF VllmIInv, VllmTypeOK, Algo, Saved, CountsFit
<1>3. algo.pc # "off" => \A u \in Task : call[u].op \in Exclusive => IdleTask(u)
  BY DEF VllmIInv, AlgoFits, OthersFit
<1>4. PhaseFits(algo, IF t = Trainer THEN d ELSE call[Trainer])
  BY DEF VllmIInv, AlgoFits, PhaseFits
<1>5. StepsFit(algo, IF t = Trainer THEN d ELSE call[Trainer], py)
  BY DEF VllmIInv, CountsFit, StepsFit
<1> QED BY <1>1, <1>2, <1>3, <1>4, <1>5, QuietStep

-----------------------------------------------------------------------------
(* The actions of the callers.                                             *)

LEMMA OwnStep ==
  ASSUME VllmIInv, NEW t \in Task, NEW op \in Exclusive, Own(t, op)
  PROVE  VllmIInv'
<1> DEFINE d == Fresh(op, 1)
<1>1. op \in Op /\ op # "Generate" /\ op \notin Training /\ 1 \in 1 .. MaxPrompts
  BY VllmAssumption DEF Op, Exclusive, Training
<1>2. d \in Call /\ CallFits(d) /\ d.pc = "send" /\ d.op = op /\ d.sent = 0
  BY <1>1, FreshIs
<1>3. /\ call' = [call EXCEPT ![t] = d] /\ algo.pc = "off" /\ call[t].pc = "idle"
      /\ UNCHANGED <<engineVars, pyVars, algoVars>>
  BY DEF Own, Begin, Fresh, MayBegin, SetCall, IdleTask
<1> HIDE DEF d
<1>4. NoneOpen(Line, t)
  BY <1>3, CallIs, NotCalling
<1> QED BY <1>1, <1>2, <1>3, <1>4, CalmStep

LEMMA GenerateStep ==
  ASSUME VllmIInv, NEW t \in Task, NEW n \in 1 .. MaxPrompts, VllmGenerate(t, n)
  PROVE  VllmIInv'
<1> DEFINE d == Fresh("Generate", n)
<1>1. "Generate" \in Op /\ "Generate" \notin Training /\ "Generate" \notin Exclusive
  BY DEF Op, Exclusive, Training
<1>2. d \in Call /\ CallFits(d) /\ d.pc = "send" /\ d.op = "Generate" /\ d.sent = 0
  BY <1>1, FreshIs
<1>3. /\ call' = [call EXCEPT ![t] = d] /\ t # Trainer /\ call[t].pc = "idle"
      /\ UNCHANGED <<engineVars, pyVars, algoVars>>
  BY DEF VllmGenerate, Begin, Fresh, MayBegin, SetCall, IdleTask
<1> HIDE DEF d
<1>4. NoneOpen(Line, t)
  BY <1>3, CallIs, NotCalling
<1> QED BY <1>1, <1>2, <1>3, <1>4, CalmStep

LEMMA ReturnStep ==
  ASSUME VllmIInv, NEW t \in Task, Return(t)
  PROVE  VllmIInv'
<1>1. /\ call' = [call EXCEPT ![t] = NoCall] /\ call[t].pc \in {"ok", "err"}
      /\ call[t].op \notin Training /\ UNCHANGED <<engineVars, pyVars, algoVars>>
  BY DEF Return, SetCall
<1>2. NoCall \in Call /\ CallFits(NoCall) /\ NoCall.pc = "idle" /\ NoCall.op = "Init"
  BY NoCallIs
<1>3. NoneOpen(Line, t)
  BY <1>1, CallIs, NotCalling
<1>4. t = Trainer => algo.pc = "off"
  BY <1>1, TrainerIs
<1>5. "Init" \notin Training
  BY DEF Training
<1> QED BY <1>1, <1>2, <1>3, <1>4, <1>5, CalmStep

\* t goes on in its call.
LEMMA ContinueStep ==
  ASSUME VllmIInv, NEW t \in Task, NEW d \in Call, CallFits(d),
         call' = [call EXCEPT ![t] = d], d.op = call[t].op, d.answers = call[t].answers,
         d.pc # "idle", call[t].pc # "idle", UNCHANGED <<algo, saved, py>>
  PROVE  call' \in [Task -> Call] /\ CallsFit' /\ AlgoFits' /\ CountsFit'
<1>1. t # Trainer => d.op \notin Training
  BY DEF VllmIInv, AlgoFits, OthersFit
<1>2. algo.pc # "off" => /\ d.op \in Exclusive => d.pc = "idle"
                         /\ \A u \in Task : call[u].op \in Exclusive => IdleTask(u)
  BY DEF VllmIInv, AlgoFits, OthersFit, IdleTask
<1>3. PhaseFits(algo, IF t = Trainer THEN d ELSE call[Trainer])
  BY DEF VllmIInv, AlgoFits, PhaseFits
<1>4. StepsFit(algo, IF t = Trainer THEN d ELSE call[Trainer], py)
  BY DEF VllmIInv, CountsFit, StepsFit
<1>5. SavedFits(saved)
  BY DEF VllmIInv, CountsFit
<1> QED BY <1>1, <1>2, <1>3, <1>4, <1>5, CallerStep

LEMMA SendClosedStep ==
  ASSUME VllmIInv, NEW t \in Task, SendClosed(t)
  PROVE  VllmIInv'
<1> DEFINE c == call[t]
           p == IF c.op = "Shutdown" THEN "ok" ELSE "err"
           d == [c EXCEPT !.pc = p]
<1>1. /\ call' = [call EXCEPT ![t] = d] /\ c.pc = "send" /\ ~thread
      /\ UNCHANGED <<engineVars, pyVars, algoVars>>
  BY DEF SendClosed, SetCall
<1>2. c \in Call /\ CallFits(c) /\ 1 \in 1 .. MaxPrompts /\ MaxPrompts \in Nat
  BY CallIs, VllmAssumption
<1>3. p \in {"ok", "err"} /\ (c.op \in Training => p = "err")
  BY DEF Training
<1> HIDE DEF c, p
<1>4. /\ d \in Call /\ d.pc = p /\ d.op = c.op /\ d.answers = c.answers /\ d.n = c.n
      /\ c.sent \in Nat /\ c.n \in Nat
  BY <1>2, <1>3 DEF Call
<1> HIDE DEF d
<1>5. c.op \in Training => c.sent = 0 /\ c.answers[1] = "none"
  BY <1>1, <1>2, <1>4 DEF CallFits, Training
<1>6. CallFits(d)
  BY <1>2, <1>3, <1>4, <1>5 DEF CallFits
<1>7. UNCHANGED <<algo, saved, py>>
  BY <1>1 DEF algoVars, pyVars
<1>8. call' \in [Task -> Call] /\ CallsFit' /\ AlgoFits' /\ CountsFit'
  BY <1>1, <1>3, <1>4, <1>6, <1>7, ContinueStep DEF c
<1>9. /\ channel' = channel /\ serving' = serving /\ thread' = thread /\ handle' = handle
      /\ resolved' = resolved /\ imported' = imported /\ mode' = mode
  BY <1>1 DEF engineVars, pyVars
<1>10. VllmTypeOK'
  BY <1>7, <1>8, <1>9 DEF VllmIInv, VllmTypeOK
<1>11. Line = <<>> /\ Line' = Line
  BY <1>1, <1>9 DEF VllmIInv, LineFits, Line
<1>12. NoneOpen(Line, t)
  BY <1>11 DEF NoneOpen
<1>13. Agree(Line, [call EXCEPT ![t] = d])
  BY <1>2, <1>3, <1>4, <1>12, CallIs, AgreeSet
<1>14. LineFits'
  BY <1>1, <1>11, <1>13 DEF LineFits
<1> QED BY <1>8, <1>10, <1>14 DEF VllmIInv

LEMMA SendStep ==
  ASSUME VllmIInv, NEW t \in Task, Send(t)
  PROVE  VllmIInv'
<1> DEFINE c == call[t]
           k == c.sent + 1
           o == c.op # "Shutdown"
           r == [op |-> c.op, task |-> t, i |-> k, open |-> o]
           p == IF k < c.n THEN "send" ELSE IF o THEN "wait" ELSE "ok"
           d == [c EXCEPT !.sent = k, !.pc = p]
<1>1. /\ call' = [call EXCEPT ![t] = d] /\ c.pc = "send" /\ thread
      /\ Len(channel) < Capacity /\ channel' = Append(channel, r)
      /\ UNCHANGED <<serving, thread, handle, resolved, pyVars, algoVars>>
  BY DEF Send, SetCall
<1>2. c \in Call /\ CallFits(c) /\ MaxPrompts \in Nat /\ Capacity \in Nat
  BY CallIs, VllmAssumption
<1> HIDE DEF c
<1>3. /\ c.sent \in Nat /\ c.n \in 1 .. MaxPrompts /\ c.sent < c.n /\ c.op \in Op
  BY <1>1, <1>2 DEF Call, CallFits
<1>4. k \in 1 .. MaxPrompts /\ k \in 0 .. MaxPrompts /\ k <= c.n
  BY <1>2, <1>3
<1>5. r \in Request /\ r.op = c.op /\ r.task = t /\ r.i = k /\ r.open = o
  BY <1>3, <1>4 DEF Request
<1>6. p \in {"send", "wait", "ok"}
  OBVIOUS
<1>7. /\ p = "send" => k < c.n
      /\ p = "wait" => k = c.n /\ o
      /\ p = "ok" => ~o
  BY <1>3, <1>4
<1> HIDE DEF p, r
<1>8. /\ d \in Call /\ d.pc = p /\ d.op = c.op /\ d.answers = c.answers /\ d.n = c.n
      /\ d.sent = k
  BY <1>2, <1>4, <1>6 DEF Call
<1> HIDE DEF d
<1>9. \A i \in 1 .. MaxPrompts : i > k => c.answers[i] = "none"
  BY <1>1, <1>2, <1>3 DEF CallFits
<1>10. o <=> c.op # "Shutdown"
  OBVIOUS
<1> HIDE DEF k, o
<1>11. CallFits(d)
  BY <1>2, <1>6, <1>7, <1>8, <1>9, <1>10 DEF CallFits, Training
<1>12. UNCHANGED <<algo, saved, py>>
  BY <1>1 DEF algoVars, pyVars
<1>13. call' \in [Task -> Call] /\ CallsFit' /\ AlgoFits' /\ CountsFit'
  BY <1>1, <1>6, <1>8, <1>11, <1>12, ContinueStep DEF c
<1>14. serving \in Seq(Request) /\ channel \in Seq(Request) /\ Len(channel) \in Nat
  BY DEF VllmIInv, VllmTypeOK
<1>15. channel' \in Seq(Request) /\ Len(channel') <= Capacity
  BY <1>1, <1>2, <1>5, <1>14
<1>16. VllmTypeOK'
  BY <1>1, <1>12, <1>13, <1>15 DEF VllmIInv, VllmTypeOK, pyVars
<1>17. Behind(Line', Line, r)
  BY <1>1, <1>5, <1>14, LineBehind DEF Line
<1>18. Agree(Line', call')
  <2>1. CASE o
    <3>1. p \in {"send", "wait"}
      BY <1>6, <1>7, <2>1
    <3>2. r.open /\ r.op # "Shutdown" /\ r.i = c.sent + 1
      BY <1>5, <1>10, <2>1 DEF k
    <3> QED BY <1>1, <1>2, <1>5, <1>8, <1>17, <3>1, <3>2, CallIs, AgreeAppendOpen DEF c
  <2>2. CASE ~o
    <3>1. ~r.open /\ r.op = "Shutdown" /\ c.op = "Shutdown"
      BY <1>5, <1>10, <2>2
    <3>2. NoneOpen(Line, t)
      BY <3>1, CallIs, NotCalling DEF c
    <3>3. Agree(Line', call) /\ NoneOpen(Line', t)
      BY <1>2, <1>5, <1>17, <3>1, <3>2, CallIs, AgreeAppendClosed
    <3>4. Line' \in Seq(Request)
      BY <1>1, <1>14, <1>15, LineOf DEF Line
    <3>5. d.pc \notin {"send", "wait"}
      <4>1. c.n = 1
        BY <1>2, <3>1 DEF CallFits
      <4>2. ~(k < c.n)
        BY <1>3, <4>1 DEF k
      <4> QED BY <1>6, <1>7, <1>8, <2>2, <4>2
    <3> QED BY <1>1, <1>2, <1>8, <3>3, <3>4, <3>5, CallIs, AgreeSet
  <2> QED BY <2>1, <2>2
<1>19. LineFits'
  BY <1>1, <1>18 DEF LineFits
<1> QED BY <1>13, <1>16, <1>19 DEF VllmIInv

\* t gives its requests up.
LEMMA CloseStep ==
  ASSUME VllmIInv, NEW t \in Task, NEW d \in Call, call' = [call EXCEPT ![t] = d],
         CloseAll(t), d.pc \notin {"send", "wait"},
         call[t].op = "Generate" \/ NoneOpen(Line, t),
         UNCHANGED <<thread, handle, pyVars, algoVars>>, resolved' \in BOOLEAN,
         call' \in [Task -> Call], CallsFit', AlgoFits', CountsFit'
  PROVE  VllmIInv'
<1>1. MaxPrompts \in Nat
  BY VllmAssumption
<1>2. serving \in Seq(Request) /\ channel \in Seq(Request)
  BY DEF VllmIInv, VllmTypeOK
<1>3. channel' = Close(channel, t) /\ serving' = Close(serving, t)
  BY DEF CloseAll
<1>4. /\ channel' \in Seq(Request) /\ serving' \in Seq(Request)
      /\ Len(channel') = Len(channel) /\ Len(serving') = Len(serving)
  BY <1>2, <1>3, CloseIs DEF GivenUp
<1>5. VllmTypeOK'
  BY <1>4 DEF VllmIInv, VllmTypeOK, pyVars, algoVars
<1>6. GivenUp(Line', Line, t)
  BY <1>2, <1>3, LineClosed DEF Line
<1>7. Agree(Line', call')
  BY <1>1, <1>6, CallIs, AgreeClose
<1>8. ~thread' => Line' = <<>>
  <2> HAVE ~thread'
  <2>1. Line = <<>>
    BY DEF VllmIInv, LineFits
  <2>2. Len(Line') = 0 /\ Line' \in Seq(Request)
    BY <1>4, <1>6, <2>1, LineOf DEF GivenUp, Line
  <2> QED BY <2>2
<1> QED BY <1>5, <1>7, <1>8 DEF VllmIInv, LineFits

LEMMA AwaitStep ==
  ASSUME VllmIInv, NEW t \in Task, Await(t)
  PROVE  VllmIInv'
<1> DEFINE c == call[t]
<1>1. PICK i \in 1 .. c.n :
        /\ \A j \in 1 .. i - 1 : c.answers[j] = "ok"
        /\ \/ c.answers[i] = "err" /\ SetCall(t, [c EXCEPT !.pc = "err"])
           \/ /\ i = c.n /\ c.answers[i] = "ok"
              /\ SetCall(t, [c EXCEPT !.pc = "ok"])
  BY DEF Await
<1>2. c \in Call /\ CallFits(c) /\ MaxPrompts \in Nat /\ c.pc = "wait" /\ c.n \in 1 .. MaxPrompts
  BY CallIs, VllmAssumption DEF Await, Call
<1> DEFINE p == c.answers[i]
           d == [c EXCEPT !.pc = p]
<1>3. p \in {"ok", "err"} /\ call' = [call EXCEPT ![t] = d]
  BY <1>1 DEF SetCall
<1>4. p = "ok" => i = c.n
  BY <1>1
<1> HIDE DEF c, p
<1>5. /\ d \in Call /\ d.pc = p /\ d.op = c.op /\ d.answers = c.answers /\ d.n = c.n
  BY <1>2, <1>3 DEF Call
<1> HIDE DEF d
<1>6. c.op # "Generate" => c.n = 1 /\ c.sent = 1 /\ i = 1
  BY <1>2 DEF CallFits
<1>7. c.op \in Training => c.answers[1] = p
  BY <1>6 DEF p, Training
<1>8. CallFits(d)
  BY <1>2, <1>3, <1>5, <1>7 DEF CallFits
<1>9. /\ UNCHANGED <<algo, saved, py>> /\ CloseAll(t)
      /\ UNCHANGED <<thread, handle, pyVars, algoVars>>
  BY DEF Await, algoVars, pyVars
<1>10. call' \in [Task -> Call] /\ CallsFit' /\ AlgoFits' /\ CountsFit'
  BY <1>2, <1>3, <1>5, <1>8, <1>9, ContinueStep DEF c
<1>11. c.op = "Generate" \/ NoneOpen(Line, t)
  <2> SUFFICES ASSUME c.op # "Generate", NEW k \in 1 .. Len(Line), Line[k].task = t, Line[k].open
               PROVE  FALSE
    BY DEF NoneOpen
  <2>1. RequestFits(Line[k], c)
    BY CallIs DEF Agree, c
  <2>2. Line[k].i \in Nat \ {0} /\ Line[k].i <= c.sent /\ c.answers[Line[k].i] = "none"
    BY <1>2, <2>1, CallIs, RequestsOf DEF RequestFits
  <2>3. Line[k].i = 1
    BY <1>6, <2>2
  <2> QED BY <1>3, <1>6, <2>2, <2>3 DEF p
<1>12. resolved' \in BOOLEAN
  BY DEF Await, VllmIInv, VllmTypeOK
<1> QED BY <1>3, <1>5, <1>9, <1>10, <1>11, <1>12, CloseStep DEF c

LEMMA AbortedStep ==
  ASSUME VllmIInv, NEW t \in Task, Aborted(t)
  PROVE  VllmIInv'
<1>1. /\ call[t].pc \in {"send", "wait"} /\ call[t].op = "Generate"
      /\ call' = [call EXCEPT ![t] = NoCall] /\ CloseAll(t)
      /\ UNCHANGED <<thread, handle, resolved, pyVars, algoVars>>
  BY DEF Aborted, SetCall
<1>2. NoCall \in Call /\ CallFits(NoCall) /\ NoCall.pc = "idle" /\ NoCall.op = "Init"
  BY NoCallIs
<1>3. "Init" \notin Training /\ "Generate" \notin Training
  BY DEF Training
<1>4. t = Trainer => algo.pc = "off"
  BY <1>1, <1>3, TrainerIs
<1>5. algo' = algo /\ saved' = saved /\ py' = py
  BY <1>1 DEF algoVars, pyVars
<1>6. algo.pc # "off" => \A u \in Task : call[u].op \in Exclusive => IdleTask(u)
  BY DEF VllmIInv, AlgoFits, OthersFit
<1>7. PhaseFits(algo, IF t = Trainer THEN NoCall ELSE call[Trainer])
  BY <1>2, <1>3, <1>4 DEF VllmIInv, AlgoFits, PhaseFits
<1>8. StepsFit(algo, IF t = Trainer THEN NoCall ELSE call[Trainer], py)
  BY <1>4 DEF VllmIInv, CountsFit, StepsFit
<1>9. SavedFits(saved)
  BY DEF VllmIInv, CountsFit
<1>10. call' \in [Task -> Call] /\ CallsFit' /\ AlgoFits' /\ CountsFit'
  BY <1>1, <1>2, <1>3, <1>5, <1>6, <1>7, <1>8, <1>9, CallerStep
<1>11. resolved' \in BOOLEAN
  BY <1>1 DEF VllmIInv, VllmTypeOK
<1> QED BY <1>1, <1>2, <1>10, <1>11, CloseStep

-----------------------------------------------------------------------------
(* The channel, the handle and the algorithm.                              *)

\* Nothing but the channel, the thread and the handle are concerned, and the
\* requests under way are still those the callers wait for.
LEMMA ChannelStep ==
  ASSUME VllmIInv, UNCHANGED <<call, resolved, pyVars, algoVars, thread>>,
         channel' \in Seq(Request), Len(channel') <= Capacity,
         serving' \in Seq(Request), Len(serving') <= 1,
         handle' \in {"held", "joining", "stuck", "dropped"},
         Agree(Line', call), ~thread => Line' = <<>>
  PROVE  VllmIInv'
<1>1. VllmTypeOK'
  BY DEF VllmIInv, VllmTypeOK, pyVars, algoVars
<1>2. CallsFit' /\ AlgoFits' /\ CountsFit'
  BY DEF VllmIInv, CallsFit, AlgoFits, OthersFit, CountsFit, IdleTask, pyVars, algoVars
<1> QED BY <1>1, <1>2 DEF VllmIInv, LineFits

LEMMA TakeStep ==
  ASSUME VllmIInv, Take
  PROVE  VllmIInv'
<1>1. /\ thread /\ serving = <<>> /\ channel # <<>> /\ serving' = <<Head(channel)>>
      /\ channel' = Tail(channel)
      /\ UNCHANGED <<thread, handle, resolved, call, pyVars, algoVars>>
  BY DEF Take
<1>2. /\ channel \in Seq(Request) /\ Len(channel) <= Capacity /\ Capacity \in Nat
      /\ handle \in {"held", "joining", "stuck", "dropped"} /\ Agree(Line, call)
  BY VllmAssumption DEF VllmIInv, VllmTypeOK, LineFits
<1>3. /\ Line' = Line /\ channel' \in Seq(Request) /\ Len(channel') = Len(channel) - 1
      /\ serving' \in Seq(Request) /\ Len(serving') = 1
  BY <1>1, <1>2, LineTaken DEF Line
<1>4. Len(channel') <= Capacity /\ Len(serving') <= 1
  BY <1>2, <1>3
<1> QED BY <1>1, <1>2, <1>3, <1>4, ChannelStep

LEMMA DropEngineStep ==
  ASSUME VllmIInv, DropEngine
  PROVE  VllmIInv'
<1> DEFINE r == [op |-> "Shutdown", task |-> Trainer, i |-> 1, open |-> FALSE]
<1>1. /\ UNCHANGED <<call, resolved, pyVars, algoVars, thread, serving>>
      /\ handle' \in {"held", "joining", "stuck", "dropped"}
      /\ \/ channel' = channel
         \/ thread /\ Len(channel) # Capacity /\ channel' = Append(channel, r)
  BY DEF DropEngine
<1>2. /\ channel \in Seq(Request) /\ Len(channel) <= Capacity /\ Capacity \in Nat
      /\ serving \in Seq(Request) /\ Len(serving) <= 1 /\ Agree(Line, call)
      /\ Len(channel) \in Nat /\ MaxPrompts \in Nat /\ call \in [Task -> Call]
      /\ (~thread => Line = <<>>)
  BY VllmAssumption DEF VllmIInv, VllmTypeOK, LineFits
<1>3. CASE channel' = channel
  <2>1. Line' = Line
    BY <1>1, <1>3 DEF Line
  <2> QED BY <1>1, <1>2, <1>3, <2>1, ChannelStep
<1>4. CASE thread /\ Len(channel) # Capacity /\ channel' = Append(channel, r)
  <2>1. r \in Request /\ r.open = FALSE /\ r.op = "Shutdown"
    BY VllmAssumption DEF Request, Op, Exclusive
  <2> HIDE DEF r
  <2>2. channel' \in Seq(Request) /\ Len(channel') <= Capacity
    BY <1>2, <1>4, <2>1
  <2>3. Behind(Line', Line, r)
    BY <1>1, <1>2, <1>4, <2>1, LineBehind DEF Line
  <2>4. Line \in Seq(Request)
    BY <1>2, LineOf DEF Line
  <2>5. Agree(Line', call)
    BY <1>2, <2>1, <2>3, <2>4, AgreeAppendClosed
  <2> QED BY <1>1, <1>2, <1>4, <2>2, <2>5, ChannelStep
<1> QED BY <1>1, <1>3, <1>4

LEMMA JoinStep ==
  ASSUME VllmIInv, Join
  PROVE  VllmIInv'
<1>1. /\ UNCHANGED <<call, resolved, pyVars, algoVars, thread, serving, channel>>
      /\ handle' \in {"held", "joining", "stuck", "dropped"}
  BY DEF Join
<1>2. /\ channel \in Seq(Request) /\ Len(channel) <= Capacity
      /\ serving \in Seq(Request) /\ Len(serving) <= 1 /\ Agree(Line, call)
      /\ (~thread => Line = <<>>)
  BY DEF VllmIInv, VllmTypeOK, LineFits
<1>3. Line' = Line
  BY <1>1 DEF Line
<1> QED BY <1>1, <1>2, <1>3, ChannelStep

\* A step of the algorithm without a call.
LEMMA AloneStep ==
  ASSUME VllmIInv, algo' \in Algo, UNCHANGED <<engineVars, call, pyVars, saved>>,
         PhaseFits(algo', call[Trainer]), StepsFit(algo', call[Trainer], py),
         algo'.pc # "off" => \A u \in Task : call[u].op \in Exclusive => IdleTask(u)
  PROVE  VllmIInv'
<1>1. VllmTypeOK'
  BY DEF VllmIInv, VllmTypeOK, Algo, engineVars, pyVars
<1>2. CallsFit' /\ AlgoFits' /\ CountsFit'
  BY DEF VllmIInv, CallsFit, AlgoFits, OthersFit, CountsFit, IdleTask, pyVars
<1>3. LineFits'
  BY DEF VllmIInv, LineFits, Line, engineVars
<1> QED BY <1>1, <1>2, <1>3 DEF VllmIInv

LEMMA RunStep ==
  ASSUME VllmIInv, NEW k \in Resumes, Run(k)
  PROVE  VllmIInv'
<1> DEFINE a == [Resumed(k) EXCEPT !.pc = "loop"]
<1>1. /\ algo.pc = "off" /\ call[Trainer].pc = "idle" /\ algo' = a
      /\ \A t \in Task : call[t].op \in Exclusive => IdleTask(t)
      /\ UNCHANGED <<engineVars, call, pyVars, saved>>
  BY DEF Run, IdleTask
<1>2. a \in Algo /\ a.pc = "loop" /\ a.from = k /\ a.step = k /\ k \in Nat
  BY VllmAssumption DEF Algo, Resumed, NoAlgo
<1> HIDE DEF a
<1>3. PhaseFits(a, call[Trainer])
  BY <1>1, <1>2 DEF PhaseFits
<1>4. py.step = 0 /\ py.weights = 0
  BY <1>1 DEF VllmIInv, CountsFit, StepsFit
<1>5. StepsFit(a, call[Trainer], py)
  BY <1>2, <1>4 DEF StepsFit
<1> QED BY <1>1, <1>2, <1>3, <1>5, AloneStep

\* The algorithm with another place in its program.
LEMMA AlgoAt ==
  ASSUME NEW a \in Algo, NEW p \in {"off", "loop", "forward", "optimizer", "over", "saving"}
  PROVE  LET b == [a EXCEPT !.pc = p] IN
         b \in Algo /\ b.pc = p /\ b.from = a.from /\ b.step = a.step /\ b.failed = a.failed
  BY DEF Algo

\* What the invariant says of the algorithm and its counters.
LEMMA AlgoIs ==
  ASSUME VllmIInv
  PROVE  /\ algo \in Algo /\ algo.from \in Nat /\ algo.step \in Nat /\ algo.left \in Nat
         /\ saved \in Saved /\ SavedFits(saved)
         /\ py.step \in Nat /\ py.grad \in Nat /\ py.weights \in Nat /\ py.disk \in Nat
         /\ PhaseFits(algo, call[Trainer]) /\ StepsFit(algo, call[Trainer], py)
         /\ algo.pc # "off" => \A u \in Task : call[u].op \in Exclusive => IdleTask(u)
  BY DEF VllmIInv, VllmTypeOK, Algo, Saved, AlgoFits, OthersFit, CountsFit

LEMMA EndsStep ==
  ASSUME VllmIInv, Ends
  PROVE  VllmIInv'
<1> DEFINE a == [algo EXCEPT !.pc = "over"]
<1>1. algo.pc = "loop" /\ algo' = a /\ UNCHANGED <<engineVars, call, pyVars, saved>>
  BY DEF Ends
<1>2. a \in Algo /\ a.pc = "over" /\ a.from = algo.from /\ a.step = algo.step
      /\ a.failed = algo.failed
  BY AlgoIs, AlgoAt
<1> HIDE DEF a
<1>3. PhaseFits(a, call[Trainer]) /\ StepsFit(a, call[Trainer], py)
  BY <1>1, <1>2, AlgoIs DEF PhaseFits, StepsFit
<1> QED BY <1>1, <1>2, <1>3, AlgoIs, AloneStep

\* A step of the algorithm that puts the trainer into the call d.
LEMMA TrainerStep ==
  ASSUME VllmIInv, NEW d \in Call, CallFits(d), NEW a \in Algo, NEW v \in Saved,
         call' = [call EXCEPT ![Trainer] = d], algo' = a, saved' = v,
         d.pc \in {"send", "wait"} => d.sent = 0, d.op \in Exclusive => d.pc = "idle",
         call[Trainer].pc \notin {"send", "wait"}, algo.pc # "off",
         UNCHANGED <<engineVars, pyVars>>,
         PhaseFits(a, d), StepsFit(a, d, py), SavedFits(v)
  PROVE  VllmIInv'
<1>1. Trainer \in Task
  BY VllmAssumption
<1>2. NoneOpen(Line, Trainer)
  BY <1>1, CallIs, NotCalling
<1> QED BY <1>1, <1>2, AlgoIs, QuietStep

LEMMA StepForwardStep ==
  ASSUME VllmIInv, StepForward
  PROVE  VllmIInv'
<1> DEFINE d == Fresh("Forward", 1)
           l == algo.left - 1
           a == [algo EXCEPT !.pc = "forward", !.left = l]
<1>1. /\ algo.pc = "loop" /\ algo.left > 0 /\ call[Trainer].pc = "idle" /\ algo' = a
      /\ call' = [call EXCEPT ![Trainer] = d] /\ saved' = saved
      /\ UNCHANGED <<engineVars, pyVars>>
  BY DEF StepForward, Begin, MayBegin, SetCall, IdleTask, Fresh
<1>2. "Forward" \in Op /\ "Forward" \notin Exclusive /\ 1 \in 1 .. MaxPrompts
  BY VllmAssumption DEF Op, Training, Exclusive
<1>3. /\ d \in Call /\ CallFits(d) /\ d.pc = "send" /\ d.op = "Forward" /\ d.sent = 0
      /\ d.answers[1] = "none"
  BY <1>2, FreshIs
<1>4. l \in Nat /\ algo \in Algo
  BY <1>1, AlgoIs
<1> HIDE DEF d, l
<1>5. a \in Algo /\ a.pc = "forward" /\ a.from = algo.from /\ a.step = algo.step
  BY <1>4 DEF Algo
<1> HIDE DEF a
<1>6. PhaseFits(a, d) /\ StepsFit(a, d, py)
  BY <1>1, <1>3, <1>5, AlgoIs DEF PhaseFits, StepsFit
<1> QED BY <1>1, <1>2, <1>3, <1>5, <1>6, AlgoIs, TrainerStep

LEMMA StepOptimizerStep ==
  ASSUME VllmIInv, StepOptimizer
  PROVE  VllmIInv'
<1> DEFINE d == FreshOne("Optimizer")
           a == [algo EXCEPT !.pc = "optimizer"]
<1>1. /\ algo.pc = "forward" /\ call[Trainer].op = "Forward" /\ call[Trainer].pc = "ok"
      /\ algo' = a /\ call' = [call EXCEPT ![Trainer] = d] /\ saved' = saved
      /\ UNCHANGED <<engineVars, pyVars>>
  BY DEF StepOptimizer, Result, SetCall, FreshOne
<1>2. "Optimizer" \in Op /\ "Optimizer" \notin Exclusive /\ Trainer \in Task
  BY VllmAssumption DEF Op, Training, Exclusive
<1>3. /\ d \in Call /\ CallFits(d) /\ d.pc = "send" /\ d.op = "Optimizer" /\ d.sent = 0
      /\ d.answers[1] = "none"
  BY <1>2, FreshOneIs
<1>4. a \in Algo /\ a.pc = "optimizer" /\ a.from = algo.from /\ a.step = algo.step
  BY AlgoIs, AlgoAt
<1>5. call[Trainer].answers[1] = "ok"
  BY <1>1, <1>2, CallIs DEF CallFits, Training
<1> HIDE DEF d, a
<1>6. PhaseFits(a, d) /\ StepsFit(a, d, py)
  BY <1>1, <1>3, <1>4, <1>5, AlgoIs DEF PhaseFits, StepsFit
<1> QED BY <1>1, <1>2, <1>3, <1>4, <1>6, AlgoIs, TrainerStep

LEMMA StepDoneStep ==
  ASSUME VllmIInv, StepDone
  PROVE  VllmIInv'
<1> DEFINE n == algo.step + 1
           a == [algo EXCEPT !.pc = "loop", !.step = n]
<1>1. /\ algo.pc = "optimizer" /\ call[Trainer].op = "Optimizer" /\ call[Trainer].pc = "ok"
      /\ algo' = a /\ call' = [call EXCEPT ![Trainer] = NoCall] /\ saved' = saved
      /\ UNCHANGED <<engineVars, pyVars>>
  BY DEF StepDone, Result, SetCall
<1>2. NoCall \in Call /\ CallFits(NoCall) /\ NoCall.pc = "idle"
  BY NoCallIs
<1>3. n \in Nat /\ algo \in Algo /\ n = algo.step + 1 /\ Trainer \in Task
  BY AlgoIs, VllmAssumption
<1> HIDE DEF n
<1>4. a \in Algo /\ a.pc = "loop" /\ a.from = algo.from /\ a.step = n
  BY <1>3 DEF Algo
<1>5. call[Trainer].answers[1] = "ok"
  BY <1>1, <1>3, CallIs DEF CallFits, Training
<1> HIDE DEF a
<1>6. PhaseFits(a, NoCall) /\ StepsFit(a, NoCall, py)
  BY <1>1, <1>2, <1>3, <1>4, <1>5, AlgoIs DEF PhaseFits, StepsFit
<1> QED BY <1>1, <1>2, <1>4, <1>6, AlgoIs, TrainerStep

LEMMA StepErrorStep ==
  ASSUME VllmIInv, StepError
  PROVE  VllmIInv'
<1> DEFINE f == (algo.pc = "optimizer")
           a == [algo EXCEPT !.pc = "over", !.failed = f]
<1>1. /\ algo.pc \in {"forward", "optimizer"} /\ call[Trainer].pc = "err"
      /\ algo' = a /\ call' = [call EXCEPT ![Trainer] = NoCall] /\ saved' = saved
      /\ UNCHANGED <<engineVars, pyVars>>
  BY DEF StepError, SetCall
<1>2. NoCall \in Call /\ CallFits(NoCall) /\ NoCall.pc = "idle" /\ Trainer \in Task
  BY NoCallIs, VllmAssumption
<1>3. f \in BOOLEAN /\ (f <=> algo.pc = "optimizer") /\ algo \in Algo
  BY AlgoIs
<1>4. call[Trainer].op \in Training
  BY <1>1, AlgoIs DEF PhaseFits, Training
<1>5. call[Trainer].answers[1] # "ok"
  BY <1>1, <1>2, <1>4, CallIs DEF CallFits
<1> HIDE DEF f
<1>6. a \in Algo /\ a.pc = "over" /\ a.from = algo.from /\ a.step = algo.step /\ a.failed = f
  BY <1>3 DEF Algo
<1> HIDE DEF a
<1>7. PhaseFits(a, NoCall)
  BY <1>2, <1>6 DEF PhaseFits
<1>8. StepsFit(a, NoCall, py)
  BY <1>1, <1>3, <1>5, <1>6, AlgoIs DEF StepsFit
<1> QED BY <1>1, <1>2, <1>6, <1>7, <1>8, AlgoIs, TrainerStep

LEMMA SnapshotSaveStep ==
  ASSUME VllmIInv, SnapshotSave
  PROVE  VllmIInv'
<1> DEFINE d == Fresh("Save", 1)
           a == [algo EXCEPT !.pc = "saving"]
<1>1. /\ algo.pc = "over" /\ call[Trainer].pc = "idle" /\ algo' = a
      /\ call' = [call EXCEPT ![Trainer] = d] /\ saved' = saved
      /\ UNCHANGED <<engineVars, pyVars>>
  BY DEF SnapshotSave, Begin, MayBegin, SetCall, IdleTask, Fresh
<1>2. "Save" \in Op /\ "Save" \notin Exclusive /\ 1 \in 1 .. MaxPrompts
  BY VllmAssumption DEF Op, Training, Exclusive
<1>3. /\ d \in Call /\ CallFits(d) /\ d.pc = "send" /\ d.op = "Save" /\ d.sent = 0
      /\ d.answers[1] = "none"
  BY <1>2, FreshIs
<1>4. a \in Algo /\ a.pc = "saving" /\ a.from = algo.from /\ a.step = algo.step
      /\ a.failed = algo.failed
  BY AlgoIs, AlgoAt
<1> HIDE DEF d, a
<1>5. PhaseFits(a, d) /\ StepsFit(a, d, py)
  BY <1>1, <1>3, <1>4, AlgoIs DEF PhaseFits, StepsFit
<1> QED BY <1>1, <1>2, <1>3, <1>4, <1>5, AlgoIs, TrainerStep

\* The snapshot's counter and weights are those of the algorithm.
LEMMA SnapshotDoneStep ==
  ASSUME VllmIInv, SnapshotDone
  PROVE  VllmIInv'
<1> DEFINE a == [algo EXCEPT !.pc = "over"]
           v == IF Result("Save") = "ok"
                THEN [from |-> algo.from, step |-> algo.step, weights |-> py.disk,
                      failed |-> algo.failed]
                ELSE saved
<1>1. /\ algo.pc = "saving" /\ call[Trainer].op = "Save" /\ call[Trainer].pc \in {"ok", "err"}
      /\ algo' = a /\ call' = [call EXCEPT ![Trainer] = NoCall] /\ saved' = v
      /\ UNCHANGED <<engineVars, pyVars>>
  BY DEF SnapshotDone, Result, SetCall
<1>2. NoCall \in Call /\ CallFits(NoCall) /\ NoCall.pc = "idle" /\ Trainer \in Task
  BY NoCallIs, VllmAssumption
<1>3. a \in Algo /\ a.pc = "over" /\ a.from = algo.from /\ a.step = algo.step
      /\ a.failed = algo.failed
  BY AlgoIs, AlgoAt
<1>4. v \in Saved /\ SavedFits(v)
  <2>1. CASE Result("Save") # "ok"
    BY <2>1, AlgoIs
  <2>2. CASE Result("Save") = "ok"
    <3>1. call[Trainer].answers[1] = "ok"
      BY <1>1, <1>2, <2>2, CallIs DEF CallFits, Training, Result
    <3>2. /\ py.disk = py.weights /\ py.step + algo.from = algo.step
          /\ py.weights = py.step \/ (algo.failed /\ py.weights = py.step + 1)
      BY <1>1, <3>1, AlgoIs DEF StepsFit
    <3>3. v = [from |-> algo.from, step |-> algo.step, weights |-> py.disk,
               failed |-> algo.failed]
      BY <2>2
    <3>4. algo.failed \in BOOLEAN
      BY AlgoIs DEF Algo
    <3>5. v \in Saved /\ v.from = algo.from /\ v.step = algo.step /\ v.weights = py.disk
          /\ v.failed = algo.failed
      BY <3>3, <3>4, AlgoIs DEF Saved
    <3> HIDE DEF v
    <3>6. SavedFits(v)
      BY <3>2, <3>5, AlgoIs DEF SavedFits
    <3> QED BY <3>5, <3>6
  <2> QED BY <2>1, <2>2
<1> HIDE DEF a, v
<1>5. PhaseFits(a, NoCall) /\ StepsFit(a, NoCall, py)
  BY <1>1, <1>2, <1>3, AlgoIs DEF PhaseFits, StepsFit
<1> QED BY <1>1, <1>2, <1>3, <1>4, <1>5, AlgoIs, TrainerStep

-----------------------------------------------------------------------------
(* The Python thread.                                                      *)

\* Answers that come in, each where it was expected.
LEMMA AnswersStep ==
  ASSUME VllmIInv, NEW e \in [Task -> Call], call' = e,
         \A u \in Task :
           /\ e[u].pc = call[u].pc /\ e[u].op = call[u].op /\ e[u].n = call[u].n
           /\ e[u].sent = call[u].sent
           /\ \A i \in 1 .. MaxPrompts :
                e[u].answers[i] # call[u].answers[i] =>
                  call[u].pc \in {"send", "wait"} /\ i <= call[u].sent,
         UNCHANGED <<algo, saved>>, StepsFit(algo, e[Trainer], py')
  PROVE  CallsFit' /\ AlgoFits' /\ CountsFit'
<1>1. Trainer \in Task /\ MaxPrompts \in Nat /\ 1 \in 1 .. MaxPrompts
  BY VllmAssumption
<1>2. ASSUME NEW u \in Task
      PROVE  CallFits(e[u])
  <2>1. CallFits(call[u]) /\ call[u] \in Call
    BY CallIs
  <2>2. call[u].sent \in Nat
    BY <1>1, <2>1 DEF Call
  <2> QED BY <1>1, <2>1, <2>2 DEF CallFits
<1>3. OthersFit' /\ PhaseFits(algo, e[Trainer])
  BY <1>1 DEF VllmIInv, AlgoFits, OthersFit, PhaseFits, IdleTask
<1> QED BY <1>2, <1>3 DEF VllmIInv, CallsFit, AlgoFits, CountsFit

LEMMA StopStep ==
  ASSUME VllmIInv, Stop
  PROVE  VllmIInv'
<1> DEFINE y == [py EXCEPT !.engine = FALSE]
<1>1. /\ serving = <<>> /\ py' = y /\ thread' = FALSE /\ call' = Dropped /\ channel' = <<>>
      /\ UNCHANGED <<serving, handle, resolved, imported, mode, algoVars>>
  BY DEF Stop
<1>2. VllmTypeOK /\ MaxPrompts \in Nat /\ Trainer \in Task /\ 1 \in 1 .. MaxPrompts
  BY VllmAssumption DEF VllmIInv
<1>3. py \in Py
  BY <1>2 DEF VllmTypeOK, Py
<1>4. y \in Py /\ y.step = py.step /\ y.grad = py.grad /\ y.weights = py.weights /\ y.disk = py.disk
  BY <1>3 DEF Py
<1> HIDE DEF y
<1>5. Line = channel /\ Line' = <<>>
  BY <1>1, <1>2 DEF Line, VllmTypeOK
<1>6. Agree(channel, call)
  BY <1>5 DEF VllmIInv, LineFits
<1>7. Agree(<<>>, Dropped)
  BY <1>2, <1>6, AgreeDropped
<1>8. /\ Dropped \in [Task -> Call]
      /\ \A u \in Task :
           /\ Dropped[u].pc = call[u].pc /\ Dropped[u].op = call[u].op
           /\ Dropped[u].n = call[u].n /\ Dropped[u].sent = call[u].sent
           /\ \A i \in 1 .. MaxPrompts :
                Dropped[u].answers[i] =
                  IF \E k \in 1 .. Len(channel) : Matches(channel[k], u, i)
                  THEN "err" ELSE call[u].answers[i]
  BY <1>2, DroppedIs
<1>9. ASSUME NEW u \in Task, NEW i \in 1 .. MaxPrompts, NEW k \in 1 .. Len(channel),
             Matches(channel[k], u, i)
      PROVE  call[u].pc \in {"send", "wait"} /\ i <= call[u].sent /\ call[u].answers[i] = "none"
  BY <1>6, <1>9 DEF Agree, RequestFits, Matches
<1>10. \A u \in Task, i \in 1 .. MaxPrompts :
         Dropped[u].answers[i] # call[u].answers[i] =>
           call[u].pc \in {"send", "wait"} /\ i <= call[u].sent
  <2> TAKE u \in Task, i \in 1 .. MaxPrompts
  <2> HAVE Dropped[u].answers[i] # call[u].answers[i]
  <2>1. PICK k \in 1 .. Len(channel) : Matches(channel[k], u, i)
    BY <1>8
  <2> QED BY <1>9, <2>1
<1>11. \/ Dropped[Trainer].answers[1] = call[Trainer].answers[1]
       \/ Dropped[Trainer].answers[1] = "err" /\ call[Trainer].answers[1] = "none"
  BY <1>2, <1>8, <1>9
<1>12. StepsFit(algo, Dropped[Trainer], y)
  BY <1>4, <1>11, AlgoIs DEF StepsFit
<1>13. CallsFit' /\ AlgoFits' /\ CountsFit'
  BY <1>1, <1>8, <1>10, <1>12, AnswersStep DEF algoVars
<1>14. channel' \in Seq(Request) /\ Len(channel') <= Capacity
  BY <1>1, VllmAssumption
<1>15. algo' = algo /\ saved' = saved /\ serving' = serving /\ handle' = handle
       /\ resolved' = resolved /\ imported' = imported /\ mode' = mode
  BY <1>1 DEF algoVars
<1>16. py' \in Py /\ call' \in [Task -> Call] /\ thread' \in BOOLEAN
  BY <1>1, <1>4, <1>8
<1>17. VllmTypeOK'
  BY <1>2, <1>14, <1>15, <1>16 DEF VllmTypeOK, Py
<1> QED BY <1>1, <1>5, <1>7, <1>13, <1>17 DEF VllmIInv, LineFits

\* The thread has one request in hand at most.
LEMMA OneInHand ==
  ASSUME VllmIInv, serving # <<>>
  PROVE  serving \in Seq(Request) /\ Len(serving) = 1
<1>1. serving \in Seq(Request) /\ Len(serving) <= 1
  BY DEF VllmIInv, VllmTypeOK
<1>2. Len(serving) \in Nat \ {0}
  BY <1>1
<1>3. Len(serving) = 1
  BY ONLY <1>1, <1>2
<1> QED BY <1>1, <1>3

\* What the request in hand says of its caller and of the algorithm.
LEMMA InHand ==
  ASSUME VllmIInv, serving # <<>>
  PROVE  LET r == serving[1]
             c == call[r.task] IN
         /\ r \in Request /\ r.task \in Task /\ r.i \in 1 .. MaxPrompts
         /\ r.open => /\ c.pc \in {"send", "wait"} /\ c.op = r.op
                      /\ r.i <= c.sent /\ c.answers[r.i] = "none"
         /\ r.open /\ r.task = Trainer /\ r.op \notin Training => algo.pc = "off"
         /\ r.op = "TrainOff" => algo.pc = "off"
         /\ r.op \in Training =>
              /\ r.open /\ r.task = Trainer /\ r.i = 1
              /\ call[Trainer].answers[1] = "none"
              /\ r.op = "Forward" => algo.pc = "forward"
              /\ r.op = "Optimizer" => algo.pc = "optimizer"
              /\ r.op = "Save" => algo.pc = "saving"
<1> DEFINE r == serving[1]
           c == call[r.task]
<1>1. /\ serving \in Seq(Request) /\ Len(serving) = 1 /\ channel \in Seq(Request)
      /\ MaxPrompts \in Nat /\ Trainer \in Task
  BY OneInHand, VllmAssumption DEF VllmIInv, VllmTypeOK
<1>2. r \in Request /\ Line[1] = r /\ Line # <<>>
  BY <1>1, LineServed DEF Line
<1>3. r.task \in Task /\ r.i \in 1 .. MaxPrompts
  BY <1>2 DEF Request
<1>4. RequestFits(r, c)
  <2>1. Line \in Seq(Request) /\ Agree(Line, call)
    BY <1>1, CallIs
  <2>2. 1 \in 1 .. Len(Line)
    BY <1>2, <2>1
  <2> QED BY <1>2, <2>1, <2>2 DEF Agree
<1> HIDE DEF r
<1>5. CallFits(c) /\ c \in Call
  BY <1>3, CallIs
<1>6. r.open /\ r.task = Trainer /\ r.op \notin Training => algo.pc = "off"
  BY <1>4, TrainerIs DEF RequestFits
<1>7. r.op = "TrainOff" => algo.pc = "off"
  BY <1>3, <1>4 DEF RequestFits, VllmIInv, AlgoFits, OthersFit, IdleTask, Exclusive
<1>8. ASSUME r.op \in Training
      PROVE  r.open /\ r.task = Trainer /\ r.i = 1 /\ call[Trainer].answers[1] = "none"
  <2>1. r.open /\ c.pc \in {"send", "wait"} /\ c.op = r.op
    BY <1>4, <1>8 DEF RequestFits, Training
  <2>2. r.task = Trainer
    BY <1>3, <1>8, <2>1 DEF VllmIInv, AlgoFits, OthersFit
  <2>3. c.n = 1 /\ c.sent \in Nat /\ c.sent <= 1
    BY <1>1, <1>5, <1>8, <2>1 DEF CallFits, Call, Training
  <2>4. r.i = 1
    BY <1>1, <1>3, <1>4, <2>1, <2>3 DEF RequestFits
  <2> QED BY <1>4, <2>1, <2>2, <2>4 DEF RequestFits
<1>9. r.op \in Training =>
        /\ r.op = "Forward" => algo.pc = "forward"
        /\ r.op = "Optimizer" => algo.pc = "optimizer"
        /\ r.op = "Save" => algo.pc = "saving"
  <2> HAVE r.op \in Training
  <2>1. call[Trainer].op = r.op /\ call[Trainer].pc \in {"send", "wait"}
    BY <1>4, <1>8 DEF RequestFits
  <2>2. algo.pc \in {"off", "loop", "forward", "optimizer", "over", "saving"}
    BY DEF VllmIInv, VllmTypeOK
  <2> QED BY <2>1, <2>2, AlgoIs DEF PhaseFits, Training
<1> QED BY <1>2, <1>3, <1>4, <1>6, <1>7, <1>8, <1>9 DEF r, RequestFits

\* The counters fit when the request in hand is answered with result, which
\* leaves Python as y.
FirstAnswer(result) ==
  IF serving[1].open /\ serving[1].task = Trainer /\ serving[1].i = 1
  THEN result ELSE call[Trainer].answers[1]
KeepsSteps(result, y) ==
  \A c : c.answers[1] = FirstAnswer(result) => StepsFit(algo, c, y)

\* One request is served with this result, after which Python is y.
LEMMA ServedStep ==
  ASSUME VllmIInv, serving # <<>>, NEW result \in {"ok", "err"}, NEW y \in Py,
         Answer(serving[1], result), serving' = <<>>, py' = y,
         imported' \in {"no", "yes", "failed"}, mode' \in {"None", "Training"},
         UNCHANGED <<channel, thread, handle, resolved, algoVars>>,
         KeepsSteps(result, y)
  PROVE  VllmIInv'
<1> DEFINE r == serving[1]
           e == Answered(call, r, result)
<1>1. /\ serving \in Seq(Request) /\ Len(serving) = 1 /\ channel \in Seq(Request)
      /\ MaxPrompts \in Nat /\ Trainer \in Task /\ 1 \in 1 .. MaxPrompts
      /\ call \in [Task -> Call]
  BY OneInHand, VllmAssumption DEF VllmIInv, VllmTypeOK
<1>2. r \in Request /\ Line[1] = r /\ Line # <<>> /\ Rest(<<>> \o channel, Line)
  BY <1>1, LineServed DEF Line
<1>3. Rest(Line', Line)
  BY <1>2 DEF Line
<1>4. call' = e
  BY DEF Answer, Answered
<1>5. /\ e \in [Task -> Call]
      /\ \A u \in Task : /\ e[u].pc = call[u].pc /\ e[u].op = call[u].op /\ e[u].n = call[u].n
                         /\ e[u].sent = call[u].sent
                         /\ \A i \in 1 .. MaxPrompts :
                              e[u].answers[i] = IF r.open /\ u = r.task /\ i = r.i
                                                THEN result ELSE call[u].answers[i]
  BY <1>1, <1>2, AnsweredIs
<1>6. Agree(Line', e)
  BY <1>1, <1>2, <1>3, CallIs, AgreeTail
<1> HIDE DEF e
<1>7. \A u \in Task : \A i \in 1 .. MaxPrompts :
        e[u].answers[i] # call[u].answers[i] =>
          call[u].pc \in {"send", "wait"} /\ i <= call[u].sent
  <2>1. r.open => call[r.task].pc \in {"send", "wait"} /\ r.i <= call[r.task].sent
    BY InHand
  <2> QED BY <1>5, <2>1
<1>8. e[Trainer].answers[1] = IF r.open /\ r.task = Trainer /\ r.i = 1
                              THEN result ELSE call[Trainer].answers[1]
  BY <1>1, <1>5
<1>9. StepsFit(algo, e[Trainer], y)
  BY <1>8 DEF KeepsSteps, FirstAnswer
<1>10. CallsFit' /\ AlgoFits' /\ CountsFit'
  BY <1>4, <1>5, <1>7, <1>9, AnswersStep DEF algoVars
<1>11. serving' \in Seq(Request) /\ Len(serving') <= 1
  OBVIOUS
<1>12. VllmTypeOK'
  BY <1>4, <1>5, <1>11 DEF VllmIInv, VllmTypeOK, Py, algoVars
<1>13. ~thread' => Line' = <<>>
  BY <1>2 DEF VllmIInv, LineFits
<1> QED BY <1>4, <1>6, <1>10, <1>12, <1>13 DEF VllmIInv, LineFits

\* A request that is not a training one cannot upset the counts: an algorithm
\* is not in a call of that kind.
LEMMA KeepsPlain ==
  ASSUME VllmIInv, serving # <<>>, serving[1].op \notin Training, NEW result, NEW y,
         \/ y.step = py.step /\ y.grad = py.grad /\ y.weights = py.weights /\ y.disk = py.disk
         \/ serving[1].op = "TrainOff" /\ y.step = 0 /\ y.weights = 0
  PROVE  KeepsSteps(result, y)
<1>1. serving[1].open /\ serving[1].task = Trainer => algo.pc = "off"
  BY InHand
<1>2. serving[1].op = "TrainOff" => algo.pc = "off"
  BY InHand
<1>3. CASE algo.pc = "off"
  BY <1>3, AlgoIs DEF KeepsSteps, StepsFit
<1>4. CASE algo.pc # "off"
  <2>1. FirstAnswer(result) = call[Trainer].answers[1]
    BY <1>1, <1>4 DEF FirstAnswer
  <2> QED BY <1>2, <1>4, <2>1, AlgoIs DEF KeepsSteps, StepsFit
<1> QED BY <1>3, <1>4

\* A training request that fails changes no counter, but the weights when it
\* is an optimizer step, and one that is carried out changes what its phase
\* accounts for.
LEMMA KeepsTraining ==
  ASSUME VllmIInv, serving # <<>>, serving[1].op \in Training,
         NEW result \in {"ok", "err"}, NEW y,
         result = "err" =>
           /\ y.step = py.step
           /\ \/ y.weights = py.weights
              \/ serving[1].op = "Optimizer" /\ y.weights = py.weights + 1,
         result = "ok" =>
           /\ serving[1].op = "Forward" =>
                y.step = py.step /\ y.weights = py.weights /\ y.grad = py.step + 1
           /\ serving[1].op = "Optimizer" => y.step = py.grad /\ y.weights = py.weights + 1
           /\ serving[1].op = "Save" =>
                y.step = py.step /\ y.weights = py.weights /\ y.disk = py.weights
  PROVE  KeepsSteps(result, y)
<1>1. /\ serving[1].open /\ serving[1].task = Trainer /\ serving[1].i = 1
      /\ call[Trainer].answers[1] = "none"
      /\ serving[1].op = "Forward" => algo.pc = "forward"
      /\ serving[1].op = "Optimizer" => algo.pc = "optimizer"
      /\ serving[1].op = "Save" => algo.pc = "saving"
  BY InHand
<1>2. FirstAnswer(result) = result
  BY <1>1 DEF FirstAnswer
<1> SUFFICES ASSUME NEW c, c.answers[1] = result
             PROVE  StepsFit(algo, c, y)
  BY <1>2 DEF KeepsSteps
<1>3. serving[1].op \in {"Forward", "Optimizer", "Save"}
  BY DEF Training
<1>4. CASE serving[1].op = "Forward"
  BY <1>1, <1>4, AlgoIs DEF StepsFit
<1>5. CASE serving[1].op = "Optimizer"
  <2>1. algo.pc = "optimizer"
    BY <1>1, <1>5
  <2>2. py.grad = py.step + 1 /\ py.step + algo.from = algo.step /\ py.weights = py.step
    BY <1>1, <2>1, AlgoIs DEF StepsFit
  <2>3. result = "err" => /\ y.step + algo.from = algo.step
                          /\ y.weights = y.step \/ y.weights = y.step + 1
    BY <2>2
  <2>4. result = "ok" => y.step + algo.from = algo.step + 1 /\ y.weights = y.step
    <3> HAVE result = "ok"
    <3>1. y.step = py.step + 1 /\ y.weights = py.step + 1
      BY <1>5, <2>2
    <3> QED BY <2>2, <3>1, AlgoIs
  <2> QED BY <2>1, <2>3, <2>4 DEF StepsFit
<1>6. CASE serving[1].op = "Save"
  BY <1>1, <1>6, AlgoIs DEF StepsFit
<1> QED BY <1>3, <1>4, <1>5, <1>6

\* Types of Python's globals.
LEMMA PyIs ==
  ASSUME VllmIInv
  PROVE  /\ py \in Py /\ py.step \in Nat /\ py.grad \in Nat /\ py.weights \in Nat /\ mode \in {"None", "Training"}
         /\ imported \in {"no", "yes", "failed"}
         /\ Import => imported' \in {"no", "yes", "failed"}
  BY DEF VllmIInv, VllmTypeOK, Py, Import

\* What a request of another kind than training does.
LEMMA PlainServes ==
  ASSUME VllmIInv, serving # <<>>,
         \/ serving[1].op = "Init" /\ ServeInit
         \/ serving[1].op = "Generate" /\ ServeGenerate
         \/ serving[1].op = "TrainOn" /\ ServeTrainOn
         \/ serving[1].op = "TrainOff" /\ ServeTrainOff
  PROVE  \E result \in {"ok", "err"}, y \in Py :
           /\ Answer(serving[1], result) /\ py' = y /\ KeepsSteps(result, y)
           /\ imported' \in {"no", "yes", "failed"} /\ mode' \in {"None", "Training"}
<1>1. serving[1].op \notin Training
  BY DEF Training
<1>2. \A result : KeepsSteps(result, py)
  BY <1>1, KeepsPlain
<1>3. CASE serving[1].op = "Init" /\ ServeInit
  <2>1. PICK ok \in BOOLEAN : /\ py' = [py EXCEPT !.engine = @ \/ ok]
                              /\ Answer(serving[1], IF ok THEN "ok" ELSE "err")
    BY <1>3 DEF ServeInit
  <2> DEFINE g == py.engine \/ ok
             y == [py EXCEPT !.engine = g]
  <2>2. g \in BOOLEAN /\ py \in Py
    BY PyIs
  <2> HIDE DEF g
  <2>3. y \in Py /\ y.step = py.step /\ y.grad = py.grad /\ y.weights = py.weights /\ y.disk = py.disk
    BY <2>2 DEF Py
  <2>4. py' = y
    BY <2>1, <2>2 DEF g, Py
  <2> HIDE DEF y
  <2>5. \A result : KeepsSteps(result, y)
    BY <1>1, <2>3, KeepsPlain
  <2>6. imported' \in {"no", "yes", "failed"} /\ mode' \in {"None", "Training"}
    BY <1>3, PyIs DEF ServeInit
  <2> QED BY <2>1, <2>3, <2>4, <2>5, <2>6
<1>4. CASE serving[1].op = "Generate" /\ ServeGenerate
  <2>1. PICK ok \in BOOLEAN : Answer(serving[1], IF ok THEN "ok" ELSE "err")
    BY <1>4 DEF ServeGenerate
  <2>2. /\ py' = py /\ imported' \in {"no", "yes", "failed"} /\ mode' \in {"None", "Training"}
    BY <1>4, PyIs DEF ServeGenerate
  <2> QED BY <1>2, <2>1, <2>2, PyIs
<1>5. CASE serving[1].op = "TrainOn" /\ ServeTrainOn
  <2> DEFINE y == Configured
  <2>1. imported' \in {"no", "yes", "failed"} /\ mode' \in {"None", "Training"}
    BY <1>5, PyIs DEF ServeTrainOn
  <2>2. \/ py' = y /\ Answer(serving[1], "ok")
        \/ py' = py /\ Answer(serving[1], "err")
    BY <1>5 DEF ServeTrainOn
  <2>3. py \in Py
    BY PyIs
  <2>4. y \in Py /\ y.step = py.step /\ y.grad = py.grad /\ y.weights = py.weights /\ y.disk = py.disk
    BY <2>3 DEF Py, Configured
  <2> HIDE DEF y
  <2>5. KeepsSteps("ok", y)
    BY <1>1, <2>4, KeepsPlain
  <2> QED BY <1>2, <2>1, <2>2, <2>3, <2>4, <2>5
<1>6. CASE serving[1].op = "TrainOff" /\ ServeTrainOff
  <2> DEFINE y == TornDown
  <2>1. imported' \in {"no", "yes", "failed"} /\ mode' \in {"None", "Training"}
    BY <1>6, PyIs DEF ServeTrainOff
  <2>2. PICK result \in {"ok", "err"} : (py' = y \/ py' = py) /\ Answer(serving[1], result)
    BY <1>6 DEF ServeTrainOff
  <2>3. py \in Py
    BY PyIs
  <2>4. y \in Py /\ y.step = 0 /\ y.weights = 0
    BY <2>3 DEF Py, TornDown
  <2> HIDE DEF y
  <2>5. KeepsSteps(result, y)
    BY <1>1, <1>6, <2>4, KeepsPlain
  <2> QED BY <1>2, <2>1, <2>2, <2>3, <2>4, <2>5
<1> QED BY <1>3, <1>4, <1>5, <1>6

\* What ServeTraining does, given what the operation does when it is carried
\* out and when it is not.
LEMMA TrainingServes ==
  ASSUME VllmIInv, serving # <<>>, serving[1].op \in Training,
         NEW done \in Py, NEW half \in Py, ServeTraining(done, half),
         serving[1].op = "Forward" =>
           done.step = py.step /\ done.weights = py.weights /\ done.grad = py.step + 1,
         serving[1].op = "Optimizer" => done.step = py.grad /\ done.weights = py.weights + 1,
         serving[1].op = "Save" =>
           done.step = py.step /\ done.weights = py.weights /\ done.disk = py.weights,
         half.step = py.step,
         \/ half.weights = py.weights
         \/ serving[1].op = "Optimizer" /\ half.weights = py.weights + 1
  PROVE  \E result \in {"ok", "err"}, y \in Py :
           /\ Answer(serving[1], result) /\ py' = y /\ KeepsSteps(result, y)
           /\ imported' \in {"no", "yes", "failed"} /\ mode' \in {"None", "Training"}
<1> DEFINE y == Built(done)
           z == Built(py)
           h == Built(half)
<1>1. \/ py' = y /\ Answer(serving[1], "ok")
      \/ py' = z /\ Answer(serving[1], "err")
      \/ py' = h /\ Answer(serving[1], "err")
      \/ py' = py /\ Answer(serving[1], "err")
  BY DEF ServeTraining
<1>2. imported' \in {"no", "yes", "failed"} /\ mode' \in {"None", "Training"}
  BY PyIs DEF ServeTraining
<1>3. py \in Py
  BY PyIs
<1>4. /\ y \in Py /\ y.step = done.step /\ y.grad = done.grad /\ y.disk = done.disk
      /\ y.weights = done.weights
  BY DEF Py, Built
<1>5. z \in Py /\ z.step = py.step /\ z.weights = py.weights
  BY <1>3 DEF Py, Built
<1>6. h \in Py /\ h.step = half.step /\ h.weights = half.weights
  BY DEF Py, Built
<1> HIDE DEF y, z, h
<1>7. KeepsSteps("ok", y)
  BY <1>4, KeepsTraining
<1>8. KeepsSteps("err", z)
  BY <1>5, KeepsTraining
<1>9. KeepsSteps("err", h)
  BY <1>6, KeepsTraining
<1>10. KeepsSteps("err", py)
  BY KeepsTraining
<1> QED BY <1>1, <1>2, <1>3, <1>4, <1>5, <1>6, <1>7, <1>8, <1>9, <1>10

LEMMA ServeStep ==
  ASSUME VllmIInv, Serve
  PROVE  VllmIInv'
<1>1. /\ serving # <<>> /\ serving' = <<>>
      /\ UNCHANGED <<channel, thread, handle, resolved, algoVars>>
  BY DEF Serve
<1>2. py \in Py /\ py.step \in Nat /\ py.grad \in Nat /\ py.weights \in Nat
  BY PyIs
<1>3. {"Forward", "Optimizer", "Save"} = Training
  BY DEF Training
<1> SUFFICES \E result \in {"ok", "err"}, y \in Py :
               /\ Answer(serving[1], result) /\ py' = y /\ KeepsSteps(result, y)
               /\ imported' \in {"no", "yes", "failed"} /\ mode' \in {"None", "Training"}
  BY <1>1, ServedStep
<1>4. CASE serving[1].op = "Forward" /\ ServeForward
  <2> DEFINE g == py.step + 1
             y == [py EXCEPT !.loss = TRUE, !.grad = g]
             h == [py EXCEPT !.loss = TRUE]
  <2>1. ServeTraining(y, h)
    BY <1>4 DEF ServeForward, Forwarded
  <2>2. g \in Nat /\ g = py.step + 1
    BY <1>2
  <2> HIDE DEF g
  <2>3. /\ y \in Py /\ y.step = py.step /\ y.grad = g /\ y.weights = py.weights
        /\ h \in Py /\ h.step = py.step /\ h.weights = py.weights
    BY <1>2, <2>2 DEF Py
  <2> HIDE DEF y, h
  <2> QED BY <1>1, <1>3, <1>4, <2>1, <2>2, <2>3, TrainingServes
<1>5. CASE serving[1].op = "Optimizer" /\ ServeOptimizer
  <2>1. CASE py.state /\ ~py.loss
    <3>1. /\ Answer(serving[1], "err") /\ py' = py
          /\ imported' \in {"no", "yes", "failed"} /\ mode' \in {"None", "Training"}
      BY <1>5, <2>1, PyIs DEF ServeOptimizer, pyVars
    <3>2. KeepsSteps("err", py)
      BY <1>1, <1>3, <1>5, KeepsTraining
    <3> QED BY <1>2, <3>1, <3>2
  <2>2. CASE ~(py.state /\ ~py.loss)
    <3> DEFINE g == py.grad
               n == py.weights + 1
               h == [py EXCEPT !.weights = n]
               y == [h EXCEPT !.loss = FALSE, !.step = g]
    <3>1. ServeTraining(y, h)
      BY <1>5, <2>2 DEF ServeOptimizer, Stepped, Applied
    <3>2. n \in Nat /\ n = py.weights + 1
      BY <1>2
    <3> HIDE DEF n
    <3>3. y \in Py /\ y.step = g /\ y.weights = n /\ h \in Py /\ h.step = py.step /\ h.weights = n
      BY <1>2, <3>2 DEF Py
    <3> HIDE DEF y, h
    <3> QED BY <1>1, <1>3, <1>5, <3>1, <3>2, <3>3, TrainingServes
  <2> QED BY <2>1, <2>2
<1>6. CASE serving[1].op = "Save" /\ ServeSave
  <2> DEFINE g == py.weights
             y == [py EXCEPT !.disk = g]
  <2>1. ServeTraining(y, py)
    BY <1>6 DEF ServeSave, OnDisk
  <2>2. y \in Py /\ y.step = py.step /\ y.weights = py.weights /\ y.disk = g
    BY <1>2 DEF Py
  <2> HIDE DEF y
  <2> QED BY <1>1, <1>2, <1>3, <1>6, <2>1, <2>2, TrainingServes
<1> QED BY <1>1, <1>4, <1>5, <1>6, PlainServes DEF Serve

-----------------------------------------------------------------------------
(* The theorems.                                                           *)

\* A backend that was just spawned satisfies the invariant.
LEMMA VllmInitHolds ==
  ASSUME VllmInit
  PROVE  VllmIInv
<1>1. NoCall \in Call /\ CallFits(NoCall) /\ NoCall.pc = "idle" /\ NoCall.op = "Init"
  BY NoCallIs
<1>2. Trainer \in Task /\ MaxSteps \in Nat /\ Capacity \in Nat
  BY VllmAssumption
<1>3. call \in [Task -> Call] /\ \A t \in Task : call[t] = NoCall
  BY <1>1 DEF VllmInit
<1>4. algo \in Algo /\ algo.pc = "off"
  BY <1>2 DEF VllmInit, NoAlgo, Algo
<1>5. py \in Py /\ py.step = 0 /\ py.weights = 0 /\ saved \in Saved /\ SavedFits(saved)
  BY DEF VllmInit, Py, Saved, SavedFits
<1>6. /\ channel = <<>> /\ serving = <<>> /\ channel \in Seq(Request) /\ serving \in Seq(Request)
      /\ Len(channel) <= Capacity /\ Len(serving) <= 1
  BY <1>2 DEF VllmInit
<1>7. VllmTypeOK
  BY <1>3, <1>4, <1>5, <1>6 DEF VllmInit, VllmTypeOK, Algo, Py, Saved
<1>8. Line = <<>>
  BY <1>6 DEF Line
<1>9. Agree(<<>>, call)
  BY <1>1, <1>3 DEF Agree
<1>10. AlgoFits /\ CountsFit
  BY <1>1, <1>2, <1>3, <1>4, <1>5
     DEF AlgoFits, OthersFit, PhaseFits, CountsFit, StepsFit, Training
<1> QED BY <1>1, <1>3, <1>7, <1>8, <1>9, <1>10 DEF VllmIInv, CallsFit, LineFits

\* Every step preserves the invariant: one lemma per action.
LEMMA VllmStepHolds ==
  ASSUME VllmIInv, [VllmNext]_vllmVars
  PROVE  VllmIInv'
<1>1. CASE UNCHANGED vllmVars
  BY <1>1 DEF vllmVars, VllmIInv, VllmTypeOK, CallsFit, LineFits, Line, AlgoFits, OthersFit, CountsFit, IdleTask
<1>2. ASSUME NEW t \in Task, Calling(t)
      PROVE  VllmIInv'
  BY <1>2, OwnStep, GenerateStep, SendStep, SendClosedStep, AwaitStep, ReturnStep,
     AbortedStep DEF Calling
<1>3. CASE Algorithm
  BY <1>3, RunStep, EndsStep, StepForwardStep, StepOptimizerStep, StepDoneStep,
     StepErrorStep, SnapshotSaveStep, SnapshotDoneStep DEF Algorithm
<1> QED BY <1>1, <1>2, <1>3, TakeStep, ServeStep, StopStep, DropEngineStep, JoinStep DEF VllmNext

\* The invariant says that every request has its one answer.
LEMMA VllmIInvImpliesInv ==
  ASSUME VllmIInv
  PROVE  VllmInv
<1> SUFFICES ASSUME NEW t \in Task, NEW i \in 1 .. MaxPrompts, call[t].pc = "wait",
                    i <= call[t].n
             PROVE  call[t].answers[i] = "none" <=>
                      \E q \in {channel, serving} : \E k \in DOMAIN q :
                        q[k].task = t /\ q[k].i = i /\ q[k].open
  BY DEF VllmInv, VllmIInv, OneAnswer
<1> DEFINE Under == \E q \in {channel, serving} : \E k \in DOMAIN q :
                      q[k].task = t /\ q[k].i = i /\ q[k].open
<1>1. /\ serving \in Seq(Request) /\ channel \in Seq(Request) /\ Agree(Line, call)
      /\ call[t].sent = call[t].n /\ Line \in Seq(Request)
  BY CallIs DEF CallFits
<1>2. /\ Len(Line) = Len(serving) + Len(channel) /\ Len(serving) \in Nat /\ Len(channel) \in Nat
      /\ \A k \in 1 .. Len(serving) : Line[k] = serving[k]
      /\ \A k \in 1 .. Len(channel) : Line[Len(serving) + k] = channel[k]
      /\ \A k \in 1 .. Len(Line) : k \in 1 .. Len(serving) \/ k - Len(serving) \in 1 .. Len(channel)
  BY <1>1, LineOf DEF Line
<1>3. DOMAIN serving = 1 .. Len(serving) /\ DOMAIN channel = 1 .. Len(channel)
  BY <1>1
<1>4. Under <=> \E k \in 1 .. Len(Line) : Matches(Line[k], t, i)
  <2>1. ASSUME NEW k \in 1 .. Len(Line), Matches(Line[k], t, i)
        PROVE  Under
    <3>1. CASE k \in 1 .. Len(serving)
      BY <1>2, <1>3, <2>1, <3>1 DEF Matches
    <3>2. CASE k - Len(serving) \in 1 .. Len(channel)
      <4>1. Line[Len(serving) + (k - Len(serving))] = channel[k - Len(serving)]
        BY <1>2, <3>2
      <4>2. Len(serving) + (k - Len(serving)) = k
        BY <1>2
      <4> QED BY <1>3, <2>1, <3>2, <4>1, <4>2 DEF Matches
    <3> QED BY <1>2, <3>1, <3>2
  <2>2. ASSUME NEW k \in 1 .. Len(serving), serving[k].task = t, serving[k].i = i, serving[k].open
        PROVE  \E l \in 1 .. Len(Line) : Matches(Line[l], t, i)
    <3>1. k \in 1 .. Len(Line) /\ Line[k] = serving[k]
      BY <1>2
    <3> QED BY <2>2, <3>1 DEF Matches
  <2>3. ASSUME NEW k \in 1 .. Len(channel), channel[k].task = t, channel[k].i = i, channel[k].open
        PROVE  \E l \in 1 .. Len(Line) : Matches(Line[l], t, i)
    <3>1. Len(serving) + k \in 1 .. Len(Line) /\ Line[Len(serving) + k] = channel[k]
      BY <1>2
    <3> QED BY <2>3, <3>1 DEF Matches
  <2> QED BY <1>3, <2>1, <2>2, <2>3
<1>5. (\E k \in 1 .. Len(Line) : Matches(Line[k], t, i)) <=> call[t].answers[i] = "none"
  BY <1>1 DEF Agree, RequestFits, Matches
<1> QED BY <1>4, <1>5

\* And that the counter and the weights agree.
LEMMA VllmIInvImpliesSteps ==
  ASSUME VllmIInv
  PROVE  StepsAgree
<1>1. /\ algo.from \in Nat /\ algo.step \in Nat /\ py.step \in Nat /\ py.weights \in Nat
      /\ algo.pc \in {"off", "loop", "forward", "optimizer", "over", "saving"}
      /\ StepsFit(algo, call[Trainer], py) /\ SavedFits(saved)
      /\ saved.from \in Nat /\ saved.step \in Nat /\ saved.weights \in Nat
  BY AlgoIs DEF Algo, Saved
<1>2. Counted(saved.weights, saved.from, saved.step, saved.failed)
  BY <1>1 DEF Counted, SavedFits
<1>3. algo.pc # "off" =>
        Counted(py.weights, algo.from, algo.step, algo.pc = "optimizer" \/ algo.failed)
  BY <1>1 DEF Counted, StepsFit
<1> QED BY <1>2, <1>3 DEF StepsAgree

\* While a caller of the vLLM backend waits, each of its requests is in the
\* channel, in the thread's hand or answered, once (VllmBackend::generate and
\* worker_main_vllm): for any tasks, any capacity of the channel and any
\* number of prompts, aborted callers and a thread that stops included.
THEOREM VllmInvariant == VllmSpec => []VllmInv
<1>1. VllmInit => VllmIInv
  BY VllmInitHolds
<1>2. VllmIInv /\ [VllmNext]_vllmVars => VllmIInv'
  BY VllmStepHolds
<1> QED BY <1>1, <1>2, VllmIInvImpliesInv, PTL DEF VllmSpec

\* The weights have seen as many optimizer steps as the counter of SftAlgo or
\* RmAlgo has advanced by since the run began, or was resumed, outside an
\* optimizer step that is under way or has failed; and so have the weights in a
\* snapshot (step_once, snapshot_save), for any budget.  That the weights of a
\* resumed run have seen the steps it was resumed from is not claimed.
THEOREM VllmCountsAgree == VllmSpec => []StepsAgree
<1>1. VllmInit => VllmIInv
  BY VllmInitHolds
<1>2. VllmIInv /\ [VllmNext]_vllmVars => VllmIInv'
  BY VllmStepHolds
<1> QED BY <1>1, <1>2, VllmIInvImpliesSteps, PTL DEF VllmSpec
=============================================================================
