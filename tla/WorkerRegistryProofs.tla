------------------------- MODULE WorkerRegistryProofs -------------------------
(***************************************************************************)
(* Proofs about WorkerRegistry, for any workers, thresholds and bounds.    *)
(*                                                                         *)
(* The heartbeat handler reads and writes in several transactions, so what *)
(* the rows say depends on the calls under way.  The induction rests on    *)
(* this: as long as a worker's connection holds, its beat loop has one     *)
(* call out at a time (OneCall), a call is cut by the death of the worker  *)
(* only (CutIsBroken), a worker that deregisters has none (GoneIsSilent),  *)
(* and an older beat is never answered after a newer one (InOrder).        *)
(***************************************************************************)
EXTENDS WorkerRegistry, TLAPS

\* A cut call belongs to a broken connection or to a worker that has died.
CutIsBroken ==
  \A c \in calls : c.cut => c.worker \in broken \/ state[c.worker] = "dead"

\* A worker whose connection held has at most one call out.
OneCall ==
  \A c, d \in calls : c.worker = d.worker /\ c.worker \notin broken => c = d

\* ... and none once it has left.
GoneIsSilent ==
  \A c \in calls : c.worker \notin broken => state[c.worker] # "gone"

\* A handler that is about to store its beat has seen the worker's row.
PutIsRegistered ==
  \A c \in calls : c.pc = "put" /\ c.worker \notin broken => c.worker \in registered

\* The last beat that was answered is the oldest: the row and the beats under
\* way are as late at least.
InOrder ==
  /\ \A w \in Worker \ broken : due[w] # NoRow => accepted[w] <= due[w]
  /\ \A c \in calls : c.worker \notin broken => accepted[c.worker] <= c.due

\* No beat is from the future.
NotAhead ==
  /\ \A w \in Worker : accepted[w] <= NextDueAt
  /\ \A c \in calls : c.due <= NextDueAt

CallsInv == CutIsBroken /\ OneCall /\ GoneIsSilent
RowsInv == PutIsRegistered /\ HeartbeatHasWorker /\ GoneIsForgotten
TimeInv == InOrder /\ NotAhead

IInv == TypeOK /\ CallsInv /\ RowsInv /\ TimeInv

-----------------------------------------------------------------------------
(* What the steps do to the calls.                                         *)

\* Call c goes on as one at pc.
GoesOn(c, pc) ==
  \E d \in Call : /\ calls' = (calls \ {c}) \cup {d}
                  /\ d.worker = c.worker /\ d.due = c.due
                  /\ d.cut = c.cut /\ d.pc = pc

LEMMA StepDoes ==
  ASSUME TypeOK, NEW c \in calls, NEW pc \in {"get", "register", "put"}, Step(c, pc)
  PROVE  GoesOn(c, pc)
<1> DEFINE d == [c EXCEPT !.pc = pc]
<1>1. c \in Call
  BY DEF TypeOK
<1>2. d \in Call /\ d.worker = c.worker /\ d.due = c.due /\ d.cut = c.cut /\ d.pc = pc
  BY <1>1 DEF Call
<1>3. calls' = (calls \ {c}) \cup {d}
  BY DEF Step
<1> HIDE DEF d
<1>4. QED
  BY <1>2, <1>3 DEF GoesOn

\* A beat is sent.
Sends(w) ==
  \E d \in Call : /\ calls' = calls \cup {d}
                  /\ d.worker = w /\ d.due = NextDueAt /\ d.pc = "get" /\ ~d.cut

LEMMA SendDoes ==
  ASSUME TypeOK, NEW w \in Worker, Send(w)
  PROVE  Sends(w)
<1> DEFINE d == [worker |-> w, due |-> NextDueAt, pc |-> "get", cut |-> FALSE]
<1>1. NextDueAt \in Nat
  BY WorkerRegistryAssumption DEF TypeOK, NextDueAt
<1>2. d \in Call /\ d.worker = w /\ d.due = NextDueAt /\ d.pc = "get" /\ ~d.cut
  BY <1>1 DEF Call
<1>3. calls' = calls \cup {d}
  BY DEF Send
<1> HIDE DEF d
<1>4. QED
  BY <1>2, <1>3 DEF Sends

LEMMA CutDoes ==
  ASSUME TypeOK, NEW c \in calls, Cut(c)
  PROVE  \E d \in Call : /\ calls' = (calls \ {c}) \cup {d}
                         /\ d.worker = c.worker /\ d.due = c.due
                         /\ d.cut /\ d.pc = c.pc
<1> DEFINE d == [c EXCEPT !.cut = TRUE]
<1>1. c \in Call
  BY DEF TypeOK
<1>2. d \in Call /\ d.worker = c.worker /\ d.due = c.due /\ d.cut /\ d.pc = c.pc
  BY <1>1 DEF Call
<1>3. calls' = (calls \ {c}) \cup {d}
  BY DEF Cut
<1> HIDE DEF d
<1>4. QED
  BY <1>2, <1>3

\* A call after the death of worker w is one from before, cut if it was w's;
\* two of them of one worker were two before.
LEMMA DieDoes ==
  ASSUME TypeOK, NEW w \in Worker, Die(w)
  PROVE  /\ calls' \subseteq Call
         /\ \A d \in calls' : \E c \in calls :
              /\ d.worker = c.worker /\ d.due = c.due /\ d.pc = c.pc
              /\ c.worker # w => d = c
         /\ \A d, e \in calls' : d.worker = e.worker /\ d # e =>
              \E b, c \in calls : b # c /\ b.worker = d.worker /\ c.worker = d.worker
<1> DEFINE f(c) == IF c.worker = w THEN [c EXCEPT !.cut = TRUE] ELSE c
<1>1. \A c \in calls : /\ f(c) \in Call
                       /\ f(c).worker = c.worker /\ f(c).due = c.due /\ f(c).pc = c.pc
                       /\ c.worker # w => f(c) = c
  BY DEF TypeOK, Call
<1>2. calls' = {f(c) : c \in calls}
  BY DEF Die
<1> HIDE DEF f
<1>3. \A d \in calls' : \E c \in calls : d = f(c)
  BY <1>2
<1>4. ASSUME NEW d \in calls', NEW e \in calls', d.worker = e.worker, d # e
      PROVE  \E b, c \in calls : b # c /\ b.worker = d.worker /\ c.worker = d.worker
  <2>1. PICK b \in calls : d = f(b)
    BY <1>3
  <2>2. PICK c \in calls : e = f(c)
    BY <1>3
  <2>3. QED
    BY <1>1, <1>4, <2>1, <2>2
<1>5. QED
  BY <1>1, <1>3, <1>4

\* The parts of TypeOK that the steps need.
LEMMA Types ==
  ASSUME TypeOK
  PROVE  /\ clock \in Nat /\ Interval \in Nat /\ NextDueAt \in Nat
         /\ \A w \in Worker : due[w] \in Nat /\ accepted[w] \in Nat
         /\ \A c \in calls : /\ c \in Call /\ c.worker \in Worker /\ c.due \in Nat
                             /\ c.cut \in BOOLEAN /\ c.pc \in {"get", "register", "put"}
  BY WorkerRegistryAssumption DEF TypeOK, Call, NextDueAt

\* The state of worker w becomes st.
StateStep(w, st) ==
  /\ state' \in [Worker -> {"up", "leaving", "gone", "dead"}] /\ state'[w] = st
  /\ \A v \in Worker : v # w => state'[v] = state[v]

\* A beat or the drain beat: the worker has no other call out, unless its
\* connection has broken.
LEMMA BeatDoes ==
  ASSUME IInv, NEW w \in Worker, Beat(w) \/ Leave(w)
  PROVE  /\ StateStep(w, "up") \/ StateStep(w, "leaving")
         /\ state[w] = "up"
         /\ \A c \in calls : c.worker = w => w \in broken
         /\ Sends(w) \/ calls' = calls
         /\ UNCHANGED <<clock, registered, due, accepted, up, scanning, scannedAt,
                        failed, broken, restarts>>
<1>1. state \in [Worker -> {"up", "leaving", "gone", "dead"}] /\ state[w] = "up"
  BY DEF IInv, TypeOK, Beat, Leave
<1>2. StateStep(w, "up") \/ StateStep(w, "leaving")
  BY <1>1 DEF Beat, Leave, StateStep
<1>3. \A c \in calls : c.worker = w => w \in broken
  <2>1. Waiting(w) = {}
    BY DEF Beat, Leave
  <2>2. \A c \in calls : c.worker = w => c.cut
    BY <2>1 DEF Waiting
  <2>3. QED
    BY <1>1, <2>2 DEF IInv, CallsInv, CutIsBroken
<1>4. Sends(w) \/ calls' = calls
  BY SendDoes DEF Beat, Leave, IInv
<1>5. QED
  BY <1>1, <1>2, <1>3, <1>4 DEF Beat, Leave

LEMMA DeathDoes ==
  ASSUME IInv, NEW w \in Worker, Die(w)
  PROVE  /\ StateStep(w, "dead")
         /\ UNCHANGED <<clock, registered, due, accepted, up, scanning, scannedAt,
                        failed, broken, restarts>>
  BY DEF IInv, TypeOK, Die, StateStep

\* A worker that leaves has no call out, unless its connection has broken.
LEMMA ExitDoes ==
  ASSUME IInv, NEW w \in Worker, Exit(w)
  PROVE  /\ \A c \in calls : c.worker = w => w \in broken
         /\ state[w] = "leaving"
         /\ \/ /\ StateStep(w, "gone") /\ registered' = registered \ {w}
               /\ due' \in [Worker -> Nat] /\ due'[w] = NoRow
               /\ \A v \in Worker : v # w => due'[v] = due[v]
            \/ StateStep(w, "dead") /\ UNCHANGED <<registered, due>>
         /\ UNCHANGED <<clock, calls, accepted, up, scanning, scannedAt, failed, broken,
                        restarts>>
<1>1. /\ state \in [Worker -> {"up", "leaving", "gone", "dead"}] /\ state[w] = "leaving"
      /\ due \in [Worker -> Nat]
  BY DEF IInv, TypeOK, Exit
<1>2. \A c \in calls : c.worker = w => w \in broken
  <2>1. Waiting(w) = {}
    BY DEF Exit
  <2>2. \A c \in calls : c.worker = w => c.cut
    BY <2>1 DEF Waiting
  <2>3. QED
    BY <1>1, <2>2 DEF IInv, CallsInv, CutIsBroken
<1>3. QED
  BY <1>1, <1>2 DEF Exit, Deregister, StateStep, NoRow

LEMMA BreakDoes ==
  ASSUME NEW c \in calls, Cut(c)
  PROVE  /\ broken' = broken \cup {c.worker}
         /\ UNCHANGED <<clock, registered, due, state, accepted, up, scanning,
                        scannedAt, failed, restarts>>
  BY DEF Cut

LEMMA GetDoes ==
  ASSUME IInv, NEW c \in calls, HeartbeatGet(c)
  PROVE  /\ GoesOn(c, "register") \/ (GoesOn(c, "put") /\ c.worker \in registered)
         /\ UNCHANGED <<clock, registered, due, state, accepted, up, scanning,
                        scannedAt, failed, broken, restarts>>
<1>1. \/ Step(c, "register")
      \/ Step(c, "put") /\ c.worker \in registered
  BY DEF HeartbeatGet
<1>2. QED
  BY <1>1, StepDoes DEF HeartbeatGet, IInv

LEMMA RegisterDoes ==
  ASSUME IInv, NEW c \in calls, HeartbeatRegister(c)
  PROVE  /\ GoesOn(c, "put") /\ registered' = registered \cup {c.worker}
         /\ UNCHANGED <<clock, due, state, accepted, up, scanning, scannedAt, failed,
                        broken, restarts>>
  BY StepDoes DEF HeartbeatRegister, IInv

LEMMA PutDoes ==
  ASSUME IInv, NEW c \in calls, HeartbeatPut(c)
  PROVE  /\ due' \in [Worker -> Nat] /\ due'[c.worker] = c.due
         /\ \A v \in Worker : v # c.worker => due'[v] = due[v] /\ accepted'[v] = accepted[v]
         /\ accepted' \in [Worker -> Nat]
         /\ accepted'[c.worker] \in {accepted[c.worker], c.due}
         /\ calls' = calls \ {c} /\ c.pc = "put"
         /\ UNCHANGED <<clock, registered, state, up, scanning, scannedAt, failed,
                        broken, restarts>>
  BY Types DEF HeartbeatPut, IInv, TypeOK

-----------------------------------------------------------------------------
(* Every step keeps the invariant.                                         *)

\* Every step keeps the types.
LEMMA TypeStep ==
  ASSUME IInv, [Next]_vars
  PROVE  TypeOK'
<1> USE DEF IInv, TypeOK
<1>1. /\ clock \in Nat /\ Interval \in Nat /\ NextDueAt \in Nat
      /\ \A w \in Worker : due[w] \in Nat /\ accepted[w] \in Nat
      /\ \A c \in calls : /\ c \in Call /\ c.worker \in Worker /\ c.due \in Nat
                          /\ c.cut \in BOOLEAN /\ c.pc \in {"get", "register", "put"}
  BY Types
<1>2. CASE Tick
  BY <1>1, <1>2 DEF Tick
<1>3. CASE Scan
  BY <1>1, <1>3 DEF Scan, Overdue
<1>4. CASE Sigterm
  BY <1>1, <1>4 DEF Sigterm
<1>5. CASE CoordinatorCrash
  BY <1>1, <1>5 DEF CoordinatorCrash
<1>6. CASE CoordinatorRestart
  BY <1>1, <1>6 DEF CoordinatorRestart
<1>7. ASSUME NEW w \in Worker, Beat(w) PROVE TypeOK'
  BY <1>1, <1>7, BeatDoes DEF Sends, StateStep
<1>8. ASSUME NEW w \in Worker, Leave(w) PROVE TypeOK'
  BY <1>1, <1>8, BeatDoes DEF Sends, StateStep
<1>9. ASSUME NEW w \in Worker, Die(w) PROVE TypeOK'
  BY <1>1, <1>9, DieDoes, DeathDoes DEF StateStep
<1>10. ASSUME NEW w \in Worker, Exit(w) PROVE TypeOK'
  BY <1>1, <1>10, ExitDoes DEF StateStep
<1>11. ASSUME NEW c \in calls, Cut(c) PROVE TypeOK'
  BY <1>1, <1>11, CutDoes, BreakDoes
<1>12. ASSUME NEW c \in calls, HeartbeatGet(c) PROVE TypeOK'
  BY <1>1, <1>12, GetDoes DEF GoesOn
<1>13. ASSUME NEW c \in calls, HeartbeatRegister(c) PROVE TypeOK'
  BY <1>1, <1>13, RegisterDoes DEF GoesOn
<1>14. ASSUME NEW c \in calls, HeartbeatPut(c) PROVE TypeOK'
  BY <1>1, <1>14, PutDoes
<1>15. ASSUME NEW c \in calls, HeartbeatError(c) PROVE TypeOK'
  BY <1>1, <1>15 DEF HeartbeatError
<1>16. CASE UNCHANGED vars
  BY <1>16 DEF vars
<1>17. QED
  BY <1>2, <1>3, <1>4, <1>5, <1>6, <1>7, <1>8, <1>9, <1>10, <1>11, <1>12,
     <1>13, <1>14, <1>15, <1>16
  DEF Next, Handle, vars

\* Beats go out one by one.
LEMMA CallsStep ==
  ASSUME IInv, [Next]_vars
  PROVE  CallsInv'
<1> USE DEF IInv, CallsInv, CutIsBroken, OneCall, GoneIsSilent
<1>1. /\ clock \in Nat /\ Interval \in Nat /\ NextDueAt \in Nat
      /\ \A w \in Worker : due[w] \in Nat /\ accepted[w] \in Nat
      /\ \A c \in calls : /\ c \in Call /\ c.worker \in Worker /\ c.due \in Nat
                          /\ c.cut \in BOOLEAN /\ c.pc \in {"get", "register", "put"}
  BY Types
<1>2. CASE CoordinatorCrash
  BY <1>1, <1>2 DEF CoordinatorCrash
<1>3. ASSUME NEW w \in Worker, Beat(w) PROVE CallsInv'
  BY <1>1, <1>3, BeatDoes DEF Sends, StateStep
<1>4. ASSUME NEW w \in Worker, Leave(w) PROVE CallsInv'
  BY <1>1, <1>4, BeatDoes DEF Sends, StateStep
<1>5. ASSUME NEW w \in Worker, Die(w) PROVE CallsInv'
  BY <1>1, <1>5, DieDoes, DeathDoes DEF StateStep
<1>6. ASSUME NEW w \in Worker, Exit(w) PROVE CallsInv'
  BY <1>1, <1>6, ExitDoes DEF StateStep
<1>7. ASSUME NEW c \in calls, Cut(c) PROVE CallsInv'
  BY <1>1, <1>7, CutDoes, BreakDoes
<1>8. ASSUME NEW c \in calls, HeartbeatGet(c) PROVE CallsInv'
  BY <1>1, <1>8, GetDoes DEF GoesOn
<1>9. ASSUME NEW c \in calls, HeartbeatRegister(c) PROVE CallsInv'
  BY <1>1, <1>9, RegisterDoes DEF GoesOn
<1>10. ASSUME NEW c \in calls, HeartbeatPut(c) PROVE CallsInv'
  BY <1>1, <1>10, PutDoes
<1>11. ASSUME NEW c \in calls, HeartbeatError(c) PROVE CallsInv'
  BY <1>1, <1>11 DEF HeartbeatError
<1>12. CASE UNCHANGED <<state, calls, broken>>
  BY <1>12
<1>13. QED
  BY <1>2, <1>3, <1>4, <1>5, <1>6, <1>7, <1>8, <1>9, <1>10, <1>11, <1>12
  DEF Next, Handle, vars, Tick, Scan, Sigterm, CoordinatorRestart

\* Rows come and go in order.
LEMMA RowsStep ==
  ASSUME IInv, [Next]_vars
  PROVE  RowsInv'
<1> USE DEF IInv, RowsInv, PutIsRegistered, HeartbeatHasWorker, GoneIsForgotten
<1>1. /\ clock \in Nat /\ Interval \in Nat /\ NextDueAt \in Nat
      /\ \A w \in Worker : due[w] \in Nat /\ accepted[w] \in Nat
      /\ \A c \in calls : /\ c \in Call /\ c.worker \in Worker /\ c.due \in Nat
                          /\ c.cut \in BOOLEAN /\ c.pc \in {"get", "register", "put"}
  BY Types
<1>2. CASE CoordinatorCrash
  BY <1>1, <1>2 DEF CoordinatorCrash
<1>3. ASSUME NEW w \in Worker, Beat(w) PROVE RowsInv'
  BY <1>1, <1>3, BeatDoes DEF Sends, StateStep
<1>4. ASSUME NEW w \in Worker, Leave(w) PROVE RowsInv'
  BY <1>1, <1>4, BeatDoes DEF Sends, StateStep
<1>5. ASSUME NEW w \in Worker, Die(w) PROVE RowsInv'
  BY <1>1, <1>5, DieDoes, DeathDoes DEF StateStep
<1>6. ASSUME NEW w \in Worker, Exit(w) PROVE RowsInv'
  BY <1>1, <1>6, ExitDoes DEF StateStep
<1>7. ASSUME NEW c \in calls, Cut(c) PROVE RowsInv'
  BY <1>1, <1>7, CutDoes, BreakDoes
<1>8. ASSUME NEW c \in calls, HeartbeatGet(c) PROVE RowsInv'
  BY <1>1, <1>8, GetDoes DEF GoesOn
<1>9. ASSUME NEW c \in calls, HeartbeatRegister(c) PROVE RowsInv'
  BY <1>1, <1>9, RegisterDoes DEF GoesOn, CallsInv, GoneIsSilent
<1>10. ASSUME NEW c \in calls, HeartbeatPut(c) PROVE RowsInv'
  BY <1>1, <1>10, PutDoes DEF CallsInv, GoneIsSilent
<1>11. ASSUME NEW c \in calls, HeartbeatError(c) PROVE RowsInv'
  BY <1>1, <1>11 DEF HeartbeatError
<1>12. CASE UNCHANGED <<registered, due, state, calls, broken>>
  BY <1>12
<1>13. QED
  BY <1>2, <1>3, <1>4, <1>5, <1>6, <1>7, <1>8, <1>9, <1>10, <1>11, <1>12
  DEF Next, Handle, vars, Tick, Scan, Sigterm, CoordinatorRestart

\* Beats are stored in the order they were sent.
LEMMA TimeStep ==
  ASSUME IInv, [Next]_vars
  PROVE  TimeInv'
<1> USE DEF IInv, TimeInv, InOrder, NotAhead, NextDueAt
<1>1. /\ clock \in Nat /\ Interval \in Nat /\ NextDueAt \in Nat
      /\ \A w \in Worker : due[w] \in Nat /\ accepted[w] \in Nat
      /\ \A c \in calls : /\ c \in Call /\ c.worker \in Worker /\ c.due \in Nat
                          /\ c.cut \in BOOLEAN /\ c.pc \in {"get", "register", "put"}
  BY Types
<1>2. CASE Tick
  BY <1>1, <1>2 DEF Tick
<1>3. CASE CoordinatorCrash
  BY <1>1, <1>3 DEF CoordinatorCrash
<1>4. ASSUME NEW w \in Worker, Beat(w) PROVE TimeInv'
  BY <1>1, <1>4, BeatDoes DEF Sends, StateStep
<1>5. ASSUME NEW w \in Worker, Leave(w) PROVE TimeInv'
  BY <1>1, <1>5, BeatDoes DEF Sends, StateStep
<1>6. ASSUME NEW w \in Worker, Die(w) PROVE TimeInv'
  BY <1>1, <1>6, DieDoes, DeathDoes DEF StateStep
<1>7. ASSUME NEW w \in Worker, Exit(w) PROVE TimeInv'
  BY <1>1, <1>7, ExitDoes DEF StateStep
<1>8. ASSUME NEW c \in calls, Cut(c) PROVE TimeInv'
  BY <1>1, <1>8, CutDoes, BreakDoes
<1>9. ASSUME NEW c \in calls, HeartbeatGet(c) PROVE TimeInv'
  BY <1>1, <1>9, GetDoes DEF GoesOn
<1>10. ASSUME NEW c \in calls, HeartbeatRegister(c) PROVE TimeInv'
  BY <1>1, <1>10, RegisterDoes DEF GoesOn
<1>11. ASSUME NEW c \in calls, HeartbeatPut(c) PROVE TimeInv'
  BY <1>1, <1>11, PutDoes DEF CallsInv, OneCall
<1>12. ASSUME NEW c \in calls, HeartbeatError(c) PROVE TimeInv'
  BY <1>1, <1>12 DEF HeartbeatError
<1>13. CASE UNCHANGED <<clock, due, calls, accepted, broken>>
  BY <1>13
<1>14. QED
  BY <1>2, <1>3, <1>4, <1>5, <1>6, <1>7, <1>8, <1>9, <1>10, <1>11, <1>12,
     <1>13
  DEF Next, Handle, vars, Scan, Sigterm, CoordinatorRestart

LEMMA InitInv == Init => IInv
<1> SUFFICES ASSUME Init PROVE IInv
  OBVIOUS
<1> USE WorkerRegistryAssumption
<1>1. TypeOK
  BY DEF Init, TypeOK, NoRow
<1>2. TimeInv
  BY DEF Init, TimeInv, InOrder, NotAhead, NoRow, NextDueAt
<1>3. QED
  BY <1>1, <1>2
  DEF Init, IInv, CallsInv, CutIsBroken, OneCall, GoneIsSilent, RowsInv,
      PutIsRegistered, HeartbeatHasWorker, GoneIsForgotten

\* The inductive invariant holds throughout.
THEOREM Induction == Spec => []IInv
<1>1. IInv /\ [Next]_vars => IInv'
  BY TypeStep, CallsStep, RowsStep, TimeStep DEF IInv
<1>2. QED
  BY <1>1, InitInv, PTL DEF Spec

\* Heartbeat rows have their workers, and nothing is left of a worker that
\* left in order, whatever handlers were under way.
THEOREM Invariance == Spec => []Inv
<1>1. IInv => Inv
  BY DEF IInv, RowsInv, Inv
<1>2. QED
  BY <1>1, Induction, PTL

\* A scan reports a worker whose connection held only when every beat it got
\* an answer to has run out by more than both thresholds.
THEOREM NoEarlyReport == Spec => NoFalseAlarm
<1> DEFINE Fair == \A w \in (failed' \ failed) \ broken :
                     clock - accepted[w] > Skew /\ clock - accepted[w] > Timeout
<1>1. IInv /\ [Next]_vars => [Fair]_vars
  <2> SUFFICES ASSUME IInv, [Next]_vars, NEW w \in (failed' \ failed) \ broken
               PROVE  clock - accepted[w] > Skew /\ clock - accepted[w] > Timeout
    OBVIOUS
  <2>1. failed' = failed \cup Overdue
    BY DEF Next, Handle, vars, Tick, Scan, Sigterm, CoordinatorCrash, CoordinatorRestart,
           Beat, Leave, Die, Exit, Cut, HeartbeatGet, HeartbeatRegister, HeartbeatPut,
           HeartbeatError
  <2>2. w \in Worker /\ due[w] # NoRow /\ IsFailed(due[w])
    BY <2>1 DEF Overdue
  <2>3. accepted[w] <= due[w]
    BY <2>2 DEF IInv, TimeInv, InOrder
  <2>4. clock \in Nat /\ accepted[w] \in Nat /\ due[w] \in Nat
    BY <2>2, Types DEF IInv
  <2>5. QED
    BY <2>2, <2>3, <2>4, WorkerRegistryAssumption DEF IsFailed
<1>2. QED
  BY <1>1, Induction, PTL DEF Spec, NoFalseAlarm
=============================================================================
