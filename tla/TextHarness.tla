------------------------------ MODULE TextHarness ------------------------------
(***************************************************************************)
(* TextCompletionEnv (crates/rollout-harness-text/src) on top of the       *)
(* plugin host, which it asks for the reward of every step.                *)
(*                                                                         *)
(* The episodes are in a map of their own with a lock of its own, held for *)
(* one access at a time.  A step takes its batch entry by entry: the       *)
(* episode's turn is counted first, then the reward is awaited, and an     *)
(* error of the reward ends the whole batch.                               *)
(*                                                                         *)
(* Several tasks step, close episodes, and load, reload and unload plugins *)
(* at once; any of them may be dropped at an await.                        *)
(***************************************************************************)
EXTENDS PluginHost

CONSTANTS Episodes,   \* prompts of the reset, and so episodes
          MaxTurns,   \* settings.max_turns
          MaxBatch,   \* bound: entries of a batch
          NoPlugin,   \* reward_handle = None: the echo reward
          NoEnv       \* there is no environment yet

ASSUME TextHarnessAssumption ==
  /\ Episodes \in Nat /\ MaxTurns \in Nat /\ MaxBatch \in Nat
  /\ NoPlugin \notin Id /\ NoEnv \notin Id /\ NoPlugin # NoEnv

\* EpisodeIds are fresh ULIDs that are never used again.
Episode == 1 .. Episodes

VARIABLES reward,  \* where the environment gets its rewards from
          turn,    \* turns counted so far, by episode
          life,    \* is the episode in the store?
          step,    \* the step each task is in
          given,   \* turns whose result a caller has had (0: an error entry)
          lost     \* turns counted whose result nobody gets

textVars == <<reward, turn, life, step, given, lost>>
vars == <<hostVars, textVars>>

\* A batch, what is left of it, the results so far, the turn whose reward is
\* awaited, the number of the first request, and the episodes that had been
\* reported done before it began.
NoStep == [batch |-> <<>>, out |-> <<>>, turn |-> 0, tag |-> 0, over |-> {}]
Batch == UNION {[1 .. n -> Episode] : n \in 1 .. MaxBatch}

TypeOK ==
  /\ HostTypeOK
  /\ reward \in Id \cup {NoPlugin, NoEnv}
  /\ turn \in [Episode -> Nat]
  /\ life \in [Episode -> {"unborn", "live", "closed"}]
  /\ step \in [Task -> [batch : Seq(Episode), out : Seq(Episode \X Nat), turn : Nat,
                        tag : Nat, over : SUBSET Episode]]
  /\ given \in [Episode -> SUBSET Nat] /\ lost \in [Episode -> SUBSET Nat]

Init ==
  /\ HostInit
  /\ reward = NoEnv
  /\ turn = [e \in Episode |-> 0]
  /\ life = [e \in Episode |-> "unborn"]
  /\ step = [t \in Task |-> NoStep]
  /\ given = [e \in Episode |-> {}] /\ lost = [e \in Episode |-> {}]

-----------------------------------------------------------------------------
Stepping(t) == step[t] # NoStep
\* Tasks without work are all alike; the first of them comes next.
Free(t) == LET idle(u) == At(u, "idle") /\ ~Stepping(u)
           IN idle(t) /\ \A u \in 1 .. t - 1 : ~idle(u)

\* Slip: a step past the last turn goes on.
DoneAtLast(n) == n = 0 \/ n = MaxTurns

\* `done` of a result: an error entry, or the budget is used up.
Done(n) == n = 0 \/ n >= MaxTurns
\* The episodes whose callers have been told that they are done.
Over == {e \in Episode : \E n \in given[e] : Done(n)}

\* The turns of e in a sequence of results.
TurnsIn(out, e) == {out[j][2] : j \in {k \in DOMAIN out : out[k][1] = e}}
\* The turns a step has counted for e.
Counted(s, e) ==
  (TurnsIn(s.out, e) \ {0}) \cup
  (IF s.turn # 0 /\ s.batch[Len(s.out) + 1] = e THEN {s.turn} ELSE {})

\* The environment is made, by from_settings or by with_reward_plugin with a
\* handle that a load returned, and reset: one episode per prompt, which nobody
\* knows before.  Neither touches the host, nor do the steps of an environment
\* without a reward plugin: such an environment is considered by itself.
Reset ==
  IF reward # NoEnv THEN UNCHANGED <<reward, life>>
  ELSE /\ reward' \in known \cup (IF ops = 0 THEN {NoPlugin} ELSE {})
       /\ life' = [e \in Episode |-> "live"]

\* close removes one episode after the other, whoever is stepping them.  (The
\* episodes are numbered so that the last one is closed first.)
Close(e) ==
  /\ life[e] = "live"
  /\ \A f \in e + 1 .. Episodes : life[f] = "closed"
  /\ life' = [life EXCEPT ![e] = "closed"]
  /\ UNCHANGED <<hostVars, reward, turn, step, given, lost>>

-----------------------------------------------------------------------------
(* step.                                                                   *)

\* A batch may name an episode twice, and one that was closed.
Step(t, b) ==
  /\ Free(t)
  /\ Reset
  /\ ops + Len(b) <= MaxOps
  /\ ops' = ops + Len(b)
  /\ step' = [step EXCEPT ![t] = [NoStep EXCEPT !.batch = b, !.tag = ops + 1, !.over = Over]]
  /\ UNCHANGED <<lock, handles, proc, path, wire, task, spawned, faults, known, overlap>>
  /\ UNCHANGED <<turn, given, lost>>

\* A result is pushed; the last of the batch returns them all.
Push(t, e, n) ==
  LET s == step[t]
      out == Append(s.out, <<e, n>>)
  IN IF Len(out) < Len(s.batch)
     THEN /\ step' = [step EXCEPT ![t].out = out, ![t].turn = 0]
          /\ UNCHANGED <<given, lost>>
     ELSE /\ step' = [step EXCEPT ![t] = NoStep]
          /\ given' = [f \in Episode |-> given[f] \cup TurnsIn(out, f)]
          /\ UNCHANGED lost

\* An error ends the batch: the results so far go with it.
Fail(t) ==
  /\ lost' = [e \in Episode |-> lost[e] \cup Counted(step[t], e)]
  /\ step' = [step EXCEPT ![t] = NoStep]
  /\ UNCHANGED given

\* Slip: the turn is counted in a copy of the episode's state.
CountInCopy(e) == UNCHANGED turn

\* with_episode counts the turn in the store, under the store's lock.
Count(e) == turn' = [turn EXCEPT ![e] = @ + 1]

\* with_episode of the next entry, and what follows up to the next await: the
\* error entry of an episode that is not there, the echo reward, or the call.
Entry(t) ==
  LET s == step[t]
      e == s.batch[Len(s.out) + 1]
  IN /\ Stepping(t) /\ s.turn = 0
     /\ IF life[e] # "live"
        THEN Push(t, e, 0) /\ UNCHANGED <<turn, task>>
        ELSE /\ Count(e)
             /\ IF reward = NoPlugin
                THEN Push(t, e, turn[e] + 1) /\ UNCHANGED task
                ELSE /\ step' = [step EXCEPT ![t].turn = turn[e] + 1]
                     /\ Enter(t, "call", reward, s.tag + Len(s.out))
                     /\ UNCHANGED <<given, lost>>
     /\ UNCHANGED <<lock, handles, proc, path, wire, spawned, ops, faults, known, overlap>>
     /\ UNCHANGED <<reward, life>>

\* Bytes that came back may not decode to a Reward.
Scored(t) ==
  LET s == step[t]
  IN /\ Push(t, s.batch[Len(s.out) + 1], s.turn) \/ Fail(t)
     /\ UNCHANGED <<reward, turn, life>>

\* The call of the host returns, and the step goes on or ends.
Called(t) ==
  /\ Stepping(t)
  /\ \/ Answered(t) /\ Scored(t)
     \/ Broken(t) /\ Fail(t) /\ UNCHANGED <<reward, turn, life>>

\* Likewise where the lock is needed for it: a cdylib is called in place.
CalledInPlace(t) ==
  /\ Stepping(t)
  /\ OnTheSpot(t)
  /\ IF Mode(reward) = "cdylib" /\ My(t) # NoHandle
     THEN Scored(t) ELSE Fail(t) /\ UNCHANGED <<reward, turn, life>>

\* The task of a step is dropped while it awaits the reward.
StepDropped(t) ==
  /\ Stepping(t)
  /\ Dropped(t)
  /\ Fail(t)
  /\ UNCHANGED <<reward, turn, life>>

\* ... or while it awaits the lock of the episodes, between two entries.
StoreDropped(t) ==
  /\ Stepping(t)
  /\ step[t].turn = 0
  /\ faults < MaxFaults
  /\ faults' = faults + 1
  /\ Fail(t)
  /\ UNCHANGED <<lock, handles, proc, path, wire, task, spawned, ops, known, overlap>>
  /\ UNCHANGED <<reward, turn, life>>

-----------------------------------------------------------------------------
(* The other operations of the host.                                       *)

HostLocked(t) == Locked(t) \/ (~Stepping(t) /\ OnTheSpot(t))
HostOther(t) == HostStep(t) \/ (~Stepping(t) /\ (Answered(t) \/ Broken(t)))

Host ==
  \/ \E t \in Task :
       \/ /\ Free(t)
          /\ \E i \in Id : Load(t, i) \/ \E op \in {"reload", "unload"} : Begin(t, op, i)
       \/ HostLocked(t) \/ HostOther(t)
       \/ ~Stepping(t) /\ Dropped(t)
  \/ \E k \in Spawn : Plugin(k) \/ Terminate(k) \/ CrashPlugin(k)

Next ==
  \/ reward # NoPlugin /\ Host /\ UNCHANGED textVars
  \/ \E e \in Episode : Close(e)
  \/ \E t \in Task :
       \/ \E b \in Batch : Step(t, b)
       \/ Entry(t) \/ Called(t) \/ CalledInPlace(t) \/ StepDropped(t) \/ StoreDropped(t)

Spec == Init /\ [][Next]_vars

\* Tasks that can go on do, a plugin serves what it is asked, and the host's
\* lock is tokio's, which serves those who wait for it in order.
Fairness ==
  /\ \A t \in Task :
       /\ SF_vars((HostLocked(t) /\ UNCHANGED textVars) \/ CalledInPlace(t))
       /\ WF_vars((HostOther(t) /\ UNCHANGED textVars) \/ Entry(t) \/ Called(t))
  /\ \A k \in Spawn : WF_vars(Plugin(k) /\ UNCHANGED textVars)

FairSpec == Spec /\ Fairness

-----------------------------------------------------------------------------
(* Properties.                                                             *)

\* The state is well-formed, no child process is left behind, and a task asks
\* the host for a reward exactly while its step awaits one.
Inv ==
  /\ TypeOK
  /\ NoOrphans
  /\ \A t \in Task : (task[t].op = "call" /\ ~At(t, "idle")) <=> step[t].turn # 0

\* Whoever steps or closes an episode at the same time, a turn is counted for
\* one step only: no turn is reported twice, by two steps or by one after the
\* other, and one that went with a failed batch is not reported later.  An
\* episode that lost none to a failed or dropped batch has all its turns
\* reported or on their way.  (A reward that fails does take the turns of the
\* batch's other episodes with it, against 07-harnesses.md:289 "other episodes
\* in batch unaffected": lib.rs:175-178 returns before they are.)
TurnsAreReportedOnce ==
  \A e \in Episode :
    LET past == given[e] \ {0}
        held(t) == Counted(step[t], e)
    IN /\ past \cap lost[e] = {}
       /\ \A t \in Task : held(t) \cap (past \cup lost[e]) = {}
       /\ \A t, u \in Task : t # u => held(t) \cap held(u) = {}
       /\ lost[e] = {} => \A n \in 1 .. turn[e] : n \in past \/ \E t \in Task : n \in held(t)

\* lib.rs:35 "`done` once turn reaches it": a step begun after an episode was
\* reported done never reports it as going on, although stepping past the end
\* is not refused.
DoneIsFinal ==
  [][\A t \in Task : Stepping(t) /\ step'[t] = NoStep =>
       \A e \in step[t].over : \A n \in given'[e] \ given[e] : Done(n)]_vars

\* Every step and every operation of the host comes back, although all of them
\* wait for one lock that is held over calls to other processes: unless two
\* spawns of one name were under way together, when a caller may wait for a
\* process that is busy with another connection.  It rests on plugins that
\* answer: the read of an answer has no timeout (sidecar.rs:101).
EveryStepReturns ==
  \A t \in Task : (Stepping(t) \/ ~At(t, "idle")) ~> ((~Stepping(t) /\ At(t, "idle")) \/ overlap)
=============================================================================
