------------------------------- MODULE Snapshots -------------------------------
(***************************************************************************)
(* TrainState snapshots (crates/rollout-snapshots/src): save, restore and  *)
(* prune over the object store, which holds the tar, and the storage,      *)
(* which holds one row per run and content id.  The blob is put before the *)
(* row is committed; a prune deletes rows only, one transaction each, from *)
(* the list it scanned.                                                    *)
(*                                                                         *)
(* One run is modelled: rows of other runs have other keys and no          *)
(* operation here touches them.                                            *)
(***************************************************************************)
EXTENDS ObjectStore

CONSTANTS Order,    \* the tars, and the order of their ids in storage
          Policies, \* RetentionPolicy values: [last, labeled, age]
          NoAge,    \* max_age = None
          MaxClock  \* bound on the clock

ASSUME SnapshotsAssumption ==
  /\ DOMAIN Order \subseteq Blob /\ \A b \in DOMAIN Order : Order[b] \in Nat
  /\ \A p \in Policies : p.last \in Nat /\ p.labeled \in BOOLEAN
                           /\ p.age \in Nat \cup {NoAge}
  /\ NoAge \notin Nat
  /\ MaxClock \in Nat

VARIABLES clock,
          rows,  \* the snapshot rows of the run
          job    \* the operation each task is in

snapVars == <<clock, rows, job>>

NoRow == [at |-> -1, labeled |-> FALSE]
NoJob == [pc |-> "idle", blob |-> NoBlob, row |-> NoRow, todo |-> {}, got |-> "none"]
Listed == {b \in Blob : rows[b] # NoRow}

SnapTypeOK ==
  /\ OSTypeOK
  /\ clock \in 0..MaxClock
  /\ rows \in [Blob -> [at : -1..MaxClock, labeled : BOOLEAN]]
  /\ job \in [Task -> [pc : {"idle", "stream", "put", "commit", "get", "restored",
                             "prune"},
                       blob : Blob \cup {NoBlob},
                       row : [at : -1..MaxClock, labeled : BOOLEAN],
                       todo : SUBSET Blob, got : Content]]

\* Earlier processes have saved some tars.
SnapInit(saved) ==
  /\ OSInit(saved)
  /\ clock = 0
  /\ rows = [b \in Blob |-> IF b \in saved THEN [NoRow EXCEPT !.at = 0] ELSE NoRow]
  /\ job = [t \in Task |-> NoJob]

Tick ==
  /\ clock < MaxClock
  /\ clock' = clock + 1
  /\ UNCHANGED <<osVars, rows, job>>

Idle(t) == job[t].pc = "idle"
SetJob(t, j) == job' = [job EXCEPT ![t] = j]

-----------------------------------------------------------------------------
(* save_train_state.                                                       *)

\* The tar of the directory is built and put.
Save(t, b, labeled) ==
  /\ Idle(t)
  /\ PutBytes(t, b)
  /\ SetJob(t, [NoJob EXCEPT !.pc = "put", !.blob = b, !.row = [NoRow EXCEPT !.labeled = labeled]])
  /\ UNCHANGED <<clock, rows>>

\* Slip: the error of the put is not looked at.
StampBlind(t) ==
  /\ job[t].pc = "put"
  /\ Return(t)
  /\ SetJob(t, [job[t] EXCEPT !.pc = "commit", !.row.at = clock])
  /\ UNCHANGED <<clock, rows>>

\* The row's created_at is read from the clock once the blob is stored; an
\* error of the put ends the save.
Stamp(t) ==
  /\ job[t].pc = "put"
  /\ Return(t)
  /\ SetJob(t, IF put[t].pc = "err" THEN NoJob
               ELSE [job[t] EXCEPT !.pc = "commit", !.row.at = clock])
  /\ UNCHANGED <<clock, rows>>

\* The row replaces one of the same run and content.
CommitRow(t) ==
  /\ job[t].pc = "commit"
  /\ rows' = [rows EXCEPT ![job[t].blob] = job[t].row]
  /\ SetJob(t, NoJob)
  /\ UNCHANGED <<osVars, clock>>

\* Another user of the store streams a blob into it.
Stream(t, b) ==
  /\ Idle(t)
  /\ PutStream(t, b)
  /\ SetJob(t, [NoJob EXCEPT !.pc = "stream"])
  /\ UNCHANGED <<clock, rows>>

StreamDone(t) ==
  /\ job[t].pc = "stream"
  /\ Return(t)
  /\ SetJob(t, NoJob)
  /\ UNCHANGED <<clock, rows>>

-----------------------------------------------------------------------------
(* restore_train_state of a row that was listed.                           *)

Restore(t, b) ==
  /\ Idle(t)
  /\ b \in Listed
  /\ SetJob(t, [NoJob EXCEPT !.pc = "get", !.blob = b])
  /\ UNCHANGED <<osVars, clock, rows>>

\* The hash of what was fetched is the part's content id.
Verified(content) == content = "whole"

\* get_bytes, the comparison of the hash, and the extraction.
Extract(t) ==
  /\ job[t].pc = "get"
  /\ SetJob(t, IF Verified(final[job[t].blob])
               THEN [job[t] EXCEPT !.pc = "restored", !.got = final[job[t].blob]]
               ELSE NoJob)
  /\ UNCHANGED <<osVars, clock, rows>>

Restored(t) ==
  /\ job[t].pc = "restored"
  /\ SetJob(t, NoJob)
  /\ UNCHANGED <<osVars, clock, rows>>

-----------------------------------------------------------------------------
(* apply_prune.                                                            *)

\* b comes before c: newer, or of the same instant and earlier in the scan.
Before(b, c) ==
  \/ rows[b].at > rows[c].at
  \/ rows[b].at = rows[c].at /\ Order[b] < Order[c]

Index(b) == Cardinality({c \in Listed : Before(c, b)})

\* Slip: one row too few is kept.
RecentShort(b, p) == Index(b) + 1 < p.last

Recent(b, p) == Index(b) < p.last

Kept(b, p) ==
  \/ Recent(b, p)
  \/ p.labeled /\ rows[b].labeled
  \/ p.age # NoAge /\ clock - rows[b].at < p.age

\* The scan, and the clock.
Prune(t, p) ==
  /\ Idle(t)
  /\ SetJob(t, [NoJob EXCEPT !.pc = "prune", !.todo = {b \in Listed : ~Kept(b, p)}])
  /\ UNCHANGED <<osVars, clock, rows>>

\* One row is deleted, whatever it holds by now.  (The order is left open.)
PruneRow(t) ==
  /\ job[t].pc = "prune"
  /\ \E b \in job[t].todo :
       /\ rows' = [rows EXCEPT ![b] = NoRow]
       /\ SetJob(t, [job[t] EXCEPT !.todo = @ \ {b}])
  /\ UNCHANGED <<osVars, clock>>

Pruned(t) ==
  /\ job[t].pc = "prune"
  /\ job[t].todo = {}
  /\ SetJob(t, NoJob)
  /\ UNCHANGED <<osVars, clock, rows>>

-----------------------------------------------------------------------------
\* A storage transaction or a fetch fails and ends the operation.
StorageError(t) ==
  /\ job[t].pc \in {"commit", "get", "prune"}
  /\ Fault
  /\ SetJob(t, NoJob)
  /\ UNCHANGED <<store, final, tmp, put, uploads, aborting, leaked, shared, clock, rows>>

Crash ==
  /\ OSCrash
  /\ job' = [t \in Task |-> NoJob]
  /\ UNCHANGED <<clock, rows>>

\* `rollout snapshot prune`, the one caller of prune, opens the storage first,
\* which one process at a time can do: no two prunes overlap.
PruneAlone(t, p) ==
  /\ \A u \in Task : job[u].pc # "prune"
  /\ Prune(t, p)

Store == \/ \E t \in Task : PutStep(t)
         \/ Abort

SnapNext ==
  \/ Tick
  \/ Store /\ UNCHANGED snapVars
  \/ \E t \in Task :
       \/ \E b \in DOMAIN Order : (\E l \in BOOLEAN : Save(t, b, l)) \/ Stream(t, b) \/ Restore(t, b)
       \/ \E p \in Policies : PruneAlone(t, p)
       \/ Stamp(t) \/ CommitRow(t) \/ StreamDone(t)
       \/ Extract(t) \/ Restored(t)
       \/ PruneRow(t) \/ Pruned(t)
       \/ StorageError(t)
  \/ Crash

-----------------------------------------------------------------------------
(* Properties.                                                             *)

\* A row is committed only once its tar is in the store and no operation takes
\* the tar away, whatever fails in between: what is listed is there.
\* (It may be torn where puts of the same tar overlap; Verified finds that out.)
RowHasBlob == \A b \in Listed : final[b] # "none"

\* docs/book/src/training/snapshots.md, keep_last: once a run has a snapshot, a
\* prune that keeps at least one never leaves it without any, although saves of
\* new and of already known content come between the scan and the deletions.
\* (The row of a snapshot that is saved again meanwhile may still go.)
NeverEmptied == [][Listed # {} => Listed' # {}]_snapVars
=============================================================================
