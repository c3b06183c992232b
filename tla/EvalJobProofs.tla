---------------------------- MODULE EvalJobProofs ----------------------------
(***************************************************************************)
(* Proofs about ObjectStore, Snapshots and EvalJob, for any tasks, blobs,  *)
(* chunk sizes, stores, datasets, runs and faults.                         *)
(*                                                                         *)
(* The invariant has a part for each module.  For the object store: a put  *)
(* that is past its check or its rename has the blob in place (Settled),   *)
(* one that shares <id>.tmp with nobody renames a whole file (AloneAtTmp), *)
(* and a stream that is through was sent to its last unit (SentIsWhole).   *)
(* For the snapshots: a save is at the blob it puts, and the blob of a row *)
(* that is about to be committed is stored (JobsInStep).  For the          *)
(* evaluations: runs are not shared, what a report will say of the         *)
(* examples so far is what the items say, and a snapshot that it names has *)
(* its tar (EvalsInStep).                                                  *)
(* That prunes empty no run needs more: one prune works at a time, and     *)
(* while it has rows to delete another row is listed (PruneInv).           *)
(***************************************************************************)
EXTENDS EvalJob, FiniteSetTheorems, WellFoundedInduction, TLAPS

PutPCs == {"idle", "check", "open", "write", "rename", "meta", "send", "create", "fill",
           "commit", "copy", "delete", "place", "move", "ok", "err"}
Places == {"none", "tmp", "final", "lost"}
PutRec == [pc : PutPCs, blob : Blob \cup {NoBlob}, at : Places, sent : Nat, filled : Nat]

\* A put under way has a blob.
PutsHaveBlob == \A t \in Task : put[t].pc # "idle" => put[t].blob \in Blob

\* A put that has only to finish has its blob in place.
Settled ==
  \A t \in Task : put[t].pc \in {"ok", "meta", "delete"} => final[put[t].blob] # "none"

\* A put that shares its <id>.tmp with nobody writes that file, and then it is
\* whole.
Alone(t) ==
  /\ \A u \in Task : put[u].pc \in {"write", "rename"} /\ put[u].blob = put[t].blob => u = t
  /\ put[t].pc = "write" => put[t].at = "tmp"
  /\ put[t].pc = "rename" => tmp[put[t].blob] = "whole"

AloneAtTmp ==
  \A t \in Task : put[t].pc \in {"write", "rename"} /\ put[t].blob \notin shared => Alone(t)

\* A stream that has come to its end was sent as a whole.
SentIsWhole ==
  \A t \in Task : put[t].pc \in {"place", "move", "commit", "copy"} =>
    put[t].sent = Len[put[t].blob]

OSInv ==
  /\ OSTypeOK /\ PutsHaveBlob /\ Settled /\ TornOnlyIfShared /\ AloneAtTmp
  /\ SentIsWhole /\ UploadsAreOwned

-----------------------------------------------------------------------------
(* The object store: what its steps do, one put at a time.                 *)

LEMMA OSTypes ==
  OSTypeOK <=>
    /\ store \in {"fs", "s3", "gcs"}
    /\ final \in [Blob -> Content] /\ tmp \in [Blob -> Content]
    /\ put \in [Task -> PutRec]
    /\ uploads \in Nat /\ aborting \in Nat /\ leaked \in Nat
    /\ shared \in SUBSET Blob /\ faults \in 0..MaxFaults
  BY DEF OSTypeOK, PutRec, PutPCs, Places

LEMMA OSTypesNext ==
  ASSUME store' \in {"fs", "s3", "gcs"},
         final' \in [Blob -> Content], tmp' \in [Blob -> Content],
         put' \in [Task -> PutRec],
         uploads' \in Nat, aborting' \in Nat, leaked' \in Nat,
         shared' \in SUBSET Blob, faults' \in 0..MaxFaults
  PROVE  OSTypeOK'
  BY DEF OSTypeOK, PutRec, PutPCs, Places

LEMMA FaultDoes ==
  ASSUME OSTypeOK, Fault
  PROVE  faults' \in 0..MaxFaults
  BY ObjectStoreAssumption DEF OSTypeOK, Fault

\* The put of task t is at pc now, its file at a, with n units sent.
PutIs(t, pc, b, a, n) ==
  /\ put' \in [Task -> PutRec]
  /\ put'[t].pc = pc /\ put'[t].blob = b /\ put'[t].at = a /\ put'[t].sent = n
  /\ \A u \in Task : u # t => put'[u] = put[u]

Moves(t, pc) == PutIs(t, pc, put[t].blob, put[t].at, put[t].sent)

LEMMA PutOf ==
  ASSUME OSTypeOK, NEW t \in Task, NEW p \in PutRec, put' = [put EXCEPT ![t] = p]
  PROVE  PutIs(t, p.pc, p.blob, p.at, p.sent)
<1>1. put \in [Task -> PutRec]
  BY OSTypes
<1>2. QED
  BY <1>1 DEF PutIs

LEMMA GotoDoes ==
  ASSUME OSTypeOK, NEW t \in Task, NEW pc \in PutPCs, Goto(t, pc)
  PROVE  Moves(t, pc)
<1> DEFINE p == [put[t] EXCEPT !.pc = pc]
<1>1. put[t] \in PutRec
  BY OSTypes
<1>2. /\ p \in PutRec /\ p.pc = pc /\ p.blob = put[t].blob /\ p.at = put[t].at
      /\ p.sent = put[t].sent
  BY <1>1 DEF PutRec
<1>3. put' = [put EXCEPT ![t] = p]
  BY DEF Goto
<1> HIDE DEF p
<1>4. QED
  BY <1>2, <1>3, PutOf DEF Moves

LEMMA NoPutType ==
  /\ NoPut \in PutRec /\ NoPut.pc = "idle" /\ NoPut.blob = NoBlob
  /\ NoPut.at = "none" /\ NoPut.sent = 0
  BY DEF NoPut, PutRec, PutPCs, Places

LEMMA BeginDoes ==
  ASSUME OSTypeOK, NEW t \in Task, NEW b \in Blob, NEW pc \in PutPCs,
         put' = [put EXCEPT ![t] = [NoPut EXCEPT !.pc = pc, !.blob = b]]
  PROVE  PutIs(t, pc, b, "none", 0)
<1> DEFINE p == [NoPut EXCEPT !.pc = pc, !.blob = b]
<1>1. p \in PutRec /\ p.pc = pc /\ p.blob = b /\ p.at = "none" /\ p.sent = 0
  BY DEF NoPut, PutRec, Places
<1>2. put' = [put EXCEPT ![t] = p]
  OBVIOUS
<1> HIDE DEF p
<1>3. QED
  BY <1>1, <1>2, PutOf

LEMMA PutBytesDoes ==
  ASSUME OSTypeOK, NEW t \in Task, NEW b \in Blob, PutBytes(t, b)
  PROVE  /\ put[t].pc = "idle"
         /\ \E pc \in {"check", "send"} : PutIs(t, pc, b, "none", 0)
         /\ UNCHANGED <<store, final, tmp, uploads, aborting, leaked, shared, faults>>
<1>1. \E pc \in {"check", "send"} :
        put' = [put EXCEPT ![t] = [NoPut EXCEPT !.pc = pc, !.blob = b]]
  BY DEF PutBytes
<1>2. QED
  BY <1>1, BeginDoes DEF PutBytes, PutPCs

LEMMA PutStreamDoes ==
  ASSUME OSTypeOK, NEW t \in Task, NEW b \in Blob, PutStream(t, b)
  PROVE  /\ put[t].pc = "idle" /\ PutIs(t, "create", b, "none", 0)
         /\ UNCHANGED <<store, final, tmp, uploads, aborting, leaked, shared, faults>>
<1>1. put' = [put EXCEPT ![t] = [NoPut EXCEPT !.pc = "create", !.blob = b]]
  BY DEF PutStream
<1>2. QED
  BY <1>1, BeginDoes DEF PutStream, PutPCs

LEMMA ReturnDoes ==
  ASSUME OSTypeOK, NEW t \in Task, Return(t)
  PROVE  /\ put[t].pc \in {"ok", "err"} /\ PutIs(t, "idle", NoBlob, "none", 0)
         /\ UNCHANGED <<store, final, tmp, uploads, aborting, leaked, shared, faults>>
<1>1. PutIs(t, NoPut.pc, NoPut.blob, NoPut.at, NoPut.sent)
  BY NoPutType, PutOf DEF Return
<1>2. QED
  BY <1>1, NoPutType DEF Return

LEMMA OpenDoes ==
  ASSUME OSTypeOK, PutsHaveBlob, NEW t \in Task, Open(t)
  PROVE  /\ put[t].pc = "open" /\ put[t].blob \in Blob
         /\ PutIs(t, "write", put[t].blob, "tmp", put[t].sent)
         /\ tmp' \in [Blob -> Content]
         /\ \A b \in Blob : tmp'[b] = IF b = put[t].blob THEN "torn" ELSE tmp[b]
         /\ shared' = IF InUse(t) THEN shared \cup {put[t].blob} ELSE shared
         /\ UNCHANGED <<store, final, uploads, aborting, leaked, faults>>
<1>1. put[t] \in PutRec /\ tmp \in [Blob -> Content]
  BY OSTypes
<1> DEFINE p == [put[t] EXCEPT !.pc = "write", !.at = "tmp"]
<1>2. /\ p \in PutRec /\ p.pc = "write" /\ p.blob = put[t].blob /\ p.at = "tmp"
      /\ p.sent = put[t].sent
  BY <1>1 DEF PutRec, PutPCs, Places
<1>3. put' = [put EXCEPT ![t] = p]
  BY <1>1, OSTypes DEF Open, PutRec
<1> HIDE DEF p
<1>4. PutIs(t, "write", put[t].blob, "tmp", put[t].sent)
  BY <1>2, <1>3, PutOf
<1>5. QED
  BY <1>1, <1>4 DEF Open, PutsHaveBlob, Content

LEMMA ReadDoes ==
  ASSUME OSTypeOK, NEW t \in Task, Read(t)
  PROVE  /\ put[t].pc = "fill" /\ \E n \in Nat : PutIs(t, "fill", put[t].blob, put[t].at, n)
         /\ UNCHANGED <<store, final, tmp, uploads, aborting, leaked, shared, faults>>
<1>1. put[t] \in PutRec /\ put[t].pc = "fill"
  BY OSTypes DEF Read
<1>2. PICK n \in 1 .. (Chunk - put[t].filled) : put' = [put EXCEPT ![t] = Buffered(put[t], n)]
  BY DEF Read
<1>3. n \in Nat
  OBVIOUS
<1>4. /\ Buffered(put[t], n) \in PutRec /\ Buffered(put[t], n).pc = "fill"
      /\ Buffered(put[t], n).blob = put[t].blob /\ Buffered(put[t], n).at = put[t].at
      /\ Buffered(put[t], n).sent \in Nat
  <2> DEFINE p == put[t]  s == p.sent + p.filled + n  f == p.filled + n
  <2>1. s \in Nat /\ f \in Nat
    BY <1>1, <1>3 DEF PutRec
  <2> HIDE DEF s, f
  <2>2. \/ Buffered(p, n) = [p EXCEPT !.sent = s, !.filled = 0]
        \/ Buffered(p, n) = [p EXCEPT !.filled = f]
    BY DEF Buffered, s, f
  <2> DEFINE q == [p EXCEPT !.sent = s, !.filled = 0]
  <2>3. CASE Buffered(p, n) = q
    <3>1. q \in PutRec /\ q.pc = p.pc /\ q.blob = p.blob /\ q.at = p.at /\ q.sent = s
      BY <1>1, <2>1 DEF PutRec
    <3>2. QED
      BY ONLY <1>1, <2>1, <2>3, <3>1
  <2>4. CASE Buffered(p, n) = [p EXCEPT !.filled = f]
    BY <1>1, <2>1, <2>4 DEF PutRec
  <2>5. QED
    BY <2>2, <2>3, <2>4
<1>5. QED
  BY <1>1, <1>2, <1>4, PutOf DEF Read

LEMMA EofDoes ==
  ASSUME OSTypeOK, NEW t \in Task, Eof(t)
  PROVE  /\ put[t].pc = "fill"
         /\ \/ store = "fs" /\ PutIs(t, "place", put[t].blob, put[t].at, Len[put[t].blob])
            \/ store # "fs" /\ PutIs(t, "commit", put[t].blob, put[t].at, Len[put[t].blob])
         /\ UNCHANGED <<store, final, tmp, uploads, aborting, leaked, shared, faults>>
<1>1. put[t] \in PutRec /\ put \in [Task -> PutRec]
  BY OSTypes
<1> DEFINE pc == IF store = "fs" THEN "place" ELSE "commit"
           n == put[t].sent + put[t].filled
           p == [put[t] EXCEPT !.pc = pc, !.sent = n, !.filled = 0]
<1>2. put' = [put EXCEPT ![t] = p]
  BY <1>1 DEF Eof, PutRec
<1>0. n \in Nat
  BY <1>1 DEF PutRec
<1> HIDE DEF n
<1>3. /\ p \in PutRec /\ p.pc = pc /\ p.blob = put[t].blob /\ p.at = put[t].at
      /\ p.sent = n
  BY <1>0, <1>1 DEF PutRec, PutPCs
<1> HIDE DEF p
<1>4. PutIs(t, pc, put[t].blob, put[t].at, n)
  BY <1>2, <1>3, PutOf
<1>5. QED
  BY <1>4 DEF Eof, n

LEMMA WriteDoes ==
  ASSUME OSTypeOK, PutsHaveBlob, NEW t \in Task, Write(t)
  PROVE  /\ put[t].pc = "write" /\ put[t].blob \in Blob /\ Moves(t, "rename")
         /\ tmp' \in [Blob -> Content] /\ final' \in [Blob -> Content]
         /\ \A b \in Blob :
              /\ tmp'[b] = IF b = put[t].blob /\ put[t].at = "tmp" THEN "whole" ELSE tmp[b]
              /\ final'[b] = IF b = put[t].blob /\ put[t].at = "final" THEN "whole" ELSE final[b]
         /\ UNCHANGED <<store, uploads, aborting, leaked, shared, faults>>
<1>1. tmp \in [Blob -> Content] /\ final \in [Blob -> Content]
  BY OSTypes
<1>2. put[t].pc = "write" /\ put[t].blob \in Blob /\ Moves(t, "rename")
  BY GotoDoes DEF Write, PutsHaveBlob, PutPCs
<1>3. QED
  BY <1>1, <1>2 DEF Write, Content

\* Another file took the place of blob b; the put of task t goes on to pc.
Replaces(t, b, a, pc) ==
  /\ put' \in [Task -> PutRec]
  /\ put'[t].pc = pc
  /\ \A u \in Task :
       /\ u # t => put'[u].pc = put[u].pc
       /\ put'[u].blob = put[u].blob /\ put'[u].sent = put[u].sent
       /\ put[u].blob # b => put'[u].at = put[u].at
       /\ put[u].blob = b /\ put[u].at = "tmp" => put'[u].at = a

LEMMA ReplacedDoes ==
  ASSUME OSTypeOK, NEW t \in Task, NEW b \in Blob, NEW a \in {"tmp", "final"},
         NEW pc \in {"meta", "ok"}, put' = [Replaced(b, a) EXCEPT ![t].pc = pc]
  PROVE  Replaces(t, b, a, pc)
<1> DEFINE q(u) == IF put[u].blob # b THEN put[u]
                   ELSE [put[u] EXCEPT !.at = IF @ = "tmp" THEN a
                                              ELSE IF @ = "final" THEN "lost" ELSE @]
<1>1. \A u \in Task : put[u] \in PutRec
  BY OSTypes
<1>2. \A u \in Task :
        /\ q(u) \in PutRec /\ q(u).pc = put[u].pc
        /\ q(u).blob = put[u].blob /\ q(u).sent = put[u].sent
        /\ put[u].blob # b => q(u).at = put[u].at
        /\ put[u].blob = b /\ put[u].at = "tmp" => q(u).at = a
  BY <1>1 DEF PutRec, Places
<1>3. Replaced(b, a) = [u \in Task |-> q(u)]
  BY DEF Replaced
<1> HIDE DEF q
<1> DEFINE p == [q(t) EXCEPT !.pc = pc]
<1>4. /\ p \in PutRec /\ p.pc = pc /\ p.blob = q(t).blob /\ p.sent = q(t).sent
      /\ p.at = q(t).at
  BY <1>2 DEF PutRec, PutPCs
<1>5. put' = [[u \in Task |-> q(u)] EXCEPT ![t] = p]
  <2>1. Replaced(b, a)[t] = q(t)
    BY <1>3
  <2>2. QED
    BY <1>3, <2>1
<1> HIDE DEF p
<1>6. \A u \in Task : put'[u] = IF u = t THEN p ELSE q(u)
  BY <1>5
<1>7. put' \in [Task -> PutRec]
  BY <1>2, <1>4, <1>5
<1>8. ASSUME NEW u \in Task
      PROVE  /\ u # t => put'[u].pc = put[u].pc
             /\ put'[u].blob = put[u].blob /\ put'[u].sent = put[u].sent
             /\ put'[u].at = q(u).at
  <2>1. CASE u = t
    BY <1>2, <1>4, <1>6, <2>1
  <2>2. CASE u # t
    BY <1>2, <1>6, <2>2
  <2>3. QED
    BY <2>1, <2>2
<1>9. put'[t].pc = pc
  BY <1>4, <1>6
<1>10. QED
  BY <1>2, <1>7, <1>8, <1>9 DEF Replaces

LEMMA RenameDoes ==
  ASSUME OSTypeOK, PutsHaveBlob, NEW t \in Task, Rename(t)
  PROVE  /\ put[t].pc = "rename" /\ put[t].blob \in Blob
         /\ \/ Moves(t, "err") /\ UNCHANGED <<final, tmp>>
            \/ /\ tmp[put[t].blob] # "none" /\ Replaces(t, put[t].blob, "final", "meta")
               /\ final' \in [Blob -> Content] /\ tmp' \in [Blob -> Content]
               /\ \A b \in Blob :
                    /\ final'[b] = IF b = put[t].blob THEN tmp[b] ELSE final[b]
                    /\ tmp'[b] = IF b = put[t].blob THEN "none" ELSE tmp[b]
         /\ UNCHANGED <<store, uploads, aborting, leaked, shared, faults>>
<1>1. /\ tmp \in [Blob -> Content] /\ final \in [Blob -> Content]
      /\ put[t].pc = "rename" /\ put[t].blob \in Blob
  BY OSTypes DEF Rename, PutsHaveBlob
<1>2. CASE tmp[put[t].blob] = "none"
  BY <1>1, <1>2, GotoDoes DEF Rename, PutPCs
<1>3. CASE tmp[put[t].blob] # "none"
  <2>1. put' = [Replaced(put[t].blob, "final") EXCEPT ![t].pc = "meta"]
    BY <1>3 DEF Rename
  <2>2. Replaces(t, put[t].blob, "final", "meta")
    BY <1>1, <2>1, ReplacedDoes
  <2>3. /\ final' = [final EXCEPT ![put[t].blob] = tmp[put[t].blob]]
        /\ tmp' = [tmp EXCEPT ![put[t].blob] = "none"]
        /\ UNCHANGED <<store, uploads, aborting, leaked, shared, faults>>
    BY <1>3 DEF Rename
  <2>4. QED
    BY <1>1, <1>3, <2>2, <2>3 DEF Content
<1>4. QED
  BY <1>2, <1>3

LEMMA MoveDoes ==
  ASSUME OSInv, NEW t \in Task, Move(t)
  PROVE  /\ put[t].pc = "move" /\ put[t].blob \in Blob
         /\ Replaces(t, put[t].blob, "tmp", "ok")
         /\ final' \in [Blob -> Content]
         /\ \A b \in Blob : final'[b] = IF b = put[t].blob THEN "whole" ELSE final[b]
         /\ UNCHANGED <<store, tmp, uploads, aborting, leaked, shared, faults>>
<1>1. /\ final \in [Blob -> Content] /\ put[t].pc = "move" /\ put[t].blob \in Blob
      /\ OSTypeOK
  BY OSTypes DEF OSInv, Move, PutsHaveBlob
<1>2. Sent(put[t]) = "whole"
  BY <1>1 DEF OSInv, SentIsWhole, Sent
<1>3. put' = [Replaced(put[t].blob, "tmp") EXCEPT ![t].pc = "ok"]
  BY DEF Move
<1>4. Replaces(t, put[t].blob, "tmp", "ok")
  BY <1>1, <1>3, ReplacedDoes
<1>5. final' = [final EXCEPT ![put[t].blob] = "whole"]
  BY <1>2 DEF Move
<1>6. QED
  BY <1>1, <1>4, <1>5 DEF Move, Content

\* The blob of task t is put in place as a whole.
Arrives(t) ==
  /\ final' \in [Blob -> Content]
  /\ \A b \in Blob : final'[b] = IF b = put[t].blob THEN "whole" ELSE final[b]

LEMMA ArriveDoes ==
  ASSUME OSTypeOK, NEW t \in Task, final' = [final EXCEPT ![put[t].blob] = "whole"]
  PROVE  Arrives(t)
<1>1. final \in [Blob -> Content]
  BY OSTypes
<1>2. QED
  BY <1>1 DEF Arrives, Content

\* The steps that only go on: nothing in the store changes.
LEMMA StayDoes ==
  ASSUME OSTypeOK, NEW t \in Task, Check(t) \/ Meta(t) \/ Place(t) \/ Delete(t)
  PROVE  /\ \/ put[t].pc = "check" /\ Moves(t, "open")
            \/ /\ put[t].pc = "check" /\ Moves(t, "meta") /\ final[put[t].blob] # "none"
            \/ put[t].pc = "meta" /\ Moves(t, "ok")
            \/ put[t].pc = "place" /\ Moves(t, "move")
            \/ /\ put[t].pc = "place" /\ Moves(t, "ok") /\ final[put[t].blob] # "none"
            \/ put[t].pc = "delete" /\ Moves(t, "ok")
         /\ UNCHANGED <<store, final, tmp, uploads, aborting, leaked, shared, faults>>
  BY GotoDoes DEF Check, Meta, Place, Delete, PutPCs

LEMMA SendDoes ==
  ASSUME OSTypeOK, NEW t \in Task, Send(t)
  PROVE  /\ put[t].pc = "send" /\ Moves(t, "ok") /\ Arrives(t)
         /\ UNCHANGED <<store, tmp, uploads, aborting, leaked, shared, faults>>
  BY GotoDoes, ArriveDoes DEF Send, PutPCs

LEMMA CopyDoes ==
  ASSUME OSInv, NEW t \in Task, Copy(t)
  PROVE  /\ put[t].pc = "copy" /\ Moves(t, "delete") /\ Arrives(t)
         /\ UNCHANGED <<store, tmp, uploads, aborting, leaked, shared, faults>>
<1>1. Sent(put[t]) = "whole" /\ OSTypeOK
  BY DEF OSInv, SentIsWhole, Sent, Copy
<1>2. QED
  BY <1>1, GotoDoes, ArriveDoes DEF Copy, PutPCs

LEMMA CreateDoes ==
  ASSUME OSTypeOK, NEW t \in Task, Create(t)
  PROVE  /\ put[t].pc = "create" /\ Moves(t, "fill")
         /\ uploads' = IF store = "s3" THEN uploads + 1 ELSE uploads
         /\ UNCHANGED <<store, final, tmp, aborting, leaked, shared, faults>>
  BY GotoDoes DEF Create, PutPCs

LEMMA CommitDoes ==
  ASSUME OSTypeOK, NEW t \in Task, Commit(t)
  PROVE  /\ put[t].pc = "commit" /\ Moves(t, "copy")
         /\ uploads' = IF store = "s3" THEN uploads - 1 ELSE uploads
         /\ UNCHANGED <<store, final, tmp, aborting, leaked, shared, faults>>
  BY GotoDoes DEF Commit, PutPCs

LEMMA PutErrorDoes ==
  ASSUME OSTypeOK, NEW t \in Task, PutError(t)
  PROVE  /\ put[t].pc \notin {"idle", "ok", "err"} /\ Moves(t, "err")
         /\ aborting' = IF Guarded(t) THEN aborting + 1 ELSE aborting
         /\ faults' \in 0..MaxFaults
         /\ UNCHANGED <<store, final, tmp, uploads, leaked, shared>>
  BY GotoDoes, FaultDoes DEF PutError, Drop, Waiting, PutPCs

LEMMA LateErrorDoes ==
  ASSUME OSInv, NEW t \in Task, LateError(t)
  PROVE  /\ Moves(t, "err") /\ faults' \in 0..MaxFaults
         /\ \/ /\ put[t].pc \in {"send", "copy"} /\ Arrives(t)
               /\ UNCHANGED <<uploads, leaked>>
            \/ /\ put[t].pc = "create" /\ UNCHANGED final
               /\ uploads' = uploads + 1 /\ leaked' = leaked + 1
            \/ /\ put[t].pc = "commit" /\ store = "s3"
               /\ uploads' = uploads - 1 /\ UNCHANGED <<final, leaked>>
         /\ UNCHANGED <<store, tmp, aborting, shared>>
<1>1. put[t].pc = "copy" => Sent(put[t]) = "whole"
  BY DEF OSInv, SentIsWhole, Sent
<1>2. Moves(t, "err") /\ faults' \in 0..MaxFaults /\ OSTypeOK
  BY GotoDoes, FaultDoes DEF LateError, PutPCs, OSInv
<1>3. put[t].pc \in {"send", "copy"} /\
      final' = [final EXCEPT ![put[t].blob] = IF put[t].pc = "send" THEN "whole" ELSE Sent(put[t])]
      => final' = [final EXCEPT ![put[t].blob] = "whole"]
  BY <1>1
<1>4. QED
  BY <1>2, <1>3, ArriveDoes DEF LateError

LEMMA CrashDoes ==
  ASSUME OSTypeOK, OSCrash
  PROVE  /\ put' \in [Task -> PutRec] /\ \A t \in Task : put'[t] = NoPut
         /\ faults' \in 0..MaxFaults
         /\ aborting' = 0 /\ leaked' = uploads
         /\ UNCHANGED <<store, final, tmp, uploads, shared>>
  BY NoPutType, FaultDoes DEF OSCrash

-----------------------------------------------------------------------------
(* The uploads.                                                            *)

Guards == {u \in Task : Guarded(u)}

LEMMA GuardsFinite ==
  IsFiniteSet(Guards) /\ Cardinality(Guards) \in Nat
  BY ObjectStoreAssumption, FS_Subset, FS_CardinalityType DEF Guards

LEMMA GuardEnters ==
  ASSUME NEW t \in Task, ~Guarded(t), Guarded(t)',
         \A u \in Task : u # t => (Guarded(u)' <=> Guarded(u))
  PROVE  Cardinality(Guards') = Cardinality(Guards) + 1
<1>1. Guards' = Guards \cup {t} /\ t \notin Guards
  BY DEF Guards
<1>2. QED
  BY <1>1, GuardsFinite, FS_AddElement

LEMMA GuardLeaves ==
  ASSUME NEW t \in Task, Guarded(t), ~Guarded(t)',
         \A u \in Task : u # t => (Guarded(u)' <=> Guarded(u))
  PROVE  Cardinality(Guards') = Cardinality(Guards) - 1 /\ Cardinality(Guards) > 0
<1>1. Guards' = Guards \ {t} /\ t \in Guards
  BY DEF Guards
<1>2. Cardinality(Guards') = Cardinality(Guards) - 1
  BY <1>1, GuardsFinite, FS_RemoveElement
<1>3. Cardinality(Guards) # 0
  BY <1>1, GuardsFinite, FS_EmptySet
<1>4. QED
  BY <1>2, <1>3, GuardsFinite

LEMMA GuardsStay ==
  ASSUME \A u \in Task : Guarded(u)' <=> Guarded(u)
  PROVE  Guards' = Guards
  BY DEF Guards

LEMMA OwnedNext ==
  ASSUME uploads' = leaked' + aborting' + Cardinality(Guards')
  PROVE  UploadsAreOwned'
  BY DEF UploadsAreOwned, Guards

LEMMA OwnedStays ==
  ASSUME OSInv, UNCHANGED <<store, uploads, aborting, leaked>>,
         \A u \in Task : store = "s3" => (put'[u].pc \in Streaming <=> put[u].pc \in Streaming)
  PROVE  /\ UploadsAreOwned'
         /\ uploads' \in Nat /\ aborting' \in Nat /\ leaked' \in Nat
<1>1. \A u \in Task : Guarded(u)' <=> Guarded(u)
  BY DEF Guarded
<1>2. Guards' = Guards
  BY <1>1, GuardsStay
<1>3. uploads' = leaked' + aborting' + Cardinality(Guards')
  BY <1>2 DEF OSInv, UploadsAreOwned, Guards
<1>4. QED
  BY <1>3, OwnedNext, OSTypes DEF OSInv

\* An upload is handed over: created, or completed by its put.
LEMMA OwnedCreated ==
  ASSUME OSInv, NEW t \in Task, store = "s3", UNCHANGED <<store, aborting, leaked>>,
         put[t].pc \notin Streaming, put'[t].pc \in Streaming,
         \A u \in Task : u # t => put'[u] = put[u], uploads' = uploads + 1
  PROVE  UploadsAreOwned' /\ uploads' \in Nat
<1>1. Cardinality(Guards') = Cardinality(Guards) + 1
  BY GuardEnters DEF Guarded
<1>2. /\ uploads \in Nat /\ aborting \in Nat /\ leaked \in Nat /\ Cardinality(Guards) \in Nat
      /\ uploads = leaked + aborting + Cardinality(Guards)
  BY OSTypes, GuardsFinite DEF OSInv, UploadsAreOwned, Guards
<1>3. uploads' = leaked' + aborting' + Cardinality(Guards') /\ uploads' \in Nat
  BY <1>1, <1>2
<1>4. QED
  BY <1>3, OwnedNext

LEMMA OwnedCommitted ==
  ASSUME OSInv, NEW t \in Task, store = "s3", UNCHANGED <<store, aborting, leaked>>,
         put[t].pc \in Streaming, put'[t].pc \notin Streaming,
         \A u \in Task : u # t => put'[u] = put[u], uploads' = uploads - 1
  PROVE  UploadsAreOwned' /\ uploads' \in Nat
<1>1. Cardinality(Guards') = Cardinality(Guards) - 1 /\ Cardinality(Guards) > 0
  BY GuardLeaves DEF Guarded
<1>2. /\ uploads \in Nat /\ aborting \in Nat /\ leaked \in Nat /\ Cardinality(Guards) \in Nat
      /\ uploads = leaked + aborting + Cardinality(Guards)
  BY OSTypes, GuardsFinite DEF OSInv, UploadsAreOwned, Guards
<1>3. uploads' = leaked' + aborting' + Cardinality(Guards') /\ uploads' \in Nat
  BY <1>1, <1>2
<1>4. QED
  BY <1>3, OwnedNext

\* The guard of a put that failed is dropped.
LEMMA OwnedDropped ==
  ASSUME OSInv, NEW t \in Task, UNCHANGED <<store, uploads, leaked>>,
         Guarded(t), put'[t].pc \notin Streaming,
         \A u \in Task : u # t => put'[u] = put[u], aborting' = aborting + 1
  PROVE  UploadsAreOwned' /\ aborting' \in Nat
<1>1. Cardinality(Guards') = Cardinality(Guards) - 1 /\ Cardinality(Guards) > 0
  BY GuardLeaves DEF Guarded
<1>2. /\ uploads \in Nat /\ aborting \in Nat /\ leaked \in Nat /\ Cardinality(Guards) \in Nat
      /\ uploads = leaked + aborting + Cardinality(Guards)
  BY OSTypes, GuardsFinite DEF OSInv, UploadsAreOwned, Guards
<1>3. uploads' = leaked' + aborting' + Cardinality(Guards') /\ aborting' \in Nat
  BY <1>1, <1>2
<1>4. QED
  BY <1>3, OwnedNext

-----------------------------------------------------------------------------
(* The object store: every step preserves OSInv.                           *)

\* Blobs do not go away again.
Grows == \A b \in Blob : final[b] # "none" => final'[b] # "none"

\* What the callers of the store rely on while a put goes on.
GoesOn ==
  /\ Grows
  /\ \A u \in Task : put'[u].blob = put[u].blob /\ (put[u].pc # "idle" => put'[u].pc # "idle")

\* One put goes on, no file is emptied or moved, and blobs may arrive.
LEMMA Advance ==
  ASSUME OSInv, NEW t \in Task, NEW pc, NEW b, NEW a, NEW n, PutIs(t, pc, b, a, n),
         pc \notin {"write", "rename"},
         pc # "idle" => b \in Blob,
         pc \in {"ok", "meta", "delete"} => final'[b] # "none",
         pc \in {"place", "move", "commit", "copy"} => n = Len[b],
         UNCHANGED <<store, tmp, shared>>,
         final' \in [Blob -> Content], \A c \in Blob : final'[c] \in {final[c], "whole"},
         faults' \in 0..MaxFaults,
         uploads' \in Nat, aborting' \in Nat, leaked' \in Nat, UploadsAreOwned'
  PROVE  OSInv' /\ Grows
<1>0. OSTypeOK
  BY DEF OSInv
<1>1. OSTypeOK'
  BY <1>0, OSTypes, OSTypesNext DEF PutIs
<1>2. PutsHaveBlob'
  BY DEF OSInv, PutsHaveBlob, PutIs
<1>3. Grows
  BY DEF Grows
<1>4. Settled'
  BY <1>3 DEF OSInv, Settled, PutIs, Grows, PutsHaveBlob
<1>5. TornOnlyIfShared'
  BY DEF OSInv, TornOnlyIfShared, PutIs
<1>6. AloneAtTmp'
  BY DEF OSInv, AloneAtTmp, Alone, PutIs
<1>7. SentIsWhole'
  BY DEF OSInv, SentIsWhole, PutIs
<1>8. QED
  BY <1>1, <1>2, <1>3, <1>4, <1>5, <1>6, <1>7 DEF OSInv

\* The same when nothing in the store changes but the put.
LEMMA Quiet ==
  ASSUME OSInv, NEW t \in Task, NEW pc, NEW b, NEW a, NEW n, PutIs(t, pc, b, a, n),
         pc \notin {"write", "rename"},
         pc # "idle" => b \in Blob,
         pc \in {"ok", "meta", "delete"} => final[b] # "none",
         pc \in {"place", "move", "commit", "copy"} => n = Len[b],
         store = "s3" => (pc \in Streaming <=> put[t].pc \in Streaming),
         UNCHANGED <<store, final, tmp, uploads, aborting, leaked, shared>>,
         faults' \in 0..MaxFaults
  PROVE  OSInv' /\ Grows
<1>0. OSTypeOK
  BY DEF OSInv
<1>1. \A u \in Task : store = "s3" => (put'[u].pc \in Streaming <=> put[u].pc \in Streaming)
  BY DEF PutIs
<1>2. UploadsAreOwned' /\ uploads' \in Nat /\ aborting' \in Nat /\ leaked' \in Nat
  BY <1>1, OwnedStays
<1>3. final' \in [Blob -> Content]
  BY <1>0, OSTypes
<1>4. QED
  BY <1>2, <1>3, Advance

LEMMA FaultsIn ==
  OSTypeOK => faults \in 0..MaxFaults
  BY DEF OSTypeOK

LEMMA PutBytesOS ==
  ASSUME OSInv, NEW t \in Task, NEW b \in Blob, PutBytes(t, b)
  PROVE  OSInv' /\ Grows
<1>0. OSTypeOK
  BY DEF OSInv
<1>1. PICK pc \in {"check", "send"} : PutIs(t, pc, b, "none", 0)
  BY <1>0, PutBytesDoes
<1>2. /\ put[t].pc = "idle"
      /\ UNCHANGED <<store, final, tmp, uploads, aborting, leaked, shared, faults>>
  BY <1>0, PutBytesDoes
<1>3. QED
  BY <1>0, <1>1, <1>2, Quiet, FaultsIn DEF Streaming

LEMMA PutStreamOS ==
  ASSUME OSInv, NEW t \in Task, NEW b \in Blob, PutStream(t, b)
  PROVE  OSInv' /\ Grows
<1>0. OSTypeOK
  BY DEF OSInv
<1>1. QED
  BY <1>0, PutStreamDoes, Quiet, FaultsIn DEF Streaming

LEMMA ReturnOS ==
  ASSUME OSInv, NEW t \in Task, Return(t)
  PROVE  OSInv' /\ Grows
<1>0. OSTypeOK
  BY DEF OSInv
<1>1. QED
  BY <1>0, ReturnDoes, Quiet, FaultsIn DEF Streaming

LEMMA MovesKeep ==
  ASSUME NEW t \in Task, NEW pc, Moves(t, pc), pc # "idle", Grows
  PROVE  GoesOn
  BY DEF Moves, PutIs, GoesOn

LEMMA StayOS ==
  ASSUME OSInv, NEW t \in Task, Check(t) \/ Meta(t) \/ Place(t) \/ Delete(t)
  PROVE  OSInv' /\ GoesOn
<1>0. OSTypeOK /\ PutsHaveBlob /\ Settled /\ SentIsWhole
  BY DEF OSInv
<1>1. UNCHANGED <<store, final, tmp, uploads, aborting, leaked, shared, faults>>
  BY <1>0, StayDoes
<1>2. PICK pc \in {"open", "meta", "ok", "move"} :
        /\ Moves(t, pc) /\ put[t].pc \in {"check", "meta", "place", "delete"}
        /\ pc \in {"ok", "meta"} => final[put[t].blob] # "none"
        /\ pc = "move" => put[t].sent = Len[put[t].blob]
  BY <1>0, StayDoes DEF Settled, SentIsWhole
<1>3. put[t].blob \in Blob
  BY <1>0, <1>2 DEF PutsHaveBlob
<1>4. OSInv' /\ Grows
  BY <1>0, <1>1, <1>2, <1>3, Quiet, FaultsIn DEF Streaming, Moves
<1>5. QED
  BY <1>2, <1>4, MovesKeep

LEMMA ReadOS ==
  ASSUME OSInv, NEW t \in Task, Read(t)
  PROVE  OSInv' /\ GoesOn
<1>0. OSTypeOK /\ PutsHaveBlob
  BY DEF OSInv
<1>1. PICK n \in Nat : PutIs(t, "fill", put[t].blob, put[t].at, n)
  BY <1>0, ReadDoes
<1>2. /\ put[t].pc = "fill"
      /\ UNCHANGED <<store, final, tmp, uploads, aborting, leaked, shared, faults>>
  BY <1>0, ReadDoes
<1>3. put[t].blob \in Blob
  BY <1>0, <1>2 DEF PutsHaveBlob
<1>4. OSInv' /\ Grows
  BY <1>0, <1>1, <1>2, <1>3, Quiet, FaultsIn DEF Streaming
<1>5. QED
  BY <1>1, <1>4 DEF GoesOn, PutIs

LEMMA EofOS ==
  ASSUME OSInv, NEW t \in Task, Eof(t)
  PROVE  OSInv' /\ GoesOn
<1>0. OSTypeOK /\ PutsHaveBlob
  BY DEF OSInv
<1>1. PICK pc \in {"place", "commit"} :
        /\ PutIs(t, pc, put[t].blob, put[t].at, Len[put[t].blob])
        /\ store = "s3" => pc = "commit"
  BY <1>0, EofDoes
<1>2. /\ put[t].pc = "fill"
      /\ UNCHANGED <<store, final, tmp, uploads, aborting, leaked, shared, faults>>
  BY <1>0, EofDoes
<1>3. put[t].blob \in Blob
  BY <1>0, <1>2 DEF PutsHaveBlob
<1>4. OSInv' /\ Grows
  BY <1>0, <1>1, <1>2, <1>3, Quiet, FaultsIn DEF Streaming
<1>5. QED
  BY <1>1, <1>4 DEF GoesOn, PutIs

LEMMA ArriveOS ==
  ASSUME OSInv, NEW t \in Task, NEW pc \in {"ok", "delete", "err"}, Moves(t, pc), Arrives(t),
         put[t].pc \in {"send", "copy"}, faults' \in 0..MaxFaults,
         UNCHANGED <<store, tmp, uploads, aborting, leaked, shared>>
  PROVE  OSInv' /\ GoesOn
<1>0. OSTypeOK /\ PutsHaveBlob
  BY DEF OSInv
<1>1. put[t].blob \in Blob
  BY <1>0 DEF PutsHaveBlob
<1>2. \A u \in Task : store = "s3" => (put'[u].pc \in Streaming <=> put[u].pc \in Streaming)
  BY DEF Moves, PutIs, Streaming
<1>3. UploadsAreOwned' /\ uploads' \in Nat /\ aborting' \in Nat /\ leaked' \in Nat
  BY <1>2, OwnedStays
<1>4. /\ final' \in [Blob -> Content] /\ \A c \in Blob : final'[c] \in {final[c], "whole"}
      /\ final'[put[t].blob] # "none"
  BY <1>1 DEF Arrives
<1>5. OSInv' /\ Grows
  BY <1>1, <1>3, <1>4, Advance DEF Moves
<1>6. QED
  BY <1>5, MovesKeep

LEMMA SendOS ==
  ASSUME OSInv, NEW t \in Task, Send(t)
  PROVE  OSInv' /\ GoesOn
<1>0. OSTypeOK
  BY DEF OSInv
<1>1. QED
  BY <1>0, SendDoes, ArriveOS, FaultsIn

LEMMA CopyOS ==
  ASSUME OSInv, NEW t \in Task, Copy(t)
  PROVE  OSInv' /\ GoesOn
<1>0. OSTypeOK
  BY DEF OSInv
<1>1. QED
  BY <1>0, CopyDoes, ArriveOS, FaultsIn

\* A put goes on and only the accounts of the uploads change.
LEMMA AccountOS ==
  ASSUME OSInv, NEW t \in Task, NEW pc \in {"fill", "copy", "err"}, Moves(t, pc),
         put[t].pc # "idle", pc = "copy" => put[t].pc = "commit",
         UNCHANGED <<store, final, tmp, shared>>,
         faults' \in 0..MaxFaults,
         uploads' \in Nat, aborting' \in Nat, leaked' \in Nat, UploadsAreOwned'
  PROVE  OSInv' /\ GoesOn
<1>0. OSTypeOK /\ PutsHaveBlob /\ SentIsWhole
  BY DEF OSInv
<1>1. put[t].blob \in Blob /\ (pc = "copy" => put[t].sent = Len[put[t].blob])
  BY <1>0 DEF PutsHaveBlob, SentIsWhole
<1>2. final' \in [Blob -> Content]
  BY <1>0, OSTypes
<1>3. OSInv' /\ Grows
  BY <1>1, <1>2, Advance DEF Moves
<1>4. QED
  BY <1>3, MovesKeep

LEMMA CreateOS ==
  ASSUME OSInv, NEW t \in Task, Create(t)
  PROVE  OSInv' /\ GoesOn
<1>0. OSTypeOK /\ faults \in 0..MaxFaults
  BY OSTypes DEF OSInv
<1>1. /\ put[t].pc = "create" /\ Moves(t, "fill")
      /\ uploads' = IF store = "s3" THEN uploads + 1 ELSE uploads
      /\ UNCHANGED <<store, final, tmp, aborting, leaked, shared, faults>>
  BY <1>0, CreateDoes
<1>2. put'[t].pc = "fill" /\ \A u \in Task : u # t => put'[u] = put[u]
  BY <1>1 DEF Moves, PutIs
<1>3. UploadsAreOwned' /\ uploads' \in Nat /\ aborting' \in Nat /\ leaked' \in Nat
  <2>1. CASE store = "s3"
    BY <1>0, <1>1, <1>2, <2>1, OwnedCreated, OSTypes DEF Streaming
  <2>2. CASE store # "s3"
    BY <1>1, <2>2, OwnedStays
  <2>3. QED
    BY <2>1, <2>2
<1>4. QED
  BY <1>0, <1>1, <1>3, AccountOS

LEMMA CommitOS ==
  ASSUME OSInv, NEW t \in Task, Commit(t)
  PROVE  OSInv' /\ GoesOn
<1>0. OSTypeOK /\ faults \in 0..MaxFaults
  BY OSTypes DEF OSInv
<1>1. /\ put[t].pc = "commit" /\ Moves(t, "copy")
      /\ uploads' = IF store = "s3" THEN uploads - 1 ELSE uploads
      /\ UNCHANGED <<store, final, tmp, aborting, leaked, shared, faults>>
  BY <1>0, CommitDoes
<1>2. put'[t].pc = "copy" /\ \A u \in Task : u # t => put'[u] = put[u]
  BY <1>1 DEF Moves, PutIs
<1>3. UploadsAreOwned' /\ uploads' \in Nat /\ aborting' \in Nat /\ leaked' \in Nat
  <2>1. CASE store = "s3"
    BY <1>0, <1>1, <1>2, <2>1, OwnedCommitted, OSTypes DEF Streaming
  <2>2. CASE store # "s3"
    BY <1>1, <2>2, OwnedStays
  <2>3. QED
    BY <2>1, <2>2
<1>4. QED
  BY <1>0, <1>1, <1>3, AccountOS

LEMMA PutErrorOS ==
  ASSUME OSInv, NEW t \in Task, PutError(t)
  PROVE  OSInv' /\ GoesOn
<1>0. OSTypeOK
  BY DEF OSInv
<1>1. /\ put[t].pc \notin {"idle", "ok", "err"} /\ Moves(t, "err")
      /\ aborting' = IF Guarded(t) THEN aborting + 1 ELSE aborting
      /\ faults' \in 0..MaxFaults
      /\ UNCHANGED <<store, final, tmp, uploads, leaked, shared>>
  BY <1>0, PutErrorDoes
<1>2. put'[t].pc = "err" /\ \A u \in Task : u # t => put'[u] = put[u]
  BY <1>1 DEF Moves, PutIs
<1>3. UploadsAreOwned' /\ uploads' \in Nat /\ aborting' \in Nat /\ leaked' \in Nat
  <2>1. CASE Guarded(t)
    BY <1>0, <1>1, <1>2, <2>1, OwnedDropped, OSTypes DEF Streaming
  <2>2. CASE ~Guarded(t)
    BY <1>1, <1>2, <2>2, OwnedStays DEF Guarded, Streaming
  <2>3. QED
    BY <2>1, <2>2
<1>4. QED
  BY <1>1, <1>3, AccountOS

LEMMA LateErrorOS ==
  ASSUME OSInv, NEW t \in Task, LateError(t)
  PROVE  OSInv' /\ GoesOn
<1>0. /\ OSTypeOK /\ uploads \in Nat /\ aborting \in Nat /\ leaked \in Nat
      /\ uploads = leaked + aborting + Cardinality(Guards) /\ Cardinality(Guards) \in Nat
  BY OSTypes, GuardsFinite DEF OSInv, UploadsAreOwned, Guards
<1>1. /\ Moves(t, "err") /\ faults' \in 0..MaxFaults
      /\ UNCHANGED <<store, tmp, aborting, shared>>
  BY LateErrorDoes
<1>2. put'[t].pc = "err" /\ \A u \in Task : u # t => put'[u] = put[u]
  BY <1>1 DEF Moves, PutIs
<1>3. CASE put[t].pc \in {"send", "copy"} /\ Arrives(t) /\ UNCHANGED <<uploads, leaked>>
  BY <1>1, <1>3, ArriveOS
<1>4. CASE /\ put[t].pc = "create" /\ UNCHANGED final
           /\ uploads' = uploads + 1 /\ leaked' = leaked + 1
  <2>1. \A u \in Task : Guarded(u)' <=> Guarded(u)
    BY <1>1, <1>2, <1>4 DEF Guarded, Streaming
  <2>2. Guards' = Guards
    BY <2>1, GuardsStay
  <2>3. /\ uploads' = leaked' + aborting' + Cardinality(Guards')
        /\ uploads' \in Nat /\ aborting' \in Nat /\ leaked' \in Nat
    BY <1>0, <1>1, <1>4, <2>2
  <2>4. UploadsAreOwned'
    BY <2>3, OwnedNext
  <2>5. QED
    BY <1>0, <1>1, <1>4, <2>3, <2>4, AccountOS
<1>5. CASE /\ put[t].pc = "commit" /\ store = "s3"
           /\ uploads' = uploads - 1 /\ UNCHANGED <<final, leaked>>
  <2>1. UploadsAreOwned' /\ uploads' \in Nat
    BY <1>1, <1>2, <1>5, OwnedCommitted DEF Streaming
  <2>2. QED
    BY <1>0, <1>1, <1>5, <2>1, AccountOS
<1>6. QED
  BY <1>3, <1>4, <1>5, LateErrorDoes

LEMMA OpenOS ==
  ASSUME OSInv, NEW t \in Task, Open(t)
  PROVE  OSInv' /\ GoesOn
<1>0. OSTypeOK /\ PutsHaveBlob
  BY DEF OSInv
<1>1. /\ put[t].pc = "open" /\ put[t].blob \in Blob
      /\ PutIs(t, "write", put[t].blob, "tmp", put[t].sent)
      /\ tmp' \in [Blob -> Content]
      /\ \A b \in Blob : tmp'[b] = IF b = put[t].blob THEN "torn" ELSE tmp[b]
      /\ shared' = IF InUse(t) THEN shared \cup {put[t].blob} ELSE shared
      /\ UNCHANGED <<store, final, uploads, aborting, leaked, faults>>
  BY <1>0, OpenDoes
<1>2. UploadsAreOwned' /\ uploads' \in Nat /\ aborting' \in Nat /\ leaked' \in Nat
  BY <1>1, OwnedStays DEF PutIs, Streaming
<1>3. OSTypeOK'
  BY <1>0, <1>1, <1>2, OSTypes, OSTypesNext DEF PutIs
<1>4. PutsHaveBlob' /\ Settled' /\ SentIsWhole'
  BY <1>1 DEF OSInv, PutsHaveBlob, Settled, SentIsWhole, PutIs
<1>5. TornOnlyIfShared'
  BY <1>1 DEF OSInv, TornOnlyIfShared
<1>6. AloneAtTmp'
  <2> SUFFICES ASSUME NEW u \in Task, put'[u].pc \in {"write", "rename"},
                      put'[u].blob \notin shared'
               PROVE  Alone(u)'
    BY DEF AloneAtTmp, Alone
  <2>1. /\ put'[t].pc = "write" /\ put'[t].blob = put[t].blob /\ put'[t].at = "tmp"
        /\ \A v \in Task : v # t => put'[v] = put[v]
    BY <1>1 DEF PutIs
  <2>2. CASE u = t
    <3>1. ~InUse(t)
      BY <1>1, <2>1, <2>2
    <3>2. QED
      BY <2>1, <2>2, <3>1 DEF Alone, InUse
  <2>3. CASE u # t
    <3>1. put[u].pc \in {"write", "rename"} /\ put[u].blob \notin shared
      BY <1>1, <2>1, <2>3
    <3>2. Alone(u) /\ put[u].blob \in Blob
      BY <1>0, <3>1 DEF OSInv, AloneAtTmp, Alone, PutsHaveBlob
    <3>3. put[u].blob # put[t].blob
      BY <1>1, <2>1, <2>3, <3>1 DEF InUse
    <3>4. QED
      BY <1>1, <2>1, <2>3, <3>2, <3>3 DEF Alone
  <2>4. QED
    BY <2>2, <2>3
<1>7. GoesOn
  BY <1>1 DEF GoesOn, Grows, PutIs
<1>8. QED
  BY <1>2, <1>3, <1>4, <1>5, <1>6, <1>7 DEF OSInv

LEMMA WriteOS ==
  ASSUME OSInv, NEW t \in Task, Write(t)
  PROVE  OSInv' /\ GoesOn
<1>0. OSTypeOK /\ PutsHaveBlob
  BY DEF OSInv
<1>1. /\ put[t].pc = "write" /\ put[t].blob \in Blob /\ Moves(t, "rename")
      /\ tmp' \in [Blob -> Content] /\ final' \in [Blob -> Content]
      /\ \A b \in Blob :
           /\ tmp'[b] = IF b = put[t].blob /\ put[t].at = "tmp" THEN "whole" ELSE tmp[b]
           /\ final'[b] = IF b = put[t].blob /\ put[t].at = "final" THEN "whole" ELSE final[b]
      /\ UNCHANGED <<store, uploads, aborting, leaked, shared, faults>>
  BY <1>0, WriteDoes
<1>2. UploadsAreOwned' /\ uploads' \in Nat /\ aborting' \in Nat /\ leaked' \in Nat
  BY <1>1, OwnedStays DEF Moves, PutIs, Streaming
<1>3. OSTypeOK'
  BY <1>0, <1>1, <1>2, OSTypes, OSTypesNext DEF Moves, PutIs
<1>4. Grows
  BY <1>1 DEF Grows
<1>5. PutsHaveBlob' /\ Settled' /\ SentIsWhole'
  BY <1>1, <1>4 DEF OSInv, PutsHaveBlob, Settled, SentIsWhole, Moves, PutIs, Grows
<1>6. TornOnlyIfShared'
  BY <1>1 DEF OSInv, TornOnlyIfShared, Moves, PutIs
<1>7. AloneAtTmp'
  <2> SUFFICES ASSUME NEW u \in Task, put'[u].pc \in {"write", "rename"},
                      put'[u].blob \notin shared'
               PROVE  Alone(u)'
    BY DEF AloneAtTmp, Alone
  <2>1. /\ put'[t].pc = "rename" /\ put'[t].blob = put[t].blob
        /\ \A v \in Task : v # t => put'[v] = put[v]
    BY <1>1 DEF Moves, PutIs
  <2>2. /\ put[u].pc \in {"write", "rename"} /\ put'[u].blob = put[u].blob
        /\ put[u].blob \notin shared
    BY <1>1, <2>1
  <2>3. Alone(u) /\ put[u].blob \in Blob
    BY <1>0, <2>2 DEF OSInv, AloneAtTmp, Alone, PutsHaveBlob
  <2>4. CASE u = t
    BY <1>1, <2>1, <2>3, <2>4 DEF Alone
  <2>5. CASE u # t
    <3>1. put[u].blob # put[t].blob
      BY <1>1, <2>3, <2>5 DEF Alone
    <3>2. QED
      BY <1>1, <2>1, <2>3, <2>5, <3>1 DEF Alone
  <2>6. QED
    BY <2>4, <2>5
<1>8. QED
  BY <1>1, <1>2, <1>3, <1>4, <1>5, <1>6, <1>7, MovesKeep DEF OSInv

LEMMA RenameOS ==
  ASSUME OSInv, NEW t \in Task, Rename(t)
  PROVE  OSInv' /\ GoesOn
<1>0. OSTypeOK /\ PutsHaveBlob
  BY DEF OSInv
<1>1. /\ put[t].pc = "rename" /\ put[t].blob \in Blob
      /\ UNCHANGED <<store, uploads, aborting, leaked, shared, faults>>
  BY <1>0, RenameDoes
<1>2. CASE Moves(t, "err") /\ UNCHANGED <<final, tmp>>
  <2>1. OSInv' /\ Grows
    BY <1>0, <1>1, <1>2, Quiet, FaultsIn DEF Streaming, Moves
  <2>2. QED
    BY <1>2, <2>1, MovesKeep
<1>3. CASE /\ tmp[put[t].blob] # "none" /\ Replaces(t, put[t].blob, "final", "meta")
           /\ final' \in [Blob -> Content] /\ tmp' \in [Blob -> Content]
           /\ \A b \in Blob :
                /\ final'[b] = IF b = put[t].blob THEN tmp[b] ELSE final[b]
                /\ tmp'[b] = IF b = put[t].blob THEN "none" ELSE tmp[b]
  <2>1. \A u \in Task : store = "s3" => (put'[u].pc \in Streaming <=> put[u].pc \in Streaming)
    BY <1>1, <1>3 DEF Replaces, Streaming
  <2>2. UploadsAreOwned' /\ uploads' \in Nat /\ aborting' \in Nat /\ leaked' \in Nat
    BY <1>1, <2>1, OwnedStays
  <2>3. OSTypeOK'
    BY <1>0, <1>1, <1>3, <2>2, OSTypes, OSTypesNext DEF Replaces
  <2>4. Grows
    BY <1>3 DEF Grows
  <2>5. PutsHaveBlob' /\ SentIsWhole'
    BY <1>1, <1>3 DEF OSInv, PutsHaveBlob, SentIsWhole, Replaces
  <2>6. Settled'
    BY <1>1, <1>3, <2>4 DEF OSInv, PutsHaveBlob, Settled, Replaces, Grows
  <2>7. TornOnlyIfShared'
    BY <1>1, <1>3 DEF OSInv, TornOnlyIfShared, AloneAtTmp, Alone
  <2>8. AloneAtTmp'
    <3> SUFFICES ASSUME NEW u \in Task, put'[u].pc \in {"write", "rename"},
                        put'[u].blob \notin shared'
                 PROVE  Alone(u)'
      BY DEF AloneAtTmp, Alone
    <3>1. u # t /\ put'[u].pc = put[u].pc /\ put'[u].blob = put[u].blob
      BY <1>3 DEF Replaces
    <3>2. Alone(u) /\ put[u].blob \in Blob
      BY <1>0, <1>1, <3>1 DEF OSInv, AloneAtTmp, Alone, PutsHaveBlob
    <3>3. put[u].blob # put[t].blob
      BY <1>1, <3>1, <3>2 DEF Alone
    <3>4. put'[u].at = put[u].at /\ tmp'[put[u].blob] = tmp[put[u].blob]
      BY <1>3, <3>2, <3>3 DEF Replaces
    <3>5. \A v \in Task : v # t => put'[v].pc = put[v].pc /\ put'[v].blob = put[v].blob
      BY <1>3 DEF Replaces
    <3>6. put'[t].pc = "meta"
      BY <1>3 DEF Replaces
    <3>7. QED
      BY <3>1, <3>2, <3>4, <3>5, <3>6 DEF Alone
  <2>9. GoesOn
    BY <1>1, <1>3, <2>4 DEF GoesOn, Replaces
  <2>10. QED
    BY <2>2, <2>3, <2>5, <2>6, <2>7, <2>8, <2>9 DEF OSInv
<1>4. QED
  BY <1>0, <1>2, <1>3, RenameDoes

LEMMA MoveOS ==
  ASSUME OSInv, NEW t \in Task, Move(t)
  PROVE  OSInv' /\ GoesOn
<1>0. OSTypeOK /\ PutsHaveBlob
  BY DEF OSInv
<1>1. /\ put[t].pc = "move" /\ put[t].blob \in Blob
      /\ Replaces(t, put[t].blob, "tmp", "ok")
      /\ final' \in [Blob -> Content]
      /\ \A b \in Blob : final'[b] = IF b = put[t].blob THEN "whole" ELSE final[b]
      /\ UNCHANGED <<store, tmp, uploads, aborting, leaked, shared, faults>>
  BY MoveDoes
<1>2. \A u \in Task : store = "s3" => (put'[u].pc \in Streaming <=> put[u].pc \in Streaming)
  BY <1>1 DEF Replaces, Streaming
<1>3. UploadsAreOwned' /\ uploads' \in Nat /\ aborting' \in Nat /\ leaked' \in Nat
  BY <1>1, <1>2, OwnedStays
<1>4. OSTypeOK'
  BY <1>0, <1>1, <1>3, OSTypes, OSTypesNext DEF Replaces
<1>5. Grows
  BY <1>1 DEF Grows
<1>6. PutsHaveBlob' /\ SentIsWhole'
  BY <1>1 DEF OSInv, PutsHaveBlob, SentIsWhole, Replaces
<1>7. Settled'
  BY <1>1, <1>5 DEF OSInv, PutsHaveBlob, Settled, Replaces, Grows
<1>8. TornOnlyIfShared'
  BY <1>1 DEF OSInv, TornOnlyIfShared, Replaces
<1>9. AloneAtTmp'
  BY <1>1 DEF OSInv, AloneAtTmp, Alone, Replaces
<1>10. GoesOn
  BY <1>1, <1>5 DEF GoesOn, Replaces
<1>11. QED
  BY <1>3, <1>4, <1>6, <1>7, <1>8, <1>9, <1>10 DEF OSInv

LEMMA PutStepOS ==
  ASSUME OSInv, NEW t \in Task, PutStep(t)
  PROVE  OSInv' /\ GoesOn
  BY StayOS, OpenOS, WriteOS, RenameOS, SendOS, CreateOS, ReadOS, EofOS, MoveOS, CommitOS,
     CopyOS, PutErrorOS, LateErrorOS DEF PutStep

\* The rest of a step that leaves the files and the puts alone.
LEMMA RestOS ==
  ASSUME OSInv, UNCHANGED <<store, final, tmp, put, shared>>, faults' \in 0..MaxFaults,
         uploads' \in Nat, aborting' \in Nat, leaked' \in Nat, UploadsAreOwned'
  PROVE  OSInv'
<1>1. OSTypeOK'
  BY OSTypes, OSTypesNext DEF OSInv
<1>2. QED
  BY <1>1 DEF OSInv, PutsHaveBlob, Settled, TornOnlyIfShared, AloneAtTmp, Alone, SentIsWhole

LEMMA AbortOS ==
  ASSUME OSInv, Abort
  PROVE  OSInv' /\ GoesOn
<1>0. /\ OSTypeOK /\ uploads \in Nat /\ aborting \in Nat /\ leaked \in Nat
      /\ uploads = leaked + aborting + Cardinality(Guards) /\ Cardinality(Guards) \in Nat
      /\ faults \in 0..MaxFaults
  BY OSTypes, GuardsFinite DEF OSInv, UploadsAreOwned, Guards
<1>1. /\ aborting > 0 /\ aborting' = aborting - 1
      /\ \/ uploads' = uploads - 1 /\ leaked' = leaked
         \/ uploads' = uploads /\ leaked' = leaked + 1
      /\ UNCHANGED <<store, final, tmp, put, shared>>
  BY DEF Abort
<1>2. faults' \in 0..MaxFaults
  BY <1>0, FaultDoes DEF Abort
<1>3. Guards' = Guards
  BY <1>1, GuardsStay DEF Guarded
<1>4. /\ uploads' = leaked' + aborting' + Cardinality(Guards')
      /\ uploads' \in Nat /\ aborting' \in Nat /\ leaked' \in Nat
  BY <1>0, <1>1, <1>3
<1>5. OSInv'
  BY <1>1, <1>2, <1>4, OwnedNext, RestOS
<1>6. QED
  BY <1>1, <1>5 DEF GoesOn, Grows

LEMMA FaultOS ==
  ASSUME OSInv, Fault, UNCHANGED <<store, final, tmp, put, uploads, aborting, leaked, shared>>
  PROVE  OSInv' /\ GoesOn
<1>1. faults' \in 0..MaxFaults
  BY FaultDoes DEF OSInv
<1>2. UploadsAreOwned' /\ uploads' \in Nat /\ aborting' \in Nat /\ leaked' \in Nat
  BY OwnedStays
<1>3. QED
  BY <1>1, <1>2, RestOS DEF GoesOn, Grows

LEMMA SameOS ==
  ASSUME OSInv, UNCHANGED osVars
  PROVE  OSInv' /\ GoesOn
<1>1. /\ UNCHANGED <<store, final, tmp, put, uploads, aborting, leaked, shared>>
      /\ faults' \in 0..MaxFaults
  BY FaultsIn DEF OSInv, osVars
<1>2. UploadsAreOwned' /\ uploads' \in Nat /\ aborting' \in Nat /\ leaked' \in Nat
  BY <1>1, OwnedStays
<1>3. QED
  BY <1>1, <1>2, RestOS DEF GoesOn, Grows

LEMMA CrashOS ==
  ASSUME OSInv, OSCrash
  PROVE  OSInv' /\ Grows
<1>0. OSTypeOK
  BY DEF OSInv
<1>1. /\ put' \in [Task -> PutRec] /\ \A t \in Task : put'[t].pc = "idle"
      /\ faults' \in 0..MaxFaults
      /\ aborting' = 0 /\ leaked' = uploads
      /\ UNCHANGED <<store, final, tmp, uploads, shared>>
  BY <1>0, CrashDoes, NoPutType
<1>2. /\ OSTypeOK' /\ uploads \in Nat
  BY <1>0, <1>1, OSTypes, OSTypesNext
<1>3. Guards' = {}
  BY <1>1 DEF Guards, Guarded, Streaming
<1>4. uploads' = leaked' + aborting' + Cardinality(Guards')
  BY <1>1, <1>2, <1>3, FS_EmptySet
<1>5. QED
  BY <1>1, <1>2, <1>4, OwnedNext
     DEF OSInv, PutsHaveBlob, Settled, TornOnlyIfShared, AloneAtTmp, Alone, SentIsWhole, Grows

LEMMA InitOS ==
  ASSUME NEW present \in SUBSET Blob, OSInit(present)
  PROVE  OSInv /\ \A b \in present : final[b] # "none"
<1>1. /\ final \in [Blob -> Content] /\ tmp \in [Blob -> Content]
      /\ \A b \in Blob : final[b] \in {"none", "whole"} /\ tmp[b] = "none"
      /\ \A b \in present : final[b] # "none"
  BY DEF OSInit, Content
<1>2. put \in [Task -> PutRec] /\ \A t \in Task : put[t].pc = "idle"
  BY NoPutType DEF OSInit
<1>3. /\ store \in {"fs", "s3", "gcs"} /\ uploads = 0 /\ aborting = 0 /\ leaked = 0
      /\ faults \in 0..MaxFaults
  BY ObjectStoreAssumption DEF OSInit
<1>0. shared \in SUBSET Blob
  BY DEF OSInit
<1>4. OSTypeOK
  BY <1>0, <1>1, <1>2, <1>3, OSTypes
<1>5. {t \in Task : Guarded(t)} = {}
  BY <1>2 DEF Guarded, Streaming
<1>6. UploadsAreOwned
  BY <1>3, <1>5, FS_EmptySet DEF UploadsAreOwned
<1>7. QED
  BY <1>1, <1>2, <1>4, <1>6
     DEF OSInv, PutsHaveBlob, Settled, TornOnlyIfShared, AloneAtTmp, Alone, SentIsWhole

-----------------------------------------------------------------------------
(* Snapshots.                                                              *)

RowRec == [at : -1..MaxClock, labeled : BOOLEAN]
JobPCs == {"idle", "stream", "put", "commit", "get", "restored", "prune"}
JobRec == [pc : JobPCs, blob : Blob \cup {NoBlob}, row : RowRec, todo : SUBSET Blob,
           got : Content]

\* A save is at the blob it puts, and commits a row only of a blob in place.
JobFits(j, t) ==
  /\ j.pc \in {"put", "commit", "get"} => j.blob \in Blob
  /\ j.pc = "put" => put[t].blob = j.blob /\ put[t].pc # "idle"
  /\ j.pc = "commit" => final[j.blob] # "none"

JobsInStep == \A t \in Task : JobFits(job[t], t)

SnapInv == OSInv /\ SnapTypeOK /\ RowHasBlob /\ JobsInStep

LEMMA SnapTypes ==
  SnapTypeOK <=>
    /\ OSTypeOK /\ clock \in 0..MaxClock
    /\ rows \in [Blob -> RowRec] /\ job \in [Task -> JobRec]
  BY DEF SnapTypeOK, RowRec, JobRec, JobPCs

LEMMA SnapTypesNext ==
  ASSUME OSTypeOK', clock' \in 0..MaxClock, rows' \in [Blob -> RowRec], job' \in [Task -> JobRec]
  PROVE  SnapTypeOK'
  BY DEF SnapTypeOK, RowRec, JobRec, JobPCs

LEMMA NoJobType ==
  /\ NoRow \in RowRec /\ NoRow.at = -1 /\ NoJob \in JobRec /\ NoJob.pc = "idle"
  BY SnapshotsAssumption DEF NoRow, NoJob, RowRec, JobRec, JobPCs, Content

LEMMA NewJob ==
  ASSUME NEW pc \in JobPCs, NEW b \in Blob, NEW row \in RowRec
  PROVE  [NoJob EXCEPT !.pc = pc, !.blob = b, !.row = row] \in JobRec
  BY DEF NoJob, JobRec, Content

\* Rows of blobs in place.
LEMMA RowsNext ==
  ASSUME \A b \in Blob : rows'[b] # NoRow => final'[b] # "none"
  PROVE  RowHasBlob'
  BY DEF RowHasBlob, Listed

LEMMA RowsStay ==
  ASSUME RowHasBlob, Grows, UNCHANGED rows
  PROVE  RowHasBlob'
  BY DEF RowHasBlob, Listed, Grows

\* The other tasks are in the puts they were in.
Apart(t) ==
  \A u \in Task : u # t =>
    put'[u].blob = put[u].blob /\ (put[u].pc # "idle" => put'[u].pc # "idle")

\* A step of the job of task t that leaves the rows alone.
LEMMA JobStep ==
  ASSUME SnapInv, OSInv', Grows, NEW t \in Task, NEW j \in JobRec, SetJob(t, j), Apart(t),
         UNCHANGED <<clock, rows>>,
         j.pc \in {"put", "commit", "get"} => j.blob \in Blob,
         j.pc = "put" => put'[t].blob = j.blob /\ put'[t].pc # "idle",
         j.pc = "commit" => final'[j.blob] # "none"
  PROVE  SnapInv'
<1>1. /\ clock \in 0..MaxClock /\ rows \in [Blob -> RowRec] /\ job \in [Task -> JobRec]
      /\ RowHasBlob
  BY SnapTypes DEF SnapInv
<1>2. job' \in [Task -> JobRec] /\ \A u \in Task : job'[u] = IF u = t THEN j ELSE job[u]
  BY <1>1 DEF SetJob
<1>3. SnapTypeOK'
  BY <1>1, <1>2, SnapTypesNext DEF OSInv
<1>4. JobsInStep'
  BY <1>2 DEF SnapInv, JobsInStep, JobFits, Apart, Grows
<1>5. QED
  BY <1>1, <1>3, <1>4, RowsStay DEF SnapInv

\* The store goes on by itself.
LEMMA StoreStep ==
  ASSUME SnapInv, OSInv', GoesOn, UNCHANGED snapVars
  PROVE  SnapInv'
<1>1. /\ clock \in 0..MaxClock /\ rows \in [Blob -> RowRec] /\ job \in [Task -> JobRec]
      /\ RowHasBlob /\ UNCHANGED <<clock, rows, job>> /\ Grows
  BY SnapTypes DEF SnapInv, snapVars, GoesOn
<1>2. SnapTypeOK'
  BY <1>1, SnapTypesNext DEF OSInv
<1>3. JobsInStep'
  BY <1>1 DEF SnapInv, JobsInStep, JobFits, GoesOn, Grows
<1>4. QED
  BY <1>1, <1>2, <1>3, RowsStay DEF SnapInv

LEMMA PutIsApart ==
  ASSUME NEW t \in Task, NEW pc, NEW b, NEW a, NEW n, PutIs(t, pc, b, a, n)
  PROVE  Apart(t)
  BY DEF PutIs, Apart

LEMMA TickSnap ==
  ASSUME SnapInv, Tick
  PROVE  SnapInv'
<1>1. /\ clock \in 0..MaxClock /\ rows \in [Blob -> RowRec] /\ job \in [Task -> JobRec]
      /\ OSInv /\ RowHasBlob
  BY SnapTypes DEF SnapInv
<1>2. /\ clock' \in 0..MaxClock /\ UNCHANGED <<osVars, rows, job>>
  BY <1>1, SnapshotsAssumption DEF Tick
<1>3. OSInv' /\ GoesOn
  BY <1>1, <1>2, SameOS
<1>4. SnapTypeOK'
  BY <1>1, <1>2, <1>3, SnapTypesNext DEF OSInv
<1>5. JobsInStep' /\ Grows
  BY <1>2, <1>3 DEF SnapInv, JobsInStep, JobFits, GoesOn, Grows
<1>6. QED
  BY <1>1, <1>2, <1>3, <1>4, <1>5, RowsStay DEF SnapInv

LEMMA SaveSnap ==
  ASSUME SnapInv, NEW t \in Task, NEW b \in DOMAIN Order, NEW l \in BOOLEAN, Save(t, b, l)
  PROVE  SnapInv'
<1> DEFINE row == [NoRow EXCEPT !.labeled = l]
           j == [NoJob EXCEPT !.pc = "put", !.blob = b, !.row = row]
<1>1. b \in Blob /\ OSInv /\ OSTypeOK
  BY SnapshotsAssumption DEF SnapInv, OSInv
<1>2. row \in RowRec
  BY NoJobType DEF RowRec
<1> HIDE DEF row
<1>3. j \in JobRec /\ j.pc = "put" /\ j.blob = b
  BY <1>1, <1>2, NewJob DEF JobPCs, NoJob
<1>4. SetJob(t, j) /\ PutBytes(t, b) /\ UNCHANGED <<clock, rows>>
  BY DEF Save, row
<1> HIDE DEF j
<1>5. OSInv' /\ Grows
  BY <1>1, <1>4, PutBytesOS
<1>6. PICK pc \in {"check", "send"} : PutIs(t, pc, b, "none", 0)
  BY <1>1, <1>4, PutBytesDoes
<1>7. put'[t].blob = b /\ put'[t].pc # "idle" /\ Apart(t)
  BY <1>6, PutIsApart DEF PutIs
<1>8. QED
  BY <1>1, <1>3, <1>4, <1>5, <1>7, JobStep

LEMMA StreamSnap ==
  ASSUME SnapInv, NEW t \in Task, NEW b \in DOMAIN Order, Stream(t, b)
  PROVE  SnapInv'
<1> DEFINE j == [NoJob EXCEPT !.pc = "stream"]
<1>1. b \in Blob /\ OSInv /\ OSTypeOK
  BY SnapshotsAssumption DEF SnapInv, OSInv
<1>3. j \in JobRec /\ j.pc = "stream"
  BY NoJobType DEF JobRec, JobPCs
<1>4. SetJob(t, j) /\ PutStream(t, b) /\ UNCHANGED <<clock, rows>>
  BY DEF Stream
<1> HIDE DEF j
<1>5. OSInv' /\ Grows
  BY <1>1, <1>4, PutStreamOS
<1>6. Apart(t)
  BY <1>1, <1>4, PutStreamDoes, PutIsApart
<1>7. QED
  BY <1>3, <1>4, <1>5, <1>6, JobStep

LEMMA ReturnsSnap ==
  ASSUME SnapInv, NEW t \in Task, NEW j \in JobRec, Return(t), SetJob(t, j),
         UNCHANGED <<clock, rows>>,
         j.pc \in {"idle", "commit"},
         j.pc = "commit" => j.blob \in Blob /\ final[j.blob] # "none"
  PROVE  SnapInv'
<1>1. OSInv /\ OSTypeOK
  BY DEF SnapInv, OSInv
<1>2. OSInv' /\ Grows
  BY <1>1, ReturnOS
<1>3. Apart(t)
  BY <1>1, ReturnDoes, PutIsApart
<1>4. QED
  BY <1>2, <1>3, JobStep DEF Grows

LEMMA StampSnap ==
  ASSUME SnapInv, NEW t \in Task, Stamp(t)
  PROVE  SnapInv'
<1>1. /\ OSTypeOK /\ Settled /\ job[t] \in JobRec /\ clock \in 0..MaxClock
      /\ job[t].pc = "put" /\ Return(t) /\ UNCHANGED <<clock, rows>>
      /\ JobFits(job[t], t)
  BY SnapTypes DEF SnapInv, OSInv, Stamp, JobsInStep
<1>2. CASE put[t].pc = "err"
  <2>1. SetJob(t, NoJob)
    BY <1>2 DEF Stamp
  <2>2. QED
    BY <1>1, <2>1, ReturnsSnap, NoJobType
<1>3. CASE put[t].pc # "err"
  <2> DEFINE row == [job[t].row EXCEPT !.at = clock]
             j == [job[t] EXCEPT !.pc = "commit", !.row = row]
  <2>1. put[t].pc = "ok"
    BY <1>1, <1>3, ReturnDoes
  <2>2. job[t].blob \in Blob /\ final[job[t].blob] # "none"
    BY <1>1, <2>1 DEF JobFits, Settled
  <2>3. row \in RowRec
    BY <1>1 DEF JobRec, RowRec
  <2>4. SetJob(t, j)
    BY <1>1, <1>3 DEF Stamp, JobRec
  <2> HIDE DEF row
  <2>5. j \in JobRec /\ j.pc = "commit" /\ j.blob = job[t].blob
    BY <1>1, <2>3 DEF JobRec, JobPCs
  <2> HIDE DEF j
  <2>6. QED
    BY <1>1, <2>2, <2>4, <2>5, ReturnsSnap
<1>4. QED
  BY <1>2, <1>3

LEMMA StreamDoneSnap ==
  ASSUME SnapInv, NEW t \in Task, StreamDone(t)
  PROVE  SnapInv'
  BY NoJobType, ReturnsSnap DEF StreamDone

\* A step of the job of task t alone.
LEMMA LocalSnap ==
  ASSUME SnapInv, NEW t \in Task, NEW j \in JobRec, SetJob(t, j),
         UNCHANGED <<osVars, clock, rows>>,
         j.pc \notin {"put", "commit"}, j.pc = "get" => j.blob \in Blob
  PROVE  SnapInv'
<1>1. OSInv' /\ GoesOn
  BY SameOS DEF SnapInv
<1>2. Grows /\ Apart(t)
  BY <1>1 DEF GoesOn, Apart
<1>3. QED
  BY <1>1, <1>2, JobStep

LEMMA RestoreSnap ==
  ASSUME SnapInv, NEW t \in Task, NEW b \in DOMAIN Order, Restore(t, b)
  PROVE  SnapInv'
<1> DEFINE j == [NoJob EXCEPT !.pc = "get", !.blob = b]
<1>1. b \in Blob
  BY SnapshotsAssumption
<1>2. j \in JobRec /\ j.pc = "get" /\ j.blob = b
  BY <1>1, NoJobType DEF JobRec, JobPCs
<1>3. SetJob(t, j) /\ UNCHANGED <<osVars, clock, rows>>
  BY DEF Restore
<1> HIDE DEF j
<1>4. QED
  BY <1>1, <1>2, <1>3, LocalSnap

LEMMA ExtractSnap ==
  ASSUME SnapInv, NEW t \in Task, Extract(t)
  PROVE  SnapInv'
<1> DEFINE g == final[job[t].blob]
           j == [job[t] EXCEPT !.pc = "restored", !.got = g]
<1>1. job[t] \in JobRec /\ job[t].pc = "get" /\ JobFits(job[t], t) /\ final \in [Blob -> Content]
  BY SnapTypes, OSTypes DEF SnapInv, OSInv, Extract, JobsInStep
<1>2. g \in Content
  BY <1>1 DEF JobFits
<1>3. SetJob(t, j) \/ SetJob(t, NoJob)
  BY DEF Extract
<1>4. UNCHANGED <<osVars, clock, rows>>
  BY DEF Extract
<1> HIDE DEF g
<1>5. j \in JobRec /\ j.pc = "restored"
  BY <1>1, <1>2 DEF JobRec, JobPCs
<1> HIDE DEF j
<1>6. QED
  BY <1>3, <1>4, <1>5, NoJobType, LocalSnap

LEMMA RestoredSnap ==
  ASSUME SnapInv, NEW t \in Task, Restored(t) \/ Pruned(t)
  PROVE  SnapInv'
  BY NoJobType, LocalSnap DEF Restored, Pruned

LEMMA PruneSnap ==
  ASSUME SnapInv, NEW t \in Task, NEW p \in Policies, PruneAlone(t, p)
  PROVE  SnapInv'
<1> DEFINE todo == {b \in Listed : ~Kept(b, p)}
           j == [NoJob EXCEPT !.pc = "prune", !.todo = todo]
<1>1. todo \in SUBSET Blob
  BY DEF Listed
<1>2. SetJob(t, j) /\ UNCHANGED <<osVars, clock, rows>>
  BY DEF PruneAlone, Prune
<1> HIDE DEF todo
<1>3. j \in JobRec /\ j.pc = "prune"
  BY <1>1, NoJobType DEF JobRec, JobPCs
<1> HIDE DEF j
<1>4. QED
  BY <1>2, <1>3, LocalSnap

\* A step of the job of task t that writes the row of blob b.
LEMMA RowStep ==
  ASSUME SnapInv, NEW t \in Task, NEW j \in JobRec, SetJob(t, j), UNCHANGED <<osVars, clock>>,
         NEW b \in Blob, NEW row \in RowRec, rows' = [rows EXCEPT ![b] = row],
         row # NoRow => final[b] # "none", j.pc \notin {"put", "commit", "get"}
  PROVE  SnapInv'
<1>1. /\ clock \in 0..MaxClock /\ rows \in [Blob -> RowRec] /\ job \in [Task -> JobRec]
      /\ OSInv /\ RowHasBlob
  BY SnapTypes DEF SnapInv
<1>2. OSInv' /\ GoesOn
  BY <1>1, SameOS
<1>3. job' \in [Task -> JobRec] /\ \A u \in Task : job'[u] = IF u = t THEN j ELSE job[u]
  BY <1>1 DEF SetJob
<1>4. rows' \in [Blob -> RowRec] /\ \A c \in Blob : rows'[c] = IF c = b THEN row ELSE rows[c]
  BY <1>1
<1>5. SnapTypeOK'
  BY <1>1, <1>2, <1>3, <1>4, SnapTypesNext DEF OSInv
<1>6. JobsInStep'
  BY <1>2, <1>3 DEF SnapInv, JobsInStep, JobFits, GoesOn, Grows
<1>7. \A c \in Blob : rows'[c] # NoRow => final'[c] # "none"
  BY <1>1, <1>2, <1>4 DEF RowHasBlob, Listed, GoesOn, Grows
<1>8. QED
  BY <1>2, <1>5, <1>6, <1>7, RowsNext DEF SnapInv

LEMMA CommitRowSnap ==
  ASSUME SnapInv, NEW t \in Task, CommitRow(t)
  PROVE  SnapInv'
<1>1. job[t] \in JobRec /\ job[t].pc = "commit" /\ JobFits(job[t], t)
  BY SnapTypes DEF SnapInv, CommitRow, JobsInStep
<1>2. job[t].blob \in Blob /\ job[t].row \in RowRec /\ final[job[t].blob] # "none"
  BY <1>1 DEF JobFits, JobRec
<1>3. /\ SetJob(t, NoJob) /\ UNCHANGED <<osVars, clock>>
      /\ rows' = [rows EXCEPT ![job[t].blob] = job[t].row]
  BY DEF CommitRow
<1>4. QED
  BY <1>2, <1>3, NoJobType, RowStep

LEMMA PruneRowSnap ==
  ASSUME SnapInv, NEW t \in Task, PruneRow(t)
  PROVE  SnapInv' /\ job'[t].pc = "prune"
<1>1. job[t] \in JobRec /\ job[t].pc = "prune" /\ job \in [Task -> JobRec]
  BY SnapTypes DEF SnapInv, PruneRow
<1>2. PICK b \in job[t].todo : /\ rows' = [rows EXCEPT ![b] = NoRow]
                              /\ SetJob(t, [job[t] EXCEPT !.todo = @ \ {b}])
  BY DEF PruneRow
<1> DEFINE todo == job[t].todo \ {b}
           j == [job[t] EXCEPT !.todo = todo]
<1>3. b \in Blob /\ todo \in SUBSET Blob
  BY <1>1 DEF JobRec
<1>4. SetJob(t, j) /\ UNCHANGED <<osVars, clock>>
  BY <1>2 DEF PruneRow
<1> HIDE DEF todo
<1>5. j \in JobRec /\ j.pc = "prune"
  BY <1>1, <1>3 DEF JobRec, JobPCs
<1> HIDE DEF j
<1>6. job'[t].pc = "prune"
  BY <1>1, <1>4, <1>5 DEF SetJob
<1>7. QED
  BY <1>2, <1>3, <1>4, <1>5, <1>6, NoJobType, RowStep

LEMMA StorageErrorSnap ==
  ASSUME SnapInv, NEW t \in Task, StorageError(t)
  PROVE  SnapInv'
<1>1. OSInv' /\ GoesOn
  BY FaultOS DEF StorageError, SnapInv
<1>2. Grows /\ Apart(t)
  BY <1>1 DEF GoesOn, Apart
<1>3. QED
  BY <1>1, <1>2, NoJobType, JobStep DEF StorageError

LEMMA CrashSnap ==
  ASSUME SnapInv, Crash
  PROVE  SnapInv' /\ Grows /\ \A t \in Task : job'[t].pc = "idle"
<1>1. /\ clock \in 0..MaxClock /\ rows \in [Blob -> RowRec] /\ RowHasBlob
      /\ UNCHANGED <<clock, rows>>
  BY SnapTypes DEF SnapInv, Crash
<1>2. OSInv' /\ Grows
  BY CrashOS DEF SnapInv, Crash
<1>3. job' \in [Task -> JobRec] /\ \A t \in Task : job'[t].pc = "idle"
  BY NoJobType DEF Crash
<1>4. SnapTypeOK'
  BY <1>1, <1>2, <1>3, SnapTypesNext DEF OSInv
<1>5. JobsInStep'
  BY <1>3 DEF JobsInStep, JobFits
<1>6. QED
  BY <1>1, <1>2, <1>3, <1>4, <1>5, RowsStay DEF SnapInv

LEMMA SnapStep ==
  ASSUME SnapInv, SnapNext
  PROVE  SnapInv' /\ Grows
<1>1. CASE Tick
  BY <1>1, TickSnap DEF Tick, osVars, Grows
<1>2. CASE Store /\ UNCHANGED snapVars
  <2>1. OSInv' /\ GoesOn
    BY <1>2, PutStepOS, AbortOS DEF Store, SnapInv
  <2>2. QED
    BY <1>2, <2>1, StoreStep DEF GoesOn
<1>3. ASSUME NEW t \in Task, NEW b \in DOMAIN Order,
             (\E l \in BOOLEAN : Save(t, b, l)) \/ Stream(t, b) \/ Restore(t, b)
      PROVE  SnapInv' /\ Grows
  <2>1. SnapInv'
    BY <1>3, SaveSnap, StreamSnap, RestoreSnap
  <2>2. UNCHANGED final
    BY <1>3 DEF Save, Stream, Restore, PutBytes, PutStream, osVars
  <2>3. QED
    BY <2>1, <2>2 DEF Grows
<1>4. ASSUME NEW t \in Task, NEW p \in Policies, PruneAlone(t, p)
      PROVE  SnapInv' /\ Grows
  BY <1>4, PruneSnap DEF PruneAlone, Prune, osVars, Grows
<1>5. ASSUME NEW t \in Task,
             \/ Stamp(t) \/ CommitRow(t) \/ StreamDone(t) \/ Extract(t) \/ Restored(t)
             \/ PruneRow(t) \/ Pruned(t) \/ StorageError(t)
      PROVE  SnapInv' /\ Grows
  <2>1. SnapInv'
    BY <1>5, StampSnap, CommitRowSnap, StreamDoneSnap, ExtractSnap, RestoredSnap, PruneRowSnap,
       StorageErrorSnap
  <2>2. UNCHANGED final
    BY <1>5 DEF Stamp, CommitRow, StreamDone, Extract, Restored, PruneRow, Pruned, StorageError,
                Return, osVars
  <2>3. QED
    BY <2>1, <2>2 DEF Grows
<1>6. CASE Crash
  BY <1>6, CrashSnap
<1>7. QED
  BY <1>1, <1>2, <1>3, <1>4, <1>5, <1>6 DEF SnapNext

LEMMA SnapInitially ==
  ASSUME NEW saved \in SUBSET Blob, SnapInit(saved)
  PROVE  /\ SnapInv /\ \A t \in Task : job[t].pc = "idle"
         /\ \A b \in saved : final[b] # "none"
<1>1. OSInv /\ \A b \in saved : final[b] # "none"
  BY InitOS DEF SnapInit
<1> DEFINE row == [NoRow EXCEPT !.at = 0]
<1>2. row \in RowRec
  BY NoJobType, SnapshotsAssumption DEF RowRec
<1>3. rows = [b \in Blob |-> IF b \in saved THEN row ELSE NoRow]
  BY DEF SnapInit
<1> HIDE DEF row
<1>4. rows \in [Blob -> RowRec] /\ \A b \in Blob : rows[b] # NoRow => b \in saved
  BY <1>2, <1>3, NoJobType
<1>5. job \in [Task -> JobRec] /\ (\A t \in Task : job[t].pc = "idle") /\ clock \in 0..MaxClock
  BY NoJobType, SnapshotsAssumption DEF SnapInit
<1>6. SnapTypeOK
  BY <1>1, <1>4, <1>5, SnapTypes DEF OSInv
<1>7. RowHasBlob /\ JobsInStep
  BY <1>1, <1>4, <1>5 DEF RowHasBlob, Listed, JobsInStep, JobFits
<1>8. QED
  BY <1>1, <1>5, <1>6, <1>7 DEF SnapInv

\* Puts of others do not matter to jobs that are idle or prune.
LEMMA IdleSnap ==
  ASSUME SnapInv, OSInv', Grows, UNCHANGED snapVars,
         \A t \in Task : job[t].pc \in {"idle", "prune"}
  PROVE  SnapInv'
<1>1. /\ clock \in 0..MaxClock /\ rows \in [Blob -> RowRec] /\ job \in [Task -> JobRec]
      /\ RowHasBlob /\ UNCHANGED <<clock, rows, job>>
  BY SnapTypes DEF SnapInv, snapVars
<1>2. SnapTypeOK'
  BY <1>1, SnapTypesNext DEF OSInv
<1>3. JobsInStep'
  BY <1>1 DEF JobsInStep, JobFits
<1>4. QED
  BY <1>1, <1>2, <1>3, RowsStay DEF SnapInv

-----------------------------------------------------------------------------
(* Evaluations.                                                            *)

ItemRec == [st : {"none", "pending", "running", "done"}, at : 0 .. Examples,
            result : Blob \cup {NoBlob}]
RepRec == [on : BOOLEAN, model : Blob \cup {NoBlob}, snap : BOOLEAN,
           tasks : [Example -> Outcome], sum : Nat, total : Nat]
EvalPCs == {"idle", "resolved", "look", "seed", "claim", "store", "put", "complete", "report",
            "row"}
EvalRec == [pc : EvalPCs, run : Run \cup {NoRun}, i : Example, rep : RepRec]

EvalTypes ==
  /\ evaluating \in BOOLEAN
  /\ eval \in [Task -> EvalRec]
  /\ items \in [Run -> [Example -> ItemRec]]
  /\ reports \in [Run -> RepRec]
  /\ begun \in 0 .. MaxRuns

Busy(t) == eval[t].pc \notin {"idle", "resolved"}

\* The blob of example k's result in a report, and whether it is there.
BlobIn(rep, k) == ResultBlob[<<k, ScoreOf(rep.tasks[k])>>]
Over(r, rep, k) == items[r][k] = DoneWith(BlobIn(rep, k)) /\ final[BlobIn(rep, k)] # "none"

\* The examples among the first n that are passed, and that the metric counts.
PassedOf(tasks, n) == {k \in 1 .. n : tasks[k] = "pass"}
CountedOf(tasks, n) == {k \in 1 .. n : tasks[k] # "skip"}
Sums(rep, n) ==
  /\ rep.sum = Cardinality(PassedOf(rep.tasks, n))
  /\ rep.total = Cardinality(CountedOf(rep.tasks, n))

\* A snapshot that a report names has its tar.
Fetchable(rep) == rep.snap => rep.model \in Blob /\ final[rep.model] # "none"

\* The example that is scored and stored is at the step its item shows.
AtItem(t) ==
  /\ eval[t].pc = "claim" => Row(t) = Pending
  /\ eval[t].pc \in {"store", "put", "complete"} => Row(t) = Running(StartedAt(t))
  /\ eval[t].pc = "put" => put[t].blob = Result(t) /\ put[t].pc # "idle"
  /\ eval[t].pc = "complete" => final[Result(t)] # "none"
  /\ eval[t].pc \in {"report", "row"} => eval[t].i = Examples

\* An evaluation has a run of its own; its examples before the one it is at are
\* over, those after it are untouched, and its sums are those of the examples
\* scored so far.
InProgress(t) ==
  /\ eval[t].run \in 1 .. begun /\ ~reports[eval[t].run].on
  /\ Sums(eval[t].rep, IF eval[t].pc = "look" THEN eval[t].i - 1 ELSE eval[t].i)
  /\ \A k \in Example :
       /\ k < eval[t].i \/ eval[t].pc \in {"report", "row"} => Over(eval[t].run, eval[t].rep, k)
       /\ k > eval[t].i \/ (k = eval[t].i /\ eval[t].pc \in {"look", "seed"}) =>
            items[eval[t].run][k] = NoItem
  /\ AtItem(t)

EvalsInStep ==
  \A t \in Task :
    /\ eval[t].pc = "resolved" => eval[t].i = 1 /\ eval[t].rep.sum = 0 /\ eval[t].rep.total = 0
    /\ eval[t].pc # "idle" => Fetchable(eval[t].rep)
    /\ Busy(t) => InProgress(t)

RunsApart ==
  \A t, u \in Task : Busy(t) /\ Busy(u) /\ eval[t].run = eval[u].run => t = u

\* Run ids are new.
Unused == \A r \in Run : r > begun => ~reports[r].on /\ \A k \in Example : items[r][k] = NoItem

\* Either snapshots or evaluations are at work.
ModesApart ==
  /\ evaluating => \A t \in Task : job[t].pc \in {"idle", "prune"}
  /\ ~evaluating => \A t \in Task : eval[t].pc = "idle"

Reported(r) ==
  /\ Sums(reports[r], Examples)
  /\ \A k \in Example : Over(r, reports[r], k)
  /\ Fetchable(reports[r])
ReportsSound == \A r \in Run : IF reports[r].on THEN Reported(r) ELSE reports[r] = NoReport

EvalInv ==
  EvalTypes /\ EvalsInStep /\ RunsApart /\ Unused /\ ModesApart /\ ReportsSound

IInv == SnapInv /\ EvalInv

Fits(t) ==
  /\ eval[t].pc = "resolved" => eval[t].i = 1 /\ eval[t].rep.sum = 0 /\ eval[t].rep.total = 0
  /\ eval[t].pc # "idle" => Fetchable(eval[t].rep)
  /\ Busy(t) => InProgress(t)

LEMMA EvalsFit == EvalsInStep <=> \A t \in Task : Fits(t)
  BY DEF EvalsInStep, Fits

LEMMA EvalsFitNext ==
  ASSUME \A t \in Task : Fits(t)'
  PROVE  EvalsInStep'
  BY DEF EvalsInStep, Fits

LEMMA FetchableStays ==
  ASSUME NEW rep, Fetchable(rep), Grows
  PROVE  Fetchable(rep)'
  BY DEF Fetchable, Grows

LEMMA ExampleFacts ==
  /\ 1 \in Example /\ Examples \in Example /\ Example \subseteq Nat
  /\ \A k \in Example : k >= 1 /\ k <= Examples
  /\ Run \subseteq Nat /\ \A r \in Run : r >= 1 /\ r <= MaxRuns
  BY EvalJobAssumption DEF Example, Run

LEMMA ItemTypes ==
  /\ NoItem \in ItemRec /\ NoItem.st = "none"
  /\ Pending \in ItemRec /\ Pending.st = "pending"
  /\ \A a \in Example : Running(a) \in ItemRec /\ Running(a).st = "running"
  /\ \A b \in Blob : DoneWith(b) \in ItemRec /\ DoneWith(b).st = "done" /\ DoneWith(b).result = b
<1>1. /\ NoItem \in ItemRec /\ NoItem.st = "none"
      /\ Pending \in ItemRec /\ Pending.st = "pending"
  BY ExampleFacts DEF NoItem, Pending, ItemRec
<1>2. \A a \in Example : Running(a) \in ItemRec /\ Running(a).st = "running"
  <2> TAKE a \in Example
  <2>1. a \in 0 .. Examples
    BY DEF Example
  <2>2. QED
    BY <1>1, <2>1 DEF Running, ItemRec
<1>3. \A b \in Blob : /\ DoneWith(b) \in ItemRec /\ DoneWith(b).st = "done"
                      /\ DoneWith(b).result = b
  BY <1>1 DEF DoneWith, ItemRec
<1>4. QED
  BY <1>1, <1>2, <1>3

LEMMA ResultBlobs ==
  /\ \A k \in Example : \A s \in Score : ResultBlob[<<k, s>>] \in Blob
  /\ \A o \in Outcome : ScoreOf(o) \in Score
  BY EvalJobAssumption DEF Score, Outcome, ScoreOf

LEMMA BlobInType ==
  ASSUME NEW rep \in RepRec, NEW k \in Example
  PROVE  BlobIn(rep, k) \in Blob
<1>1. rep.tasks[k] \in Outcome
  BY DEF RepRec
<1>2. QED
  BY <1>1, ResultBlobs DEF BlobIn

LEMMA NoEvalType ==
  /\ NoReport \in RepRec /\ ~NoReport.on /\ NoReport.sum = 0 /\ NoReport.total = 0
  /\ NoEval \in EvalRec /\ NoEval.pc = "idle" /\ NoEval.i = 1 /\ NoEval.rep = NoReport
<1>1. [k \in Example |-> "fail"] \in [Example -> Outcome]
  BY DEF Outcome
<1>2. NoReport \in RepRec /\ ~NoReport.on /\ NoReport.sum = 0 /\ NoReport.total = 0
  BY <1>1 DEF NoReport, RepRec
<1>3. QED
  BY <1>2, ExampleFacts DEF NoEval, EvalRec, EvalPCs, NoRun

\* Task t is in evaluation e now.
EvalIs(t, e) ==
  /\ eval' \in [Task -> EvalRec] /\ eval'[t] = e
  /\ \A u \in Task : u # t => eval'[u] = eval[u]

LEMMA SetDoes ==
  ASSUME EvalTypes, NEW t \in Task, NEW e \in EvalRec, Set(t, e)
  PROVE  EvalIs(t, e)
  BY DEF EvalTypes, Set, EvalIs

\* The item of the example that task t is at is row now.
ItemIs(t, row) ==
  /\ items' \in [Run -> [Example -> ItemRec]]
  /\ items'[eval[t].run][eval[t].i] = row
  /\ \A k \in Example : k # eval[t].i => items'[eval[t].run][k] = items[eval[t].run][k]
  /\ \A r \in Run : r # eval[t].run => items'[r] = items[r]

LEMMA SetItemDoes ==
  ASSUME EvalTypes, NEW t \in Task, eval[t].run \in Run, NEW row \in ItemRec, SetItem(t, row)
  PROVE  ItemIs(t, row)
<1>1. items \in [Run -> [Example -> ItemRec]] /\ eval[t].i \in Example
  BY DEF EvalTypes, EvalRec
<1> DEFINE r == eval[t].run  k == eval[t].i
<1>2. items' = [items EXCEPT ![r] = [items[r] EXCEPT ![k] = row]]
  BY DEF SetItem
<1>3. r \in Run /\ k \in Example
  BY <1>1
<1> HIDE DEF r, k
<1> DEFINE f == [items[r] EXCEPT ![k] = row]
<1>4. f \in [Example -> ItemRec] /\ f[k] = row /\ \A n \in Example : n # k => f[n] = items[r][n]
  BY <1>1, <1>3
<1> HIDE DEF f
<1>5. items' = [items EXCEPT ![r] = f]
  BY <1>2 DEF f
<1>6. /\ items' \in [Run -> [Example -> ItemRec]] /\ items'[r] = f
      /\ \A q \in Run : q # r => items'[q] = items[q]
  BY <1>1, <1>3, <1>4, <1>5
<1>7. QED
  BY <1>4, <1>6 DEF ItemIs, r, k

\* Progress of other evaluations is not disturbed.
LEMMA Bystander ==
  ASSUME IInv, NEW u \in Task, eval'[u] = eval[u], Grows,
         put'[u].blob = put[u].blob, put[u].pc # "idle" => put'[u].pc # "idle",
         begun' \in Nat, begun <= begun',
         Busy(u) => /\ items'[eval[u].run] = items[eval[u].run]
                    /\ reports'[eval[u].run] = reports[eval[u].run]
  PROVE  Fits(u)'
<1>1. Fits(u) /\ eval[u] \in EvalRec /\ begun \in Nat
  BY EvalsFit, ExampleFacts, EvalJobAssumption DEF IInv, EvalInv, EvalTypes
<1>0. eval'[u].pc # "idle" => Fetchable(eval[u].rep)'
  BY <1>1 DEF Fits, Fetchable, Grows
<1>2. CASE ~Busy(u)
  BY <1>0, <1>1, <1>2 DEF Fits, Busy
<1>3. CASE Busy(u)
  <2>1. InProgress(u) /\ eval[u].rep \in RepRec /\ eval[u].i \in Example
    BY <1>1, <1>3 DEF Fits, EvalRec
  <2>2. eval'[u].run \in 1 .. begun' /\ ~reports'[eval'[u].run].on
    BY <1>1, <1>3, <2>1 DEF InProgress
  <2>3. \A k \in Example : BlobIn(eval[u].rep, k) \in Blob
    BY <2>1, BlobInType
  <2>4. \A k \in Example : Over(eval[u].run, eval[u].rep, k) =>
          items'[eval[u].run][k] = DoneWith(BlobIn(eval[u].rep, k))
          /\ final'[BlobIn(eval[u].rep, k)] # "none"
    BY <1>3, <2>3 DEF Over, Grows
  <2>5. Sums(eval'[u].rep, IF eval'[u].pc = "look" THEN eval'[u].i - 1 ELSE eval'[u].i)
    BY <2>1 DEF InProgress
  <2>6. \A k \in Example :
       /\ k < eval'[u].i \/ eval'[u].pc \in {"report", "row"} =>
            items'[eval'[u].run][k] = DoneWith(BlobIn(eval'[u].rep, k))
            /\ final'[BlobIn(eval'[u].rep, k)] # "none"
       /\ k > eval'[u].i \/ (k = eval'[u].i /\ eval'[u].pc \in {"look", "seed"}) =>
            items'[eval'[u].run][k] = NoItem
    BY <1>3, <2>1, <2>4 DEF InProgress
  <2>7. Result(u) = BlobIn(eval[u].rep, eval[u].i) /\ Result(u) \in Blob
    BY <2>1, <2>3 DEF Result, BlobIn
  <2>8. Result(u)' = Result(u)
    BY DEF Result
  <2>9. AtItem(u)'
    BY <1>3, <2>1, <2>7, <2>8 DEF InProgress, AtItem, Row, StartedAt, Grows
  <2>10. InProgress(u)'
    BY <2>2, <2>5, <2>6, <2>9 DEF InProgress, Over
  <2>11. QED
    BY <1>0, <1>1, <2>10 DEF Fits, Busy
<1>4. QED
  BY <1>2, <1>3

\* Reports that are there stay sound.
LEMMA ReportStays ==
  ASSUME IInv, NEW r \in Run, Grows, reports'[r] = reports[r],
         reports[r].on => items'[r] = items[r]
  PROVE  (IF reports[r].on THEN Reported(r) ELSE reports[r] = NoReport)'
<1>1. /\ (IF reports[r].on THEN Reported(r) ELSE reports[r] = NoReport)
      /\ reports[r] \in RepRec
  BY DEF IInv, EvalInv, ReportsSound, EvalTypes
<1>2. CASE ~reports[r].on
  BY <1>1, <1>2
<1>3. CASE reports[r].on
  <2>1. Reported(r)
    BY <1>1, <1>3
  <2>2. \A k \in Example : BlobIn(reports[r], k) \in Blob
    BY <1>1, BlobInType
  <2>3. \A k \in Example : Over(r, reports[r], k)'
    BY <1>3, <2>1, <2>2 DEF Reported, Over, Grows, BlobIn
  <2>4. Fetchable(reports[r])'
    BY <2>1 DEF Reported, Fetchable, Grows
  <2>5. QED
    BY <1>3, <2>1, <2>3, <2>4 DEF Reported, Sums
<1>4. QED
  BY <1>2, <1>3

LEMMA OverStays ==
  ASSUME NEW r, NEW rep \in RepRec, NEW k \in Example, Over(r, rep, k),
         items'[r][k] = items[r][k], Grows
  PROVE  Over(r, rep, k)'
<1>1. BlobIn(rep, k) \in Blob
  BY BlobInType
<1>2. QED
  BY <1>1 DEF Over, Grows, BlobIn

LEMMA Awake ==
  ASSUME IInv, NEW t \in Task, eval[t].pc # "idle"
  PROVE  evaluating
  BY DEF IInv, EvalInv, ModesApart

LEMMA BusyFacts ==
  ASSUME IInv, NEW t \in Task, Busy(t)
  PROVE  /\ evaluating /\ InProgress(t) /\ eval[t] \in EvalRec /\ eval[t].run \in Run
         /\ eval[t].i \in Example /\ eval[t].rep \in RepRec /\ Fetchable(eval[t].rep)
         /\ begun \in Nat
<1>1. Fits(t) /\ eval[t] \in EvalRec /\ begun \in 0 .. MaxRuns
  BY EvalsFit DEF IInv, EvalInv, EvalTypes
<1>2. InProgress(t) /\ eval[t].pc # "idle"
  BY <1>1 DEF Fits, Busy
<1>3. eval[t].run \in Run
  BY <1>1, <1>2, EvalJobAssumption DEF InProgress, Run
<1>4. QED
  BY <1>1, <1>2, <1>3, Awake, EvalJobAssumption DEF EvalRec, Fits

\* A step of the evaluation of task t, in its own run.
LEMMA WorkStep ==
  ASSUME IInv, SnapInv', NEW t \in Task, NEW e \in EvalRec, EvalIs(t, e), evaluating,
         UNCHANGED <<job, evaluating, reports, begun>>, Grows, Apart(t),
         items' \in [Run -> [Example -> ItemRec]],
         \A r \in Run : ~(Busy(t) /\ r = eval[t].run) => items'[r] = items[r],
         e.pc \notin {"idle", "resolved"} => Busy(t) /\ e.run = eval[t].run,
         Fits(t)'
  PROVE  IInv'
<1>1. /\ EvalTypes /\ EvalsInStep /\ RunsApart /\ Unused /\ ModesApart /\ ReportsSound
  BY DEF IInv, EvalInv
<1>2. begun \in Nat /\ \A u \in Task : Busy(u) => InProgress(u) /\ eval[u].run \in Run
  BY <1>1, BusyFacts, EvalJobAssumption DEF EvalTypes
<1>3. EvalTypes'
  BY <1>1 DEF EvalTypes, EvalIs
<1>4. \A u \in Task : Fits(u)'
  <2>1. ASSUME NEW u \in Task, u # t PROVE Fits(u)'
    <3>1. /\ eval'[u] = eval[u] /\ put'[u].blob = put[u].blob
          /\ (put[u].pc # "idle" => put'[u].pc # "idle")
      BY <2>1 DEF EvalIs, Apart
    <3>2. Busy(u) => items'[eval[u].run] = items[eval[u].run]
      BY <1>1, <1>2, <2>1 DEF RunsApart
    <3>3. QED
      BY <1>2, <3>1, <3>2, Bystander
  <2>2. QED
    BY <2>1
<1>5. RunsApart'
  BY <1>1 DEF RunsApart, Busy, EvalIs
<1>6. Unused'
  <2> SUFFICES ASSUME NEW r \in Run, r > begun'
               PROVE  ~reports'[r].on /\ \A k \in Example : items'[r][k] = NoItem
    BY DEF Unused
  <2>1. ~(Busy(t) /\ r = eval[t].run)
    BY <1>2 DEF InProgress
  <2>2. QED
    BY <1>1, <2>1 DEF Unused
<1>7. ModesApart'
  BY <1>1 DEF ModesApart
<1>8. ReportsSound'
  <2>1. ASSUME NEW r \in Run
        PROVE  (IF reports[r].on THEN Reported(r) ELSE reports[r] = NoReport)'
    <3>1. reports[r].on => items'[r] = items[r]
      BY <1>2 DEF InProgress
    <3>2. QED
      BY <3>1, ReportStays
  <2>2. QED
    BY <2>1 DEF ReportsSound
<1>9. QED
  BY <1>3, <1>4, <1>5, <1>6, <1>7, <1>8, EvalsFitNext DEF IInv, EvalInv

\* Nothing but the object store, the clock or the snapshots is touched.
LEMMA LocalEval ==
  ASSUME IInv, NEW t \in Task, UNCHANGED <<osVars, snapVars>>
  PROVE  SnapInv' /\ Grows /\ Apart(t) /\ UNCHANGED job
<1>1. OSInv' /\ GoesOn
  BY SameOS DEF IInv, SnapInv
<1>2. QED
  BY <1>1, StoreStep DEF IInv, GoesOn, Apart, snapVars

\* The evaluation of task t ends.
LEMMA EndStep ==
  ASSUME IInv, SnapInv', NEW t \in Task, Set(t, NoEval), evaluating,
         UNCHANGED <<job, evaluating, items, reports, begun>>, Grows, Apart(t)
  PROVE  IInv'
<1>1. EvalTypes
  BY DEF IInv, EvalInv
<1>2. EvalIs(t, NoEval)
  BY <1>1, SetDoes, NoEvalType
<1>3. Fits(t)'
  BY <1>2, NoEvalType DEF Fits, Busy, EvalIs
<1>4. QED
  BY <1>1, <1>2, <1>3, WorkStep, NoEvalType DEF EvalTypes

LEMMA ResolveEval ==
  ASSUME IInv, NEW t \in Task, NEW b \in Asked, Resolve(t, b)
  PROVE  IInv'
<1>s. PICK s \in BOOLEAN : s = (b \in Listed)
  <2>1. CASE b \in Listed
    BY <2>1
  <2>2. CASE b \notin Listed
    <3>1. (b \in Listed) = FALSE
      BY <2>2
    <3>2. FALSE \in BOOLEAN /\ FALSE = (b \in Listed)
      BY <3>1
    <3>3. QED
      BY ONLY <3>2, Zenon
  <2>3. QED
    BY <2>1, <2>2
<1> DEFINE rep == [NoReport EXCEPT !.model = b, !.snap = s]
           e == [NoEval EXCEPT !.pc = "resolved", !.rep = rep]
<1>1. /\ EvalTypes /\ evaluating /\ ~Busy(t)
      /\ UNCHANGED <<osVars, snapVars, evaluating, items, reports, begun>>
  BY DEF IInv, EvalInv, Resolve, At, Busy
<1>0. b \in Blob /\ RowHasBlob
  BY EvalJobAssumption DEF IInv, SnapInv
<1>2. rep \in RepRec /\ rep.model = b /\ rep.snap = s /\ rep.sum = 0 /\ rep.total = 0
  BY <1>0, NoEvalType DEF RepRec
<1>3. Set(t, e)
  BY <1>s, NoEvalType DEF Resolve, EvalRec
<1> HIDE DEF rep
<1>4. e \in EvalRec /\ e.pc = "resolved" /\ e.i = 1 /\ e.rep = rep
  BY <1>2, NoEvalType DEF EvalRec, EvalPCs
<1> HIDE DEF e
<1>5. EvalIs(t, e)
  BY <1>1, <1>3, <1>4, SetDoes
<1>7. SnapInv' /\ Grows /\ Apart(t) /\ UNCHANGED job
  BY <1>1, LocalEval
<1>9. Fetchable(rep)'
  <2>1. Fetchable(rep)
    BY <1>s, <1>0, <1>2 DEF Fetchable, RowHasBlob
  <2>2. QED
    BY <1>7, <2>1, FetchableStays
<1>6. Fits(t)'
  BY <1>2, <1>4, <1>5, <1>9 DEF Fits, Busy, EvalIs
<1>8. QED
  BY <1>1, <1>4, <1>5, <1>6, <1>7, WorkStep DEF EvalTypes

LEMMA DryRunEval ==
  ASSUME IInv, NEW t \in Task, DryRun(t)
  PROVE  IInv'
<1>1. evaluating
  BY Awake DEF DryRun, At
<1>2. QED
  BY <1>1, LocalEval, EndStep DEF DryRun

LEMMA EvalErrorEval ==
  ASSUME IInv, NEW t \in Task, EvalError(t)
  PROVE  IInv'
<1>1. evaluating
  BY Awake DEF EvalError
<1>2. OSInv' /\ GoesOn
  BY FaultOS DEF IInv, SnapInv, EvalError
<1>3. SnapInv' /\ Grows /\ Apart(t) /\ UNCHANGED job
  BY <1>2, StoreStep DEF IInv, EvalError, GoesOn, Apart, snapVars
<1>4. QED
  BY <1>1, <1>3, EndStep DEF EvalError

LEMMA StepDoes ==
  ASSUME EvalTypes, NEW t \in Task, NEW pc \in EvalPCs, Step(t, pc)
  PROVE  \E e \in EvalRec :
           /\ EvalIs(t, e) /\ e.pc = pc
           /\ e.run = eval[t].run /\ e.i = eval[t].i /\ e.rep = eval[t].rep
<1> DEFINE e == [eval[t] EXCEPT !.pc = pc]
<1>1. eval[t] \in EvalRec
  BY DEF EvalTypes
<1>2. e \in EvalRec /\ e.pc = pc /\ e.run = eval[t].run /\ e.i = eval[t].i /\ e.rep = eval[t].rep
  BY <1>1 DEF EvalRec
<1>3. Set(t, e)
  BY DEF Step, Set
<1> HIDE DEF e
<1>4. QED
  BY <1>2, <1>3, SetDoes

\* An evaluation goes on with the example it is at, or from its report to the
\* report's row.
LEMMA Continue ==
  ASSUME IInv, NEW t \in Task, NEW e \in EvalRec, EvalIs(t, e), Grows,
         UNCHANGED <<reports, begun>>,
         e.run = eval[t].run, e.i = eval[t].i, e.rep = eval[t].rep,
         \/ /\ eval[t].pc \in {"seed", "claim", "store", "put"}
            /\ e.pc \in {"claim", "store", "put", "complete"}
         \/ eval[t].pc = "report" /\ e.pc = "row" /\ UNCHANGED items,
         \A k \in Example : k # eval[t].i => items'[eval[t].run][k] = items[eval[t].run][k],
         AtItem(t)'
  PROVE  Fits(t)'
<1>1. Busy(t)
  BY DEF Busy
<1>2. /\ InProgress(t) /\ eval[t] \in EvalRec /\ eval[t].run \in Run
      /\ eval[t].i \in Example /\ eval[t].rep \in RepRec /\ Fetchable(eval[t].rep)
  BY <1>1, BusyFacts
<1>3. eval'[t] = e
  BY DEF EvalIs
<1>4. e.run \in 1 .. begun' /\ ~reports'[e.run].on /\ Sums(e.rep, e.i)
  BY <1>2 DEF InProgress
<1>5. ASSUME NEW k \in Example, k < e.i \/ e.pc \in {"report", "row"}
      PROVE  Over(e.run, e.rep, k)'
  <2>1. Over(eval[t].run, eval[t].rep, k)
    BY <1>2, <1>5 DEF InProgress
  <2>2. items'[eval[t].run][k] = items[eval[t].run][k]
    BY <1>2, <1>5, ExampleFacts
  <2>3. QED
    BY <1>2, <2>1, <2>2, OverStays
<1>6. ASSUME NEW k \in Example, k > e.i
      PROVE  items'[e.run][k] = NoItem
  BY <1>2, <1>6, ExampleFacts DEF InProgress
<1>7. InProgress(t)'
  BY <1>3, <1>4, <1>5, <1>6 DEF InProgress
<1>8. Fetchable(e.rep)'
  BY <1>2, FetchableStays
<1>9. QED
  BY <1>3, <1>7, <1>8 DEF Fits, Busy

LEMMA SeedEval ==
  ASSUME IInv, NEW t \in Task, Seed(t)
  PROVE  IInv'
<1>1. /\ EvalTypes /\ eval[t].pc = "seed" /\ Busy(t)
      /\ UNCHANGED <<osVars, snapVars, evaluating, reports, begun>>
  BY DEF IInv, EvalInv, Seed, At, Busy
<1>2. /\ evaluating /\ InProgress(t) /\ eval[t].run \in Run /\ eval[t].i \in Example
  BY <1>1, BusyFacts
<1>3. ItemIs(t, Pending)
  BY <1>1, <1>2, SetItemDoes, ItemTypes DEF Seed
<1>4. PICK e \in EvalRec :
        /\ EvalIs(t, e) /\ e.pc = "claim"
        /\ e.run = eval[t].run /\ e.i = eval[t].i /\ e.rep = eval[t].rep
  BY <1>1, StepDoes DEF Seed, EvalPCs
<1>5. SnapInv' /\ Grows /\ Apart(t) /\ UNCHANGED job
  BY <1>1, LocalEval
<1>6. AtItem(t)'
  BY <1>3, <1>4 DEF AtItem, EvalIs, ItemIs, Row
<1>7. Fits(t)'
  BY <1>1, <1>3, <1>4, <1>5, <1>6, Continue DEF ItemIs
<1>8. QED
  BY <1>1, <1>2, <1>3, <1>4, <1>5, <1>7, WorkStep DEF ItemIs

LEMMA ClaimEval ==
  ASSUME IInv, NEW t \in Task, Claim(t)
  PROVE  IInv'
<1>1. /\ EvalTypes /\ eval[t].pc = "claim" /\ Busy(t)
      /\ UNCHANGED <<osVars, snapVars, evaluating, reports, begun>>
  BY DEF IInv, EvalInv, Claim, At, Busy
<1>2. /\ evaluating /\ InProgress(t) /\ eval[t].run \in Run /\ eval[t].i \in Example
  BY <1>1, BusyFacts
<1>3. Row(t) = Pending
  BY <1>1, <1>2 DEF InProgress, AtItem
<1>4. ItemIs(t, Running(eval[t].i))
  BY <1>1, <1>2, <1>3, SetItemDoes, ItemTypes DEF Claim, StartedAt
<1>5. PICK e \in EvalRec :
        /\ EvalIs(t, e) /\ e.pc = "store"
        /\ e.run = eval[t].run /\ e.i = eval[t].i /\ e.rep = eval[t].rep
  BY <1>1, StepDoes DEF Claim, EvalPCs
<1>6. SnapInv' /\ Grows /\ Apart(t) /\ UNCHANGED job
  BY <1>1, LocalEval
<1>7. AtItem(t)'
  BY <1>4, <1>5 DEF AtItem, EvalIs, ItemIs, Row, StartedAt
<1>8. Fits(t)'
  BY <1>1, <1>4, <1>5, <1>6, <1>7, Continue DEF ItemIs
<1>9. QED
  BY <1>1, <1>2, <1>4, <1>5, <1>6, <1>8, WorkStep DEF ItemIs

LEMMA ResultType ==
  ASSUME IInv, NEW t \in Task, Busy(t)
  PROVE  Result(t) \in Blob /\ Result(t) = BlobIn(eval[t].rep, eval[t].i)
<1>1. eval[t].i \in Example /\ eval[t].rep \in RepRec
  BY BusyFacts
<1>2. QED
  BY <1>1, BlobInType DEF Result, BlobIn

LEMMA StoreResultEval ==
  ASSUME IInv, NEW t \in Task, StoreResult(t)
  PROVE  IInv'
<1>1. /\ EvalTypes /\ eval[t].pc = "store" /\ Busy(t) /\ SnapInv /\ OSInv /\ OSTypeOK
      /\ UNCHANGED <<snapVars, evaluating, items, reports, begun>>
      /\ ModesApart
  BY DEF IInv, EvalInv, SnapInv, OSInv, StoreResult, At, Busy
<1>2. evaluating /\ InProgress(t) /\ Result(t) \in Blob
  BY <1>1, BusyFacts, ResultType
<1>3. OSInv' /\ Grows
  BY <1>1, <1>2, PutBytesOS DEF StoreResult
<1>4. PICK pc \in {"check", "send"} : PutIs(t, pc, Result(t), "none", 0)
  BY <1>1, <1>2, PutBytesDoes DEF StoreResult
<1>5. /\ put'[t].blob = Result(t) /\ put'[t].pc # "idle" /\ Apart(t)
      /\ \A u \in Task : u # t => put'[u] = put[u]
  BY <1>4, PutIsApart DEF PutIs
<1>6. SnapInv'
  BY <1>1, <1>2, <1>3, IdleSnap DEF ModesApart
<1>7. PICK e \in EvalRec :
        /\ EvalIs(t, e) /\ e.pc = "put"
        /\ e.run = eval[t].run /\ e.i = eval[t].i /\ e.rep = eval[t].rep
  BY <1>1, StepDoes DEF StoreResult, EvalPCs
<1>8. Result(t)' = Result(t) /\ Row(t)' = Row(t) /\ StartedAt(t)' = StartedAt(t)
  BY <1>1, <1>7 DEF Result, Row, StartedAt, EvalIs
<1>9. AtItem(t)'
  BY <1>1, <1>2, <1>5, <1>7, <1>8 DEF AtItem, EvalIs, InProgress
<1>10. Fits(t)'
  BY <1>1, <1>3, <1>7, <1>9, Continue
<1>11. UNCHANGED job
  BY <1>1 DEF snapVars
<1>12. QED
  BY <1>1, <1>2, <1>3, <1>5, <1>6, <1>7, <1>10, <1>11, WorkStep DEF EvalTypes

LEMMA StoredEval ==
  ASSUME IInv, NEW t \in Task, Stored(t)
  PROVE  IInv'
<1>1. /\ EvalTypes /\ eval[t].pc = "put" /\ Busy(t) /\ SnapInv /\ OSInv /\ OSTypeOK /\ Settled
      /\ UNCHANGED <<snapVars, evaluating, items, reports, begun>> /\ Return(t)
      /\ ModesApart
  BY DEF IInv, EvalInv, SnapInv, OSInv, Stored, At, Busy
<1>2. /\ evaluating /\ InProgress(t) /\ Result(t) \in Blob /\ UNCHANGED job
  BY <1>1, BusyFacts, ResultType DEF snapVars
<1>3. OSInv' /\ Grows
  BY <1>1, ReturnOS
<1>4. Apart(t) /\ put[t].pc \in {"ok", "err"}
  BY <1>1, ReturnDoes, PutIsApart
<1>5. SnapInv'
  BY <1>1, <1>2, <1>3, IdleSnap DEF ModesApart
<1>6. CASE put[t].pc = "err"
  BY <1>1, <1>2, <1>3, <1>4, <1>5, <1>6, EndStep DEF Stored
<1>7. CASE put[t].pc # "err"
  <2>1. PICK e \in EvalRec :
          /\ EvalIs(t, e) /\ e.pc = "complete"
          /\ e.run = eval[t].run /\ e.i = eval[t].i /\ e.rep = eval[t].rep
    BY <1>1, <1>7, StepDoes DEF Stored, EvalPCs
  <2>2. final[Result(t)] # "none"
    BY <1>1, <1>2, <1>4, <1>7 DEF Settled, InProgress, AtItem
  <2>3. Result(t)' = Result(t) /\ Row(t)' = Row(t) /\ StartedAt(t)' = StartedAt(t)
    BY <1>1, <2>1 DEF Result, Row, StartedAt, EvalIs
  <2>4. final'[Result(t)] # "none"
    BY <1>2, <1>3, <2>2 DEF Grows
  <2>5. AtItem(t)'
    BY <1>1, <1>2, <2>1, <2>3, <2>4 DEF AtItem, EvalIs, InProgress
  <2>6. Fits(t)'
    BY <1>1, <1>3, <2>1, <2>5, Continue
  <2>7. QED
    BY <1>1, <1>2, <1>3, <1>4, <1>5, <2>1, <2>6, WorkStep DEF EvalTypes
<1>8. QED
  BY <1>6, <1>7

LEMMA PutReportEval ==
  ASSUME IInv, NEW t \in Task, PutReport(t)
  PROVE  IInv'
<1>1. /\ EvalTypes /\ eval[t].pc = "report" /\ Busy(t)
      /\ UNCHANGED <<osVars, snapVars, evaluating, items, reports, begun>>
  BY DEF IInv, EvalInv, PutReport, At, Busy
<1>2. evaluating /\ InProgress(t)
  BY <1>1, BusyFacts
<1>3. PICK e \in EvalRec :
        /\ EvalIs(t, e) /\ e.pc = "row"
        /\ e.run = eval[t].run /\ e.i = eval[t].i /\ e.rep = eval[t].rep
  BY <1>1, StepDoes DEF PutReport, EvalPCs
<1>4. SnapInv' /\ Grows /\ Apart(t) /\ UNCHANGED job
  BY <1>1, LocalEval
<1>5. AtItem(t)'
  BY <1>1, <1>2, <1>3 DEF AtItem, EvalIs, InProgress
<1>6. Fits(t)'
  BY <1>1, <1>3, <1>4, <1>5, Continue
<1>7. QED
  BY <1>1, <1>2, <1>3, <1>4, <1>6, WorkStep DEF EvalTypes

LEMMA OnwardDoes ==
  ASSUME NEW e \in EvalRec
  PROVE  /\ Onward(e) \in EvalRec /\ Onward(e).run = e.run /\ Onward(e).rep = e.rep
         /\ \/ /\ e.i < Examples /\ Onward(e).pc = "look" /\ Onward(e).i = e.i + 1
            \/ e.i = Examples /\ Onward(e).pc = "report" /\ Onward(e).i = e.i
<1>1. e.i \in Example /\ e.i \in Nat /\ e.i <= Examples
  BY ExampleFacts DEF EvalRec
<1>2. CASE e.i < Examples
  <2> DEFINE n == e.i + 1
  <2>1. n \in Example
    BY <1>1, <1>2, EvalJobAssumption DEF Example
  <2>2. Onward(e) = [e EXCEPT !.pc = "look", !.i = n]
    BY <1>2 DEF Onward
  <2> HIDE DEF n
  <2>3. /\ Onward(e) \in EvalRec /\ Onward(e).run = e.run /\ Onward(e).rep = e.rep
        /\ Onward(e).pc = "look" /\ Onward(e).i = n
    BY <2>1, <2>2 DEF EvalRec, EvalPCs
  <2>4. QED
    BY <1>2, <2>3 DEF n
<1>3. CASE ~(e.i < Examples)
  <2>1. e.i = Examples
    BY <1>1, <1>3, EvalJobAssumption
  <2>2. Onward(e) = [e EXCEPT !.pc = "report"]
    BY <1>3 DEF Onward
  <2>3. QED
    BY <2>1, <2>2 DEF EvalRec, EvalPCs
<1>4. QED
  BY <1>2, <1>3

LEMMA CompleteEval ==
  ASSUME IInv, NEW t \in Task, Complete(t)
  PROVE  IInv'
<1>1. /\ EvalTypes /\ eval[t].pc = "complete" /\ Busy(t)
      /\ UNCHANGED <<osVars, snapVars, evaluating, reports, begun>>
  BY DEF IInv, EvalInv, Complete, At, Busy
<1>2. /\ evaluating /\ InProgress(t) /\ eval[t].run \in Run /\ eval[t].i \in Example
      /\ eval[t] \in EvalRec /\ eval[t].rep \in RepRec /\ Fetchable(eval[t].rep)
      /\ Result(t) \in Blob /\ Result(t) = BlobIn(eval[t].rep, eval[t].i)
  BY <1>1, BusyFacts, ResultType
<1>3. Row(t) = Running(StartedAt(t)) /\ final[Result(t)] # "none"
  BY <1>1, <1>2 DEF InProgress, AtItem
<1>4. ItemIs(t, DoneWith(Result(t)))
  BY <1>1, <1>2, <1>3, SetItemDoes, ItemTypes DEF Complete
<1>5. PICK e \in EvalRec :
        /\ EvalIs(t, e) /\ e.run = eval[t].run /\ e.rep = eval[t].rep
        /\ \/ e.pc = "look" /\ e.i = eval[t].i + 1
           \/ e.pc = "report" /\ e.i = eval[t].i /\ eval[t].i = Examples
  BY <1>1, <1>2, OnwardDoes, SetDoes DEF Complete
<1>6. SnapInv' /\ Grows /\ Apart(t) /\ UNCHANGED job
  BY <1>1, LocalEval
<1>7. /\ e.run \in 1 .. begun' /\ ~reports'[e.run].on /\ Sums(e.rep, eval[t].i)
      /\ eval[t].i \in Nat
      /\ \A k \in Example : k < eval[t].i => Over(e.run, e.rep, k)
      /\ \A k \in Example : k > eval[t].i => items[e.run][k] = NoItem
  BY <1>1, <1>2, <1>5, ExampleFacts DEF InProgress
<1>8. ASSUME NEW k \in Example, k <= eval[t].i
      PROVE  Over(e.run, e.rep, k)'
  <2>1. CASE k = eval[t].i
    <3>1. Result(t) = BlobIn(e.rep, k) /\ items'[e.run][k] = DoneWith(Result(t))
      BY <1>2, <1>4, <1>5, <2>1 DEF ItemIs
    <3>2. final'[Result(t)] # "none"
      BY <1>2, <1>3, <1>6 DEF Grows
    <3>3. QED
      BY <3>1, <3>2 DEF Over, BlobIn
  <2>2. CASE k # eval[t].i
    <3>1. Over(e.run, e.rep, k) /\ items'[e.run][k] = items[e.run][k]
      BY <1>2, <1>4, <1>5, <1>7, <1>8, <2>2, ExampleFacts DEF ItemIs
    <3>2. QED
      BY <1>2, <1>5, <1>6, <3>1, OverStays
  <2>3. QED
    BY <2>1, <2>2
<1>9. ASSUME NEW k \in Example, k > eval[t].i
      PROVE  items'[e.run][k] = NoItem
  BY <1>4, <1>5, <1>7, <1>9 DEF ItemIs
<1>10. eval'[t] = e
  BY <1>5 DEF EvalIs
<1>11. AtItem(t)'
  BY <1>5, <1>10 DEF AtItem
<1>12. InProgress(t)'
  <2>1. Sums(e.rep, IF e.pc = "look" THEN e.i - 1 ELSE e.i)
    BY <1>5, <1>7
  <2>2. \A k \in Example :
          /\ k < e.i \/ e.pc \in {"report", "row"} => Over(e.run, e.rep, k)'
          /\ k > e.i \/ (k = e.i /\ e.pc \in {"look", "seed"}) => items'[e.run][k] = NoItem
    BY <1>5, <1>7, <1>8, <1>9, ExampleFacts
  <2>3. QED
    BY <1>5, <1>7, <1>10, <1>11, <2>1, <2>2 DEF InProgress
<1>15. Fetchable(e.rep)'
  BY <1>2, <1>5, <1>6, FetchableStays
<1>13. Fits(t)'
  BY <1>5, <1>10, <1>12, <1>15 DEF Fits, Busy
<1>14. QED
  BY <1>1, <1>2, <1>4, <1>5, <1>6, <1>13, WorkStep DEF ItemIs

LEMMA CountsFinite ==
  ASSUME NEW tasks, NEW n \in Nat
  PROVE  /\ IsFiniteSet(PassedOf(tasks, n)) /\ Cardinality(PassedOf(tasks, n)) \in Nat
         /\ IsFiniteSet(CountedOf(tasks, n)) /\ Cardinality(CountedOf(tasks, n)) \in Nat
<1>1. IsFiniteSet(1 .. n)
  BY FS_Interval
<1>2. IsFiniteSet(PassedOf(tasks, n)) /\ IsFiniteSet(CountedOf(tasks, n))
  BY <1>1, FS_Subset DEF PassedOf, CountedOf
<1>3. QED
  BY <1>2, FS_CardinalityType

\* Scoring the next example keeps the sums those of the examples scored.
LEMMA TallyDoes ==
  ASSUME NEW rep \in RepRec, NEW i \in Example, NEW o \in Outcome, Sums(rep, i - 1)
  PROVE  /\ Tally(rep, i, o) \in RepRec /\ Tally(rep, i, o).model = rep.model
         /\ Tally(rep, i, o).snap = rep.snap
         /\ \A k \in Example : k # i => Tally(rep, i, o).tasks[k] = rep.tasks[k]
         /\ Sums(Tally(rep, i, o), i)
<1>1. /\ rep.tasks \in [Example -> Outcome] /\ rep.sum \in Nat /\ rep.total \in Nat
      /\ i \in Nat /\ i >= 1 /\ i - 1 \in Nat
  BY ExampleFacts DEF RepRec
<1> DEFINE tasks == [rep.tasks EXCEPT ![i] = o]
           sum == rep.sum + ScoreOf(o)
           total == IF o = "skip" THEN rep.total ELSE rep.total + 1
<1>2. tasks \in [Example -> Outcome] /\ sum \in Nat /\ total \in Nat
  BY <1>1 DEF ScoreOf
<1>3. tasks[i] = o /\ \A k \in Example : k # i => tasks[k] = rep.tasks[k]
  BY <1>1
<1>4. Tally(rep, i, o) = [rep EXCEPT !.tasks = tasks, !.sum = sum, !.total = total]
  BY DEF Tally
<1>5. \A k \in 1 .. i : k \in Example
  BY ExampleFacts DEF Example
<1>6. sum = Cardinality(PassedOf(tasks, i))
  <2> DEFINE P == PassedOf(rep.tasks, i - 1)
  <2>1. IsFiniteSet(P) /\ Cardinality(P) \in Nat /\ i \notin P /\ rep.sum = Cardinality(P)
    BY <1>1, CountsFinite DEF PassedOf, Sums
  <2>2. CASE o = "pass"
    <3>1. PassedOf(tasks, i) = P \cup {i}
      BY <1>1, <1>3, <1>5, <2>2 DEF PassedOf
    <3>2. QED
      BY <2>1, <2>2, <3>1, FS_AddElement DEF ScoreOf
  <2>3. CASE o # "pass"
    <3>1. PassedOf(tasks, i) = P
      BY <1>1, <1>3, <1>5, <2>3 DEF PassedOf
    <3>2. QED
      BY <1>1, <2>1, <2>3, <3>1 DEF ScoreOf
  <2>4. QED
    BY <2>2, <2>3
<1>7. total = Cardinality(CountedOf(tasks, i))
  <2> DEFINE P == CountedOf(rep.tasks, i - 1)
  <2>1. IsFiniteSet(P) /\ Cardinality(P) \in Nat /\ i \notin P /\ rep.total = Cardinality(P)
    BY <1>1, CountsFinite DEF CountedOf, Sums
  <2>2. CASE o # "skip"
    <3>1. CountedOf(tasks, i) = P \cup {i}
      BY <1>1, <1>3, <1>5, <2>2 DEF CountedOf
    <3>2. QED
      BY <2>1, <2>2, <3>1, FS_AddElement
  <2>3. CASE o = "skip"
    <3>1. CountedOf(tasks, i) = P
      BY <1>1, <1>3, <1>5, <2>3 DEF CountedOf
    <3>2. QED
      BY <2>1, <2>3, <3>1
  <2>4. QED
    BY <2>2, <2>3
<1> HIDE DEF tasks, sum, total
<1> DEFINE q == [rep EXCEPT !.tasks = tasks, !.sum = sum, !.total = total]
<1>8. /\ q \in RepRec /\ q.model = rep.model /\ q.snap = rep.snap
      /\ q.tasks = tasks /\ q.sum = sum /\ q.total = total
  BY <1>2 DEF RepRec
<1> HIDE DEF q
<1>9. QED
  BY <1>3, <1>4, <1>6, <1>7, <1>8 DEF Sums, q

LEMMA LookDoes ==
  ASSUME EvalTypes, NEW t \in Task, NEW o \in Outcome, Look(t, o),
         Tally(eval[t].rep, eval[t].i, o) \in RepRec, Row(t) = NoItem
  PROVE  \E e \in EvalRec :
           /\ EvalIs(t, e) /\ e.pc = "seed" /\ e.run = eval[t].run /\ e.i = eval[t].i
           /\ e.rep = Tally(eval[t].rep, eval[t].i, o)
<1> DEFINE q == Tally(eval[t].rep, eval[t].i, o)
           d == [eval[t] EXCEPT !.rep = q]
           e == [d EXCEPT !.pc = "seed"]
<1>1. eval[t] \in EvalRec /\ q \in RepRec /\ Row(t).st # "done"
  BY ItemTypes DEF EvalTypes
<1>2. Set(t, e)
  BY <1>1 DEF Look
<1> HIDE DEF q
<1>3. d \in EvalRec /\ d.run = eval[t].run /\ d.i = eval[t].i /\ d.rep = q
  BY <1>1 DEF EvalRec
<1> HIDE DEF d
<1>4. e \in EvalRec /\ e.pc = "seed" /\ e.run = d.run /\ e.i = d.i /\ e.rep = d.rep
  BY <1>3 DEF EvalRec, EvalPCs
<1> HIDE DEF e
<1>5. EvalIs(t, e)
  BY <1>2, <1>4, SetDoes
<1>6. QED
  BY <1>3, <1>4, <1>5 DEF q

LEMMA LookEval ==
  ASSUME IInv, NEW t \in Task, NEW o \in Outcome, Look(t, o)
  PROVE  IInv'
<1>1. /\ EvalTypes /\ eval[t].pc = "look" /\ Busy(t)
      /\ UNCHANGED <<osVars, snapVars, evaluating, items, reports, begun>>
  BY DEF IInv, EvalInv, Look, At, Busy
<1>2. /\ evaluating /\ InProgress(t) /\ eval[t].run \in Run /\ eval[t].i \in Example
      /\ eval[t].rep \in RepRec /\ Fetchable(eval[t].rep)
  BY <1>1, BusyFacts
<1>3. Row(t) = NoItem /\ Sums(eval[t].rep, eval[t].i - 1)
  BY <1>1, <1>2 DEF InProgress, Row
<1>5. PICK q \in RepRec :
        /\ q = Tally(eval[t].rep, eval[t].i, o) /\ q.model = eval[t].rep.model
        /\ q.snap = eval[t].rep.snap
        /\ \A k \in Example : k # eval[t].i => q.tasks[k] = eval[t].rep.tasks[k]
        /\ Sums(q, eval[t].i)
  BY <1>2, <1>3, TallyDoes
<1>6. PICK e \in EvalRec :
        EvalIs(t, e) /\ e.pc = "seed" /\ e.run = eval[t].run /\ e.i = eval[t].i /\ e.rep = q
  BY <1>1, <1>3, <1>5, LookDoes
<1>7. SnapInv' /\ Grows /\ Apart(t) /\ UNCHANGED job
  BY <1>1, LocalEval
<1>8. eval'[t] = e
  BY <1>6 DEF EvalIs
<1>9. ASSUME NEW k \in Example, k < e.i
      PROVE  Over(e.run, e.rep, k)'
  <2>1. k # eval[t].i /\ Over(eval[t].run, eval[t].rep, k)
    BY <1>2, <1>6, <1>9, ExampleFacts DEF InProgress
  <2>2. BlobIn(e.rep, k) = BlobIn(eval[t].rep, k)
    BY <1>5, <1>6, <2>1 DEF BlobIn
  <2>3. Over(e.run, e.rep, k) /\ items'[e.run][k] = items[e.run][k]
    BY <1>1, <1>6, <2>1, <2>2 DEF Over
  <2>4. QED
    BY <1>6, <1>7, <2>3, OverStays
<1>10. ASSUME NEW k \in Example, k > e.i \/ k = e.i
       PROVE  items'[e.run][k] = NoItem
  BY <1>1, <1>2, <1>6, <1>10 DEF InProgress
<1>11. AtItem(t)'
  BY <1>6, <1>8 DEF AtItem
<1>12. e.run \in 1 .. begun' /\ ~reports'[e.run].on /\ Sums(e.rep, e.i)
  BY <1>1, <1>2, <1>5, <1>6 DEF InProgress
<1>13. InProgress(t)'
  BY <1>6, <1>8, <1>9, <1>10, <1>11, <1>12 DEF InProgress
<1>14. Fetchable(e.rep)'
  BY <1>2, <1>5, <1>6, <1>7, FetchableStays DEF Fetchable
<1>15. Fits(t)'
  BY <1>6, <1>8, <1>13, <1>14 DEF Fits, Busy
<1>16. QED
  BY <1>1, <1>2, <1>6, <1>7, <1>15, WorkStep DEF EvalTypes

LEMMA StartEval ==
  ASSUME IInv, NEW t \in Task, Start(t)
  PROVE  IInv'
<1>1. /\ EvalTypes /\ EvalsInStep /\ RunsApart /\ Unused /\ ModesApart /\ ReportsSound
      /\ eval[t] \in EvalRec /\ eval[t].pc = "resolved"
      /\ UNCHANGED <<osVars, snapVars, evaluating, items, reports>>
  BY DEF IInv, EvalInv, EvalTypes, Start, At
<1>2. begun' = begun + 1 /\ begun' \in 1 .. MaxRuns /\ begun \in Nat /\ begun' \in Run
  BY <1>1, EvalJobAssumption DEF EvalTypes, Start, Run
<1>3. /\ eval[t].i = 1 /\ eval[t].rep.sum = 0 /\ eval[t].rep.total = 0
      /\ Fetchable(eval[t].rep)
  BY <1>1 DEF EvalsInStep
<1> DEFINE n == begun + 1
           d == [eval[t] EXCEPT !.pc = "look", !.run = n]
<1>4. Set(t, d) /\ n \in Run /\ n = begun'
  BY <1>1, <1>2 DEF Start
<1> HIDE DEF n
<1>5. d \in EvalRec /\ d.pc = "look" /\ d.run = n /\ d.i = eval[t].i /\ d.rep = eval[t].rep
  BY <1>1, <1>4 DEF EvalRec, EvalPCs
<1> HIDE DEF d
<1>6. PICK e \in EvalRec : /\ EvalIs(t, e) /\ e.pc = "look" /\ e.run = begun'
                           /\ e.i = 1 /\ e.rep = eval[t].rep
  BY <1>1, <1>3, <1>4, <1>5, SetDoes
<1>7. SnapInv' /\ Grows /\ Apart(t) /\ UNCHANGED job
  BY <1>1, LocalEval
<1>8. \A u \in Task : Busy(u) => eval[u].run \in Run /\ eval[u].run <= begun
  BY <1>2, BusyFacts DEF InProgress
<1>9. EvalTypes'
  BY <1>1, <1>2, <1>6, EvalJobAssumption DEF EvalTypes, EvalIs
<1>10. ASSUME NEW u \in Task, u # t PROVE Fits(u)'
  <2>1. /\ eval'[u] = eval[u] /\ put'[u].blob = put[u].blob
        /\ (put[u].pc # "idle" => put'[u].pc # "idle")
    BY <1>6, <1>7, <1>10 DEF EvalIs, Apart
  <2>2. QED
    BY <1>1, <1>2, <1>7, <2>1, Bystander
<1>11. Fits(t)'
  <2>1. eval'[t] = e
    BY <1>6 DEF EvalIs
  <2>2. \A k \in Example : items'[e.run][k] = NoItem /\ ~reports'[e.run].on
    BY <1>1, <1>2, <1>6 DEF Unused
  <2>3. PassedOf(e.rep.tasks, 0) = {} /\ CountedOf(e.rep.tasks, 0) = {}
    BY DEF PassedOf, CountedOf
  <2>4. Sums(e.rep, 0) /\ 1 - 1 = 0
    BY <1>3, <1>6, <2>3, FS_EmptySet DEF Sums
  <2>5. AtItem(t)'
    BY <1>6, <2>1 DEF AtItem
  <2>6. \A k \in Example : ~(k < e.i)
    BY <1>6, ExampleFacts
  <2>7. e.run \in 1 .. begun' /\ ~reports'[e.run].on
    BY <1>2, <1>6, <2>2, ExampleFacts
  <2>8. InProgress(t)'
    BY <1>6, <2>1, <2>2, <2>4, <2>5, <2>6, <2>7 DEF InProgress
  <2>9. Fetchable(e.rep)'
    BY <1>3, <1>6, <1>7, FetchableStays
  <2>10. QED
    BY <1>6, <2>1, <2>8, <2>9 DEF Fits, Busy
<1>12. RunsApart'
  <2>1. \A u \in Task : Busy(u)' /\ u # t => eval'[u].run # begun'
    BY <1>2, <1>6, <1>8, ExampleFacts DEF Busy, EvalIs
  <2>2. QED
    BY <1>1, <1>6, <2>1 DEF RunsApart, Busy, EvalIs
<1>13. Unused'
  <2>1. \A r \in Run : r > begun' => r > begun
    BY <1>2, ExampleFacts
  <2>2. QED
    BY <1>1, <2>1 DEF Unused
<1>14. ModesApart'
  BY <1>1, <1>6, <1>7, Awake DEF ModesApart
<1>15. ReportsSound'
  BY <1>1, <1>7, ReportStays DEF ReportsSound
<1>16. QED
  BY <1>7, <1>9, <1>10, <1>11, <1>12, <1>13, <1>14, <1>15, EvalsFitNext DEF IInv, EvalInv

LEMMA WriteReportEval ==
  ASSUME IInv, NEW t \in Task, WriteReport(t)
  PROVE  IInv'
<1>1. /\ EvalTypes /\ EvalsInStep /\ RunsApart /\ Unused /\ ModesApart /\ ReportsSound
      /\ eval[t].pc = "row" /\ Busy(t)
      /\ UNCHANGED <<osVars, snapVars, evaluating, items, begun>>
  BY DEF IInv, EvalInv, WriteReport, At, Busy
<1>2. /\ evaluating /\ InProgress(t) /\ eval[t].run \in Run /\ eval[t].rep \in RepRec
      /\ Fetchable(eval[t].rep) /\ begun \in Nat
  BY <1>1, BusyFacts
<1>3. SnapInv' /\ Grows /\ Apart(t) /\ UNCHANGED job
  BY <1>1, LocalEval
<1>4. EvalIs(t, NoEval)
  BY <1>1, SetDoes, NoEvalType DEF WriteReport
<1> DEFINE d == [eval[t].rep EXCEPT !.on = TRUE]
<1>5. /\ d \in RepRec /\ d.on /\ d.model = eval[t].rep.model /\ d.snap = eval[t].rep.snap
      /\ d.tasks = eval[t].rep.tasks
      /\ d.sum = eval[t].rep.sum /\ d.total = eval[t].rep.total
  BY <1>2 DEF RepRec
<1>6. reports' = [reports EXCEPT ![eval[t].run] = d]
  BY DEF WriteReport
<1> HIDE DEF d
<1>7. PICK r \in Run : r = eval[t].run
  BY <1>2
<1>8. /\ reports' \in [Run -> RepRec] /\ reports'[r] = d
      /\ \A q \in Run : q # r => reports'[q] = reports[q]
  BY <1>1, <1>5, <1>6, <1>7 DEF EvalTypes
<1>9. EvalTypes'
  BY <1>1, <1>4, <1>8 DEF EvalTypes, EvalIs
<1>10. ASSUME NEW u \in Task, u # t PROVE Fits(u)'
  <2>1. /\ eval'[u] = eval[u] /\ put'[u].blob = put[u].blob
        /\ (put[u].pc # "idle" => put'[u].pc # "idle")
    BY <1>3, <1>4, <1>10 DEF EvalIs, Apart
  <2>2. Busy(u) => reports'[eval[u].run] = reports[eval[u].run]
    <3> HAVE Busy(u)
    <3>1. eval[u].run \in Run /\ eval[u].run # r
      BY <1>1, <1>7, <1>10, BusyFacts DEF RunsApart
    <3>2. QED
      BY <1>8, <3>1
  <2>3. QED
    BY <1>1, <1>2, <1>3, <2>1, <2>2, Bystander
<1>11. Fits(t)'
  BY <1>4, NoEvalType DEF Fits, Busy, EvalIs
<1>12. RunsApart'
  BY <1>1, <1>4, NoEvalType DEF RunsApart, Busy, EvalIs
<1>13. Unused'
  <2>1. r \in 1 .. begun
    BY <1>2, <1>7 DEF InProgress
  <2>2. QED
    BY <1>1, <1>2, <1>8, <2>1, ExampleFacts DEF Unused
<1>14. ModesApart'
  BY <1>1, <1>2, <1>3 DEF ModesApart
<1>15. ReportsSound'
  <2>1. Reported(r)'
    <3>1. Sums(eval[t].rep, Examples)
      BY <1>1, <1>2 DEF InProgress, AtItem
    <3>2. Sums(d, Examples)
      BY <1>5, <3>1 DEF Sums
    <3>3. ASSUME NEW k \in Example PROVE Over(r, reports[r], k)'
      <4>1. Over(eval[t].run, eval[t].rep, k)
        BY <1>1, <1>2 DEF InProgress
      <4>2. BlobIn(d, k) = BlobIn(eval[t].rep, k) /\ BlobIn(d, k) \in Blob
        BY <1>5, BlobInType DEF BlobIn
      <4>3. /\ items'[r][k] = DoneWith(BlobIn(d, k)) /\ final'[BlobIn(d, k)] # "none"
        BY <1>1, <1>3, <1>7, <4>1, <4>2 DEF Over, Grows
      <4>4. QED
        BY <1>8, <4>3 DEF Over, BlobIn
    <3>4. Fetchable(reports[r])'
      BY <1>2, <1>3, <1>5, <1>8 DEF Fetchable, Grows
    <3>5. QED
      BY <1>8, <3>2, <3>3, <3>4 DEF Reported, Sums
  <2>2. ASSUME NEW q \in Run, q # r
        PROVE  (IF reports[q].on THEN Reported(q) ELSE reports[q] = NoReport)'
    BY <1>1, <1>3, <1>8, <2>2, ReportStays
  <2>3. ASSUME NEW q \in Run
        PROVE  (IF reports[q].on THEN Reported(q) ELSE reports[q] = NoReport)'
    <3>1. CASE q = r
      BY <1>5, <1>8, <2>1, <3>1
    <3>2. QED
      BY <2>2, <3>1
  <2>4. QED
    BY <2>3 DEF ReportsSound
<1>16. QED
  BY <1>3, <1>9, <1>10, <1>11, <1>12, <1>13, <1>14, <1>15, EvalsFitNext DEF IInv, EvalInv

\* What is at work besides the evaluations leaves them alone.
LEMMA AsideEval ==
  ASSUME IInv, SnapInv', Grows, UNCHANGED evalVars,
         \A t \in Task : eval[t].pc \in {"idle", "resolved"},
         evaluating => \A t \in Task : job'[t].pc \in {"idle", "prune"}
  PROVE  IInv'
<1>1. /\ EvalTypes /\ EvalsInStep /\ RunsApart /\ Unused /\ ModesApart /\ ReportsSound
      /\ UNCHANGED <<evaluating, eval, items, reports, begun>>
  BY DEF IInv, EvalInv, evalVars
<1>2. EvalTypes' /\ RunsApart' /\ Unused'
  BY <1>1 DEF EvalTypes, RunsApart, Busy, Unused
<1>3. EvalsInStep'
  BY <1>1 DEF EvalsInStep, Busy, Fetchable, Grows
<1>4. ModesApart'
  BY <1>1 DEF ModesApart
<1>5. ReportsSound'
  BY <1>1, ReportStays DEF ReportsSound
<1>6. QED
  BY <1>2, <1>3, <1>4, <1>5 DEF IInv, EvalInv

LEMMA SnapshotsEval ==
  ASSUME IInv, ~evaluating, SnapNext, UNCHANGED evalVars
  PROVE  IInv'
<1>1. SnapInv' /\ Grows
  BY SnapStep DEF IInv
<1>2. QED
  BY <1>1, AsideEval DEF IInv, EvalInv, ModesApart

LEMMA PruneAsideEval ==
  ASSUME IInv, NEW t \in Task, PruneAside(t)
  PROVE  IInv'
<1>1. /\ SnapInv /\ ModesApart /\ evaluating /\ UNCHANGED evalVars
      /\ \A u \in Task : eval[u].pc \in {"idle", "resolved"}
      /\ job \in [Task -> JobRec]
  BY SnapTypes DEF IInv, EvalInv, SnapInv, PruneAside
<1>2. SnapInv'
  BY <1>1, PruneSnap, PruneRowSnap, RestoredSnap DEF PruneAside
<1>3. Grows
  BY DEF PruneAside, PruneAlone, Prune, PruneRow, Pruned, osVars, Grows
<1>4. \A u \in Task : u # t => job'[u] = job[u]
  BY <1>1 DEF PruneAside, PruneAlone, Prune, PruneRow, Pruned, SetJob
<1>5. job'[t].pc \in {"idle", "prune"}
  <2>1. CASE PruneRow(t)
    BY <1>1, <2>1, PruneRowSnap
  <2>2. CASE Pruned(t)
    BY <1>1, <2>2, NoJobType DEF Pruned, SetJob
  <2>3. CASE \E p \in Policies : PruneAlone(t, p)
    BY <1>1, <2>3, NoJobType DEF PruneAlone, Prune, SetJob, JobRec
  <2>4. QED
    BY <2>1, <2>2, <2>3 DEF PruneAside
<1>6. QED
  BY <1>1, <1>2, <1>3, <1>4, <1>5, AsideEval DEF ModesApart

LEMMA PutStepEval ==
  ASSUME IInv, NEW t \in Task, PutStep(t), UNCHANGED <<snapVars, evalVars>>
  PROVE  IInv'
<1>1. OSInv' /\ GoesOn /\ Grows
  BY PutStepOS DEF IInv, SnapInv, GoesOn
<1>2. SnapInv'
  BY <1>1, StoreStep DEF IInv
<1>3. /\ EvalTypes /\ EvalsInStep /\ RunsApart /\ Unused /\ ModesApart /\ ReportsSound
      /\ UNCHANGED <<job, evaluating, eval, items, reports, begun>>
  BY DEF IInv, EvalInv, evalVars, snapVars
<1>4. EvalTypes' /\ RunsApart' /\ Unused'
  BY <1>3 DEF EvalTypes, RunsApart, Busy, Unused
<1>5. \A u \in Task : Fits(u)'
  <2>1. begun \in Nat
    BY <1>3, EvalJobAssumption DEF EvalTypes
  <2>2. QED
    BY <1>1, <1>3, <2>1, Bystander DEF GoesOn
<1>6. ModesApart'
  BY <1>1, <1>3 DEF ModesApart
<1>7. ReportsSound'
  BY <1>1, <1>3, ReportStays DEF ReportsSound
<1>8. QED
  BY <1>2, <1>4, <1>5, <1>6, <1>7, EvalsFitNext DEF IInv, EvalInv

LEMMA EvalCrashEval ==
  ASSUME IInv, EvalCrash
  PROVE  IInv'
<1>1. SnapInv' /\ Grows /\ \A t \in Task : job'[t].pc = "idle"
  BY CrashSnap DEF IInv, EvalCrash
<1>2. /\ EvalTypes /\ Unused /\ ModesApart /\ ReportsSound
      /\ UNCHANGED <<evaluating, items, reports, begun>>
  BY DEF IInv, EvalInv, EvalCrash
<1>3. eval' \in [Task -> EvalRec] /\ \A t \in Task : eval'[t].pc = "idle"
  BY NoEvalType DEF EvalCrash
<1>4. EvalTypes' /\ RunsApart' /\ Unused' /\ EvalsInStep'
  BY <1>2, <1>3 DEF EvalTypes, RunsApart, Busy, Unused, EvalsInStep
<1>5. ModesApart'
  BY <1>1, <1>2, <1>3 DEF ModesApart
<1>6. ReportsSound'
  BY <1>1, <1>2, ReportStays DEF ReportsSound
<1>7. QED
  BY <1>1, <1>4, <1>5, <1>6 DEF IInv, EvalInv

LEMMA InitInv ==
  Init => IInv
<1> SUFFICES ASSUME Init PROVE IInv
  OBVIOUS
<1>1. SnapInv /\ \A t \in Task : job[t].pc = "idle"
  BY SnapInitially, SnapshotsAssumption DEF Init
<1>2. eval \in [Task -> EvalRec] /\ \A t \in Task : eval[t].pc = "idle"
  BY NoEvalType DEF Init
<1>3. /\ items \in [Run -> [Example -> ItemRec]]
      /\ \A r \in Run : \A k \in Example : items[r][k] = NoItem
  BY ItemTypes DEF Init
<1>4. reports \in [Run -> RepRec] /\ \A r \in Run : reports[r] = NoReport /\ ~reports[r].on
  BY NoEvalType DEF Init
<1>5. evaluating \in BOOLEAN
  BY DEF Init
<1>6. begun \in 0 .. MaxRuns
  BY EvalJobAssumption DEF Init
<1>7. EvalTypes
  BY <1>2, <1>3, <1>4, <1>5, <1>6 DEF EvalTypes
<1>8. EvalsInStep /\ RunsApart /\ Unused /\ ModesApart /\ ReportsSound
  BY <1>1, <1>2, <1>3, <1>4 DEF EvalsInStep, RunsApart, Busy, Unused, ModesApart, ReportsSound
<1>9. QED
  BY <1>1, <1>7, <1>8 DEF IInv, EvalInv

LEMMA SameInv ==
  ASSUME IInv, UNCHANGED vars
  PROVE  IInv'
<1>1. UNCHANGED osVars /\ UNCHANGED <<snapVars, evalVars>>
  BY DEF vars
<1>2. OSInv' /\ GoesOn /\ Grows
  BY <1>1, SameOS DEF IInv, SnapInv, GoesOn
<1>3. SnapInv'
  BY <1>1, <1>2, StoreStep DEF IInv
<1>4. /\ UNCHANGED <<job, final, put, evaluating, eval, items, reports, begun>>
  BY <1>1 DEF osVars, snapVars, evalVars
<1>5. EvalTypes' /\ RunsApart' /\ Unused' /\ ModesApart'
  BY <1>4 DEF IInv, EvalInv, EvalTypes, RunsApart, Busy, Unused, ModesApart
<1>6. \A u \in Task : Fits(u)'
  <2>1. begun \in Nat
    BY EvalJobAssumption DEF IInv, EvalInv, EvalTypes
  <2>2. QED
    BY <1>2, <1>4, <2>1, Bystander
<1>7. ReportsSound'
  BY <1>2, <1>4, ReportStays DEF ReportsSound
<1>8. QED
  BY <1>3, <1>5, <1>6, <1>7, EvalsFitNext DEF IInv, EvalInv

LEMMA StepInv ==
  IInv /\ [Next]_vars => IInv'
<1> SUFFICES ASSUME IInv, [Next]_vars PROVE IInv'
  OBVIOUS
<1>1. CASE ~evaluating /\ SnapNext /\ UNCHANGED evalVars
  BY <1>1, SnapshotsEval
<1>2. ASSUME NEW t \in Task, evaluating /\ PutStep(t) /\ UNCHANGED <<snapVars, evalVars>>
      PROVE  IInv'
  BY <1>2, PutStepEval
<1>3. ASSUME NEW t \in Task, NEW b \in Asked, Resolve(t, b) PROVE IInv'
  BY <1>3, ResolveEval
<1>4. ASSUME NEW t \in Task, NEW o \in Outcome, Look(t, o) PROVE IInv'
  BY <1>4, LookEval
<1>5. ASSUME NEW t \in Task,
             \/ DryRun(t) \/ Start(t) \/ Seed(t) \/ Claim(t) \/ StoreResult(t) \/ Stored(t)
             \/ Complete(t) \/ PutReport(t) \/ WriteReport(t) \/ EvalError(t) \/ PruneAside(t)
      PROVE  IInv'
  BY <1>5, DryRunEval, StartEval, SeedEval, ClaimEval, StoreResultEval, StoredEval, CompleteEval,
     PutReportEval, WriteReportEval, EvalErrorEval, PruneAsideEval
<1>6. CASE EvalCrash
  BY <1>6, EvalCrashEval
<1>7. CASE UNCHANGED vars
  BY <1>7, SameInv
<1>8. QED
  BY <1>1, <1>2, <1>3, <1>4, <1>5, <1>6, <1>7 DEF Next

-----------------------------------------------------------------------------
(* What follows from the invariant.                                        *)

\* The inductive invariant of the object store, the snapshots and the
\* evaluations holds in every behaviour.
THEOREM Induction == Spec => []IInv
<1>1. Init => IInv
  BY InitInv
<1>2. IInv /\ [Next]_vars => IInv'
  BY StepInv
<1>3. QED
  BY <1>1, <1>2, PTL DEF Spec

LEMMA SumsBounded ==
  ASSUME NEW rep \in RepRec, Sums(rep, Examples)
  PROVE  rep.sum \in 0 .. Examples /\ rep.total \in 0 .. Examples
<1>1. Examples \in Nat /\ Examples >= 1
  BY EvalJobAssumption
<1> DEFINE I == 1 .. Examples
           P == PassedOf(rep.tasks, Examples)
           C == CountedOf(rep.tasks, Examples)
<1>2. IsFiniteSet(I) /\ Cardinality(I) = Examples
  BY <1>1, FS_Interval
<1>3. P \in SUBSET I /\ C \in SUBSET I
  BY DEF PassedOf, CountedOf
<1> HIDE DEF I, P, C
<1>4. Cardinality(P) <= Cardinality(I) /\ Cardinality(C) <= Cardinality(I)
  BY <1>2, <1>3, FS_Subset
<1>5. /\ rep.sum = Cardinality(P) /\ rep.sum \in Nat
      /\ rep.total = Cardinality(C) /\ rep.total \in Nat
  BY DEF Sums, RepRec, P, C
<1>6. QED
  BY <1>1, <1>2, <1>4, <1>5

LEMMA IInvTypes ==
  IInv => TypeOK
<1> SUFFICES ASSUME IInv PROVE TypeOK
  OBVIOUS
<1>1. EvalTypes /\ ReportsSound /\ SnapTypeOK
  BY DEF IInv, EvalInv, SnapInv
<1>2. \A t \in Task : /\ eval[t].pc \in EvalPCs /\ eval[t].run \in Run \cup {NoRun}
                      /\ eval[t].i \in Example
  BY <1>1 DEF EvalTypes, EvalRec
<1>3. ASSUME NEW r \in Run
      PROVE  /\ reports[r].tasks \in [Example -> Outcome]
             /\ reports[r].sum \in 0 .. Examples /\ reports[r].total \in 0 .. Examples
  <2>1. reports[r] \in RepRec /\ reports[r].tasks \in [Example -> Outcome]
    BY <1>1 DEF EvalTypes, RepRec
  <2>2. CASE reports[r].on
    BY <1>1, <2>1, <2>2, SumsBounded DEF ReportsSound, Reported
  <2>3. CASE ~reports[r].on
    BY <1>1, <2>1, <2>3, NoEvalType, EvalJobAssumption DEF ReportsSound
  <2>4. QED
    BY <2>1, <2>2, <2>3
<1>4. QED
  BY <1>1, <1>2, <1>3 DEF TypeOK, EvalTypes, ItemRec, EvalPCs

\* The state is well-formed, a snapshot row that is listed has its tar, and a
\* put that returned an id (put_bytes, put_stream) left the blob in its place,
\* for any number of tasks that put the same content, and whatever fails.
THEOREM Invariance == Spec => []Inv
<1>1. IInv => RowHasBlob
  BY DEF IInv, SnapInv
<1>2. IInv => AckedIsStored
  BY DEF IInv, SnapInv, OSInv, Settled, AckedIsStored
<1>3. IInv => Inv
  BY <1>1, <1>2, IInvTypes DEF Inv
<1>4. QED
  BY <1>3, Induction, PTL

\* A blob of which no two puts ever used <id>.tmp at once is never torn, wherever
\* puts fail and processes die (put_bytes of the local store), and no stream is
\* stored short of its last unit (put_stream).
THEOREM NotTornAlone == Spec => []TornOnlyIfShared
<1>1. IInv => TornOnlyIfShared
  BY DEF IInv, SnapInv, OSInv
<1>2. QED
  BY <1>1, Induction, PTL

\* Every multipart upload that is open belongs to a put, to a spawned abort, or
\* to nobody because a process died, an abort failed or the answer to its
\* creation was lost (MultipartGuard).
THEOREM NoUploadUnowned == Spec => []UploadsAreOwned
<1>1. IInv => UploadsAreOwned
  BY DEF IInv, SnapInv, OSInv
<1>2. QED
  BY <1>1, Induction, PTL

\* The scores that the items hold are those of the report.
LEMMA ItemsAgree ==
  ASSUME IInv, NEW r \in Run, reports[r].on
  PROVE  {i \in Example : items[r][i] = DoneWith(ResultBlob[<<i, 1>>])}
           = PassedOf(reports[r].tasks, Examples)
<1>1. Reported(r) /\ reports[r] \in RepRec
  BY DEF IInv, EvalInv, ReportsSound, EvalTypes
<1>2. ASSUME NEW k \in Example
      PROVE  items[r][k] = DoneWith(ResultBlob[<<k, 1>>]) <=> reports[r].tasks[k] = "pass"
  <2>1. /\ items[r][k] = DoneWith(BlobIn(reports[r], k)) /\ reports[r].tasks[k] \in Outcome
    BY <1>1 DEF Reported, Over, RepRec
  <2>2. /\ ResultBlob[<<k, 0>>] \in Blob /\ ResultBlob[<<k, 1>>] \in Blob
        /\ ResultBlob[<<k, 0>>] # ResultBlob[<<k, 1>>]
    BY ResultBlobs, EvalJobAssumption DEF Score
  <2>3. CASE reports[r].tasks[k] = "pass"
    BY <2>1, <2>3 DEF BlobIn, ScoreOf
  <2>4. CASE reports[r].tasks[k] # "pass"
    <3>1. BlobIn(reports[r], k) = ResultBlob[<<k, 0>>]
      BY <2>4 DEF BlobIn, ScoreOf
    <3>2. DoneWith(ResultBlob[<<k, 0>>]) # DoneWith(ResultBlob[<<k, 1>>])
      BY <2>2, ItemTypes
    <3>3. QED
      BY <2>1, <2>4, <3>1, <3>2
  <2>5. QED
    BY <2>3, <2>4
<1>3. QED
  BY <1>2 DEF PassedOf, Example

LEMMA TotalAgrees ==
  ASSUME NEW tasks
  PROVE  Cardinality(CountedOf(tasks, Examples))
           + Cardinality({i \in Example : tasks[i] = "skip"}) = Examples
<1> DEFINE S == CountedOf(tasks, Examples)
           T == {i \in Example : tasks[i] = "skip"}
<1>1. Examples \in Nat /\ Examples >= 1 /\ Example = 1 .. Examples
  BY EvalJobAssumption DEF Example
<1>2. IsFiniteSet(Example) /\ Cardinality(Example) = Examples
  BY <1>1, FS_Interval
<1>3. S \cup T = Example /\ S \cap T = {}
  BY <1>1 DEF CountedOf
<1>4. /\ IsFiniteSet(S) /\ IsFiniteSet(T) /\ Cardinality(S) \in Nat /\ Cardinality(T) \in Nat
  BY <1>2, <1>3, FS_Subset, FS_CardinalityType
<1>5. Cardinality(S \cup T) = Cardinality(S) + Cardinality(T) - Cardinality(S \cap T)
  BY <1>4, FS_Union
<1> HIDE DEF S, T
<1>6. /\ Examples = Cardinality(S) + Cardinality(T) - Cardinality(S \cap T)
      /\ Cardinality(S \cap T) = 0
  BY <1>2, <1>3, <1>5, FS_EmptySet
<1>7. Cardinality(S) + Cardinality(T) = Examples
  BY <1>4, <1>6
<1>8. QED
  BY <1>7 DEF S, T

\* A report that is there speaks of examples that were all completed with
\* results in the store and of their scores, and if it names a snapshot the tar
\* can be fetched, although run_example_job never looks at whether its claim and
\* its completion won and prunes delete rows.
THEOREM SoundReports == Spec => []ReportIsSound
<1>1. IInv => ReportIsSound
  <2> SUFFICES ASSUME IInv, NEW r \in Run, reports[r].on
               PROVE  LET of(s) == {i \in Example : items[r][i] = DoneWith(ResultBlob[<<i, s>>])}
                      IN /\ \A i \in Example :
                              LET b == ResultBlob[<<i, ScoreOf(reports[r].tasks[i])>>]
                              IN items[r][i] = DoneWith(b) /\ final[b] # "none"
                         /\ reports[r].sum = Cardinality(of(1))
                         /\ reports[r].total
                              + Cardinality({i \in Example : reports[r].tasks[i] = "skip"})
                                = Examples
                         /\ reports[r].snap => final[reports[r].model] # "none"
    BY DEF ReportIsSound
  <2>1. Reported(r)
    BY DEF IInv, EvalInv, ReportsSound
  <2>2. \A i \in Example : Over(r, reports[r], i)
    BY <2>1 DEF Reported
  <2>3. reports[r].sum
          = Cardinality({i \in Example : items[r][i] = DoneWith(ResultBlob[<<i, 1>>])})
    BY <2>1, ItemsAgree DEF Reported, Sums
  <2>4. reports[r].total + Cardinality({i \in Example : reports[r].tasks[i] = "skip"}) = Examples
    BY <2>1, TotalAgrees DEF Reported, Sums
  <2>5. QED
    BY <2>1, <2>2, <2>3, <2>4 DEF Over, BlobIn, Reported, Fetchable
<1>2. QED
  BY <1>1, Induction, PTL

-----------------------------------------------------------------------------
(* A prune that keeps at least one row.                                    *)

KeepsOne == \A p \in Policies : p.last >= 1

\* Rows are those of saved tars; a row about to be committed has its time.
RowsInOrder ==
  /\ Listed \subseteq DOMAIN Order
  /\ \A t \in Task :
       /\ job[t].pc \in {"put", "commit"} => job[t].blob \in DOMAIN Order
       /\ job[t].pc = "commit" => job[t].row # NoRow

OnePrunes == \A t, u \in Task : job[t].pc = "prune" /\ job[u].pc = "prune" => t = u

\* A prune that has still rows to delete leaves another one.
PruneLeaves ==
  \A t \in Task : job[t].pc = "prune" =>
    job[t].todo = {} \/ \E b \in Listed : b \notin job[t].todo

PruneInv == RowsInOrder /\ OnePrunes /\ PruneLeaves

LEMMA LeastNat ==
  ASSUME NEW T \in SUBSET Nat, T # {}
  PROVE  \E x \in T : \A y \in T : x <= y
<1> DEFINE R == OpToRel(<, Nat)
<1>1. IsWellFoundedOn(R, Nat)
  BY NatLessThanWellFounded
<1>2. \A x, y \in Nat : <<y, x>> \in R <=> y < x
  BY DEF OpToRel
<1> HIDE DEF R
<1>3. PICK x \in T : \A y \in T : ~(<<y, x>> \in R)
  BY <1>1, WFMin
<1>4. ASSUME NEW y \in T PROVE x <= y
  <2>1. x \in Nat /\ y \in Nat /\ ~(y < x)
    BY <1>2, <1>3
  <2>2. QED
    BY <2>1
<1>5. QED
  BY <1>4

\* Of the rows that are listed one comes before all others.
LEMMA FirstRow ==
  ASSUME SnapInv, RowsInOrder, Listed # {}
  PROVE  \E b \in Listed : \A c \in Listed : ~Before(c, b)
<1>1. /\ \A b \in Listed : rows[b].at \in Int /\ MaxClock - rows[b].at \in Nat
      /\ \A b \in Listed : Order[b] \in Nat
  <2>1. \A b \in Listed : rows[b] \in RowRec /\ Order[b] \in Nat
    BY SnapTypes, SnapshotsAssumption DEF SnapInv, Listed, RowsInOrder
  <2>2. QED
    BY <2>1, SnapshotsAssumption DEF RowRec
<1> DEFINE A == {MaxClock - rows[b].at : b \in Listed}
<1>2. A \in SUBSET Nat /\ A # {}
  BY <1>1
<1>3. PICK a \in A : \A y \in A : a <= y
  BY <1>2, LeastNat
<1>4. PICK d \in Listed : a = MaxClock - rows[d].at
  BY <1>3
<1>5. ASSUME NEW c \in Listed PROVE rows[c].at <= rows[d].at
  <2>1. MaxClock - rows[d].at <= MaxClock - rows[c].at
    BY <1>3, <1>4
  <2>2. QED
    BY <1>1, <2>1, SnapshotsAssumption
<1> DEFINE N == {b \in Listed : rows[b].at = rows[d].at}
           O == {Order[b] : b \in N}
<1>6. O \in SUBSET Nat /\ O # {}
  BY <1>1, <1>4
<1>7. PICK o \in O : \A y \in O : o <= y
  BY <1>6, LeastNat
<1>8. PICK b \in N : o = Order[b]
  BY <1>7
<1>9. b \in Listed /\ rows[b].at = rows[d].at
  BY <1>8
<1>10. ASSUME NEW c \in Listed, Before(c, b) PROVE FALSE
  <2>1. rows[c].at = rows[b].at /\ Order[c] < Order[b]
    BY <1>1, <1>5, <1>9, <1>10 DEF Before
  <2>2. Order[c] \in O
    BY <1>9, <2>1
  <2>3. Order[b] <= Order[c] /\ Order[b] \in Nat /\ Order[c] \in Nat
    BY <1>1, <1>7, <1>8, <1>9, <2>2
  <2>4. QED
    BY <2>1, <2>3
<1>11. QED
  BY <1>9, <1>10

LEMMA FirstIsKept ==
  ASSUME SnapInv, RowsInOrder, Listed # {}, NEW p \in Policies, KeepsOne
  PROVE  \E b \in Listed : Kept(b, p)
<1>1. PICK b \in Listed : \A c \in Listed : ~Before(c, b)
  BY FirstRow
<1>2. {c \in Listed : Before(c, b)} = {}
  BY <1>1
<1>3. Index(b) = 0
  BY <1>2, FS_EmptySet DEF Index
<1>4. Recent(b, p)
  BY <1>3, SnapshotsAssumption DEF Recent, KeepsOne
<1>5. QED
  BY <1>4 DEF Kept

\* A step that leaves the rows alone and starts no prune.
LEMMA RowsAlone ==
  ASSUME PruneInv, UNCHANGED rows,
         \A t \in Task :
           \/ job'[t] = job[t]
           \/ job'[t].pc \notin {"put", "commit", "prune"}
           \/ job'[t].pc = "put" /\ job'[t].blob \in DOMAIN Order
           \/ /\ job'[t].pc = "commit" /\ job'[t].blob \in DOMAIN Order
              /\ job'[t].row # NoRow
  PROVE  PruneInv' /\ (Listed # {} => Listed' # {})
<1>1. Listed' = Listed
  BY DEF Listed
<1>2. RowsInOrder'
  BY <1>1 DEF PruneInv, RowsInOrder
<1>3. OnePrunes'
  BY DEF PruneInv, OnePrunes
<1>4. PruneLeaves'
  BY <1>1 DEF PruneInv, PruneLeaves
<1>5. QED
  BY <1>1, <1>2, <1>3, <1>4 DEF PruneInv

LEMMA JobsAre ==
  ASSUME SnapInv, NEW t \in Task, NEW j, SetJob(t, j)
  PROVE  \A u \in Task : job'[u] = IF u = t THEN j ELSE job[u]
<1>1. job \in [Task -> JobRec]
  BY SnapTypes DEF SnapInv
<1>2. QED
  BY <1>1 DEF SetJob

LEMMA PrunePrune ==
  ASSUME SnapInv, PruneInv, KeepsOne, NEW t \in Task, NEW p \in Policies, PruneAlone(t, p)
  PROVE  PruneInv' /\ (Listed # {} => Listed' # {})
<1> DEFINE todo == {b \in Listed : ~Kept(b, p)}
           j == [NoJob EXCEPT !.pc = "prune", !.todo = todo]
<1>1. j.pc = "prune" /\ j.todo = todo
  BY DEF NoJob
<1>2. SetJob(t, j) /\ UNCHANGED rows /\ \A u \in Task : job[u].pc # "prune"
  BY DEF PruneAlone, Prune
<1>3. todo = {} \/ \E b \in Listed : b \notin todo
  BY FirstIsKept DEF PruneInv
<1> HIDE DEF todo, j
<1>4. \A u \in Task : job'[u] = IF u = t THEN j ELSE job[u]
  BY <1>2, JobsAre
<1>5. Listed' = Listed
  BY <1>2 DEF Listed
<1>6. RowsInOrder'
  BY <1>1, <1>4, <1>5 DEF PruneInv, RowsInOrder
<1>7. OnePrunes'
  BY <1>2, <1>4 DEF OnePrunes
<1>8. PruneLeaves'
  BY <1>1, <1>2, <1>3, <1>4, <1>5 DEF PruneLeaves
<1>9. QED
  BY <1>5, <1>6, <1>7, <1>8 DEF PruneInv

LEMMA PruneRowPrune ==
  ASSUME SnapInv, PruneInv, NEW t \in Task, PruneRow(t)
  PROVE  PruneInv' /\ (Listed # {} => Listed' # {})
<1>1. job[t] \in JobRec /\ job[t].pc = "prune" /\ rows \in [Blob -> RowRec]
  BY SnapTypes DEF SnapInv, PruneRow
<1>2. PICK b \in job[t].todo : /\ rows' = [rows EXCEPT ![b] = NoRow]
                              /\ SetJob(t, [job[t] EXCEPT !.todo = @ \ {b}])
  BY DEF PruneRow
<1> DEFINE j == [job[t] EXCEPT !.todo = @ \ {b}]
<1>3. j.pc = "prune" /\ j.todo = job[t].todo \ {b}
  BY <1>1 DEF JobRec
<1> HIDE DEF j
<1>4. \A u \in Task : job'[u] = IF u = t THEN j ELSE job[u]
  BY <1>2, JobsAre DEF j
<1>5. Listed' = Listed \ {b}
  BY <1>1, <1>2 DEF Listed, JobRec
<1>6. PICK c \in Listed : c \notin job[t].todo
  BY <1>1, <1>2 DEF PruneInv, PruneLeaves
<1>7. c \in Listed'
  BY <1>2, <1>5, <1>6
<1>8. RowsInOrder'
  BY <1>3, <1>4, <1>5 DEF PruneInv, RowsInOrder
<1>9. OnePrunes'
  BY <1>1, <1>3, <1>4 DEF PruneInv, OnePrunes
<1>10. PruneLeaves'
  BY <1>1, <1>3, <1>4, <1>6, <1>7 DEF PruneInv, PruneLeaves, OnePrunes
<1>11. QED
  BY <1>7, <1>8, <1>9, <1>10 DEF PruneInv

LEMMA CommitRowPrune ==
  ASSUME SnapInv, PruneInv, NEW t \in Task, CommitRow(t)
  PROVE  PruneInv' /\ (Listed # {} => Listed' # {})
<1>1. /\ rows \in [Blob -> RowRec] /\ job[t].pc = "commit" /\ SetJob(t, NoJob)
      /\ rows' = [rows EXCEPT ![job[t].blob] = job[t].row]
      /\ job[t].blob \in DOMAIN Order /\ job[t].row # NoRow
  BY SnapTypes DEF SnapInv, CommitRow, PruneInv, RowsInOrder
<1>2. \A u \in Task : job'[u] = IF u = t THEN NoJob ELSE job[u]
  BY <1>1, JobsAre
<1>3. Listed' = Listed \cup {job[t].blob}
  BY <1>1, SnapshotsAssumption DEF Listed
<1>4. RowsInOrder'
  BY <1>1, <1>2, <1>3, NoJobType DEF PruneInv, RowsInOrder
<1>5. OnePrunes'
  BY <1>2, NoJobType DEF PruneInv, OnePrunes
<1>6. PruneLeaves'
  BY <1>2, <1>3, NoJobType DEF PruneInv, PruneLeaves
<1>7. QED
  BY <1>3, <1>4, <1>5, <1>6 DEF PruneInv

\* The job of task t becomes j, which is no prune.
LEMMA JobPrune ==
  ASSUME SnapInv, PruneInv, NEW t \in Task, NEW j, SetJob(t, j), UNCHANGED rows,
         \/ j.pc \notin {"put", "commit", "prune"}
         \/ j.pc = "put" /\ j.blob \in DOMAIN Order
         \/ j.pc = "commit" /\ j.blob \in DOMAIN Order /\ j.row # NoRow
  PROVE  PruneInv' /\ (Listed # {} => Listed' # {})
  BY JobsAre, RowsAlone

LEMMA StampPrune ==
  ASSUME SnapInv, PruneInv, NEW t \in Task, Stamp(t)
  PROVE  PruneInv' /\ (Listed # {} => Listed' # {})
<1>1. /\ job[t] \in JobRec /\ clock \in 0..MaxClock /\ job[t].pc = "put" /\ UNCHANGED rows
      /\ job[t].blob \in DOMAIN Order
  BY SnapTypes DEF SnapInv, Stamp, PruneInv, RowsInOrder
<1> DEFINE row == [job[t].row EXCEPT !.at = clock]
           j == [job[t] EXCEPT !.pc = "commit", !.row = row]
<1>2. row.at = clock
  BY <1>1 DEF JobRec, RowRec
<1>3. SetJob(t, NoJob) \/ SetJob(t, j)
  BY <1>1 DEF Stamp, JobRec
<1> HIDE DEF row
<1>0. row # NoRow
  BY <1>1, <1>2, NoJobType
<1>4. j.pc = "commit" /\ j.blob = job[t].blob /\ j.row = row
  BY <1>1 DEF JobRec
<1> HIDE DEF j
<1>5. QED
  BY <1>0, <1>1, <1>3, <1>4, NoJobType, JobPrune

LEMMA SnapPrune ==
  ASSUME SnapInv, PruneInv, KeepsOne, SnapNext
  PROVE  PruneInv' /\ (Listed # {} => Listed' # {})
<1>1. CASE Tick \/ (Store /\ UNCHANGED snapVars)
  BY <1>1, RowsAlone DEF Tick, snapVars
<1>2. ASSUME NEW t \in Task, NEW b \in DOMAIN Order, NEW l \in BOOLEAN, Save(t, b, l)
      PROVE  PruneInv' /\ (Listed # {} => Listed' # {})
  <2> DEFINE row == [NoRow EXCEPT !.labeled = l]
             j == [NoJob EXCEPT !.pc = "put", !.blob = b, !.row = row]
  <2>1. j.pc = "put" /\ j.blob = b
    BY DEF NoJob
  <2>2. SetJob(t, j) /\ UNCHANGED rows
    BY <1>2 DEF Save
  <2> HIDE DEF j
  <2>3. QED
    BY <2>1, <2>2, JobPrune
<1>3. ASSUME NEW t \in Task, NEW b \in DOMAIN Order, Stream(t, b)
      PROVE  PruneInv' /\ (Listed # {} => Listed' # {})
  <2> DEFINE j == [NoJob EXCEPT !.pc = "stream"]
  <2>1. j.pc = "stream"
    BY DEF NoJob
  <2>2. SetJob(t, j) /\ UNCHANGED rows
    BY <1>3 DEF Stream
  <2> HIDE DEF j
  <2>3. QED
    BY <2>1, <2>2, JobPrune
<1>4. ASSUME NEW t \in Task, NEW b \in DOMAIN Order, Restore(t, b)
      PROVE  PruneInv' /\ (Listed # {} => Listed' # {})
  <2> DEFINE j == [NoJob EXCEPT !.pc = "get", !.blob = b]
  <2>1. j.pc = "get"
    BY DEF NoJob
  <2>2. SetJob(t, j) /\ UNCHANGED rows
    BY <1>4 DEF Restore
  <2> HIDE DEF j
  <2>3. QED
    BY <2>1, <2>2, JobPrune
<1>5. ASSUME NEW t \in Task, NEW p \in Policies, PruneAlone(t, p)
      PROVE  PruneInv' /\ (Listed # {} => Listed' # {})
  BY <1>5, PrunePrune
<1>6. ASSUME NEW t \in Task, Stamp(t) \/ CommitRow(t) \/ PruneRow(t)
      PROVE  PruneInv' /\ (Listed # {} => Listed' # {})
  BY <1>6, StampPrune, CommitRowPrune, PruneRowPrune
<1>7. ASSUME NEW t \in Task, StreamDone(t) \/ Restored(t) \/ Pruned(t) \/ StorageError(t)
      PROVE  PruneInv' /\ (Listed # {} => Listed' # {})
  <2>1. SetJob(t, NoJob) /\ UNCHANGED rows
    BY <1>7 DEF StreamDone, Restored, Pruned, StorageError
  <2>2. QED
    BY <2>1, NoJobType, JobPrune
<1>8. ASSUME NEW t \in Task, Extract(t)
      PROVE  PruneInv' /\ (Listed # {} => Listed' # {})
  <2> DEFINE j == [job[t] EXCEPT !.pc = "restored", !.got = final[job[t].blob]]
  <2>1. job[t] \in JobRec
    BY SnapTypes DEF SnapInv
  <2>2. j.pc = "restored"
    BY <2>1 DEF JobRec
  <2>3. (SetJob(t, j) \/ SetJob(t, NoJob)) /\ UNCHANGED rows
    BY <1>8 DEF Extract
  <2> HIDE DEF j
  <2>4. QED
    BY <2>2, <2>3, NoJobType, JobPrune
<1>9. CASE Crash
  BY <1>9, NoJobType, RowsAlone DEF Crash
<1>10. QED
  BY <1>1, <1>2, <1>3, <1>4, <1>5, <1>6, <1>7, <1>8, <1>9 DEF SnapNext

LEMMA PruneInitially ==
  Init => PruneInv
<1> SUFFICES ASSUME Init PROVE PruneInv
  OBVIOUS
<1>1. /\ \A t \in Task : job[t].pc = "idle"
      /\ \A b \in Blob : rows[b] # NoRow => b \in DOMAIN Order
  BY NoJobType DEF Init, SnapInit
<1>2. QED
  BY <1>1 DEF PruneInv, RowsInOrder, OnePrunes, PruneLeaves, Listed

LEMMA PruneStep ==
  ASSUME IInv, PruneInv, KeepsOne, [Next]_vars
  PROVE  PruneInv' /\ (Listed # {} => Listed' # {})
<1>0. SnapInv
  BY DEF IInv
<1>1. CASE SnapNext
  BY <1>0, <1>1, SnapPrune
<1>2. CASE UNCHANGED snapVars
  BY <1>2, RowsAlone DEF snapVars
<1>3. ASSUME NEW t \in Task, PruneAside(t)
      PROVE  PruneInv' /\ (Listed # {} => Listed' # {})
  <2>1. CASE Pruned(t)
    BY <1>0, <2>1, NoJobType, JobPrune DEF Pruned
  <2>2. QED
    BY <1>0, <1>3, <2>1, PrunePrune, PruneRowPrune DEF PruneAside
<1>4. CASE EvalCrash
  BY <1>4, NoJobType, RowsAlone DEF EvalCrash, Crash
<1>5. QED
  <2>1. CASE \E t \in Task :
               \/ evaluating /\ PutStep(t) /\ UNCHANGED <<snapVars, evalVars>>
               \/ \E b \in Asked : Resolve(t, b)
               \/ DryRun(t) \/ Start(t)
               \/ \E o \in Outcome : Look(t, o)
               \/ Seed(t) \/ Claim(t) \/ StoreResult(t) \/ Stored(t) \/ Complete(t)
               \/ PutReport(t) \/ WriteReport(t) \/ EvalError(t)
    <3>1. UNCHANGED snapVars
      BY <2>1 DEF Resolve, DryRun, Start, Look, Seed, Claim, StoreResult, Stored, Complete,
                  PutReport, WriteReport, EvalError
    <3>2. QED
      BY <1>2, <3>1
  <2>2. CASE UNCHANGED vars
    BY <1>2, <2>2 DEF vars
  <2>3. QED
    BY <1>1, <1>3, <1>4, <2>1, <2>2 DEF Next

\* docs/book/src/training/snapshots.md, keep_last: if every policy keeps at
\* least one row, apply_prune never leaves a run without the snapshots it had,
\* although saves come between its scan and its deletions.
THEOREM SomeSnapshotStays ==
  ASSUME KeepsOne
  PROVE  Spec => NeverEmptied
<1>1. Init => PruneInv
  BY PruneInitially
<1>2. IInv /\ PruneInv /\ [Next]_vars => PruneInv' /\ [Listed # {} => Listed' # {}]_snapVars
  BY PruneStep
<1>3. QED
  BY <1>1, <1>2, Induction, PTL DEF Spec, NeverEmptied
=============================================================================
