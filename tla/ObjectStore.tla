------------------------------ MODULE ObjectStore ------------------------------
(***************************************************************************)
(* The content-addressed object stores: the local file system              *)
(* (crates/rollout-cloud-local/src/object_store.rs), S3                    *)
(* (crates/rollout-cloud-aws/src/s3) and GCS                               *)
(* (crates/rollout-cloud-gcp/src/gcs), with several puts under way.        *)
(*                                                                         *)
(* A blob is named by its content.  put_bytes on the file system writes    *)
(* the blob to <id>.tmp, a path that all puts of the same content share,   *)
(* and renames it; put_stream fills a temporary of its own in chunks and   *)
(* moves or copies it to the blob's place.  On the cloud stores the        *)
(* temporary is an upload that has to be completed or aborted.             *)
(***************************************************************************)
EXTENDS Integers, FiniteSets

CONSTANTS Task,
          Blob,      \* contents; a blob's id is its content
          NoBlob,
          Len,       \* the length of each blob, in units
          Chunk,     \* the chunk size of a streaming put, in the same units
          Stores,    \* the stores considered
          MaxFaults  \* bound: failed calls and process deaths

ASSUME ObjectStoreAssumption ==
  /\ IsFiniteSet(Task)
  /\ NoBlob \notin Blob
  /\ Len \in [Blob -> Nat]
  /\ Chunk \in Nat \ {0}
  /\ Stores \subseteq {"fs", "s3", "gcs"}
  /\ MaxFaults \in Nat

VARIABLES store,    \* the store of this deployment
          final,    \* what is at each blob's place
          tmp,      \* what is at each blob's shared <id>.tmp
          put,      \* the put each task is in
          uploads,  \* how many multipart uploads are open at S3
          aborting, \* how many of them a spawned task is about to abort
          leaked,   \* how many of them nobody will end
          shared,   \* the blobs whose <id>.tmp two puts had in use at a time
          faults

osVars == <<store, final, tmp, put, uploads, aborting, leaked, shared, faults>>

Content == {"none", "torn", "whole"}
NoPut == [pc |-> "idle", blob |-> NoBlob, at |-> "none", sent |-> 0, filled |-> 0]
Streaming == {"fill", "commit"}

OSTypeOK ==
  /\ store \in {"fs", "s3", "gcs"}
  /\ final \in [Blob -> Content]
  /\ tmp \in [Blob -> Content]
  /\ put \in [Task -> [pc : {"idle", "check", "open", "write", "rename", "meta", "send",
                             "create", "fill", "commit", "copy", "delete", "place",
                             "move", "ok", "err"},
                       blob : Blob \cup {NoBlob},
                       at : {"none", "tmp", "final", "lost"},
                       sent : Nat, filled : Nat]]
  /\ uploads \in Nat /\ aborting \in Nat /\ leaked \in Nat
  /\ shared \in SUBSET Blob
  /\ faults \in 0..MaxFaults

\* The store is opened with some blobs in it.
OSInit(present) ==
  /\ store \in Stores
  /\ final = [b \in Blob |-> IF b \in present THEN "whole" ELSE "none"]
  /\ tmp = [b \in Blob |-> "none"]
  /\ put = [t \in Task |-> NoPut]
  /\ uploads = 0 /\ aborting = 0 /\ leaked = 0
  /\ shared = {}
  /\ faults = 0

Fault == faults < MaxFaults /\ faults' = faults + 1

Goto(t, pc) == put' = [put EXCEPT ![t].pc = pc]

-----------------------------------------------------------------------------
(* put_bytes.                                                              *)

PutBytes(t, b) ==
  /\ put[t].pc = "idle"
  /\ put' = [put EXCEPT ![t] = [NoPut EXCEPT !.pc = IF store = "fs" THEN "check" ELSE "send",
                                             !.blob = b]]
  /\ UNCHANGED <<store, final, tmp, uploads, aborting, leaked, shared, faults>>

\* The blob is not written again when its file exists.
Check(t) ==
  /\ put[t].pc = "check"
  /\ Goto(t, IF final[put[t].blob] = "none" THEN "open" ELSE "meta")
  /\ UNCHANGED <<store, final, tmp, uploads, aborting, leaked, shared, faults>>

\* Another put has opened the same <id>.tmp and has still to rename it.
InUse(t) ==
  \E u \in Task \ {t} : put[u].blob = put[t].blob /\ put[u].pc \in {"write", "rename"}

\* tokio::fs::write creates <id>.tmp, or empties the one that is there, ...
Open(t) ==
  /\ put[t].pc = "open"
  /\ tmp' = [tmp EXCEPT ![put[t].blob] = "torn"]
  /\ put' = [put EXCEPT ![t].pc = "write", ![t].at = "tmp"]
  /\ shared' = IF InUse(t) THEN shared \cup {put[t].blob} ELSE shared
  /\ UNCHANGED <<store, final, uploads, aborting, leaked, faults>>

\* ... and writes to that file, wherever it has been renamed to by now.
Write(t) ==
  LET b == put[t].blob
  IN  /\ put[t].pc = "write"
      /\ tmp' = IF put[t].at = "tmp" THEN [tmp EXCEPT ![b] = "whole"] ELSE tmp
      /\ final' = IF put[t].at = "final" THEN [final EXCEPT ![b] = "whole"] ELSE final
      /\ Goto(t, "rename")
      /\ UNCHANGED <<store, uploads, aborting, leaked, shared, faults>>

\* Where the open file of a put is once another file took the blob's place.
Replaced(b, at) ==
  [u \in Task |->
     IF put[u].blob # b THEN put[u]
     ELSE [put[u] EXCEPT !.at = IF @ = "tmp" THEN at
                                ELSE IF @ = "final" THEN "lost" ELSE @]]

\* The rename fails when another put has renamed the file away.
Rename(t) ==
  LET b == put[t].blob
  IN  /\ put[t].pc = "rename"
      /\ IF tmp[b] = "none"
         THEN Goto(t, "err") /\ UNCHANGED <<final, tmp>>
         ELSE /\ final' = [final EXCEPT ![b] = tmp[b]]
              /\ tmp' = [tmp EXCEPT ![b] = "none"]
              /\ put' = [Replaced(b, "final") EXCEPT ![t].pc = "meta"]
      /\ UNCHANGED <<store, uploads, aborting, leaked, shared, faults>>

\* The sidecar <id>.meta.json, which nothing reads.
Meta(t) ==
  /\ put[t].pc = "meta"
  /\ Goto(t, "ok")
  /\ UNCHANGED <<store, final, tmp, uploads, aborting, leaked, shared, faults>>

\* PutObject / a simple upload: the object appears at once.
Send(t) ==
  /\ put[t].pc = "send"
  /\ final' = [final EXCEPT ![put[t].blob] = "whole"]
  /\ Goto(t, "ok")
  /\ UNCHANGED <<store, tmp, uploads, aborting, leaked, shared, faults>>

-----------------------------------------------------------------------------
(* put_stream.                                                             *)

PutStream(t, b) ==
  /\ put[t].pc = "idle"
  /\ put' = [put EXCEPT ![t] = [NoPut EXCEPT !.pc = "create", !.blob = b]]
  /\ UNCHANGED <<store, final, tmp, uploads, aborting, leaked, shared, faults>>

\* pending/<ulid>, a multipart upload to temp/pending-<ulid> or a resumable
\* session.
Create(t) ==
  /\ put[t].pc = "create"
  /\ Goto(t, "fill")
  /\ uploads' = IF store = "s3" THEN uploads + 1 ELSE uploads
  /\ UNCHANGED <<store, final, tmp, aborting, leaked, shared, faults>>

\* Units read and not yet uploaded go into the buffer; a full buffer is
\* uploaded.  The local store writes what it reads.
Buffered(p, n) ==
  IF store = "fs" \/ p.filled + n = Chunk
  THEN [p EXCEPT !.sent = @ + p.filled + n, !.filled = 0]
  ELSE [p EXCEPT !.filled = @ + n]

\* One read of the stream, which may return less than it was asked for.
Read(t) ==
  LET p == put[t]
  IN  /\ p.pc = "fill"
      /\ \E n \in 1 .. (Chunk - p.filled) :
           /\ p.sent + p.filled + n <= Len[p.blob]
           /\ put' = [put EXCEPT ![t] = Buffered(p, n)]
      /\ UNCHANGED <<store, final, tmp, uploads, aborting, leaked, shared, faults>>

\* Slip: a trailing chunk that is not full is left out.
EofDropsTail(t) ==
  LET p == put[t]
  IN  /\ p.pc = "fill"
      /\ p.sent + p.filled = Len[p.blob]
      /\ put' = [put EXCEPT ![t].pc = IF store = "fs" THEN "place" ELSE "commit",
                            ![t].filled = 0]
      /\ UNCHANGED <<store, final, tmp, uploads, aborting, leaked, shared, faults>>

\* The end of the stream: what is left in the buffer is uploaded.
Eof(t) ==
  LET p == put[t]
  IN  /\ p.pc = "fill"
      /\ p.sent + p.filled = Len[p.blob]
      /\ put' = [put EXCEPT ![t].pc = IF store = "fs" THEN "place" ELSE "commit",
                            ![t].sent = @ + p.filled, ![t].filled = 0]
      /\ UNCHANGED <<store, final, tmp, uploads, aborting, leaked, shared, faults>>

\* What a temporary with the units sent so far holds.
Sent(p) == IF p.sent = Len[p.blob] THEN "whole" ELSE "torn"

\* The local store: the temporary is renamed, unless the blob is there already.
Place(t) ==
  /\ put[t].pc = "place"
  /\ Goto(t, IF final[put[t].blob] = "none" THEN "move" ELSE "ok")
  /\ UNCHANGED <<store, final, tmp, uploads, aborting, leaked, shared, faults>>

Move(t) ==
  LET b == put[t].blob
  IN  /\ put[t].pc = "move"
      /\ final' = [final EXCEPT ![b] = Sent(put[t])]
      /\ put' = [Replaced(b, "tmp") EXCEPT ![t].pc = "ok"]
      /\ UNCHANGED <<store, tmp, uploads, aborting, leaked, shared, faults>>

\* complete_multipart_upload; the last chunk of a resumable session completes
\* it by itself.
Commit(t) ==
  /\ put[t].pc = "commit"
  /\ Goto(t, "copy")
  /\ uploads' = IF store = "s3" THEN uploads - 1 ELSE uploads
  /\ UNCHANGED <<store, final, tmp, aborting, leaked, shared, faults>>

\* The temporary is copied to the blob's place and deleted.
Copy(t) ==
  /\ put[t].pc = "copy"
  /\ final' = [final EXCEPT ![put[t].blob] = Sent(put[t])]
  /\ Goto(t, "delete")
  /\ UNCHANGED <<store, tmp, uploads, aborting, leaked, shared, faults>>

Delete(t) ==
  /\ put[t].pc = "delete"
  /\ Goto(t, "ok")
  /\ UNCHANGED <<store, final, tmp, uploads, aborting, leaked, shared, faults>>

-----------------------------------------------------------------------------
(* Failures.                                                               *)

\* The put holds a MultipartGuard that was not defused.
Guarded(t) == store = "s3" /\ put[t].pc \in Streaming

\* Slip: the guard lets the upload be.
DropForgets(t) == UNCHANGED aborting

\* MultipartGuard::drop spawns the abort.
Drop(t) == aborting' = IF Guarded(t) THEN aborting + 1 ELSE aborting

Waiting == {"check", "open", "write", "rename", "meta", "send", "create", "fill",
            "commit", "copy", "delete", "place", "move"}

\* A call of the put fails without effect; a write may be left half done.
PutError(t) ==
  /\ put[t].pc \in Waiting
  /\ Fault
  /\ Goto(t, "err")
  /\ Drop(t)
  /\ UNCHANGED <<store, final, tmp, uploads, leaked, shared>>

\* A remote call takes effect and its answer is lost.  An upload that was
\* created so has no guard yet; aborting one that was completed does nothing.
LateError(t) ==
  LET p == put[t]
  IN  /\ store # "fs"
      /\ \/ /\ p.pc \in {"send", "copy"}
            /\ final' = [final EXCEPT ![p.blob] = IF p.pc = "send" THEN "whole" ELSE Sent(p)]
            /\ UNCHANGED <<uploads, leaked>>
         \/ /\ store = "s3" /\ p.pc = "create"
            /\ uploads' = uploads + 1 /\ leaked' = leaked + 1 /\ UNCHANGED final
         \/ /\ store = "s3" /\ p.pc = "commit"
            /\ uploads' = uploads - 1 /\ UNCHANGED <<final, leaked>>
      /\ Fault
      /\ Goto(t, "err")
      /\ UNCHANGED <<store, tmp, aborting, shared>>

\* The spawned abort ends its upload, or fails and leaves it to the bucket's
\* lifecycle rule.
Abort ==
  /\ aborting > 0
  /\ aborting' = aborting - 1
  /\ \/ uploads' = uploads - 1 /\ UNCHANGED <<leaked, faults>>
     \/ leaked' = leaked + 1 /\ Fault /\ UNCHANGED uploads
  /\ UNCHANGED <<store, final, tmp, put, shared>>

\* The process dies; files and objects stay as they are.
OSCrash ==
  /\ Fault
  /\ put' = [t \in Task |-> NoPut]
  /\ aborting' = 0
  /\ leaked' = uploads
  /\ UNCHANGED <<store, final, tmp, uploads, shared>>

\* The steps of a put between its call and its return.
PutStep(t) ==
  \/ Check(t) \/ Open(t) \/ Write(t) \/ Rename(t) \/ Meta(t) \/ Send(t)
  \/ Create(t) \/ Read(t) \/ Eof(t) \/ Place(t) \/ Move(t) \/ Commit(t) \/ Copy(t) \/ Delete(t)
  \/ PutError(t) \/ LateError(t)

\* The caller has the result.
Return(t) ==
  /\ put[t].pc \in {"ok", "err"}
  /\ put' = [put EXCEPT ![t] = NoPut]
  /\ UNCHANGED <<store, final, tmp, uploads, aborting, leaked, shared, faults>>

-----------------------------------------------------------------------------
(* Properties.                                                             *)

\* A put that returned an id left the blob in its place, whatever other puts of
\* the same content did meanwhile.  (What is there may be torn: TornOnlyIfShared
\* says when.)
AckedIsStored ==
  \A t \in Task : put[t].pc = "ok" => final[put[t].blob] # "none"

\* docs/specs/06-cloud-layer.md:108 "no torn writes", where it holds: what is at
\* a blob's place is whole although errors and deaths cut writes short and leave
\* torn temporaries behind, and a stream is sent to its last unit however it is
\* read.  Two puts of the same content that overlap are the exception: they
\* share <id>.tmp (object_store.rs:70), and one may rename the file the other
\* has just emptied.
TornOnlyIfShared == \A b \in Blob : final[b] = "torn" => b \in shared

\* put_stream.rs:7 "A MultipartGuard aborts the in-flight multipart on any drop
\* path other than .commit()": every open upload belongs to a running put or to
\* a spawned abort, except those that a dead process, a failed abort, or a create
\* whose answer was lost left behind.
UploadsAreOwned ==
  uploads = leaked + aborting + Cardinality({t \in Task : Guarded(t)})
=============================================================================
