---------------------------- MODULE S3Multipart ----------------------------
(***************************************************************************)
(* Multipart uploads of the S3 gateway (pepper-agent s3_api.rs).           *)
(*                                                                         *)
(* The upload record and its parts are keys of a control namespace, the    *)
(* object is a key of a data namespace; every change is a transaction of   *)
(* one namespace, and a handler is a chain of reads and transactions with  *)
(* other requests in between.  A transaction that names what it read       *)
(* (value_precondition) applies only while the key's generation is the     *)
(* one read, and every Put raises the generation, also one that writes the *)
(* same value.  The completion key is written and deleted with the upload  *)
(* record: its value is the record's "final".                              *)
(***************************************************************************)
EXTENDS Naturals, FiniteSets, Sequences

CONSTANTS
    Requests,           \* the HTTP requests: op, part number, content; the part list an object is made of
    Scenarios,          \* the sets of requests that are sent together
    PartNumbers,
    MaxStaged,          \* max_staging_bytes, in parts of size 1
    MaxCancels          \* bound: requests cut off or failed half way

NoContent == "none"

Ids == DOMAIN Requests
PartLists == {Requests[r].list : r \in Ids} \cup {<<>>}
PartContents == {Requests[r].content : r \in Ids} \cup {NoContent}

ASSUME MultipartAssumption ==
    /\ IsFiniteSet(PartNumbers) /\ MaxStaged \in Nat /\ MaxCancels \in Nat
    /\ \A r \in Ids : Requests[r].op = "part" => Requests[r].part \in PartNumbers

VARIABLES
    upload,         \* the upload record: status, generation, completion list, final content
    parts,          \* the part keys: content and generation
    object,         \* the object in the data namespace: the parts it is made of
    revision,       \* the data namespace's revision
    ledger,         \* the data namespace's idempotency records of s3-complete- requests
    req,            \* where each request is, and what it has read
    lifecycle,      \* where reconcile_s3_lifecycle() is
    published,      \* how often a Complete was applied
    aborted,        \* an Abort was answered 204
    cancels

multipartVars == <<upload, parts, object, revision, ledger, req, lifecycle, published, aborted, cancels>>

None == [status |-> "none", gen |-> 0, list |-> <<>>]
NoPart == [content |-> NoContent, gen |-> 0]
Idle(pc) == [pc |-> pc, seen |-> None, part |-> NoPart, base |-> 0]

UploadRecord == [status : {"none", "open", "completing", "deleted"}, gen : Nat, list : PartLists]
PartVersion == [content : PartContents, gen : Nat]
Steps == {"new", "stored", "put", "select", "mark", "reread", "check", "base", "publish", "fence", "parts", "retry", "done",
          "failed"}

MultipartTypeOK ==
    /\ upload \in UploadRecord
    /\ parts \in [PartNumbers -> PartVersion]
    /\ object \in PartLists
    /\ revision \in Nat
    /\ ledger \in SUBSET (PartLists \X Nat)
    /\ req \in [Ids -> [pc : Steps, seen : UploadRecord, part : PartVersion, base : Nat]]
    /\ lifecycle \in [pc : {"idle", "listed", "fence", "parts"}, seen : UploadRecord]
    /\ published \in Nat /\ aborted \in BOOLEAN /\ cancels \in 0 .. MaxCancels

MultipartInit ==
    /\ upload = None
    /\ parts = [p \in PartNumbers |-> NoPart]
    /\ object = <<>> /\ revision = 0 /\ ledger = {}
    /\ \E sent \in Scenarios : req = [r \in Ids |-> Idle(IF r \in sent THEN "new" ELSE "failed")]
    /\ lifecycle = [pc |-> "idle", seen |-> None]
    /\ published = 0 /\ aborted = FALSE /\ cancels = 0

----------------------------------------------------------------------------
At(r, op, pc) == Requests[r].op = op /\ req[r].pc = pc
Ended == {"done", "failed"}
Goto(r, pc) == req' = [req EXCEPT ![r] = IF pc \in Ended THEN Idle(pc) ELSE [@ EXCEPT !.pc = pc]]
\* .. having read the upload record
GotoSeen(r, pc) == req' = [req EXCEPT ![r] = IF pc \in Ended THEN Idle(pc) ELSE [@ EXCEPT !.pc = pc, !.seen = upload]]
objects == <<object, revision, ledger, published>>

\* multipart_upload(): the record as it is now
Live(u) == u.status \in {"open", "completing"}

\* KeyPrecondition::Match on the upload record
IgnoreUpload(seen) == Live(upload)
UploadMatches(seen) == Live(upload) /\ upload.gen = seen.gen

\* put_multipart_upload() of CreateMultipartUpload
CreateUpload ==
    /\ upload.status = "none"
    /\ upload' = [status |-> "open", gen |-> 1, list |-> <<>>]
    /\ UNCHANGED <<parts, objects, req, lifecycle, aborted, cancels>>

----------------------------------------------------------------------------
(* UploadPart                                                              *)

ReadForPart(r) ==
    /\ At(r, "part", "new") /\ upload.status # "none"
    /\ GotoSeen(r, IF upload.status = "open" THEN "stored" ELSE "failed")
    /\ UNCHANGED <<upload, parts, objects, lifecycle, aborted, cancels>>

Staged == {p \in PartNumbers : parts[p] # NoPart}

\* projected: what is staged, with this part in place of its previous version
WithinLimit(p) == Cardinality(Staged \cup {p}) <= MaxStaged

\* put_multipart_part(): the limit, and the part's current version
CheckStaged(r) ==
    /\ At(r, "part", "stored")
    /\ LET p == Requests[r].part
       IN req' = [req EXCEPT ![r] = IF WithinLimit(p) THEN [@ EXCEPT !.pc = "put", !.part = parts[p]] ELSE Idle("failed")]
    /\ UNCHANGED <<upload, parts, objects, lifecycle, aborted, cancels>>

\* .. and the transaction: the part, and the upload record as it was read
PutPart(r) ==
    /\ At(r, "part", "put")
    /\ LET p == Requests[r].part IN
       IF parts[p] = req[r].part /\ UploadMatches(req[r].seen)
       THEN /\ parts' = [parts EXCEPT ![p] = [content |-> Requests[r].content, gen |-> @.gen + 1]]
            /\ upload' = [req[r].seen EXCEPT !.gen = upload.gen + 1]
            /\ Goto(r, "done")
       ELSE Goto(r, "failed") /\ UNCHANGED <<upload, parts>>
    /\ UNCHANGED <<objects, lifecycle, aborted, cancels>>

----------------------------------------------------------------------------
(* CompleteMultipartUpload                                                 *)

ReadForComplete(r) ==
    /\ At(r, "complete", "new") /\ upload.status # "none"
    /\ LET mayComplete == \/ upload.status = "open"
                          \/ upload.status = "completing" /\ upload.list = Requests[r].list
       IN GotoSeen(r, IF mayComplete THEN "select" ELSE "failed")
    /\ UNCHANGED <<upload, parts, objects, lifecycle, aborted, cancels>>

\* every requested part is stored with the requested ETag (its content's CID);
\* the manifest of the selected parts is stored
SelectParts(r) ==
    /\ At(r, "complete", "select")
    /\ LET list == Requests[r].list
           found == \A i \in DOMAIN list : parts[list[i].part].content = list[i].content
       IN Goto(r, CASE ~found -> "failed"
                    [] found /\ req[r].seen.status = "open" -> "mark"
                    [] OTHER -> "check")
    /\ UNCHANGED <<upload, parts, objects, lifecycle, aborted, cancels>>

\* replace_multipart_upload()
MarkCompleting(r) ==
    /\ At(r, "complete", "mark")
    /\ IF UploadMatches(req[r].seen)
       THEN /\ upload' = [status |-> "completing", gen |-> upload.gen + 1, list |-> Requests[r].list]
            /\ Goto(r, "reread")
       ELSE Goto(r, "failed") /\ UNCHANGED upload
    /\ UNCHANGED <<parts, objects, lifecycle, aborted, cancels>>

RereadUpload(r) ==
    /\ At(r, "complete", "reread")
    /\ GotoSeen(r, IF Live(upload) THEN "check" ELSE "failed")
    /\ UNCHANGED <<upload, parts, objects, lifecycle, aborted, cancels>>

\* the object already has this content: an earlier attempt published it
CheckPublished(r) ==
    /\ At(r, "complete", "check")
    /\ Goto(r, IF object = Requests[r].list THEN "fence" ELSE "base")
    /\ UNCHANGED <<upload, parts, objects, lifecycle, aborted, cancels>>

\* bucket_put() takes its base; the descriptor it stores carries the revision
ReadBase(r) ==
    /\ At(r, "complete", "base")
    /\ req' = [req EXCEPT ![r] = [@ EXCEPT !.pc = "publish", !.base = revision]]
    /\ UNCHANGED <<upload, parts, objects, lifecycle, aborted, cancels>>

\* The transaction of bucket_put() under the request id s3-complete-..: the
\* namespace answers an id it has seen with the recorded outcome when the
\* command is the same, with IdempotencyConflict when it is not.
Recorded(list) == {entry \in ledger : entry[1] = list}

Publish(r) ==
    /\ At(r, "complete", "publish")
    /\ LET list == Requests[r].list IN
       CASE Recorded(list) = {} ->
              /\ object' = list /\ revision' = revision + 1 /\ published' = published + 1
              /\ ledger' = ledger \cup {<<list, req[r].base>>}
              /\ Goto(r, "fence")
         [] <<list, req[r].base>> \in Recorded(list) -> Goto(r, "fence") /\ UNCHANGED objects
         [] OTHER -> Goto(r, "failed") /\ UNCHANGED objects
    /\ UNCHANGED <<upload, parts, lifecycle, aborted, cancels>>

----------------------------------------------------------------------------
(* delete_multipart_upload(), of Complete and of Abort                     *)

ReadForAbort(r) ==
    /\ At(r, "abort", "new") /\ upload.status # "none"
    /\ GotoSeen(r, IF upload.status = "open" THEN "fence" ELSE "failed")
    /\ UNCHANGED <<upload, parts, objects, lifecycle, aborted, cancels>>

\* The record and the completion key go first: no UploadPart that read the
\* record can store a part any more.
FenceUpload(r) ==
    /\ req[r].pc = "fence"
    /\ IF UploadMatches(req[r].seen)
       THEN /\ upload' = [upload EXCEPT !.status = "deleted"]
            /\ Goto(r, "parts")
            /\ UNCHANGED aborted
       ELSE /\ Goto(r, IF Requests[r].op = "complete" THEN "retry" ELSE "failed")
            /\ UNCHANGED <<upload, aborted>>
    /\ UNCHANGED <<parts, objects, lifecycle, cancels>>

\* The parts are deleted afterwards; a failure is only logged.
DeleteParts(r) ==
    /\ req[r].pc = "parts"
    /\ parts' = [p \in PartNumbers |-> NoPart]
    /\ Goto(r, "done")
    /\ aborted' = (aborted \/ Requests[r].op = "abort")
    /\ UNCHANGED <<upload, objects, lifecycle, cancels>>

LeaveParts(r) ==
    /\ req[r].pc = "parts" /\ cancels < MaxCancels
    /\ cancels' = cancels + 1
    /\ Goto(r, "done")
    /\ aborted' = (aborted \/ Requests[r].op = "abort")
    /\ UNCHANGED <<upload, parts, objects, lifecycle>>

\* spawn_completed_multipart_cleanup(): while the object has this content and
\* the record is still there, delete it again
RetryCleanup(r) ==
    /\ req[r].pc = "retry"
    /\ IF upload.status = "completing"
       THEN /\ object = Requests[r].list
            /\ GotoSeen(r, "fence")
       ELSE Goto(r, "done")
    /\ UNCHANGED <<upload, parts, objects, lifecycle, aborted, cancels>>

----------------------------------------------------------------------------
\* PutObject without a condition: the last writer wins
PutObject(r) ==
    /\ At(r, "put", "new")
    /\ object' = Requests[r].list /\ revision' = revision + 1
    /\ Goto(r, "done")
    /\ UNCHANGED <<upload, parts, ledger, lifecycle, published, aborted, cancels>>

\* A request is dropped with its connection, or a transaction finds no quorum
CutOff(r) ==
    /\ req[r].pc \notin Ended \cup {"new"} /\ cancels < MaxCancels
    /\ cancels' = cancels + 1
    /\ Goto(r, "failed")
    /\ UNCHANGED <<upload, parts, objects, lifecycle, aborted>>

----------------------------------------------------------------------------
(* reconcile_s3_lifecycle(): the uploads are listed, and each expired open *)
(* one is read again and deleted as it is then.                            *)

LifecycleList ==
    /\ lifecycle.pc = "idle" /\ upload.status = "open"
    /\ lifecycle' = [pc |-> "listed", seen |-> None]
    /\ UNCHANGED <<upload, parts, objects, req, aborted, cancels>>

LifecycleRead ==
    /\ lifecycle.pc = "listed"
    /\ lifecycle' = IF Live(upload) THEN [pc |-> "fence", seen |-> upload] ELSE [pc |-> "idle", seen |-> None]
    /\ UNCHANGED <<upload, parts, objects, req, aborted, cancels>>

LifecycleFence ==
    /\ lifecycle.pc = "fence"
    /\ IF UploadMatches(lifecycle.seen)
       THEN /\ upload' = [upload EXCEPT !.status = "deleted"]
            /\ lifecycle' = [pc |-> "parts", seen |-> None]
       ELSE lifecycle' = [pc |-> "idle", seen |-> None] /\ UNCHANGED upload
    /\ UNCHANGED <<parts, objects, req, aborted, cancels>>

LifecycleParts ==
    /\ lifecycle.pc = "parts"
    /\ parts' = [p \in PartNumbers |-> NoPart]
    /\ lifecycle' = [pc |-> "idle", seen |-> None]
    /\ UNCHANGED <<upload, objects, req, aborted, cancels>>

----------------------------------------------------------------------------
Handler(r) ==
    \/ ReadForPart(r) \/ CheckStaged(r) \/ PutPart(r)
    \/ ReadForComplete(r) \/ SelectParts(r) \/ MarkCompleting(r) \/ RereadUpload(r)
    \/ CheckPublished(r) \/ ReadBase(r) \/ Publish(r)
    \/ ReadForAbort(r) \/ FenceUpload(r) \/ DeleteParts(r) \/ LeaveParts(r) \/ RetryCleanup(r)
    \/ PutObject(r) \/ CutOff(r)

MultipartNext ==
    \/ CreateUpload
    \/ \E r \in Ids : Handler(r)
    \/ LifecycleList \/ LifecycleRead \/ LifecycleFence \/ LifecycleParts

MultipartSpec == MultipartInit /\ [][MultipartNext]_multipartVars

----------------------------------------------------------------------------
(* What an upload promises.                                                *)

\* What a completing upload publishes is what its parts hold: a part stored
\* again while Complete selects makes Complete fail (put_multipart_part()
\* writes the upload record too).
FinalMatchesParts ==
    upload.status = "completing" =>
        \A i \in DOMAIN upload.list : parts[upload.list[i].part].content = upload.list[i].content

\* The staging limit holds also against UploadParts that were checked at the
\* same time.
StagedWithinLimit == Cardinality(Staged) <= MaxStaged

\* After an answered Abort the upload's object never appears.
AbortIsFinal == aborted => published = 0

\* However often and however concurrently Complete is sent, the object is
\* written once: a retry does not put it over a newer PutObject.
PublishedOnce == published <= 1

\* Parts, Complete, Abort and the lifecycle pass each act on a record that they
\* read earlier, and yet: what is published is what is staged, within the limit,
\* once, and never after an answered Abort.
MultipartSafe == FinalMatchesParts /\ StagedWithinLimit /\ AbortIsFinal /\ PublishedOnce
=============================================================================
