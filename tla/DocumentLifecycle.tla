------------------------- MODULE DocumentLifecycle -------------------------
(***************************************************************************)
(* One uploaded document, from its upload to its deletion:                 *)
(*                                                                         *)
(*  - server.docHandler uploads, retries and deletes it;                   *)
(*  - malwarescan applies GuardDuty's verdict on the stored file, and a    *)
(*    timeout when the verdict does not come;                              *)
(*  - an indexing execution per attempt (docindex or regionclassify, with  *)
(*    embedtail) moves the document's own status.                          *)
(*                                                                         *)
(* They share the document's row, its object in storage, and two job       *)
(* status records (malware_scan and the indexing job), and hold no lock    *)
(* across them: every database, S3 or Step Functions call is a step.       *)
(* Chunks, entities and the other job types belong to other modules.       *)
(***************************************************************************)
EXTENDS JobStatus, FiniteSets

CONSTANTS
    Deliveries,     \* concurrent deliveries of GuardDuty's result event
    Requests,       \* concurrent delete and retry requests
    Timeout,        \* the scan's timeout execution
    AmbiguousStart, \* may StartExecution fail although it took effect?
    FileIsRead,     \* does indexing read the file?  It reads none of an image
    MaxAttempt,     \* bound: indexing attempts
    MaxLosses       \* bound: kinds of process that die in one behaviour

ASSUME MaxAttemptIsPositive == MaxAttempt \in Nat \ {0}
ASSUME MaxLossesIsNat == MaxLosses \in Nat
ASSUME SwitchesAreBoolean == {AmbiguousStart, FileIsRead} \subseteq BOOLEAN
ASSUME ActorsAreDistinct ==
    /\ Deliveries \cap Requests = {}
    /\ Timeout \notin Deliveries \cup Requests

Actors == Deliveries \cup Requests \cup {Timeout}
Attempts == 1 .. MaxAttempt

VARIABLES
    verdict,        \* what GuardDuty says of the file, once it is stored
    doc,            \* documents.status, or "none" without a row
    object,         \* the file in the uploads bucket
    scan,           \* the malware_scan record
    index,          \* the indexing job's record
    upload,         \* where the upload request is
    actors,         \* where each delivery, request and the timeout is
    runs,           \* runs[a]: the indexing execution of attempt a
    lost            \* what died midway: a process, or a step out of retries

jobs == <<scan, index>>
vars == <<verdict, doc, object, scan, index, upload, actors, runs, lost>>

DocStatuses == {"pending", "processing", "indexed", "failed"}
UploadSteps == {"create", "scanRecord", "timeout", "failScan", "put", "abandon", "done"}
ScanSteps == {"waiting", "clean", "reject", "deleteObject", "failDoc"}
PublishSteps == {"enqueue", "dispatch", "markFailed"}
RequestSteps == {"retryJobs", "retryScan", "retryReset", "retryFailed",
                 "deleteJobs", "deleteObject", "deleteRow"}
PrepareSteps == {"prepare", "getDoc", "markDoc", "readObject"}
FinalizeSteps == {"markIndexed", "succeed", "succeedOnly"}
FailureSteps == {"recordFailure", "failDoc"}
LiveSteps == PrepareSteps \cup FinalizeSteps \cup FailureSteps
Losses == {"upload", "scan", "publish", "request", "delete", "run"}

Idle == [pc |-> "idle", attempt |-> 0]

TypeOK ==
    /\ verdict \in {"clean", "rejected"}
    /\ doc \in {"none"} \cup DocStatuses
    /\ object \in {"absent", "stored", "deleted"}
    /\ scan \in Record /\ index \in Record
    /\ doc = "none" => scan = NoRecord /\ index = NoRecord
    /\ upload \in UploadSteps
    /\ actors \in [Actors -> [pc : {"idle"} \cup ScanSteps \cup PublishSteps \cup RequestSteps,
                              attempt : 0 .. MaxAttempt]]
    /\ runs \in [Attempts -> {"none", "ended"} \cup LiveSteps]
    /\ lost \subseteq Losses

Init ==
    /\ verdict \in {"clean", "rejected"}
    /\ doc = "none"
    /\ object = "absent"
    /\ scan = NoRecord /\ index = NoRecord
    /\ upload = "create"
    /\ actors = [x \in Actors |-> Idle]
    /\ runs = [a \in Attempts |-> "none"]
    /\ lost = {}

At(x, pc) == actors[x].pc = pc
Goto(x, pc) == actors' = [actors EXCEPT ![x].pc = pc]
Return(x) == actors' = [actors EXCEPT ![x] = Idle]

\* Something of this kind dies midway and is not repeated.
Lose(kind) ==
    /\ Cardinality(lost \cup {kind}) <= MaxLosses
    /\ lost' = lost \cup {kind}

\* documents.UpdateStatus; without a row it changes nothing and says so.
UpdateStatus(status) == doc' = IF doc = "none" THEN "none" ELSE status

\* documents.Delete; the job status rows go with the document's.
DeleteRow ==
    /\ doc' = "none"
    /\ scan' = NoRecord
    /\ index' = NoRecord

\* objects.Delete, of an absent object too.
DeleteStored == object' = IF object = "stored" THEN "deleted" ELSE object

-----------------------------------------------------------------------------
(* Upload                                                                  *)

UploadCreate ==
    /\ upload = "create"
    /\ doc' = "pending"
    /\ upload' = "scanRecord"
    /\ UNCHANGED <<verdict, object, scan, index, actors, runs, lost>>

\* Scans.Begin records the pending scan, or fails to.
UploadScanRecord ==
    /\ upload = "scanRecord"
    /\ \/ /\ scan' = IF doc = "none" THEN scan ELSE Enqueue(scan)
          /\ upload' = IF doc = "none" THEN "abandon" ELSE "timeout"
       \/ /\ upload' = "abandon"
          /\ UNCHANGED scan
    /\ UNCHANGED <<verdict, doc, object, index, actors, runs, lost>>

\* Mutant: the file is stored without anything watching its scan.
UploadTimeoutNotStarted ==
    /\ upload = "timeout"
    /\ upload' = "put"
    /\ UNCHANGED <<verdict, doc, object, jobs, actors, runs, lost>>

\* Then starts its timeout execution, which may start and seem not to.
UploadTimeout ==
    /\ upload = "timeout"
    /\ \/ Goto(Timeout, "waiting") /\ upload' \in {"put", "failScan"}
       \/ upload' = "failScan" /\ UNCHANGED actors
    /\ UNCHANGED <<verdict, doc, object, jobs, runs, lost>>

UploadFailScan ==
    /\ upload = "failScan"
    /\ scan' = MarkFailed(scan, 1, "scan")
    /\ upload' = "abandon"
    /\ UNCHANGED <<verdict, doc, object, index, actors, runs, lost>>

\* The file lands in the bucket, or the store reports an error, possibly of a
\* write that landed.
UploadPut ==
    /\ upload = "put"
    /\ \/ object' = "stored" /\ upload' \in {"done", "abandon"}
       \/ upload' = "abandon" /\ UNCHANGED object
    /\ UNCHANGED <<verdict, doc, jobs, actors, runs, lost>>

\* abandonUpload removes the row, or at least fails the document.
UploadAbandon ==
    /\ upload = "abandon"
    /\ \/ DeleteRow
       \/ UpdateStatus("failed") /\ UNCHANGED jobs
    /\ upload' = "done"
    /\ UNCHANGED <<verdict, object, actors, runs, lost>>

\* The API process dies, or a write above fails with no one to repeat it.
UploadLost ==
    /\ upload \notin {"create", "done"}
    /\ upload' = "done"
    /\ Lose("upload")
    /\ UNCHANGED <<verdict, doc, object, jobs, actors, runs>>

-----------------------------------------------------------------------------
(* Scan results and timeout.  EventBridge may deliver a result any number  *)
(* of times; a failed delivery is repeated from the start, which finds the *)
(* scan as it left it and arrives where it failed, so an error the next    *)
(* try survives is a step not taken yet.                                   *)

\* HandleResult reads the document of the stored object.
ScanDeliver(d) ==
    /\ At(d, "idle")
    /\ object # "absent"
    /\ doc # "none"
    /\ Goto(d, IF verdict = "clean" THEN "clean" ELSE "reject")
    /\ UNCHANGED <<verdict, doc, object, jobs, upload, runs, lost>>

\* HandleTimeout reads the document once the state machine's Wait ends.
ScanTimeout ==
    /\ At(Timeout, "waiting")
    /\ IF doc = "none" THEN Return(Timeout) ELSE Goto(Timeout, "reject")
    /\ UNCHANGED <<verdict, doc, object, jobs, upload, runs, lost>>

\* clean: only a scan that succeeds now, or already did, starts processing.
ScanClean(d) ==
    /\ At(d, "clean")
    /\ scan' = MarkSucceeded(scan, 1)
    /\ IF TransitionError(scan, 1, "succeeded") = "nil" THEN Goto(d, "enqueue")
       ELSE Return(d)
    /\ UNCHANGED <<verdict, doc, object, index, upload, runs, lost>>

\* Mutant: the file is deleted before the scan's outcome is decided.
ScanRejectDeleteFirst(x) ==
    /\ At(x, "reject")
    /\ DeleteStored
    /\ scan' = MarkFailed(scan, 1, IF x = Timeout THEN "timeout" ELSE "scan")
    /\ IF TransitionError(scan, 1, "failed") = "nil" THEN Goto(x, "failDoc") ELSE Return(x)
    /\ UNCHANGED <<verdict, doc, index, upload, runs, lost>>

\* reject: a scan that succeeded stays clean; with no record, only an actual
\* finding still removes the file.
ScanReject(x) ==
    LET err == TransitionError(scan, 1, "failed")
    IN  /\ At(x, "reject")
        /\ scan' = MarkFailed(scan, 1, IF x = Timeout THEN "timeout" ELSE "scan")
        /\ IF err = "nil" \/ (err = "ErrNotFound" /\ x # Timeout)
           THEN Goto(x, "deleteObject")
           ELSE Return(x)
        /\ UNCHANGED <<verdict, doc, object, index, upload, runs, lost>>

ScanDeleteObject(x) ==
    /\ x \notin Requests
    /\ At(x, "deleteObject")
    /\ DeleteStored
    /\ Goto(x, "failDoc")
    /\ UNCHANGED <<verdict, doc, jobs, upload, runs, lost>>

ScanFailDoc(x) ==
    /\ At(x, "failDoc")
    /\ UpdateStatus("failed")
    /\ Return(x)
    /\ UNCHANGED <<verdict, object, jobs, upload, runs, lost>>

\* The delivery or the timeout runs out of retries.
ScanLost(x) ==
    /\ \E pc \in ScanSteps : At(x, pc)
    /\ x \notin Requests
    /\ Return(x)
    /\ Lose("scan")
    /\ UNCHANGED <<verdict, doc, object, jobs, upload, runs>>

-----------------------------------------------------------------------------
(* ingest.Start and dispatch.publish (JobDispatch has them in full): after *)
(* a failure a delivery starts over and a retry request fails the document.*)

StartFailed(x) == IF x \in Requests THEN "retryFailed" ELSE "enqueue"

\* Mutant: the record does not refer to the document's row.
PublishEnqueueAnyDoc(x) ==
    /\ At(x, "enqueue")
    /\ Active(index) \/ index.attempt < MaxAttempt
    /\ index' = Enqueue(index)
    /\ actors' = [actors EXCEPT ![x] =
                    IF Started(index) THEN [pc |-> "dispatch", attempt |-> index'.attempt]
                    ELSE Idle]
    /\ UNCHANGED <<verdict, doc, object, scan, upload, runs, lost>>

PublishEnqueue(x) ==
    /\ At(x, "enqueue")
    /\ doc # "none"
    /\ Active(index) \/ index.attempt < MaxAttempt
    /\ index' = Enqueue(index)
    /\ actors' = [actors EXCEPT ![x] =
                    IF Started(index) THEN [pc |-> "dispatch", attempt |-> index'.attempt]
                    ELSE Idle]
    /\ UNCHANGED <<verdict, doc, object, scan, upload, runs, lost>>

\* The record cannot be written, for want of a document or of a database.
PublishEnqueueError(x) ==
    /\ At(x, "enqueue")
    /\ IF doc = "none" /\ x \notin Requests THEN Return(x) ELSE Goto(x, StartFailed(x))
    /\ UNCHANGED <<verdict, doc, object, jobs, upload, runs, lost>>

StartRun(a) == runs' = [runs EXCEPT ![a] = IF @ = "none" THEN "prepare" ELSE @]

PublishDispatch(x) ==
    /\ At(x, "dispatch")
    /\ \/ StartRun(actors[x].attempt) /\ Return(x)
       \/ Goto(x, "markFailed") /\ UNCHANGED runs
       \/ AmbiguousStart /\ StartRun(actors[x].attempt) /\ Goto(x, "markFailed")
    /\ UNCHANGED <<verdict, doc, object, jobs, upload, lost>>

PublishMarkFailed(x) ==
    /\ At(x, "markFailed")
    /\ index' = MarkFailed(index, actors[x].attempt, "dispatch")
    /\ actors' = [actors EXCEPT ![x] = [pc |-> StartFailed(x), attempt |-> 0]]
    /\ UNCHANGED <<verdict, doc, object, scan, upload, runs, lost>>

\* The failure cannot be recorded either: publish still returns its error.
PublishMarkFailedError(x) ==
    /\ At(x, "markFailed")
    /\ actors' = [actors EXCEPT ![x] = [pc |-> StartFailed(x), attempt |-> 0]]
    /\ Lose("publish")
    /\ UNCHANGED <<verdict, doc, object, jobs, upload, runs>>

\* The caller dies, or a delivery runs out of retries.
PublishLost(x) ==
    /\ \E pc \in PublishSteps : At(x, pc)
    /\ Return(x)
    /\ Lose("publish")
    /\ UNCHANGED <<verdict, doc, object, jobs, upload, runs>>

-----------------------------------------------------------------------------
(* Retry and delete requests                                               *)

ActiveJob == Active(scan) \/ Active(index)

RetryBegin(r) ==
    /\ At(r, "idle")
    /\ doc = "failed"
    /\ Goto(r, "retryJobs")
    /\ UNCHANGED <<verdict, doc, object, jobs, upload, runs, lost>>

RetryCheckJobs(r) ==
    /\ At(r, "retryJobs")
    /\ IF ActiveJob THEN Return(r) ELSE Goto(r, "retryScan")
    /\ UNCHANGED <<verdict, doc, object, jobs, upload, runs, lost>>

\* Mutant: retry does not ask whether the scan rejected the file.
RetryCheckScanSkipped(r) ==
    /\ At(r, "retryScan")
    /\ Goto(r, "retryReset")
    /\ UNCHANGED <<verdict, doc, object, jobs, upload, runs, lost>>

\* Scans.Rejection: a failed scan means the file is gone.
RetryCheckScan(r) ==
    /\ At(r, "retryScan")
    /\ IF scan.status = "failed" THEN Return(r) ELSE Goto(r, "retryReset")
    /\ UNCHANGED <<verdict, doc, object, jobs, upload, runs, lost>>

RetryReset(r) ==
    /\ At(r, "retryReset")
    /\ UpdateStatus("pending")
    /\ IF doc = "none" THEN Return(r) ELSE Goto(r, "enqueue")
    /\ UNCHANGED <<verdict, object, jobs, upload, runs, lost>>

RetryFailed(r) ==
    /\ At(r, "retryFailed")
    /\ UpdateStatus("failed")
    /\ Return(r)
    /\ UNCHANGED <<verdict, object, jobs, upload, runs, lost>>

DeleteBegin(r) ==
    /\ At(r, "idle")
    /\ doc \notin {"none", "processing"}
    /\ Goto(r, "deleteJobs")
    /\ UNCHANGED <<verdict, doc, object, jobs, upload, runs, lost>>

DeleteCheckJobs(r) ==
    /\ At(r, "deleteJobs")
    /\ IF ActiveJob THEN Return(r) ELSE Goto(r, "deleteObject")
    /\ UNCHANGED <<verdict, doc, object, jobs, upload, runs, lost>>

DeleteObject(r) ==
    /\ r \in Requests
    /\ At(r, "deleteObject")
    /\ DeleteStored
    /\ Goto(r, "deleteRow")
    /\ UNCHANGED <<verdict, doc, jobs, upload, runs, lost>>

DeleteDocRow(r) ==
    /\ At(r, "deleteRow")
    /\ DeleteRow
    /\ Return(r)
    /\ UNCHANGED <<verdict, object, upload, runs, lost>>

\* A call fails, the handler answers 500 and what it did stays; or the
\* process dies there.
RequestLost(r) ==
    /\ \E pc \in RequestSteps : At(r, pc)
    /\ r \in Requests
    /\ Return(r)
    /\ Lose(IF At(r, "deleteRow") THEN "delete" ELSE "request")
    /\ UNCHANGED <<verdict, doc, object, jobs, upload, runs>>

-----------------------------------------------------------------------------
(* The indexing execution of attempt a.  Its Lambda steps are retried from *)
(* their start after a transient error (RunRetry), and any error that      *)
(* outlives its retries ends in RecordFailure (RunError).                  *)

RunGoto(a, pc) == runs' = [runs EXCEPT ![a] = pc]

\* Prepare (StageLayout): a superseded attempt ends without doing anything.
RunPrepare(a) ==
    LET err == TransitionError(index, a, "processing")
    IN  /\ runs[a] = "prepare"
        /\ index' = MarkProcessing(index, a)
        /\ RunGoto(a, IF err = "nil" THEN "getDoc"
                      ELSE IF Superseded(err) THEN "ended" ELSE "recordFailure")
        /\ UNCHANGED <<verdict, doc, object, scan, upload, actors, lost>>

RunGetDoc(a) ==
    /\ runs[a] = "getDoc"
    /\ RunGoto(a, IF doc = "none" THEN "recordFailure"
                  ELSE IF doc = "indexed" THEN "succeedOnly" ELSE "markDoc")
    /\ UNCHANGED <<verdict, doc, object, jobs, upload, actors, lost>>

RunMarkDoc(a) ==
    /\ runs[a] = "markDoc"
    /\ doc # "none"
    /\ UpdateStatus("processing")
    /\ RunGoto(a, "readObject")
    /\ UNCHANGED <<verdict, object, jobs, upload, actors, lost>>

\* The file is read, unless it is an image, its chunks are stored, and the
\* Batch job embeds them.
RunReadObject(a) ==
    /\ runs[a] = "readObject"
    /\ FileIsRead => object = "stored"
    /\ RunGoto(a, "markIndexed")
    /\ UNCHANGED <<verdict, doc, object, jobs, upload, actors, lost>>

\* Region classification asks once more before it replaces the chunks.
RunBuildChunksStale(a) ==
    /\ runs[a] = "readObject"
    /\ Superseded(TransitionError(index, a, "processing"))
    /\ RunGoto(a, "ended")
    /\ UNCHANGED <<verdict, doc, object, jobs, upload, actors, lost>>

\* Finalize's markIndexed reads the document and writes it only if it is not
\* indexed yet: either way it is indexed afterwards.
RunMarkIndexed(a) ==
    /\ runs[a] = "markIndexed"
    /\ UpdateStatus("indexed")
    /\ RunGoto(a, IF doc = "none" THEN "recordFailure" ELSE "succeed")
    /\ UNCHANGED <<verdict, object, jobs, upload, actors, lost>>

\* Finalize's MarkSucceeded; a superseded outcome is dropped.
RunSucceed(a) ==
    /\ runs[a] \in {"succeed", "succeedOnly"}
    /\ index' = MarkSucceeded(index, a)
    /\ RunGoto(a, IF TransitionError(index, a, "succeeded") = "ErrNotFound"
                  THEN "recordFailure" ELSE "ended")
    /\ UNCHANGED <<verdict, doc, object, scan, upload, actors, lost>>

\* The success was recorded, but the step that recorded it fails.
RunSucceedReplyLost(a) ==
    /\ runs[a] \in {"succeed", "succeedOnly"}
    /\ index' = MarkSucceeded(index, a)
    /\ UNCHANGED <<verdict, doc, object, scan, upload, actors, runs, lost>>

RunRetry(a) ==
    /\ \/ runs[a] \in PrepareSteps /\ RunGoto(a, "prepare")
       \/ runs[a] = "succeed" /\ RunGoto(a, "markIndexed")
    /\ UNCHANGED <<verdict, doc, object, jobs, upload, actors, lost>>

RunError(a) ==
    /\ runs[a] \in PrepareSteps \cup FinalizeSteps
    /\ RunGoto(a, "recordFailure")
    /\ UNCHANGED <<verdict, doc, object, jobs, upload, actors, lost>>

\* RecordFailure leaves the document of a superseded attempt alone.
RunRecordFailure(a) ==
    /\ runs[a] = "recordFailure"
    /\ index' = MarkFailed(index, a, "step")
    /\ RunGoto(a, IF Superseded(TransitionError(index, a, "failed"))
                  THEN "ended" ELSE "failDoc")
    /\ UNCHANGED <<verdict, doc, object, scan, upload, actors, lost>>

\* Mutant: the document's status is left as the attempt had it.
RunFailDocSkipped(a) ==
    /\ runs[a] = "failDoc"
    /\ RunGoto(a, "ended")
    /\ UNCHANGED <<verdict, doc, object, jobs, upload, actors, lost>>

RunFailDoc(a) ==
    /\ runs[a] = "failDoc"
    /\ UpdateStatus("failed")
    /\ RunGoto(a, "ended")
    /\ UNCHANGED <<verdict, object, jobs, upload, actors, lost>>

RunLost(a) ==
    /\ runs[a] \in FailureSteps
    /\ RunGoto(a, "ended")
    /\ Lose("run")
    /\ UNCHANGED <<verdict, doc, object, jobs, upload, actors>>

-----------------------------------------------------------------------------
Upload ==
    \/ UploadCreate \/ UploadScanRecord \/ UploadTimeout \/ UploadFailScan
    \/ UploadPut \/ UploadAbandon \/ UploadLost

ScanStep(x) ==
    \/ ScanReject(x) \/ ScanDeleteObject(x) \/ ScanFailDoc(x)
    \/ x = Timeout /\ ScanTimeout
    \/ x \in Deliveries /\ ScanClean(x)

Publish(x) ==
    PublishEnqueue(x) \/ PublishEnqueueError(x) \/ PublishDispatch(x) \/ PublishMarkFailed(x)

Retry(r) ==
    \/ RetryBegin(r) \/ RetryCheckJobs(r) \/ RetryCheckScan(r)
    \/ RetryReset(r) \/ RetryFailed(r)

Delete(r) == DeleteBegin(r) \/ DeleteCheckJobs(r) \/ DeleteObject(r) \/ DeleteDocRow(r)

RunStep(a) ==
    \/ RunPrepare(a) \/ RunGetDoc(a) \/ RunMarkDoc(a)
    \/ RunReadObject(a) \/ RunBuildChunksStale(a)
    \/ RunMarkIndexed(a) \/ RunSucceed(a) \/ RunError(a)
    \/ RunRecordFailure(a) \/ RunFailDoc(a)

Next ==
    \/ Upload
    \/ \E d \in Deliveries : ScanDeliver(d)
    \/ \E x \in Actors : ScanStep(x) \/ ScanLost(x)
                        \/ Publish(x) \/ PublishMarkFailedError(x) \/ PublishLost(x)
    \/ \E r \in Requests : Retry(r) \/ Delete(r) \/ RequestLost(r)
    \/ \E a \in Attempts : RunStep(a) \/ RunSucceedReplyLost(a) \/ RunRetry(a) \/ RunLost(a)

Spec == Init /\ [][Next]_vars

\* A request or a Lambda that does not die finishes, the timeout's Wait ends,
\* and Step Functions drives an execution it started: each is weakly fair.
\* A step is retried at most three times, so one that keeps being retried
\* fails for good in the end: RunError is strongly fair.  Nothing obliges a
\* user to delete or retry, or GuardDuty to report.
Fairness ==
    /\ WF_vars(Upload /\ upload # "create" /\ UNCHANGED lost)
    /\ WF_vars(ScanStep(Timeout))
    /\ \A d \in Deliveries : WF_vars(ScanStep(d) \/ Publish(d))
    /\ \A r \in Requests :
          WF_vars(~At(r, "idle") /\ (Retry(r) \/ Delete(r) \/ Publish(r)))
    /\ \A a \in Attempts : WF_vars(RunStep(a)) /\ SF_vars(RunError(a))

FairSpec == Spec /\ Fairness

-----------------------------------------------------------------------------
(* Properties                                                              *)

\* A stored file is processed only once its scan reported it clean: neither
\* the timeout racing a late verdict, nor a repeated delivery, nor a retry of
\* a document that failed for another reason gets an unscanned file indexed.
\* And nothing is recorded of a document whose row is gone (in TypeOK).
ProcessedWasClean ==
    /\ TypeOK
    /\ index.attempt > 0 /\ object # "absent" => scan.status = "succeeded"

\* A file that was reported clean is only ever removed by deleting its
\* document: the timeout that lost the race against the verdict, or a second
\* delivery, never takes it away under the indexing that reads it.
CleanFileKept ==
    scan.status = "succeeded" =>
       \/ object = "stored"
       \/ \E r \in Requests : At(r, "deleteRow")
       \/ "delete" \in lost

\* A document whose scan rejected it stays failed: no retry, however its
\* checks interleave with the scan's outcome, brings it back.
RejectedStaysFailed ==
    [][scan.status = "failed" /\ doc = "failed" => doc' \in {"failed", "none"}]_vars

\* A recorded scan ends, with a verdict or by its timeout, unless the upload
\* died before starting the timeout or the timeout ran out of retries.
ScanSettles ==
    Active(scan) ~> (~Active(scan) \/ {"upload", "scan"} \cap lost # {})

\* A document does not stay in processing, where it can be neither deleted
\* nor retried.
ProcessingSettles ==
    doc = "processing" ~> (doc # "processing" \/ "run" \in lost)

-----------------------------------------------------------------------------
(* What the comments in the code say and the code does not do              *)

\* docHandler.delete: a failed delete never leaves "a broken pointer (row
\* without a file)".
NoBrokenPointer ==
    doc = "indexed" => object = "stored" \/ \E r \in Requests : At(r, "deleteRow")

\* Package docindex: "A step running for an attempt that's no longer current
\* (the user already retried) does nothing."
StaleFinalizeDoesNothing ==
    [][\A a \in Attempts :
          runs[a] = "markIndexed" /\ runs'[a] = "succeed" /\ doc' # doc
             => index.attempt = a]_vars
=============================================================================
