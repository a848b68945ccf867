----------------------- MODULE DocumentLifecycleProofs -----------------------
(***************************************************************************)
(* What holds of DocumentLifecycle for every number of deliveries of the   *)
(* scan's result, of delete and retry requests and of indexing attempts.   *)
(***************************************************************************)
EXTENDS DocumentLifecycle, TLAPS

(***************************************************************************)
(* The inductive invariant                                                 *)
(***************************************************************************)

\* Those past the scan: about to start an execution, or to reset or fail the
\* document of a retry.
PastScan(x) == actors[x].pc \in PublishSteps \cup {"retryReset", "retryFailed"}

\* Before the upload records its scan, nobody has anything to go by.
NothingScanned ==
    upload \in {"create", "scanRecord"} =>
       /\ doc \in {"none", "pending"}
       /\ scan = NoRecord /\ index = NoRecord
       /\ \A x \in Actors \ Requests : At(x, "idle")
       /\ \A r \in Requests : actors[r].pc \in {"idle", "deleteJobs", "deleteObject", "deleteRow"}
       /\ \A a \in Attempts : runs[a] = "none"

\* The file is stored only by an upload that recorded its scan, last.
StoredIsScanned ==
    /\ upload \in {"create", "scanRecord", "timeout", "failScan", "put"} => object = "absent"
    /\ doc # "none" /\ scan.status = "none" =>
          /\ object = "absent"
          /\ upload \notin {"timeout", "failScan", "put"}
    /\ \A d \in Deliveries : ~At(d, "idle") => object # "absent"
    /\ scan.status = "succeeded" => object # "absent"

\* The scan of a document that is being started, or has been, was clean; or
\* it has no record, its file not being stored.
Settled == scan.status \in {"none", "succeeded"}

OnlyCleanStarts ==
    /\ \A x \in Actors : PastScan(x) => Settled
    /\ \A r \in Requests : At(r, "retryScan") => ~Active(scan)
    /\ \A a \in Attempts : runs[a] \in LiveSteps => Settled
    /\ index.attempt > 0 => Settled

\* A file is removed by a request that goes on to delete its row, or by a
\* scan that rejected it.
Deleting == (\E r \in Requests : At(r, "deleteRow")) \/ "delete" \in lost

RemovedForCause ==
    /\ \A x \in Actors \ Requests : At(x, "deleteObject") => scan.status = "failed" \/ doc = "none"
    /\ object = "deleted" /\ (Active(scan) \/ scan.status = "succeeded") => Deleting

IInv == TypeOK /\ NothingScanned /\ StoredIsScanned /\ OnlyCleanStarts /\ RemovedForCause

(***************************************************************************)
(* Status records                                                          *)
(***************************************************************************)
LEMMA NoRecordTyped == NoRecord \in Record
  BY DEF NoRecord, Record, Phases

LEMMA EnqueueTyped ==
  ASSUME NEW rec \in Record
  PROVE  /\ Enqueue(rec) \in Record
         /\ Enqueue(rec).attempt \in {rec.attempt, rec.attempt + 1}
         /\ Active(rec) => Enqueue(rec) = rec
         /\ Active(Enqueue(rec))
  BY DEF Enqueue, Record, Active, ActiveStatuses, FinishedStatuses, Phases, Reasons

\* A transition keeps the attempt; it leaves a record alone, or an active one
\* becomes what it is asked to.
LEMMA TransitionTyped ==
  ASSUME NEW rec \in Record, NEW attempt, NEW to \in Targets,
         NEW reason \in {"none"} \cup Reasons
  PROVE  LET new == Transition(rec, attempt, to, "none", reason)
         IN  /\ new \in Record
             /\ new.attempt = rec.attempt
             /\ new = rec \/ (Active(rec) /\ new.status = to)
             /\ TransitionError(rec, attempt, to) = "nil" => new.status = to
  BY DEF Transition, TransitionError, Targets, Record, Active, Finished, ActiveStatuses,
         FinishedStatuses, Phases, Reasons

LEMMA MarksTyped ==
  ASSUME NEW rec \in Record, NEW attempt, NEW reason \in Reasons
  PROVE  /\ MarkProcessing(rec, attempt) \in Record
         /\ MarkProcessing(rec, attempt).attempt = rec.attempt
         /\ MarkSucceeded(rec, attempt) \in Record
         /\ MarkSucceeded(rec, attempt).attempt = rec.attempt
         /\ \/ MarkSucceeded(rec, attempt) = rec
            \/ Active(rec) /\ MarkSucceeded(rec, attempt).status = "succeeded"
         /\ TransitionError(rec, attempt, "succeeded") = "nil"
               => MarkSucceeded(rec, attempt).status = "succeeded"
         /\ MarkFailed(rec, attempt, reason) \in Record
         /\ MarkFailed(rec, attempt, reason).attempt = rec.attempt
         /\ \/ MarkFailed(rec, attempt, reason) = rec
            \/ Active(rec) /\ MarkFailed(rec, attempt, reason).status = "failed"
         /\ TransitionError(rec, attempt, "failed") = "nil"
               => MarkFailed(rec, attempt, reason).status = "failed"
  <1>1. {"processing", "succeeded", "failed"} = Targets
    BY DEF Targets
  <1>2. "none" \in {"none"} \cup Reasons /\ reason \in {"none"} \cup Reasons
    OBVIOUS
  <1>3. QED
    BY <1>1, <1>2, TransitionTyped DEF MarkProcessing, MarkSucceeded, MarkFailed

(***************************************************************************)
(* Types                                                                   *)
(***************************************************************************)
ActorSteps == {"idle"} \cup ScanSteps \cup PublishSteps \cup RequestSteps
ActorState == [pc : ActorSteps, attempt : 0 .. MaxAttempt]
RunSteps == {"none", "ended"} \cup LiveSteps

\* Every actor stays an actor.
LEMMA GotoTyped ==
  ASSUME TypeOK, NEW x \in Actors, NEW pc \in ActorSteps, Goto(x, pc)
  PROVE  actors' \in [Actors -> ActorState]
  BY DEF TypeOK, Goto, ActorState, ActorSteps

LEMMA ReturnTyped ==
  ASSUME TypeOK, NEW x \in Actors, Return(x)
  PROVE  actors' \in [Actors -> ActorState]
  BY MaxAttemptIsPositive DEF TypeOK, Return, Idle, ActorState, ActorSteps

LEMMA InitTyped == Init => TypeOK
  BY NoRecordTyped, MaxAttemptIsPositive
  DEF Init, TypeOK, Idle, UploadSteps

\* A step of the upload.
LEMMA UploadTyped ==
  ASSUME TypeOK, Upload
  PROVE  TypeOK'
  <1> USE NoRecordTyped DEF TypeOK, jobs
  <1>1. CASE UploadCreate
    BY <1>1 DEF UploadCreate, UploadSteps, DocStatuses
  <1>2. CASE UploadScanRecord
    BY <1>2, EnqueueTyped DEF UploadScanRecord, UploadSteps
  <1>3. CASE UploadTimeout
    <2>1. actors' \in [Actors -> ActorState]
      BY <1>3, GotoTyped DEF UploadTimeout, Actors, ActorSteps, ScanSteps, ActorState
    <2>2. QED BY <1>3, <2>1 DEF UploadTimeout, UploadSteps, ActorState, ActorSteps
  <1>4. CASE UploadFailScan
    <2>1. "scan" \in Reasons
      BY DEF Reasons
    <2>2. scan' \in Record
      BY <1>4, <2>1, MarksTyped DEF UploadFailScan
    <2>3. doc = "none" => scan' = NoRecord
      BY <1>4 DEF UploadFailScan, MarkFailed, Transition, TransitionError, NoRecord
    <2>4. QED BY <1>4, <2>2, <2>3 DEF UploadFailScan, UploadSteps
  <1>5. CASE UploadPut
    BY <1>5 DEF UploadPut, UploadSteps
  <1>6. CASE UploadAbandon
    BY <1>6 DEF UploadAbandon, DeleteRow, UpdateStatus, UploadSteps, DocStatuses
  <1>7. CASE UploadLost
    BY <1>7 DEF UploadLost, Lose, Losses, UploadSteps
  <1>8. QED BY <1>1, <1>2, <1>3, <1>4, <1>5, <1>6, <1>7 DEF Upload

\* Without a document no scan's outcome is recorded.
LEMMA NoRecordStays ==
  ASSUME NEW attempt, NEW reason
  PROVE  /\ MarkProcessing(NoRecord, attempt) = NoRecord
         /\ MarkSucceeded(NoRecord, attempt) = NoRecord
         /\ MarkFailed(NoRecord, attempt, reason) = NoRecord
  BY DEF MarkProcessing, MarkSucceeded, MarkFailed, Transition, TransitionError, NoRecord

\* A step of a delivery, of the timeout or of a request keeps the types when
\* it only moves on, or on top of that updates the document or a record.
LEMMA ScanTyped ==
  ASSUME TypeOK, NEW x \in Actors,
         ScanStep(x) \/ ScanLost(x) \/ (x \in Deliveries /\ ScanDeliver(x))
  PROVE  TypeOK'
  <1> USE DEF TypeOK, jobs
  <1>1. ScanSteps \subseteq ActorSteps /\ "enqueue" \in ActorSteps /\ "idle" \in ActorSteps
        /\ ScanSteps = {"waiting", "clean", "reject", "deleteObject", "failDoc"}
    BY DEF ScanSteps, ActorSteps, PublishSteps
  <1>2. {"scan", "timeout"} \subseteq Reasons
    BY DEF Reasons
  <1>3. actors' \in [Actors -> ActorState]
    BY <1>1, GotoTyped, ReturnTyped
    DEF ScanStep, ScanDeliver, ScanTimeout, ScanClean, ScanReject, ScanDeleteObject,
        ScanFailDoc, ScanLost
  <1>4. actors' \in [Actors -> [pc : {"idle"} \cup ScanSteps \cup PublishSteps \cup RequestSteps,
                               attempt : 0 .. MaxAttempt]]
    BY <1>3 DEF ActorState, ActorSteps
  <1>5. CASE (x \in Deliveries /\ ScanDeliver(x)) \/ ScanTimeout
    BY <1>4, <1>5 DEF ScanDeliver, ScanTimeout
  <1>6. CASE ScanClean(x)
    BY <1>4, <1>6, MarksTyped, NoRecordStays, <1>2 DEF ScanClean
  <1>7. CASE ScanReject(x)
    <2>1. PICK reason \in Reasons : scan' = MarkFailed(scan, 1, reason)
      BY <1>2, <1>7 DEF ScanReject
    <2>2. scan' \in Record /\ (doc = "none" => scan' = NoRecord)
      BY <2>1, MarksTyped, NoRecordStays
    <2>3. QED BY <1>4, <1>7, <2>2 DEF ScanReject
  <1>8. CASE ScanDeleteObject(x)
    BY <1>4, <1>8 DEF ScanDeleteObject, DeleteStored
  <1>9. CASE ScanFailDoc(x)
    BY <1>4, <1>9 DEF ScanFailDoc, UpdateStatus, DocStatuses
  <1>10. CASE ScanLost(x)
    BY <1>4, <1>10 DEF ScanLost, Lose, Losses
  <1>11. QED BY <1>5, <1>6, <1>7, <1>8, <1>9, <1>10 DEF ScanStep

LEMMA PublishTyped ==
  ASSUME TypeOK, NEW x \in Actors,
         Publish(x) \/ PublishMarkFailedError(x) \/ PublishLost(x)
  PROVE  TypeOK'
  <1> USE DEF TypeOK, jobs
  <1>1. {"idle", "enqueue", "dispatch", "markFailed", "retryFailed"} \subseteq ActorSteps
        /\ StartFailed(x) \in ActorSteps
    BY DEF ActorSteps, PublishSteps, RequestSteps, StartFailed
  <1>2. index.attempt \in Nat
    BY DEF Record
  <1>3. actors' \in [Actors -> ActorState]
    <2>1. CASE PublishEnqueue(x)
      <3>1. ~Active(index) => index.attempt < MaxAttempt
        BY <2>1 DEF PublishEnqueue
      <3>2. Started(index) => Enqueue(index).attempt \in 0 .. MaxAttempt
        BY <1>2, <3>1, EnqueueTyped, MaxAttemptIsPositive DEF Started
      <3>3. Idle \in ActorState
        BY MaxAttemptIsPositive, <1>1 DEF Idle, ActorState
      <3>4. Started(index) => [pc |-> "dispatch", attempt |-> index'.attempt] \in ActorState
        BY <1>1, <2>1, <3>2 DEF PublishEnqueue, ActorState
      <3>5. actors \in [Actors -> ActorState]
        BY DEF ActorState, ActorSteps
      <3>6. QED BY <2>1, <3>3, <3>4, <3>5 DEF PublishEnqueue
    <2>2. CASE PublishEnqueueError(x)
      BY <1>1, <2>2, GotoTyped, ReturnTyped DEF PublishEnqueueError
    <2>3. CASE PublishDispatch(x)
      BY <1>1, <2>3, GotoTyped, ReturnTyped DEF PublishDispatch
    <2>4. CASE PublishMarkFailed(x) \/ PublishMarkFailedError(x)
      BY <1>1, <2>4, MaxAttemptIsPositive
      DEF PublishMarkFailed, PublishMarkFailedError, ActorState, ActorSteps
    <2>5. CASE PublishLost(x)
      BY <2>5, ReturnTyped DEF PublishLost
    <2>6. QED BY <2>1, <2>2, <2>3, <2>4, <2>5 DEF Publish
  <1>4. actors' \in [Actors -> [pc : {"idle"} \cup ScanSteps \cup PublishSteps \cup RequestSteps,
                               attempt : 0 .. MaxAttempt]]
    BY <1>3 DEF ActorState, ActorSteps
  <1>5. CASE PublishEnqueue(x)
    BY <1>4, <1>5, EnqueueTyped DEF PublishEnqueue
  <1>6. CASE PublishEnqueueError(x)
    BY <1>4, <1>6 DEF PublishEnqueueError
  <1>7. CASE PublishDispatch(x)
    <2>1. runs' \in [Attempts -> {"none", "ended"} \cup LiveSteps]
      BY <1>7 DEF PublishDispatch, StartRun, LiveSteps, PrepareSteps
    <2>2. QED BY <1>4, <1>7, <2>1 DEF PublishDispatch
  <1>8. CASE PublishMarkFailed(x)
    <2>1. "dispatch" \in Reasons
      BY DEF Reasons
    <2>2. QED BY <1>4, <1>8, <2>1, MarksTyped, NoRecordStays DEF PublishMarkFailed
  <1>9. CASE PublishMarkFailedError(x)
    BY <1>4, <1>9 DEF PublishMarkFailedError, Lose, Losses
  <1>10. CASE PublishLost(x)
    BY <1>4, <1>10 DEF PublishLost, Lose, Losses
  <1>11. QED BY <1>5, <1>6, <1>7, <1>8, <1>9, <1>10 DEF Publish

LEMMA RequestTyped ==
  ASSUME TypeOK, NEW r \in Requests, Retry(r) \/ Delete(r) \/ RequestLost(r)
  PROVE  TypeOK'
  <1> USE DEF TypeOK, jobs
  <1>1. RequestSteps \subseteq ActorSteps /\ "enqueue" \in ActorSteps
        /\ RequestSteps = {"retryJobs", "retryScan", "retryReset", "retryFailed",
                           "deleteJobs", "deleteObject", "deleteRow"}
        /\ r \in Actors
    BY DEF RequestSteps, ActorSteps, PublishSteps, Actors
  <1>2. actors' \in [Actors -> ActorState]
    BY <1>1, GotoTyped, ReturnTyped
    DEF Retry, Delete, RequestLost, RetryBegin, RetryCheckJobs, RetryCheckScan, RetryReset,
        RetryFailed, DeleteBegin, DeleteCheckJobs, DeleteObject, DeleteDocRow
  <1>3. actors' \in [Actors -> [pc : {"idle"} \cup ScanSteps \cup PublishSteps \cup RequestSteps,
                               attempt : 0 .. MaxAttempt]]
    BY <1>2 DEF ActorState, ActorSteps
  <1>4. CASE RetryBegin(r) \/ RetryCheckJobs(r) \/ RetryCheckScan(r)
             \/ DeleteBegin(r) \/ DeleteCheckJobs(r)
    BY <1>3, <1>4
    DEF RetryBegin, RetryCheckJobs, RetryCheckScan, DeleteBegin, DeleteCheckJobs
  <1>5. CASE RetryReset(r) \/ RetryFailed(r)
    BY <1>3, <1>5 DEF RetryReset, RetryFailed, UpdateStatus, DocStatuses
  <1>6. CASE DeleteObject(r)
    BY <1>3, <1>6 DEF DeleteObject, DeleteStored
  <1>7. CASE DeleteDocRow(r)
    BY <1>3, <1>7, NoRecordTyped DEF DeleteDocRow, DeleteRow
  <1>8. CASE RequestLost(r)
    BY <1>3, <1>8 DEF RequestLost, Lose, Losses
  <1>9. QED BY <1>4, <1>5, <1>6, <1>7, <1>8 DEF Retry, Delete

LEMMA RunTyped ==
  ASSUME TypeOK, NEW a \in Attempts,
         RunStep(a) \/ RunSucceedReplyLost(a) \/ RunRetry(a) \/ RunLost(a)
  PROVE  TypeOK'
  <1> USE DEF TypeOK, jobs, RunGoto
  <1>1. "step" \in Reasons
    BY DEF Reasons
  <1>2. runs' \in [Attempts -> {"none", "ended"} \cup LiveSteps]
    BY DEF RunStep, RunPrepare, RunGetDoc, RunMarkDoc, RunReadObject, RunBuildChunksStale,
           RunMarkIndexed, RunSucceed, RunError, RunRecordFailure, RunFailDoc,
           RunSucceedReplyLost, RunRetry, RunLost,
           LiveSteps, PrepareSteps, FinalizeSteps, FailureSteps
  <1>3. CASE RunPrepare(a)
    BY <1>1, <1>2, <1>3, MarksTyped, NoRecordStays DEF RunPrepare
  <1>4. CASE RunGetDoc(a) \/ RunReadObject(a) \/ RunBuildChunksStale(a) \/ RunError(a) \/ RunRetry(a)
    BY <1>2, <1>4 DEF RunGetDoc, RunReadObject, RunBuildChunksStale, RunError, RunRetry
  <1>5. CASE RunMarkDoc(a) \/ RunMarkIndexed(a) \/ RunFailDoc(a)
    BY <1>2, <1>5 DEF RunMarkDoc, RunMarkIndexed, RunFailDoc, UpdateStatus, DocStatuses
  <1>6. CASE RunSucceed(a) \/ RunSucceedReplyLost(a)
    BY <1>1, <1>2, <1>6, MarksTyped, NoRecordStays DEF RunSucceed, RunSucceedReplyLost
  <1>7. CASE RunRecordFailure(a)
    BY <1>1, <1>2, <1>7, MarksTyped, NoRecordStays DEF RunRecordFailure
  <1>8. CASE RunLost(a)
    BY <1>2, <1>8 DEF RunLost, Lose, Losses
  <1>9. QED BY <1>3, <1>4, <1>5, <1>6, <1>7, <1>8 DEF RunStep

LEMMA NextTyped == TypeOK /\ [Next]_vars => TypeOK'
  <1> SUFFICES ASSUME TypeOK, [Next]_vars PROVE TypeOK'
    OBVIOUS
  <1>1. ASSUME NEW d \in Deliveries, ScanDeliver(d) PROVE TypeOK'
    BY <1>1, ScanTyped DEF Actors
  <1>2. CASE UNCHANGED vars
    BY <1>2 DEF vars, jobs, TypeOK
  <1>3. QED
    BY <1>1, <1>2, UploadTyped, ScanTyped, PublishTyped, RequestTyped, RunTyped DEF Next

(***************************************************************************)
(* The rest of the invariant                                               *)
(***************************************************************************)

\* What a step can do to the scan's record.
LEMMA ScanMoves ==
  ASSUME TypeOK, Next
  PROVE  \/ scan' = scan
         \/ UploadScanRecord
         \/ Active(scan) /\ scan'.status \in {"succeeded", "failed"}
         \/ scan' = NoRecord /\ doc' = "none"
  <1> USE DEF TypeOK, jobs
  <1>1. {"scan", "timeout"} \subseteq Reasons
    BY DEF Reasons
  <1>2. ASSUME NEW reason \in Reasons
        PROVE  \/ MarkFailed(scan, 1, reason) = scan
               \/ Active(scan) /\ MarkFailed(scan, 1, reason).status = "failed"
    BY MarksTyped
  <1>3. CASE Upload
    BY <1>1, <1>2, <1>3
    DEF Upload, UploadCreate, UploadTimeout, UploadFailScan, UploadPut, UploadAbandon,
        UploadLost, DeleteRow
  <1>4. ASSUME NEW x \in Actors, ScanStep(x) \/ ScanLost(x)
        PROVE  scan' = scan \/ (Active(scan) /\ scan'.status \in {"succeeded", "failed"})
    <2>1. CASE ScanClean(x)
      <3>1. \/ MarkSucceeded(scan, 1) = scan
            \/ Active(scan) /\ MarkSucceeded(scan, 1).status = "succeeded"
        BY <1>1, MarksTyped
      <3>2. QED BY <2>1, <3>1 DEF ScanClean
    <2>2. CASE ScanReject(x)
      BY <1>1, <1>2, <2>2 DEF ScanReject
    <2>3. QED
      BY <1>4, <2>1, <2>2 DEF ScanStep, ScanTimeout, ScanDeleteObject, ScanFailDoc, ScanLost
  <1>5. ASSUME NEW x \in Actors, Publish(x) \/ PublishMarkFailedError(x) \/ PublishLost(x)
        PROVE  scan' = scan
    BY <1>5 DEF Publish, PublishEnqueue, PublishEnqueueError, PublishDispatch,
                PublishMarkFailed, PublishMarkFailedError, PublishLost
  <1>6. ASSUME NEW r \in Requests, Retry(r) \/ Delete(r) \/ RequestLost(r)
        PROVE  scan' = scan \/ (scan' = NoRecord /\ doc' = "none")
    BY <1>6 DEF Retry, RetryBegin, RetryCheckJobs, RetryCheckScan, RetryReset, RetryFailed,
                Delete, DeleteBegin, DeleteCheckJobs, DeleteObject, DeleteDocRow, DeleteRow,
                RequestLost
  <1>7. ASSUME NEW a \in Attempts,
               RunStep(a) \/ RunSucceedReplyLost(a) \/ RunRetry(a) \/ RunLost(a)
        PROVE  scan' = scan
    BY <1>7 DEF RunStep, RunPrepare, RunGetDoc, RunMarkDoc, RunReadObject, RunBuildChunksStale,
                RunMarkIndexed, RunSucceed, RunError, RunRecordFailure, RunFailDoc,
                RunSucceedReplyLost, RunRetry, RunLost
  <1>8. ASSUME NEW d \in Deliveries, ScanDeliver(d) PROVE scan' = scan
    BY <1>8 DEF ScanDeliver
  <1>9. QED BY <1>3, <1>4, <1>5, <1>6, <1>7, <1>8 DEF Next

LEMMA SettledStays ==
  ASSUME TypeOK, NothingScanned, Next, Settled, upload # "scanRecord"
  PROVE  Settled'
  BY ScanMoves DEF Settled, UploadScanRecord, Active, ActiveStatuses, NoRecord

\* As long as nobody has anything to go by, only the upload and the deletion
\* of the document go on.
LEMMA NothingScannedKept ==
  ASSUME TypeOK, NothingScanned, StoredIsScanned, Next
  PROVE  NothingScanned'
  <1> SUFFICES ASSUME upload' \in {"create", "scanRecord"}
               PROVE  NothingScanned'
    BY DEF NothingScanned
  <1> USE DEF NothingScanned, At, jobs
  <1>0. \A x \in Actors : /\ actors[x].pc \in ActorSteps
                          /\ actors[x] = [pc |-> actors[x].pc, attempt |-> actors[x].attempt]
    BY DEF TypeOK, ActorSteps
  <1>1. CASE Upload
    BY <1>1 DEF Upload, UploadCreate, UploadScanRecord, UploadTimeout, UploadFailScan, UploadPut,
                UploadAbandon, UploadLost
  <1>2. ASSUME NEW d \in Deliveries, ScanDeliver(d) PROVE FALSE
    BY <1>2 DEF ScanDeliver, StoredIsScanned
  <1>3. ASSUME NEW x \in Actors, ScanStep(x) \/ ScanLost(x) PROVE FALSE
    BY <1>3 DEF ScanStep, ScanTimeout, ScanClean, ScanReject, ScanDeleteObject,
                ScanFailDoc, ScanLost, ScanSteps
  <1>4. ASSUME NEW x \in Actors, Publish(x) \/ PublishMarkFailedError(x) \/ PublishLost(x)
        PROVE  FALSE
    BY <1>4 DEF Publish, PublishEnqueue, PublishEnqueueError, PublishDispatch,
                PublishMarkFailed, PublishMarkFailedError, PublishLost, PublishSteps
  <1>5. ASSUME NEW r \in Requests, Retry(r) PROVE FALSE
    BY <1>5 DEF Retry, RetryBegin, RetryCheckJobs, RetryCheckScan, RetryReset, RetryFailed
  <1>6. ASSUME NEW r \in Requests, Delete(r) \/ RequestLost(r) PROVE NothingScanned'
    <2>1. upload' = upload /\ runs' = runs
      BY <1>6 DEF Delete, DeleteBegin, DeleteCheckJobs, DeleteObject, DeleteDocRow, RequestLost
    <2>2. /\ doc' \in {doc, "none"}
          /\ scan' \in {scan, NoRecord} /\ index' \in {index, NoRecord}
      BY <1>6 DEF Delete, DeleteBegin, DeleteCheckJobs, DeleteObject, DeleteDocRow, RequestLost,
                  DeleteRow
    <2>3. \E pc \in {"idle", "deleteJobs", "deleteObject", "deleteRow"} :
             Goto(r, pc) \/ Return(r)
      BY <1>6 DEF Delete, DeleteBegin, DeleteCheckJobs, DeleteObject, DeleteDocRow, RequestLost
    <2>4. /\ \A x \in Actors \ Requests : actors'[x] = actors[x]
          /\ \A q \in Requests : \/ actors'[q] = actors[q]
                                 \/ actors'[q].pc \in {"idle", "deleteJobs", "deleteObject", "deleteRow"}
      BY <2>3 DEF TypeOK, Goto, Return, Idle, Actors
    <2>5. QED BY <2>1, <2>2, <2>4
  <1>7. ASSUME NEW a \in Attempts,
               RunStep(a) \/ RunSucceedReplyLost(a) \/ RunRetry(a) \/ RunLost(a)
        PROVE  FALSE
    BY <1>7 DEF RunStep, RunPrepare, RunGetDoc, RunMarkDoc, RunReadObject, RunBuildChunksStale,
                RunMarkIndexed, RunSucceed, RunError, RunRecordFailure, RunFailDoc,
                RunSucceedReplyLost, RunRetry, RunLost, PrepareSteps, FinalizeSteps, FailureSteps
  <1>8. QED BY <1>1, <1>2, <1>3, <1>4, <1>5, <1>6, <1>7 DEF Next

\* What a step can do to the file, the upload and the row.
LEMMA FileMoves ==
  ASSUME TypeOK, Next
  PROVE  /\ object' = "absent" => object = "absent"
         /\ object = "absent" => object' = "absent" \/ UploadPut
         /\ upload' = upload \/ Upload
         /\ doc = "none" => doc' = "none" \/ UploadCreate
  <1> USE DEF TypeOK, UpdateStatus, DeleteRow, DeleteStored
  <1>1. CASE Upload
    BY <1>1 DEF Upload, UploadCreate, UploadScanRecord, UploadTimeout, UploadFailScan, UploadPut,
                UploadAbandon, UploadLost
  <1>2. ASSUME NEW d \in Deliveries, ScanDeliver(d)
        PROVE  UNCHANGED <<object, upload, doc>>
    BY <1>2 DEF ScanDeliver
  <1>3. ASSUME NEW x \in Actors, ScanStep(x) \/ ScanLost(x)
        PROVE  /\ upload' = upload /\ (doc = "none" => doc' = "none")
               /\ object' = "absent" <=> object = "absent"
    BY <1>3 DEF ScanStep, ScanTimeout, ScanClean, ScanReject, ScanDeleteObject,
                ScanFailDoc, ScanLost
  <1>4. ASSUME NEW x \in Actors, Publish(x) \/ PublishMarkFailedError(x) \/ PublishLost(x)
        PROVE  UNCHANGED <<object, upload, doc>>
    BY <1>4 DEF Publish, PublishEnqueue, PublishEnqueueError, PublishDispatch,
                PublishMarkFailed, PublishMarkFailedError, PublishLost
  <1>5. ASSUME NEW r \in Requests, Retry(r) \/ Delete(r) \/ RequestLost(r)
        PROVE  /\ upload' = upload /\ (doc = "none" => doc' = "none")
               /\ object' = "absent" <=> object = "absent"
    BY <1>5 DEF Retry, RetryBegin, RetryCheckJobs, RetryCheckScan, RetryReset, RetryFailed,
                Delete, DeleteBegin, DeleteCheckJobs, DeleteObject, DeleteDocRow, RequestLost
  <1>6. ASSUME NEW a \in Attempts,
               RunStep(a) \/ RunSucceedReplyLost(a) \/ RunRetry(a) \/ RunLost(a)
        PROVE  UNCHANGED <<object, upload>> /\ (doc = "none" => doc' = "none")
    BY <1>6 DEF RunStep, RunPrepare, RunGetDoc, RunMarkDoc, RunReadObject, RunBuildChunksStale,
                RunMarkIndexed, RunSucceed, RunError, RunRecordFailure, RunFailDoc,
                RunSucceedReplyLost, RunRetry, RunLost
  <1>7. QED BY <1>1, <1>2, <1>3, <1>4, <1>5, <1>6 DEF Next

\* A delivery under way was one of a stored file.
LEMMA DeliveryOfStored ==
  ASSUME TypeOK, StoredIsScanned, Next, NEW d \in Deliveries, actors'[d].pc # "idle"
  PROVE  object # "absent"
  <1> USE DEF StoredIsScanned, At, TypeOK, Actors, Goto, Return, Idle
  <1>1. SUFFICES ASSUME At(d, "idle") PROVE object # "absent"
    OBVIOUS
  <1>2. d \in Actors /\ d \notin Requests /\ d # Timeout
    BY ActorsAreDistinct
  <1>3. CASE Upload
    BY <1>1, <1>2, <1>3
    DEF Upload, UploadCreate, UploadScanRecord, UploadTimeout, UploadFailScan, UploadPut,
        UploadAbandon, UploadLost
  <1>4. ASSUME NEW e \in Deliveries, ScanDeliver(e) PROVE object # "absent"
    BY <1>4 DEF ScanDeliver
  <1>5. ASSUME NEW x \in Actors, ScanStep(x) \/ ScanLost(x) PROVE x # d
    BY <1>1, <1>5 DEF ScanStep, ScanTimeout, ScanClean, ScanReject, ScanDeleteObject,
                ScanFailDoc, ScanLost, ScanSteps
  <1>6. ASSUME NEW x \in Actors, Publish(x) \/ PublishMarkFailedError(x) \/ PublishLost(x)
        PROVE  x # d
    BY <1>1, <1>6 DEF Publish, PublishEnqueue, PublishEnqueueError, PublishDispatch,
                PublishMarkFailed, PublishMarkFailedError, PublishLost, PublishSteps
  <1>7. ASSUME NEW x \in Actors, x # d, ScanStep(x) \/ ScanLost(x)
        PROVE  actors'[d] = actors[d]
    BY <1>2, <1>7 DEF ScanStep, ScanTimeout, ScanClean, ScanReject, ScanDeleteObject,
                ScanFailDoc, ScanLost
  <1>8. ASSUME NEW x \in Actors, x # d,
               Publish(x) \/ PublishMarkFailedError(x) \/ PublishLost(x)
        PROVE  actors'[d] = actors[d]
    BY <1>2, <1>8 DEF Publish, PublishEnqueue, PublishEnqueueError, PublishDispatch,
                PublishMarkFailed, PublishMarkFailedError, PublishLost
  <1>9. ASSUME NEW r \in Requests, Retry(r) \/ Delete(r) \/ RequestLost(r)
        PROVE  actors'[d] = actors[d]
    BY <1>2, <1>9
    DEF Retry, RetryBegin, RetryCheckJobs, RetryCheckScan, RetryReset, RetryFailed,
        Delete, DeleteBegin, DeleteCheckJobs, DeleteObject, DeleteDocRow, RequestLost
  <1>10. ASSUME NEW a \in Attempts,
               RunStep(a) \/ RunSucceedReplyLost(a) \/ RunRetry(a) \/ RunLost(a)
        PROVE  actors'[d] = actors[d]
    BY <1>10 DEF RunStep, RunPrepare, RunGetDoc, RunMarkDoc, RunReadObject, RunBuildChunksStale,
                RunMarkIndexed, RunSucceed, RunError, RunRecordFailure, RunFailDoc,
                RunSucceedReplyLost, RunRetry, RunLost
  <1>11. QED
    BY <1>1, <1>3, <1>4, <1>5, <1>6, <1>7, <1>8, <1>9, <1>10 DEF Next

\* Only a delivery makes the scan a success.
LEMMA OnlyDeliveriesClear ==
  ASSUME TypeOK, Next, scan'.status = "succeeded", scan.status # "succeeded"
  PROVE  \E d \in Deliveries : ~At(d, "idle")
  <1> USE DEF TypeOK, jobs
  <1>1. {"scan", "timeout"} \subseteq Reasons
    BY DEF Reasons
  <1>2. ASSUME NEW reason \in Reasons
        PROVE  MarkFailed(scan, 1, reason) = scan \/ MarkFailed(scan, 1, reason).status = "failed"
    BY MarksTyped
  <1>3. CASE Upload
    BY <1>1, <1>2, <1>3, EnqueueTyped
    DEF Upload, UploadCreate, UploadScanRecord, UploadTimeout, UploadFailScan, UploadPut,
        UploadAbandon, UploadLost, DeleteRow, NoRecord, Active, ActiveStatuses
  <1>4. ASSUME NEW x \in Actors, ScanStep(x) \/ ScanLost(x)
        PROVE  x \in Deliveries /\ At(x, "clean")
    BY <1>1, <1>2, <1>4 DEF ScanStep, ScanTimeout, ScanClean, ScanReject, ScanDeleteObject,
                ScanFailDoc, ScanLost
  <1>5. ~(UNCHANGED scan) /\ scan' # NoRecord
    BY DEF NoRecord
  <1>6. QED
    BY <1>3, <1>4, <1>5
    DEF Next, ScanDeliver, Publish, PublishEnqueue, PublishEnqueueError, PublishDispatch,
        PublishMarkFailed, PublishMarkFailedError, PublishLost,
        Retry, RetryBegin, RetryCheckJobs, RetryCheckScan, RetryReset, RetryFailed,
        Delete, DeleteBegin, DeleteCheckJobs, DeleteObject, DeleteDocRow, DeleteRow, RequestLost,
        RunStep, RunPrepare, RunGetDoc, RunMarkDoc, RunReadObject, RunBuildChunksStale,
        RunMarkIndexed, RunSucceed, RunError, RunRecordFailure, RunFailDoc,
        RunSucceedReplyLost, RunRetry, RunLost, At

LEMMA StoredIsScannedKept ==
  ASSUME TypeOK, NothingScanned, StoredIsScanned, Next
  PROVE  StoredIsScanned'
  <1>1. upload' \in {"create", "scanRecord", "timeout", "failScan", "put"} => object' = "absent"
    <2>1. CASE Upload
      BY <2>1 DEF StoredIsScanned, Upload, UploadCreate, UploadScanRecord, UploadTimeout,
             UploadFailScan, UploadPut, UploadAbandon, UploadLost
    <2>2. CASE ~Upload
      BY <2>2, FileMoves DEF StoredIsScanned, Upload
    <2>3. QED BY <2>1, <2>2
  <1>2. doc' # "none" /\ scan'.status = "none" =>
          object' = "absent" /\ upload' \notin {"timeout", "failScan", "put"}
    <2> SUFFICES ASSUME doc' # "none", scan'.status = "none"
                 PROVE  object' = "absent" /\ upload' \notin {"timeout", "failScan", "put"}
      OBVIOUS
    <2>1. CASE UploadCreate
      BY <2>1 DEF UploadCreate, StoredIsScanned
    <2>2. CASE UploadScanRecord
      <3>1. doc # "none" /\ scan = NoRecord /\ object = "absent"
        BY <2>2 DEF UploadScanRecord, NothingScanned, StoredIsScanned
      <3>2. Enqueue(scan).status # "none"
        BY <3>1 DEF Enqueue, NoRecord, Active, ActiveStatuses
      <3>3. QED BY <2>2, <3>1, <3>2 DEF UploadScanRecord
    <2>3. CASE ~UploadCreate /\ ~UploadScanRecord
      <3>1. doc # "none" /\ scan' = scan
        BY <2>3, FileMoves, ScanMoves
      <3>2. object = "absent" /\ upload \notin {"timeout", "failScan", "put"}
        BY <3>1 DEF StoredIsScanned
      <3>3. ~UploadPut /\ upload' \notin {"timeout", "failScan", "put"}
        BY <2>3, <3>2, FileMoves
        DEF Upload, UploadTimeout, UploadFailScan, UploadPut, UploadAbandon, UploadLost
      <3>4. QED BY <3>2, <3>3, FileMoves
    <2>4. QED BY <2>1, <2>2, <2>3
  <1>3. ASSUME NEW d \in Deliveries, actors'[d].pc # "idle" PROVE object' # "absent"
    BY <1>3, DeliveryOfStored, FileMoves
  <1>4. scan'.status = "succeeded" => object' # "absent"
    BY OnlyDeliveriesClear, FileMoves DEF StoredIsScanned
  <1>5. QED BY <1>1, <1>2, <1>3, <1>4 DEF StoredIsScanned, At

\* Who gets past the scan has just cleared it, or is a retry that found it
\* not failed.
LEMMA PastScanMoves ==
  ASSUME TypeOK, Next, NEW x \in Actors, PastScan(x)', ~PastScan(x)
  PROVE  \/ scan'.status = "succeeded"
         \/ x \in Requests /\ At(x, "retryScan") /\ scan' = scan /\ scan.status # "failed"
  <1> USE DEF TypeOK, At, Goto, Return, Idle, jobs
  <1>1. /\ PublishSteps \cup {"retryReset", "retryFailed"} =
              {"enqueue", "dispatch", "markFailed", "retryReset", "retryFailed"}
        /\ \A y \in Actors : StartFailed(y) \in {"enqueue", "retryFailed"}
    BY DEF PublishSteps, StartFailed
  <1>2. CASE Upload
    BY <1>1, <1>2
    DEF PastScan, Upload, UploadCreate, UploadScanRecord, UploadTimeout, UploadFailScan, UploadPut,
        UploadAbandon, UploadLost, Actors
  <1>3. ASSUME NEW d \in Deliveries, ScanDeliver(d) PROVE FALSE
    BY <1>1, <1>3 DEF PastScan, ScanDeliver, Actors
  <1>4. ASSUME NEW y \in Actors, ScanStep(y) \/ ScanLost(y) PROVE scan'.status = "succeeded"
    <2>1. CASE ScanClean(y)
      <3>1. TransitionError(scan, 1, "succeeded") = "nil"
        BY <1>1, <2>1 DEF PastScan, ScanClean
      <3>2. "scan" \in Reasons
        BY DEF Reasons
      <3>3. QED BY <2>1, <3>1, <3>2, MarksTyped DEF ScanClean
    <2>2. CASE ~ScanClean(y)
      BY <1>1, <1>4, <2>2
      DEF PastScan, ScanStep, ScanTimeout, ScanReject, ScanDeleteObject, ScanFailDoc, ScanLost, Actors
    <2>3. QED BY <2>1, <2>2
  <1>5. ASSUME NEW y \in Actors, Publish(y) \/ PublishMarkFailedError(y) \/ PublishLost(y)
        PROVE  FALSE
    BY <1>1, <1>5 DEF PastScan, Publish, PublishEnqueue, PublishEnqueueError, PublishDispatch,
                PublishMarkFailed, PublishMarkFailedError, PublishLost
  <1>6. ASSUME NEW r \in Requests, Retry(r)
        PROVE  x = r /\ At(r, "retryScan") /\ scan' = scan /\ scan.status # "failed"
    BY <1>1, <1>6
    DEF PastScan, Retry, RetryBegin, RetryCheckJobs, RetryCheckScan, RetryReset, RetryFailed, Actors
  <1>7. ASSUME NEW r \in Requests, Delete(r) \/ RequestLost(r) PROVE FALSE
    BY <1>1, <1>7
    DEF PastScan, Delete, DeleteBegin, DeleteCheckJobs, DeleteObject, DeleteDocRow, RequestLost, Actors
  <1>8. ASSUME NEW a \in Attempts,
               RunStep(a) \/ RunSucceedReplyLost(a) \/ RunRetry(a) \/ RunLost(a)
        PROVE  FALSE
    BY <1>8 DEF PastScan, RunStep, RunPrepare, RunGetDoc, RunMarkDoc, RunReadObject,
                RunBuildChunksStale, RunMarkIndexed, RunSucceed, RunError, RunRecordFailure,
                RunFailDoc, RunSucceedReplyLost, RunRetry, RunLost
  <1>9. QED BY <1>2, <1>3, <1>4, <1>5, <1>6, <1>7, <1>8 DEF Next

\* A request looks at its scan after it found no job active.
LEMMA RetryScanMoves ==
  ASSUME TypeOK, Next, NEW r \in Requests, actors'[r].pc = "retryScan", ~At(r, "retryScan")
  PROVE  ~Active(scan) /\ scan' = scan
  <1> USE DEF TypeOK, At, Goto, Return, Idle, jobs, Actors
  <1>1. CASE Upload
    BY <1>1, ActorsAreDistinct
    DEF Upload, UploadCreate, UploadScanRecord, UploadTimeout, UploadFailScan, UploadPut,
        UploadAbandon, UploadLost
  <1>2. ASSUME NEW d \in Deliveries, ScanDeliver(d) PROVE FALSE
    BY <1>2 DEF ScanDeliver
  <1>3. ASSUME NEW y \in Actors, ScanStep(y) \/ ScanLost(y) PROVE FALSE
    BY <1>3 DEF ScanStep, ScanTimeout, ScanClean, ScanReject, ScanDeleteObject, ScanFailDoc, ScanLost
  <1>4. ASSUME NEW y \in Actors, Publish(y) \/ PublishMarkFailedError(y) \/ PublishLost(y)
        PROVE  FALSE
    BY <1>4 DEF Publish, PublishEnqueue, PublishEnqueueError, PublishDispatch, StartFailed,
                PublishMarkFailed, PublishMarkFailedError, PublishLost
  <1>5. ASSUME NEW q \in Requests, Retry(q) \/ Delete(q) \/ RequestLost(q)
        PROVE  ~Active(scan) /\ scan' = scan
    BY <1>5
    DEF Retry, RetryBegin, RetryCheckJobs, RetryCheckScan, RetryReset, RetryFailed, ActiveJob,
        Delete, DeleteBegin, DeleteCheckJobs, DeleteObject, DeleteDocRow, RequestLost
  <1>6. ASSUME NEW a \in Attempts,
               RunStep(a) \/ RunSucceedReplyLost(a) \/ RunRetry(a) \/ RunLost(a)
        PROVE  FALSE
    BY <1>6 DEF RunStep, RunPrepare, RunGetDoc, RunMarkDoc, RunReadObject,
                RunBuildChunksStale, RunMarkIndexed, RunSucceed, RunError, RunRecordFailure,
                RunFailDoc, RunSucceedReplyLost, RunRetry, RunLost
  <1>7. QED BY <1>1, <1>2, <1>3, <1>4, <1>5, <1>6 DEF Next

\* An execution starts, and an attempt is recorded, by someone past the scan.
LEMMA StartMoves ==
  ASSUME TypeOK, Next
  PROVE  /\ \/ \A a \in Attempts : runs'[a] \in LiveSteps => runs[a] \in LiveSteps
            \/ \E x \in Actors : PastScan(x)
         /\ \/ index'.attempt > 0 => index.attempt > 0
            \/ \E x \in Actors : PastScan(x)
  <1> USE DEF TypeOK, jobs
  <1>1. {"enqueue", "dispatch", "markFailed"} = PublishSteps
    BY DEF PublishSteps
  <1>2. "step" \in Reasons /\ NoRecord.attempt = 0
    BY DEF Reasons, NoRecord
  <1>3. ASSUME NEW x \in Actors, Publish(x) \/ PublishMarkFailedError(x) \/ PublishLost(x)
        PROVE  PastScan(x)
    BY <1>1, <1>3 DEF PastScan, At, Publish, PublishEnqueue, PublishEnqueueError, PublishDispatch,
                PublishMarkFailed, PublishMarkFailedError, PublishLost
  <1>4. CASE Upload
    BY <1>2, <1>4
    DEF Upload, UploadCreate, UploadScanRecord, UploadTimeout, UploadFailScan, UploadPut,
        UploadAbandon, UploadLost, DeleteRow
  <1>5. ASSUME NEW d \in Deliveries, ScanDeliver(d) PROVE UNCHANGED <<runs, index>>
    BY <1>5 DEF ScanDeliver
  <1>6. ASSUME NEW x \in Actors, ScanStep(x) \/ ScanLost(x) PROVE UNCHANGED <<runs, index>>
    BY <1>6 DEF ScanStep, ScanTimeout, ScanClean, ScanReject, ScanDeleteObject, ScanFailDoc, ScanLost
  <1>7. ASSUME NEW r \in Requests, Retry(r) \/ Delete(r) \/ RequestLost(r)
        PROVE  runs' = runs /\ index' \in {index, NoRecord}
    BY <1>7 DEF Retry, RetryBegin, RetryCheckJobs, RetryCheckScan, RetryReset, RetryFailed,
                Delete, DeleteBegin, DeleteCheckJobs, DeleteObject, DeleteDocRow, DeleteRow,
                RequestLost
  <1>8. ASSUME NEW a \in Attempts,
               RunStep(a) \/ RunSucceedReplyLost(a) \/ RunRetry(a) \/ RunLost(a)
        PROVE  index'.attempt = index.attempt
    BY <1>2, <1>8, MarksTyped
    DEF RunStep, RunPrepare, RunGetDoc, RunMarkDoc, RunReadObject,
        RunBuildChunksStale, RunMarkIndexed, RunSucceed, RunError, RunRecordFailure,
        RunFailDoc, RunSucceedReplyLost, RunRetry, RunLost
  <1>9. ASSUME NEW a \in Attempts,
               RunStep(a) \/ RunSucceedReplyLost(a) \/ RunRetry(a) \/ RunLost(a)
        PROVE  /\ runs[a] \in LiveSteps
               /\ \A b \in Attempts \ {a} : runs'[b] = runs[b]
    BY <1>9 DEF RunStep, RunPrepare, RunGetDoc, RunMarkDoc, RunReadObject, RunGoto,
                RunBuildChunksStale, RunMarkIndexed, RunSucceed, RunError, RunRecordFailure,
                RunFailDoc, RunSucceedReplyLost, RunRetry, RunLost,
                LiveSteps, PrepareSteps, FinalizeSteps, FailureSteps
  <1>10. QED BY <1>2, <1>3, <1>4, <1>5, <1>6, <1>7, <1>8, <1>9 DEF Next

LEMMA OnlyCleanStartsKept ==
  ASSUME TypeOK, NothingScanned, OnlyCleanStarts, Next
  PROVE  OnlyCleanStarts'
  <1>1. /\ \A x \in Actors : PastScan(x) => upload # "scanRecord"
        /\ \A r \in Requests : At(r, "retryScan") => upload # "scanRecord"
        /\ \A a \in Attempts : runs[a] \in LiveSteps => upload # "scanRecord"
        /\ index.attempt > 0 => upload # "scanRecord"
    BY DEF NothingScanned, PastScan, PublishSteps, At, Actors, NoRecord, LiveSteps, PrepareSteps,
           FinalizeSteps, FailureSteps
  <1>2. (\E x \in Actors : PastScan(x)) => Settled'
    BY <1>1, SettledStays DEF OnlyCleanStarts
  <1>3. ASSUME NEW x \in Actors, PastScan(x)' PROVE Settled'
    <2>1. CASE PastScan(x)
      BY <1>2, <2>1
    <2>2. CASE ~PastScan(x)
      <3>1. scan.status \in {"none"} \cup ActiveStatuses \cup FinishedStatuses
        BY DEF TypeOK, Record
      <3>2. \A r \in Requests : At(r, "retryScan") => ~Active(scan)
        BY DEF OnlyCleanStarts
      <3>3. QED
        BY <1>3, <2>2, <3>1, <3>2, PastScanMoves DEF Settled, Active, FinishedStatuses
    <2>3. QED BY <2>1, <2>2
  <1>4. ASSUME NEW r \in Requests, actors'[r].pc = "retryScan" PROVE ~Active(scan')
    <2>1. CASE At(r, "retryScan")
      BY <1>1, <2>1, ScanMoves
      DEF OnlyCleanStarts, UploadScanRecord, Active, ActiveStatuses, NoRecord
    <2>2. CASE ~At(r, "retryScan")
      BY <1>4, <2>2, RetryScanMoves
    <2>3. QED BY <2>1, <2>2
  <1>5. ASSUME NEW a \in Attempts, runs'[a] \in LiveSteps PROVE Settled'
    BY <1>1, <1>2, <1>5, StartMoves, SettledStays DEF OnlyCleanStarts
  <1>6. index'.attempt > 0 => Settled'
    BY <1>1, <1>2, StartMoves, SettledStays DEF OnlyCleanStarts
  <1>7. QED BY <1>3, <1>4, <1>5, <1>6 DEF OnlyCleanStarts, At, Active


\* A delivery or the timeout removes the file of a scan it has just failed,
\* or of a document that has no row.
LEMMA RejectionMoves ==
  ASSUME TypeOK, StoredIsScanned, Next, NEW x \in Actors \ Requests,
         actors'[x].pc = "deleteObject", ~At(x, "deleteObject")
  PROVE  scan'.status = "failed" \/ doc' = "none"
  <1> USE DEF TypeOK, At, Goto, Return, Idle, jobs, Actors
  <1>1. CASE Upload
    BY <1>1
    DEF Upload, UploadCreate, UploadScanRecord, UploadTimeout, UploadFailScan, UploadPut,
        UploadAbandon, UploadLost
  <1>2. ASSUME NEW d \in Deliveries, ScanDeliver(d) PROVE FALSE
    BY <1>2 DEF ScanDeliver
  <1>3. ASSUME NEW y \in Actors, ScanStep(y) \/ ScanLost(y)
        PROVE  scan'.status = "failed" \/ doc' = "none"
    <2>1. x = y /\ ScanReject(y)
      BY <1>3
      DEF ScanStep, ScanTimeout, ScanClean, ScanReject, ScanDeleteObject, ScanFailDoc, ScanLost
    <2>2. {"scan", "timeout"} \subseteq Reasons
      BY DEF Reasons
    <2>3. CASE TransitionError(scan, 1, "failed") = "nil"
      BY <2>1, <2>2, <2>3, MarksTyped DEF ScanReject
    <2>4. CASE TransitionError(scan, 1, "failed") = "ErrNotFound" /\ x # Timeout
      <3>1. object # "absent"
        BY <2>1, <2>4 DEF ScanReject, StoredIsScanned
      <3>2. scan.status = "none"
        BY <2>4 DEF TransitionError
      <3>3. QED BY <2>1, <3>1, <3>2 DEF StoredIsScanned, ScanReject
    <2>5. QED BY <2>1, <2>3, <2>4 DEF ScanReject
  <1>4. ASSUME NEW y \in Actors, Publish(y) \/ PublishMarkFailedError(y) \/ PublishLost(y)
        PROVE  FALSE
    BY <1>4 DEF Publish, PublishEnqueue, PublishEnqueueError, PublishDispatch, StartFailed,
                PublishMarkFailed, PublishMarkFailedError, PublishLost
  <1>5. ASSUME NEW r \in Requests, Retry(r) \/ Delete(r) \/ RequestLost(r) PROVE FALSE
    BY <1>5
    DEF Retry, RetryBegin, RetryCheckJobs, RetryCheckScan, RetryReset, RetryFailed,
        Delete, DeleteBegin, DeleteCheckJobs, DeleteObject, DeleteDocRow, RequestLost
  <1>6. ASSUME NEW a \in Attempts,
               RunStep(a) \/ RunSucceedReplyLost(a) \/ RunRetry(a) \/ RunLost(a)
        PROVE  FALSE
    BY <1>6 DEF RunStep, RunPrepare, RunGetDoc, RunMarkDoc, RunReadObject,
                RunBuildChunksStale, RunMarkIndexed, RunSucceed, RunError, RunRecordFailure,
                RunFailDoc, RunSucceedReplyLost, RunRetry, RunLost
  <1>7. QED BY <1>1, <1>2, <1>3, <1>4, <1>5, <1>6 DEF Next

\* A request about to delete the row does it, or its death is remembered.
LEMMA DeletingMoves ==
  ASSUME TypeOK, Next, Deleting
  PROVE  Deleting' \/ scan' = NoRecord
  <1> USE DEF TypeOK, At, Goto, Return, Idle, Lose, Actors, Deleting
  <1>1. CASE Upload
    BY <1>1, ActorsAreDistinct
    DEF Upload, UploadCreate, UploadScanRecord, UploadTimeout, UploadFailScan, UploadPut,
        UploadAbandon, UploadLost
  <1>2. ASSUME NEW d \in Deliveries, ScanDeliver(d) PROVE Deleting'
    BY <1>2 DEF ScanDeliver
  <1>3. ASSUME NEW y \in Actors, ScanStep(y) \/ ScanLost(y) PROVE Deleting'
    BY <1>3
    DEF ScanStep, ScanTimeout, ScanClean, ScanReject, ScanDeleteObject, ScanFailDoc, ScanLost, ScanSteps
  <1>4. ASSUME NEW y \in Actors, Publish(y) \/ PublishMarkFailedError(y) \/ PublishLost(y)
        PROVE  Deleting'
    BY <1>4 DEF Publish, PublishEnqueue, PublishEnqueueError, PublishDispatch, PublishSteps,
                PublishMarkFailed, PublishMarkFailedError, PublishLost
  <1>5. ASSUME NEW q \in Requests, Retry(q) PROVE Deleting'
    BY <1>5
    DEF Retry, RetryBegin, RetryCheckJobs, RetryCheckScan, RetryReset, RetryFailed
  <1>6. ASSUME NEW q \in Requests, Delete(q) \/ RequestLost(q)
        PROVE  Deleting' \/ scan' = NoRecord
    BY <1>6
    DEF Delete, DeleteBegin, DeleteCheckJobs, DeleteObject, DeleteDocRow, DeleteRow, RequestLost
  <1>7. ASSUME NEW a \in Attempts,
               RunStep(a) \/ RunSucceedReplyLost(a) \/ RunRetry(a) \/ RunLost(a)
        PROVE  Deleting'
    BY <1>7 DEF RunStep, RunPrepare, RunGetDoc, RunMarkDoc, RunReadObject,
                RunBuildChunksStale, RunMarkIndexed, RunSucceed, RunError, RunRecordFailure,
                RunFailDoc, RunSucceedReplyLost, RunRetry, RunLost
  <1>8. QED BY <1>1, <1>2, <1>3, <1>4, <1>5, <1>6, <1>7 DEF Next

\* The file is removed by a scan that rejects it or by a request that deletes
\* the document.
LEMMA RemovalMoves ==
  ASSUME TypeOK, Next, object' = "deleted", object # "deleted"
  PROVE  \/ Deleting'
         \/ /\ UNCHANGED <<scan, doc>>
            /\ \E x \in Actors \ Requests : At(x, "deleteObject")
  <1> USE DEF TypeOK, jobs
  <1>1. CASE Upload
    BY <1>1
    DEF Upload, UploadCreate, UploadScanRecord, UploadTimeout, UploadFailScan, UploadPut,
        UploadAbandon, UploadLost
  <1>2. ASSUME NEW d \in Deliveries, ScanDeliver(d) PROVE FALSE
    BY <1>2 DEF ScanDeliver
  <1>3. ASSUME NEW y \in Actors, ScanStep(y) \/ ScanLost(y)
        PROVE  UNCHANGED <<scan, doc>> /\ y \notin Requests /\ At(y, "deleteObject")
    BY <1>3
    DEF ScanStep, ScanTimeout, ScanClean, ScanReject, ScanDeleteObject, ScanFailDoc, ScanLost
  <1>4. ASSUME NEW y \in Actors, Publish(y) \/ PublishMarkFailedError(y) \/ PublishLost(y)
        PROVE  FALSE
    BY <1>4 DEF Publish, PublishEnqueue, PublishEnqueueError, PublishDispatch,
                PublishMarkFailed, PublishMarkFailedError, PublishLost
  <1>5. ASSUME NEW r \in Requests, Retry(r) \/ Delete(r) \/ RequestLost(r) PROVE Deleting'
    BY <1>5
    DEF Retry, RetryBegin, RetryCheckJobs, RetryCheckScan, RetryReset, RetryFailed,
        Delete, DeleteBegin, DeleteCheckJobs, DeleteObject, DeleteDocRow, RequestLost,
        Deleting, Goto, At, Actors
  <1>6. ASSUME NEW a \in Attempts,
               RunStep(a) \/ RunSucceedReplyLost(a) \/ RunRetry(a) \/ RunLost(a)
        PROVE  FALSE
    BY <1>6 DEF RunStep, RunPrepare, RunGetDoc, RunMarkDoc, RunReadObject,
                RunBuildChunksStale, RunMarkIndexed, RunSucceed, RunError, RunRecordFailure,
                RunFailDoc, RunSucceedReplyLost, RunRetry, RunLost
  <1>7. QED BY <1>1, <1>2, <1>3, <1>4, <1>5, <1>6 DEF Next


LEMMA RemovedForCauseKept ==
  ASSUME TypeOK, NothingScanned, StoredIsScanned, RemovedForCause, Next
  PROVE  RemovedForCause'
  <1>1. ASSUME NEW x \in Actors \ Requests, actors'[x].pc = "deleteObject"
        PROVE  scan'.status = "failed" \/ doc' = "none"
    <2>1. CASE At(x, "deleteObject")
      <3>1. upload \notin {"create", "scanRecord"}
        BY <2>1 DEF NothingScanned, At
      <3>2. ~UploadScanRecord /\ ~UploadCreate
        BY <3>1 DEF UploadScanRecord, UploadCreate
      <3>3. scan.status = "failed" \/ doc = "none"
        BY <2>1 DEF RemovedForCause
      <3>4. CASE doc = "none"
        BY <3>2, <3>4, FileMoves
      <3>5. CASE scan.status = "failed"
        BY <3>2, <3>5, ScanMoves DEF Active, ActiveStatuses
      <3>6. QED BY <3>3, <3>4, <3>5
    <2>2. CASE ~At(x, "deleteObject")
      BY <1>1, <2>2, RejectionMoves
    <2>3. QED BY <2>1, <2>2
  <1>2. ASSUME object' = "deleted", Active(scan') \/ scan'.status = "succeeded"
        PROVE  Deleting'
    <2>1. scan' # NoRecord
      BY <1>2 DEF NoRecord, Active, ActiveStatuses
    <2>2. CASE object = "deleted"
      <3>1. ~UploadScanRecord
        BY <2>2 DEF UploadScanRecord, StoredIsScanned
      <3>2. Active(scan) \/ scan.status = "succeeded"
        BY <1>2, <2>1, <3>1, ScanMoves
      <3>3. Deleting
        BY <2>2, <3>2 DEF RemovedForCause
      <3>4. QED BY <2>1, <3>3, DeletingMoves
    <2>3. CASE object # "deleted"
      <3>1. SUFFICES ASSUME UNCHANGED <<scan, doc>>,
                            NEW x \in Actors \ Requests, At(x, "deleteObject")
                     PROVE  FALSE
        BY <1>2, <2>3, RemovalMoves
      <3>2. scan.status = "failed" \/ doc = "none"
        BY <3>1 DEF RemovedForCause
      <3>3. doc # "none"
        BY <2>1, <3>1 DEF TypeOK
      <3>4. QED BY <1>2, <3>1, <3>2, <3>3 DEF Active, ActiveStatuses
    <2>4. QED BY <2>2, <2>3
  <1>3. QED BY <1>1, <1>2 DEF RemovedForCause, At, Active

LEMMA InitInvariant == Init => IInv
  <1> SUFFICES ASSUME Init PROVE IInv
    OBVIOUS
  <1> USE DEF Init, Idle, At
  <1>1. TypeOK
    BY InitTyped
  <1>2. NothingScanned
    BY DEF NothingScanned, Actors
  <1>3. StoredIsScanned
    BY DEF StoredIsScanned, NoRecord, Actors
  <1>4. OnlyCleanStarts
    BY DEF OnlyCleanStarts, PastScan, PublishSteps, NoRecord, LiveSteps, PrepareSteps,
           FinalizeSteps, FailureSteps, Actors
  <1>5. RemovedForCause
    BY DEF RemovedForCause
  <1>6. QED BY <1>1, <1>2, <1>3, <1>4, <1>5 DEF IInv

LEMMA NextInvariant == IInv /\ [Next]_vars => IInv'
  <1>1. IInv /\ UNCHANGED vars => IInv'
    BY DEF IInv, vars, TypeOK, NothingScanned, StoredIsScanned, OnlyCleanStarts, RemovedForCause,
           At, PastScan, Settled, Deleting, Active
  <1>2. IInv /\ Next => IInv'
    BY NextTyped, NothingScannedKept, StoredIsScannedKept, OnlyCleanStartsKept,
       RemovedForCauseKept DEF IInv
  <1>3. QED BY <1>1, <1>2

(***************************************************************************)
(* The theorems                                                            *)
(***************************************************************************)

\* Whatever deliveries, retries, deletions and losses interleave: the scan is
\* settled for whoever is past it, a stored file was recorded as scanned
\* first, and nobody but a rejection or a deletion removes it.
THEOREM Invariant == Spec => []IInv
  BY InitInvariant, NextInvariant, PTL DEF Spec

\* malwarescan, ingest, retry: no file is indexed, or scheduled to be, that
\* its scan did not report clean, for any number of deliveries, requests and
\* attempts.
THEOREM OnlyCleanIsProcessed == Spec => []ProcessedWasClean
  <1>1. ASSUME IInv PROVE ProcessedWasClean
    <2>1. TypeOK /\ StoredIsScanned /\ OnlyCleanStarts
      BY <1>1 DEF IInv
    <2>2. index.attempt > 0 => doc # "none" /\ Settled
      BY <2>1 DEF TypeOK, NoRecord, OnlyCleanStarts
    <2>3. QED BY <2>1, <2>2 DEF ProcessedWasClean, StoredIsScanned, Settled
  <1>2. QED BY <1>1, Invariant, PTL

\* malwarescan: the timeout that lost its race, or a repeated or contradicting
\* delivery, never removes a file that was reported clean; only a request that
\* deletes the document does.
THEOREM CleanIsKept == Spec => []CleanFileKept
  <1>1. ASSUME IInv PROVE CleanFileKept
    BY <1>1 DEF IInv, TypeOK, StoredIsScanned, RemovedForCause, Deleting, CleanFileKept
  <1>2. QED BY <1>1, Invariant, PTL

\* docHandler.retry: a document whose scan rejected it is not brought back,
\* however the request's checks interleave with the verdict.
THEOREM RejectedIsFinal == Spec => RejectedStaysFailed
  <1>1. ASSUME IInv, Next, scan.status = "failed", doc = "failed"
        PROVE  doc' \in {"failed", "none"}
    <2> USE DEF UpdateStatus
    <2>1. ~Settled /\ OnlyCleanStarts
      BY <1>1 DEF Settled, IInv
    <2>2. CASE Upload
      BY <1>1, <2>2, NoRecordTyped
      DEF IInv, NothingScanned, NoRecord, Upload, UploadCreate, UploadScanRecord, UploadTimeout,
          UploadFailScan, UploadPut, UploadAbandon, UploadLost, DeleteRow
    <2>3. ASSUME NEW d \in Deliveries, ScanDeliver(d) PROVE doc' = doc
      BY <2>3 DEF ScanDeliver
    <2>4. ASSUME NEW y \in Actors, ScanStep(y) \/ ScanLost(y) PROVE doc' \in {doc, "failed"}
      BY <1>1, <2>4
      DEF ScanStep, ScanTimeout, ScanClean, ScanReject, ScanDeleteObject, ScanFailDoc, ScanLost
    <2>5. ASSUME NEW y \in Actors, Publish(y) \/ PublishMarkFailedError(y) \/ PublishLost(y)
          PROVE  doc' = doc
      BY <2>5 DEF Publish, PublishEnqueue, PublishEnqueueError, PublishDispatch,
                  PublishMarkFailed, PublishMarkFailedError, PublishLost
    <2>6. ASSUME NEW r \in Requests, Retry(r) \/ Delete(r) \/ RequestLost(r)
          PROVE  doc' \in {"failed", "none"}
      <3>1. ~RetryReset(r)
        BY <2>1 DEF RetryReset, OnlyCleanStarts, PastScan, At, Actors
      <3>2. QED
        BY <1>1, <2>6, <3>1
        DEF Retry, RetryBegin, RetryCheckJobs, RetryCheckScan, RetryFailed,
            Delete, DeleteBegin, DeleteCheckJobs, DeleteObject, DeleteDocRow, DeleteRow, RequestLost
    <2>7. ASSUME NEW a \in Attempts,
                 RunStep(a) \/ RunSucceedReplyLost(a) \/ RunRetry(a) \/ RunLost(a)
          PROVE  doc' = doc
      <3>1. runs[a] \notin LiveSteps
        BY <2>1 DEF OnlyCleanStarts
      <3>2. QED
        BY <1>1, <2>7, <3>1
        DEF RunStep, RunPrepare, RunGetDoc, RunMarkDoc, RunReadObject, LiveSteps, PrepareSteps,
            RunBuildChunksStale, RunMarkIndexed, RunSucceed, RunError, RunRecordFailure,
            RunFailDoc, RunSucceedReplyLost, RunRetry, RunLost, FinalizeSteps, FailureSteps
    <2>8. QED BY <1>1, <2>2, <2>3, <2>4, <2>5, <2>6, <2>7 DEF Next
  <1>2. IInv /\ [Next]_vars =>
           [scan.status = "failed" /\ doc = "failed" => doc' \in {"failed", "none"}]_vars
    BY <1>1
  <1>3. QED BY <1>2, Invariant, PTL DEF Spec, RejectedStaysFailed
=============================================================================
