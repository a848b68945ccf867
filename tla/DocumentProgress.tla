--------------------------- MODULE DocumentProgress ---------------------------
(***************************************************************************)
(* How far a document has come, as its owner's list shows it               *)
(* (server/dochandler.go, queue/stage.go): the jobs one upload leads to,   *)
(* each published by the one before (malwarescan, ingest, docindex,        *)
(* regionclassify, embedtail, entityextract, worker), and the list, which  *)
(* reads the documents and then, in a second query, their active jobs.     *)
(*                                                                         *)
(* What a job stores beside its status is left to the other modules, and   *)
(* so are executions that overlap: `excused' says there may be some.       *)
(***************************************************************************)
EXTENDS JobStatus

CONSTANT
    MaxPublished    \* bound: attempts of a job

ASSUME PublishedBound == MaxPublished \in Nat

VARIABLES
    regions,        \* is it a PDF or an image?
    document,       \* documents.status
    jobs,           \* its rows of document_job_status
    steps,          \* what each job's execution does next
    listed,         \* the document's status as a request has read it
    told,           \* history: was the owner told that it is complete?
    excused         \* history: did something happen that excuses the list?

progressVars == <<regions, document, jobs, steps, listed, told, excused>>

\* "index" is region classification or document indexing.
JobTypes == {"scan", "index", "entities", "edges", "canonicalization"}
Documents == {"pending", "processing", "indexed", "failed"}

ProgressInit ==
    /\ regions \in BOOLEAN
    /\ document = "pending"
    /\ jobs = [t \in JobTypes |-> IF t = "scan" THEN Enqueue(NoRecord) ELSE NoRecord]
    /\ steps = [t \in JobTypes |-> "none"]
    /\ listed = "none" /\ told = FALSE /\ excused = FALSE

-----------------------------------------------------------------------------
(* Publishing                                                              *)

\* What may come of publish: the job is already active; it is not recorded;
\* it starts; the publisher is lost; the start fails, or is said to.
Published(t) ==
    LET next == Enqueue(jobs[t])
        failed == MarkFailed(next, next.attempt, "dispatch")
        outcome(job, step, sure) == [job |-> job, step |-> step, sure |-> sure]
        kept == outcome(jobs[t], steps[t], TRUE)
    IN  IF ~Started(jobs[t]) THEN {kept}
        ELSE {kept, outcome(next, "begin", TRUE), outcome(next, "none", TRUE),
              outcome(failed, "none", TRUE), outcome(failed, "begin", FALSE)}

\* The execution of p publishes t, whatever comes of it, and goes on.
PublishJob(p, t, step) ==
    /\ jobs[t].attempt < MaxPublished
    /\ \E o \in Published(t) :
          /\ jobs' = [jobs EXCEPT ![t] = o.job]
          /\ steps' = [steps EXCEPT ![t] = o.step, ![p] = step]
          /\ excused' = (excused \/ ~o.sure)
    /\ UNCHANGED <<regions, document, listed, told>>

-----------------------------------------------------------------------------
(* Jobs                                                                    *)

At(t, step) == steps[t] = step
Goto(t, step) == steps' = [steps EXCEPT ![t] = step]

RecordFailure(t) ==
    LET a == jobs[t].attempt
        isOver == Superseded(TransitionError(jobs[t], a, "failed"))
    IN  /\ jobs' = [jobs EXCEPT ![t] = MarkFailed(@, a, "step")]
        /\ Goto(t, IF t \in {"scan", "index"} /\ ~isOver THEN "failDocument" ELSE "none")

\* The scan's result is delivered, perhaps once more.
ScanReported ==
    /\ At("scan", "none")
    /\ jobs["scan"].status # "failed"
    /\ \/ /\ jobs' = [jobs EXCEPT !["scan"] = MarkSucceeded(@, @.attempt)]
          /\ Goto("scan", "publish")
          /\ excused' = (excused \/ jobs["index"].attempt > 0)
       \/ RecordFailure("scan") /\ UNCHANGED excused
    /\ UNCHANGED <<regions, document, listed, told>>

\* ingest.Start.
Start == At("scan", "publish") /\ PublishJob("scan", "index", "none")

\* What an execution does once its attempt is found current.
FirstStep == [index |-> "prepare", entities |-> "edges", edges |-> "finish",
              canonicalization |-> "finish"]

Begin(t) ==
    /\ At(t, "begin")
    /\ LET a == jobs[t].attempt
       IN  /\ jobs' = [jobs EXCEPT ![t] = MarkProcessing(@, a)]
           /\ Goto(t, IF Superseded(TransitionError(jobs[t], a, "processing")) THEN "none"
                      ELSE FirstStep[t])
    /\ UNCHANGED <<regions, document, listed, told, excused>>

\* A document that is indexed is left as it is.
Prepare ==
    /\ At("index", "prepare")
    /\ IF document = "indexed" THEN Goto("index", "finish") /\ UNCHANGED document
       ELSE Goto("index", "publish") /\ document' = "processing"
    /\ UNCHANGED <<regions, jobs, listed, told, excused>>

\* publishEntityExtraction: once the chunks exist.
PublishEntities == At("index", "publish") /\ PublishJob("index", "entities", "embed")

\* The phase of a region classification, and the embedding.
Embed ==
    /\ At("index", "embed")
    /\ jobs' = IF regions THEN [jobs EXCEPT !["index"] = SetPhase(@, @.attempt, "embedding")] ELSE jobs
    /\ Goto("index", "finalize")
    /\ UNCHANGED <<regions, document, listed, told, excused>>

MarkDocumentIndexed ==
    /\ At("index", "finalize")
    /\ document' = "indexed"
    /\ Goto("index", "finish")
    /\ UNCHANGED <<regions, jobs, listed, told, excused>>

\* Finalize of an extraction; without chunks there is nothing to publish.
PublishEdges ==
    /\ At("entities", "edges")
    /\ \/ PublishJob("entities", "edges", "canonicalization")
       \/ Goto("entities", "finish") /\ UNCHANGED <<regions, document, jobs, listed, told, excused>>

PublishCanonicalization ==
    At("entities", "canonicalization") /\ PublishJob("entities", "canonicalization", "finish")

\* A step is repeated because a call failed or its reply was lost.
RepeatStep(t) ==
    /\ \/ t = "index" /\ steps[t] \in {"prepare", "publish", "embed"} /\ Goto(t, "begin")
       \/ t = "index" /\ At(t, "finish") /\ document = "indexed" /\ Goto(t, "finalize")
       \/ t = "entities" /\ steps[t] \in {"canonicalization", "finish"} /\ Goto(t, "edges")
    /\ UNCHANGED <<regions, document, jobs, listed, told, excused>>

\* The job's success is recorded; if that reply is lost, an extraction is
\* finalized once more, and others find themselves finished.
Finish(t) ==
    /\ At(t, "finish")
    /\ jobs' = [jobs EXCEPT ![t] = MarkSucceeded(@, @.attempt)]
    /\ \/ Goto(t, "none") /\ UNCHANGED excused
       \/ t = "entities" /\ Goto(t, "edges") /\ excused' = TRUE
    /\ UNCHANGED <<regions, document, listed, told>>

\* A job fails for good, and its last attempt may take the document along.
Fail(t) ==
    /\ t # "scan" /\ steps[t] \notin {"none", "failDocument"}
    /\ RecordFailure(t)
    /\ UNCHANGED <<regions, document, listed, told, excused>>

\* A scan that was rejected, or the indexing, fails the document too.
FailDocument(t) ==
    /\ At(t, "failDocument")
    /\ document' = "failed"
    /\ Goto(t, "none")
    /\ UNCHANGED <<regions, jobs, listed, told, excused>>

JobStep(t) ==
    \/ Begin(t) \/ RepeatStep(t) \/ Finish(t)
    \/ Fail(t) \/ FailDocument(t)

-----------------------------------------------------------------------------
(* The list                                                                *)

\* ActiveJobsForDocuments.
ActiveJobs == {t \in JobTypes : Active(jobs[t])}

\* Mutant: the jobs published last are shown as no stage of their own.
StageForFirstJobs(t, phase) ==
    CASE t = "scan" -> "scanning"
      [] t = "index" -> IF regions /\ phase # "embedding" THEN "analyzing" ELSE "embedding"
      [] t = "entities" -> "entities"
      [] OTHER -> "processing"

StageFor(t, phase) ==
    CASE t = "scan" -> "scanning"
      [] t = "index" -> IF regions /\ phase # "embedding" THEN "analyzing" ELSE "embedding"
      [] t \in {"entities", "edges", "canonicalization"} -> "entities"

\* The stages, whose order is left out: "complete" is no job's.
StagesForDocument ==
    {"scanning", "embedding", "entities", "complete"} \cup (IF regions THEN {"analyzing"} ELSE {})

ActiveStageKeys(active) == StagesForDocument \cap {StageFor(t, jobs[t].phase) : t \in active}

\* What enrichPage shows as active of a document read as `status'.
Progress(status, active) ==
    IF status = "failed" THEN {}
    ELSE IF ActiveStageKeys(active) # {} THEN ActiveStageKeys(active)
    ELSE IF status = "indexed" THEN {"complete"} ELSE {}

\* list reads the documents,
List ==
    /\ listed = "none"
    /\ listed' = document
    /\ UNCHANGED <<regions, document, jobs, steps, told, excused>>

\* and enrichPage their jobs; if it cannot, there seem to be none.
EnrichPage ==
    /\ listed # "none"
    /\ \E active \in {ActiveJobs, {}} :
          /\ told' = (told \/ Progress(listed, active) = {"complete"})
          /\ excused' = (excused \/ active # ActiveJobs)
    /\ listed' = "none"
    /\ UNCHANGED <<regions, document, jobs, steps>>

-----------------------------------------------------------------------------
(* The owner's requests, which read and publish at once here: what was     *)
(* told before the publication is of the run before.                       *)

AskAgain(t, onStart, onError) ==
    /\ jobs["scan"].status = "succeeded" /\ ActiveJobs = {}
    /\ jobs[t].attempt < MaxPublished
    /\ \E o \in Published(t) :
          /\ jobs' = [jobs EXCEPT ![t] = o.job]
          /\ steps' = [steps EXCEPT ![t] = o.step]
          /\ excused' = (excused \/ ~o.sure)
          /\ document' \in IF Active(o.job) THEN {onStart} ELSE {onStart, onError}
    /\ told' = FALSE
    /\ UNCHANGED <<regions, listed>>

\* If the start fails, so does the document, unless that fails too.
Retry == document = "failed" /\ AskAgain("index", "pending", "failed")

RetryEntityExtraction == document = "indexed" /\ AskAgain("entities", "indexed", "indexed")

ProgressNext ==
    \/ ScanReported \/ Start \/ Prepare \/ PublishEntities \/ Embed \/ MarkDocumentIndexed
    \/ PublishEdges \/ PublishCanonicalization
    \/ \E t \in JobTypes : JobStep(t)
    \/ List \/ EnrichPage
    \/ Retry \/ RetryEntityExtraction

ProgressSpec == ProgressInit /\ [][ProgressNext]_progressVars

-----------------------------------------------------------------------------
(* Properties                                                              *)

\* "Permanently [queue.StageKeyComplete] once the whole pipeline -- including
\* background entity extraction -- has finished" (documentProgress): once the
\* list, which reads the document before its jobs, says so, no job of the
\* document becomes active, whatever failed on the way, unless its owner asks
\* for one.  What excuses the list is a step that had finished and runs
\* again (a scan's result delivered twice, an extraction finalized twice), a
\* start that was said to fail and did not, and jobs it could not read.
CompleteIsFinal == told /\ ~excused => ActiveJobs = {}
=============================================================================
