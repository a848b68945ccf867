-------------------------- MODULE EntityExtraction --------------------------
(***************************************************************************)
(* The entities of one document's chunks:                                  *)
(*                                                                         *)
(*  - indexing (docindex.Prepare, regionclassify.BuildChunks) replaces the *)
(*    chunks, whose entities cascade, and publishes entity extraction; a   *)
(*    step that fails begins again, replacing the chunks once more;        *)
(*  - an extraction execution per attempt plans, persists a batch of       *)
(*    chunks at a time from concurrent Map iterations, and finalizes;      *)
(*  - the user extracts again (retryEntityExtraction).                     *)
(*                                                                         *)
(* Every call to Postgres or to the scratch bucket is a step.  When one    *)
(* iteration fails, Step Functions fails the Map, but invocations of the   *)
(* others that are in flight run to their end.  Batches are the ones in    *)
(* which the extractor finds something: one without entities saves nothing *)
(* and changes nothing.                                                    *)
(***************************************************************************)
EXTENDS JobStatus, Sequences, Functions

CONSTANTS
    Batches,
    AmbiguousStart, \* may StartExecution fail although it took effect?
    MaxAttempt,     \* bound: extraction attempts
    MaxGenerations  \* bound: times the chunks are created

ASSUME MaxAttemptIsPositive == MaxAttempt \in Nat \ {0}
ASSUME MaxGenerationsIsPositive == MaxGenerations \in Nat \ {0}
ASSUME AmbiguousStartIsBoolean == AmbiguousStart \in BOOLEAN

Attempts == 1 .. MaxAttempt

VARIABLES
    indexer,        \* where indexing is
    generation,     \* times the chunks were created
    chunks,         \* the generation stored, or 0
    job,            \* the entity_extraction record
    unanswered,     \* attempts whose StartExecution was not answered yet
    runs,           \* runs[a]: the execution of attempt a, and its chunks
    persists,       \* persists[a][b]: the iteration of a for batch b
    staged,         \* attempts whose staged objects exist
    saved,          \* saved[b]: the attempts that saved b's entities, in order
    late            \* did an attempt write entities when no longer current?

indexing == <<indexer, generation, chunks>>
vars == <<indexer, generation, chunks, job, unanswered, runs, persists, staged, saved, late>>

IndexerSteps == {"clear", "create", "publish", "stage", "embed", "done"}
PlanSteps == {"plan", "list", "clear", "stage"}
RunSteps == {"none"} \cup PlanSteps \cup {"map", "finalize", "recordFailure", "ended"}
PersistSteps == {"todo", "read", "check", "save", "done"}
NothingSaved == [b \in Batches |-> <<>>]

TypeOK ==
    /\ indexer \in IndexerSteps
    /\ generation \in 0 .. MaxGenerations
    /\ chunks \in {0, generation}
    /\ job \in Record /\ job.attempt <= MaxAttempt
    /\ unanswered \subseteq Attempts
    /\ \A a \in Attempts : /\ runs[a].pc \in RunSteps
                           /\ runs[a].planned \in 0 .. generation
                           /\ a > job.attempt => runs[a].pc = "none"
    /\ persists \in [Attempts -> [Batches -> PersistSteps]]
    /\ staged \subseteq Attempts
    /\ \A b \in Batches : Range(saved[b]) \subseteq 1 .. job.attempt
    /\ chunks = 0 => saved = NothingSaved
    /\ late \in BOOLEAN

Init ==
    /\ indexer = "clear"
    /\ generation = 0
    /\ chunks = 0
    /\ job = NoRecord
    /\ unanswered = {}
    /\ runs = [a \in Attempts |-> [pc |-> "none", planned |-> 0]]
    /\ persists = [a \in Attempts |-> [b \in Batches |-> "todo"]]
    /\ staged = {}
    /\ saved = NothingSaved
    /\ late = FALSE

Current(a) == job.attempt = a /\ Active(job)
At(a, pc) == runs[a].pc = pc
Goto(a, pc) == runs' = [runs EXCEPT ![a].pc = pc]

-----------------------------------------------------------------------------
(* Starting an attempt                                                     *)

\* PublishEntityExtraction: an active job is left alone; the execution is
\* started, or the attempt marked failed, or no attempt even recorded.
Publish ==
    \/ /\ Started(job)
       /\ job.attempt < MaxAttempt
       /\ LET a == job.attempt + 1
          IN  \/ /\ job' = Enqueue(job)
                 /\ Goto(a, "plan")
                 /\ unanswered' = IF AmbiguousStart THEN unanswered \cup {a} ELSE {}
              \/ /\ job' = MarkFailed(Enqueue(job), a, "dispatch")
                 /\ UNCHANGED <<runs, unanswered>>
    \/ UNCHANGED <<job, runs, unanswered>>

\* The start of a's execution reports an error after all.
StartReplyLost(a) ==
    /\ a \in unanswered
    /\ job' = MarkFailed(job, a, "dispatch")
    /\ unanswered' = unanswered \ {a}
    /\ UNCHANGED <<indexing, runs, persists, staged, saved, late>>

\* Another extraction of an indexed document.
RetryExtraction ==
    /\ indexer = "done"
    /\ ~Active(job)
    /\ Publish
    /\ UNCHANGED <<indexing, persists, staged, saved, late>>

-----------------------------------------------------------------------------
(* Indexing                                                                *)

IndexClear ==
    /\ indexer = "clear"
    /\ chunks' = 0
    /\ saved' = NothingSaved
    /\ indexer' = "create"
    /\ UNCHANGED <<generation, job, unanswered, runs, persists, staged, late>>

IndexCreate ==
    /\ indexer = "create"
    /\ generation < MaxGenerations
    /\ generation' = generation + 1
    /\ chunks' = generation'
    /\ indexer' = "publish"
    /\ UNCHANGED <<job, unanswered, runs, persists, staged, saved, late>>

\* A failed publish is logged and indexing goes on.  A document without
\* text publishes too, and has nothing to embed.
IndexPublish ==
    /\ \/ indexer = "publish" /\ indexer' = "stage"
       \/ indexer = "create" /\ indexer' = "embed"
    /\ Publish
    /\ UNCHANGED <<generation, chunks, persists, staged, saved, late>>

\* The texts are staged; the embedding job runs; the document is indexed.
IndexProceed ==
    /\ \/ indexer = "stage" /\ indexer' = "embed"
       \/ indexer = "embed" /\ indexer' = "done"
    /\ UNCHANGED <<generation, chunks, job, unanswered, runs, persists, staged, saved, late>>

\* The step fails and is retried at once; or indexing fails later, and the
\* user may retry the document when none of its jobs is active.
IndexAgain ==
    /\ generation < MaxGenerations
    /\ \/ indexer \in {"create", "publish", "stage"}
       \/ indexer = "embed" /\ ~Active(job)
    /\ indexer' = "clear"
    /\ UNCHANGED <<generation, chunks, job, unanswered, runs, persists, staged, saved, late>>

-----------------------------------------------------------------------------
(* Plan                                                                    *)

RunPlan(a) ==
    /\ At(a, "plan")
    /\ job' = MarkProcessing(job, a)
    /\ Goto(a, IF Superseded(TransitionError(job, a, "processing")) THEN "ended" ELSE "list")
    /\ UNCHANGED <<indexing, unanswered, persists, staged, saved, late>>

\* Without chunks there are no batches.
RunList(a) ==
    /\ At(a, "list")
    /\ runs' = [runs EXCEPT ![a] = [pc |-> IF chunks = 0 THEN "finalize" ELSE "clear",
                                    planned |-> chunks]]
    /\ UNCHANGED <<indexing, job, unanswered, persists, staged, saved, late>>

RunClear(a) ==
    /\ At(a, "clear")
    /\ saved' = NothingSaved
    /\ late' = (late \/ ~Current(a))
    /\ Goto(a, "stage")
    /\ UNCHANGED <<indexing, job, unanswered, persists, staged>>

RunStage(a) ==
    /\ At(a, "stage")
    /\ staged' = staged \cup {a}
    /\ Goto(a, "map")
    /\ UNCHANGED <<indexing, job, unanswered, persists, saved, late>>

RunRetryPlan(a) ==
    /\ \E pc \in {"list", "clear", "stage"} : At(a, pc)
    /\ Goto(a, "plan")
    /\ UNCHANGED <<indexing, job, unanswered, persists, staged, saved, late>>

-----------------------------------------------------------------------------
(* ExtractBatches: PersistBatch, after the batch's GPU job                 *)

PersistAt(a, b, pc) == persists[a][b] = pc
PersistGoto(a, b, pc) == persists' = [persists EXCEPT ![a][b] = pc]

PersistBegin(a, b) ==
    /\ At(a, "map") /\ PersistAt(a, b, "todo")
    /\ job' = MarkProcessing(job, a)
    /\ PersistGoto(a, b, IF Superseded(TransitionError(job, a, "processing"))
                         THEN "done" ELSE "read")
    /\ UNCHANGED <<indexing, unanswered, runs, staged, saved, late>>

PersistRead(a, b) ==
    /\ PersistAt(a, b, "read")
    /\ a \in staged
    /\ PersistGoto(a, b, "check")
    /\ UNCHANGED <<indexing, job, unanswered, runs, staged, saved, late>>

\* ChunkIDsWithEntities has a chunk of the batch in it.
BatchSaved(a, b) == chunks = runs[a].planned /\ saved[b] # <<>>

\* Mutant: the batch is taken as done when any batch has entities.
PersistCheckAnyBatch(a, b) ==
    /\ PersistAt(a, b, "check")
    /\ PersistGoto(a, b, IF chunks = runs[a].planned /\ saved # NothingSaved
                         THEN "done" ELSE "save")
    /\ UNCHANGED <<indexing, job, unanswered, runs, staged, saved, late>>

\* Mutant: a batch that was already saved is saved again.
PersistCheckSkipped(a, b) ==
    /\ PersistAt(a, b, "check")
    /\ PersistGoto(a, b, "save")
    /\ UNCHANGED <<indexing, job, unanswered, runs, staged, saved, late>>

\* The batch is done if its chunks have entities.
PersistCheck(a, b) ==
    /\ PersistAt(a, b, "check")
    /\ PersistGoto(a, b, IF BatchSaved(a, b) THEN "done" ELSE "save")
    /\ UNCHANGED <<indexing, job, unanswered, runs, staged, saved, late>>

\* BulkCreate, whose rows refer to the planned chunks; its reply may be lost
\* and the step retried, as long as the Map has not failed.
PersistSave(a, b) ==
    /\ PersistAt(a, b, "save")
    /\ chunks = runs[a].planned
    /\ saved' = [saved EXCEPT ![b] = Append(@, a)]
    /\ late' = (late \/ ~Current(a))
    /\ \/ PersistGoto(a, b, "done")
       \/ At(a, "map") /\ PersistGoto(a, b, "todo")
    /\ UNCHANGED <<indexing, job, unanswered, runs, staged>>

\* A call of the invocation fails: it is retried, unless the Map has failed.
PersistError(a, b) ==
    /\ persists[a][b] \in {"read", "check", "save"}
    /\ PersistGoto(a, b, IF At(a, "map") THEN "todo" ELSE "done")
    /\ UNCHANGED <<indexing, job, unanswered, runs, staged, saved, late>>

\* An iteration fails for good, in any of its states, and with it the Map.
PersistFail(a, b) ==
    /\ At(a, "map") /\ ~PersistAt(a, b, "done")
    /\ PersistGoto(a, b, "done")
    /\ Goto(a, "recordFailure")
    /\ UNCHANGED <<indexing, job, unanswered, staged, saved, late>>

RunMapEnd(a) ==
    /\ At(a, "map")
    /\ \A b \in Batches : PersistAt(a, b, "done")
    /\ Goto(a, "finalize")
    /\ UNCHANGED <<indexing, job, unanswered, persists, staged, saved, late>>

-----------------------------------------------------------------------------
(* Finalize and RecordFailure                                              *)

\* The staged objects go last; a lost reply repeats the step.
RunFinalize(a) ==
    /\ At(a, "finalize")
    /\ job' = MarkSucceeded(job, a)
    /\ staged' = staged \ {a}
    /\ Goto(a, "ended") \/ Goto(a, "finalize")
    /\ UNCHANGED <<indexing, unanswered, persists, saved, late>>

RunError(a) ==
    /\ \E pc \in PlanSteps \cup {"finalize"} : At(a, pc)
    /\ Goto(a, "recordFailure")
    /\ UNCHANGED <<indexing, job, unanswered, persists, staged, saved, late>>

\* A superseded attempt leaves its staged objects.
RunRecordFailure(a) ==
    /\ At(a, "recordFailure")
    /\ job' = MarkFailed(job, a, "step")
    /\ staged' = IF Superseded(TransitionError(job, a, "failed")) THEN staged ELSE staged \ {a}
    /\ Goto(a, "ended")
    /\ UNCHANGED <<indexing, unanswered, persists, saved, late>>

-----------------------------------------------------------------------------
Index == IndexClear \/ IndexCreate \/ IndexPublish \/ IndexProceed \/ IndexAgain

Persist(a, b) ==
    \/ PersistBegin(a, b) \/ PersistRead(a, b) \/ PersistCheck(a, b)
    \/ PersistSave(a, b) \/ PersistError(a, b) \/ PersistFail(a, b)

Run(a) ==
    \/ RunPlan(a) \/ RunList(a) \/ RunClear(a) \/ RunStage(a) \/ RunRetryPlan(a)
    \/ \E b \in Batches : Persist(a, b)
    \/ RunMapEnd(a) \/ RunFinalize(a) \/ RunError(a) \/ RunRecordFailure(a)

Next ==
    \/ Index
    \/ RetryExtraction
    \/ \E a \in Attempts : StartReplyLost(a) \/ Run(a)

Spec == Init /\ [][Next]_vars

-----------------------------------------------------------------------------
(* Properties                                                              *)

\* The attempt that succeeded saved all there is to save of the chunks it
\* planned from.  (If they were replaced meanwhile it may have saved nothing
\* of the new ones.)
Succeeded(a) ==
    /\ job.attempt = a /\ job.status = "succeeded"
    /\ chunks # 0 /\ runs[a].planned = chunks

Replaced == \A a \in Attempts :
    Succeeded(a) => \A b \in Batches : saved[b] = <<a>>

\* Whatever is lost, retried or fails between the concurrent iterations, the
\* chunk replacements and the attempts: a run that succeeds has replaced
\* everything the earlier ones saved, unless one of those still wrote after
\* it was no longer current.
RunReplacesAll == TypeOK /\ (~late => Replaced)

\* No attempt ever saves a batch twice, not even a late one; and as long as
\* there is no late write, no batch is saved twice.
SavedOnce ==
    \A b \in Batches : /\ IsInjective(saved[b])
                       /\ ~late => Len(saved[b]) <= 1

-----------------------------------------------------------------------------
(* What the comments in the code say and the code does not do              *)

\* retryEntityExtraction is "safe to call repeatedly -- each run fully
\* replaces the last, it never accumulates duplicates": so also when the
\* last one has not stopped writing.
EachRunReplacesTheLast == Replaced
=============================================================================
