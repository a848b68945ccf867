# Verification of dumpster

dumpster turns uploaded documents into a searchable knowledge graph. An HTTP
API stores a file, GuardDuty scans it, and Step Functions executions of Lambda
steps and Batch jobs index it, extract entities, derive edges and merge the
entities into canonical ones. There is no lock around any of this: a row in
Postgres, an object in S3, a status record per job and an execution per attempt
are kept in step by the order of the calls, by guards on what was read earlier,
and by attempt numbers. This directory models those protocols in TLA+, checks
them with TLC on small instances, and proves the most important results for
every instance with TLAPS.

Paths below are relative to `src/internal` unless they start with `src/`.

## Inventory

| Component | State | Operations | What is hard | What makes it correct |
|---|---|---|---|---|
| Job status store: `jobstatus`, `pgstore`, `memory` | one record per (document, job type): status, phase, attempt, last error | Enqueue, MarkProcessing, SetPhase, MarkSucceeded, MarkFailed, Get, ActiveJobsForDocuments | late and repeated reports of old attempts | one active attempt, one outcome per attempt, numbers only grow |
| Publisher: `queue/dispatch`, `queue/stepfunctions` | none; one call in progress per caller | publish: record, start, or mark failed | a crash between two calls, a lost reply, concurrent publishers | an attempt is started or failed by one caller; an active job is taken care of |
| Stateless steps: `worker/lambda` | the execution's position | run, recordFailure | retries, catches, a deleted document | every attempt ends |
| Document API: `server/dochandler.go` | the document row, the object | upload, delete, retry, retry-entity-extraction | checks and writes in separate calls, a failure half way | no row without its file; delete and retry never locked out |
| Malware scan: `malwarescan` | the malware_scan record | Begin, HandleResult, HandleTimeout, Rejection | timeout racing a late verdict, redelivered events | only clean files are processed; a clean file stays |
| Indexing: `pipeline/docindex`, `pipeline/regionclassify`, `pipeline/embedtail`, `manifest`, `chunk`, `reembed` | document status, chunks with vectors, manifest of regions, staged objects | Prepare / StageLayout, BuildChunks, Finalize, RecordFailure, the backfill of vectors | retried steps, replaced attempts, chunks matched with regions and vectors by place alone | a document leaves processing; an indexed one has each chunk once, with its own vector and region |
| Splitter: `chunk/splitter.go` | none | Split | boundaries inside a rune | windows cover the text, in order, none too long |
| Entity extraction: `pipeline/entityextract` | entities per chunk, staged batches | Plan, PersistBatch, Finalize, RecordFailure | done-check per batch, chunks replaced meanwhile | each chunk's entities saved once, by the current attempt |
| Edges, relations, cross links: `worker`, `graphedge`, `relation`, `crosslink` | edges between mentions of a chunk, links between identities, a model's answer for each | Handle; ListReviewable, ApplyUpdates; CandidateChains, Review, the purge | jobs that overlap; answers about rows that were replaced | the last job's edges are complete; an answer is kept as long as what it is about |
| Canonicalization: `canonical` | canonical entities with counts, links | Canonicalize, DecrementForDocument, MergeInto, ResolveAliases | count and link written by different calls; merges | counts cover the linked mentions; nobody's links are lost |
| Graph retrieval and search: `graphrag`, `retrieval`, `search` | none | the legs, fusion, citations, the stream's footer filter | ties, cycles, markers split over deltas | what is near is found; the best k, in order; no footer is shown |
| Inquiries: `inquiry`, `server/searchhandler.go` | ordered messages, supersedes links | AppendMessage, search, reevaluate, getInquiry | two requests at once, documents deleted later | one order of turns; a re-evaluation asks its own question; names stay |
| Communities, themes, intrusion tests: `community`, `theme`, `intrusion`, their handlers | community ids per entity, the last run's summary, saved themes and tests | recompute, get; PMI, Louvain, the filter of the view, sampling | a graph that changes under a run, overlapping runs, ties | what is shown together was computed together; moves never worsen the result |
| Responses of language models: `canonical/aliasjudge`, extractors, `theme/summarize`, `intrusion/tester` | none | parsing of numbered answers | lines missing, repeated or garbled | an answer belongs to the item its block names |
| Sessions: `session`, `account`, `auth`, `src/cmd/cleanup` | session rows with two clocks, everything they own | Touch, Sweep.Run, Deleter.Delete | the sweep acts on a snapshot; uploads in progress | an active session survives; no file is left without a row but in named cases |
| Rate limiter: `ratelimit` | counter and window per key | Allow, DeleteExpired | window boundary, several replicas, store failure | at most limit requests per window |
| Pagination: `server/pagination.go` | none; the client holds a cursor | list documents and knowledge bases | the cursor's item is deleted | a walk to the end shows what was there throughout |
| Knowledge bases, statistics, storage, tenancy, telemetry, model clients, tools, web, scripts | rows or none | one call per operation | | see `PROJECT.json` for each |

Components interact through three shared things: the document's row (its
deletion cascades to status records, chunks and entities), its object in the
uploads bucket, and the status records (`delete` and `retry` read them as
guards, the executions write them). Messages between them are Step Functions
executions, started at most once per name, and EventBridge deliveries, any
number of times. Inside Postgres the components meet through foreign keys:
replacing chunks takes mentions and their edges with it, deleting an identity
takes its links, deleting a knowledge base takes everything. What the analyses
of a knowledge base and its searches read is whatever these have left at that
moment.

## Modules

| Module | What it is |
|---|---|
| `JobStatus` | the state rules of one status record, as operators: `Enqueue`, `Transition`, its errors, and the Writer's methods |
| `JobLifecycle` | abstract: what the status store promises its readers, a sequence of numbered attempts per job |
| `JobDispatch` | publishers, Step Functions executions and the status store together, for any number of jobs |
| `DocumentProgress` | the chain of jobs one document goes through, and the progress its owner's list shows meanwhile |
| `DocumentLifecycle` | one document from upload to deletion: API, malware scan, indexing executions |
| `ChunkIndexing` | how one document becomes chunks with vectors and regions: both indexing pipelines call by call, and reembed |
| `Splitter` | the windows a text is cut into |
| `EntityExtraction` | the entities of one document's chunks: indexing, overlapping extraction attempts, concurrent batches |
| `KnowledgeGraph` | edges and their reviews while mentions are replaced: the edge job, relations, cross links |
| `GraphLegs` | which chunks and which pairs of identities a walk of the graph reaches |
| `CanonicalCounts` | canonical entities, their counts and the mentions linked to them, under canonicalization, alias merges and reversals |
| `SessionSweep` | one session and its documents: requests, uploads and deletions against cleanup runs, with both expiry clocks |
| `Inquiry` | the messages of one inquiry, under searches and re-evaluations at once |
| `SearchAnswer` | rank fusion, the documents retrieved, citations, the footer in an answer and in a stream |
| `RateLimiter` | both fixed-window counters, asked about the same requests |
| `Pagination` | a client that walks through a list that changes |
| `Communities` | communities, themes and intrusion tests of one knowledge base, while indexing changes its graph |
| `Louvain` | community detection, one visit of a node per step |
| `GraphView` | which edges weighting keeps, which part of the graph is shown, what is described and tested |
| `ModelAnswers` | how the responses of language models are read |
| `Ordering` | what a sort makes of a set; used by `SearchAnswer`, `GraphView` and `ModelAnswers` |
| `JobDispatchProofs` | theorems about `JobDispatch` and `DocumentProgress` |
| `DocumentLifecycleProofs`, `CanonicalCountsProofs`, `SessionSweepProofs` | theorems about the module each is named for |
| `KnowledgeGraphProofs` | theorems about `KnowledgeGraph` and `GraphLegs` |
| `IngestionProofs` | theorems about `ChunkIndexing`, `EntityExtraction` and `Splitter` |
| `InquiryProofs` | theorems about `Inquiry`, `SearchAnswer`, `RateLimiter` and `Pagination` |
| `CommunitiesProofs` | theorems about `Communities`, `Louvain`, `GraphView` and `ModelAnswers` |
| `MCDocumentLifecycle`, `MCCanonicalCounts`, `MCSessionSweep` | symmetry sets and state constraints of the instances TLC checks |
| `MCJobDispatch` | one instance of `JobDispatch` and `DocumentProgress` |
| `MCIngestion` | one instance of `ChunkIndexing`, `EntityExtraction`, `KnowledgeGraph` with `GraphLegs`, and `Splitter`, each also with an `MC` module of its own where a counterexample runs alone |
| `MCInquiry` | one instance of `Inquiry`, `SearchAnswer`, `RateLimiter` and `Pagination` |
| `MCCommunities` | one instance of `Communities`, `Louvain`, `GraphView` and `ModelAnswers` |

The last four are sums and not products. Every initial state belongs to one
part, which then moves while the others stand still in a state their own
`Init` allows, so a run visits the states of its parts one after the other. An
invariant of one part holds in the others' states because it holds in that
initial state. `EntityExtraction`, `KnowledgeGraph`, `ChunkIndexing`,
`Inquiry` and `Communities` could be composed further, but what one leaves to
another (chunks replaced, mentions replaced, identities gone) is already an
action of the reader's module, taken at any moment.

The pure algorithms (`GraphLegs`, `Splitter`, `SearchAnswer`, `GraphView`,
`ModelAnswers`) are operators over one variable that holds the data of a call:
`walk`, `fed`, `input` or `response`. The initial states are the bounded
inputs, and the invariant compares the result with an independent definition.

### JobStatus

`Enqueue` and `Transition` in `jobstatus/jobstatus.go` are pure functions that
both stores apply under a row lock or a mutex, so each Writer call is one atomic
step of every model. An absent row is `NoRecord`, with attempt 0. Failure
reasons are abstracted to who recorded them, which is enough to tell whether the
first reason is kept.

### JobDispatch and JobLifecycle

| Variable | Code |
|---|---|
| `records`, `gone` | `document_job_status`, and which documents were deleted (their rows cascade and the foreign key refuses new ones) |
| `publishers` | where each caller of `publish` is: before Dispatch, before MarkFailed, or idle |
| `runs` | the execution of each attempt, named `{job type}-{document}-{attempt}`; a used name stays used |
| `orphaned` | history: attempts whose publisher died or whose failure report was lost |

The publisher's four calls are four actions, so that other publishers,
executions and deletions come between them. `DispatchReplyLost` starts the
execution and does not say so; `PublisherLost` covers a crash, a cancelled
request and a failed `MarkFailed`. An execution is the four status writes any of
the five state machines makes, in order, with repetition after a retried step,
a catch into RecordFailure, and the one failure nothing catches (`RunAbort`).

`JobLifecycle` has three actions per job, Begin, Finish and Forget; the
refinement hides publishers, executions and phases and maps pending and
processing to "active".

### DocumentProgress

| Variable | Code |
|---|---|
| `regions`, `document` | whether the file is a PDF or an image; `documents.status` |
| `jobs` | the document's rows of `document_job_status`, one for each type of job |
| `steps` | what the execution of each job does next, where that changes a status or publishes a job |
| `listed` | the status `list` has read of the document, before `enrichPage` reads its active jobs |
| `told` | history: the owner was told that the document is complete, since its last request |
| `excused` | history: something happened that lets a finished job run again, or hid the jobs from the list |

`JobDispatch` follows one job; here each job publishes the next: the scan's
result starts the indexing, the chunks the entity extraction, its Finalize the
edges and the canonicalization. The list shows "complete" for an indexed
document that has no active job, which is right at any moment only because a job
is published before the one that publishes it ends. It reads documents and jobs
in two queries, in that order, and a publication may end anyhow. What each job
stores is in the other modules, and so are overlapping executions of one job.
The owner's requests read and publish in one step: whatever the owner was told
before is of the run before.

`documentProgress`'s comment says "Permanently [queue.StageKeyComplete] once the
whole pipeline -- including background entity extraction -- has finished"
(`server/dochandler.go:348-349`). The model shows where that is not so. A scan
result that is delivered again after it was published starts the indexing of a
document that is indexed, which then does nothing; an extraction finalized again
after its success publishes its two successors anew; a start that reported an
error runs on beside a job marked failed; and `enrichPage` takes an error of the
second query for "no active jobs", so that an indexed document looks complete
for as long as that lasts. Each of them ends by itself.

### DocumentLifecycle

| Variable | Code |
|---|---|
| `doc` | `documents.status`, "none" without a row |
| `object` | the file in the uploads bucket |
| `scan`, `index` | the malware_scan record and the indexing job's record |
| `upload`, `actors`, `runs` | where each process is between two of its calls |
| `verdict` | what GuardDuty would say of the file |
| `lost` | history: the kinds of process that died midway |

Each handler is split at every call to Postgres, S3 or Step Functions. A reading
of the document that a handler goes on to use is the step that decides it; the
decision then holds for the later steps however stale it becomes. The indexing
execution is either pipeline: the two make the same status writes, except that
region classification checks its attempt once more (`RunBuildChunksStale`).
EventBridge redelivers, so a failed delivery is a delivery not finished yet;
Lambda retries start the step over (`RunRetry`).

`publish` appears here in a shorter form, because this module is about what its
callers do with its failure; `JobDispatch` is the full account of it.

### ChunkIndexing

| Variable | Code |
|---|---|
| `upload` | the file, as far as indexing can tell files apart: its kind, the windows of a text, the pages with text and with tables |
| `docStatus`, `record` | `documents.status` and the indexing job's record |
| `execs`, `unsure` | the execution of each attempt, call by call; attempts whose StartExecution was not answered yet |
| `scratch` | attempts whose texts and vectors are staged |
| `manifest`, `chunkRows`, `inserts` | `ingestion_manifest` and `chunks`, by insertion and place; how many insertions there were |
| `overtaken` | history: an attempt wrote when it was no longer current |

This is the inside of what `DocumentLifecycle` takes as one indexing execution:
`Prepare` of a text, or `StageLayout`, the layout job and `BuildChunks` of a
PDF or an image, then the embedding job and `Finalize`, each Postgres or bucket
call a step of its own. A chunk finds its region in the manifest, and its
vector in the result of the embedding job, by place in a list; the lists are
built by different calls, so that their orders are part of the model: the
layout job lists tables after all text (`LayoutResult`), `ListByDocument` sorts
by page and height and breaks ties anyhow (`ListManifest`). Any call may fail or
lose its reply (`StepAgain`), a step may fail for good (`StepFails`), and an
attempt whose start was reported to have failed runs on beside its successor.
`Reembed` is any update of the backfill. What is on a page, and what a
vision model says of a figure, are inputs.

### Splitter

A text is the sequence that tells which of its bytes start a rune; `Fed` has
every well-formed one of up to `MaxBytes` bytes, with every size and overlap.
Where the step is shorter than a rune, the code cuts inside runes rather than
stand still; `SplitCovers` says when it does not. The defaults, 3000 and 300,
are far from there.

### EntityExtraction

| Variable | Code |
|---|---|
| `indexer`, `generation`, `chunks` | where `Prepare` (or `BuildChunks`) is; each creation of the chunks is a generation with its own ids |
| `job`, `unanswered` | the entity_extraction record; attempts whose StartExecution may still report an error |
| `runs`, `persists` | the execution of each attempt with the generation it planned from; its Map iterations |
| `staged` | which attempts have their batches' objects in the scratch bucket |
| `saved` | which attempts saved entities for each batch of the stored chunks, in order; foreign keys make it vanish with the chunks, and refuse entities of chunks that are gone |
| `late` | history: an attempt wrote or cleared entities when it was no longer current |

Two things make attempts overlap. Step Functions fails a Map when one iteration
fails, but a Lambda invocation of another iteration that is past its attempt
check runs on (it has 300 seconds, `src/terraform/modules/pipeline/main.tf:164`);
and a StartExecution may take effect and report an error (`AmbiguousStart`), so
that the attempt is marked failed and the next one started beside it. Within one
execution the model assumes that Step Functions invokes a step again only after
the previous invocation ended. Batches without entities save nothing and are
left out, as are presigning and the GPU job, which only fail an iteration
(`PersistFail`). `Finalize` deletes its staged objects in the same step as its
status write: only its own, finished, iterations read them.

The document's deletion is not in this module, and neither is an overlap of two
indexing attempts (that is `ChunkIndexing`); one that repeats itself is
(`IndexAgain`).

### KnowledgeGraph and GraphLegs

| Variable | Code |
|---|---|
| `capital` | which identities `crosslink` takes for proper names |
| `text`, `gen`, `ident` | generations of the chunks, of the mentions and of each identity: rows are replaced under new ids |
| `mentions`, `linked` | the entities of each chunk, and whether they have a canonical id |
| `planning` | entity extraction's Plan between its two transactions |
| `edges`, `links` | `entity_edges` and `cross_chunk_edges` with the relation a model found in them |
| `published`, `edgeRuns`, `begun` | the edge job: whether it was published, and where each of its runs is |
| `reviews`, `asked` | reviews of relations or of cross links, with what they read before the model was asked |
| `settled` | history: the run that cleared the edges last has ended, and listed the mentions there are |

An edge job lists mentions, clears the document's edges and adds its own, in
three calls, and a second one may run beside it. A review reads pairs, asks a
model for a long time, and writes answers by key; `alone` is history, that no
other review of its kind ran beside it. `CandidateChains` is shared between the
review and `GraphLegs`, where it is compared with distances in the graph on
every knowledge base of up to `MaxChunks` chunks.

`AnswersKept` allows a re-run of the edge job to delete answered edges: the
code does (`worker/edgehandler.go`), and says nothing of keeping them. Two
other things are visible in these modules and are not errors of any promise:
`TraversalLeg` follows a link between two seeds to one of them only, and
`CandidateChains` never proposes a recorded pair again, so that an answer
"none" stays although `ApplyUpdates`'s comment speaks of correcting it.

### CanonicalCounts

| Variable | Code |
|---|---|
| `rows`, `created` | `canonical_entities` by id, with both counts; ids are fresh per (text, n), as uuids are |
| `entities` | `entities.canonical_entity_id` of each mention that exists |
| `extracted` | which mentions were ever stored, so that none comes back |
| `resolvers` | canonicalization runs: the worker's, or the backfill command's |
| `aliasers` | alias resolution, between the read of its candidates and its merges, and between the statements of a merge: what it has repointed (`moved`) and what it will add to the survivor's counts (`add`) |
| `reversers` | entity extraction's Plan, or a delete request |
| `overlapped` | history: two reversals of one document overlapped |

A transaction that takes the row locks it needs before it computes from the rows
is one step. Two are not. The first statement of `DecrementForDocument` counts
the document's links under its own snapshot and only then waits for the
canonical rows, which is why it is split into `ReverseRead` and `ReverseApply`.
`MergeInto` repoints the mentions linked to the row it absorbs, adds that row's
counts to the survivor's, and deletes the row, in three statements of which only
the last locks it: `MergeRepoint`, `MergeCount` and `MergeDelete`. Its writes are
seen from the last step on, when it commits; until then whoever would write the
mentions it repointed, or delete the row they will be linked to, waits for it
(`Locked`, `Referred`), and it may fail like one of two transactions that wait
for each other (`MergeFails`). The language model's verdicts are arbitrary,
and any two entities may be candidates. A deleted document is one for which no
further batch is stored.

### SessionSweep

| Variable | Code |
|---|---|
| `now` | the wall clock, in units of the model's timeouts; the row is created at 0 |
| `session` | the `sessions` row: whether it exists, `last_active_at`, and whether `warned_at` is set |
| `docs`, `objects`, `created` | documents with a row, documents with a file, and how many were ever created |
| `requests` | where each request with the session's cookie is: the middleware's lookup, expiry check and Touch, then an upload, the deletion of a document or of a knowledge base, or anything else (`RequestEnds`) |
| `sweepers` | where each run of `src/cmd/cleanup` is, with the row it listed and the objects it has yet to delete |
| `exposed` | history: the documents whose file may outlive their row, for one of four reasons: created while a deletion of the session already had its list of documents; its object deleted while its Put was still to come; gone with its knowledge base; or stored by a Put that returned an error |

Each call to Postgres or to the bucket is a step, so a sweep acts on a row and a
list of documents that requests change behind it. The clocks are read where the
code reads them: the expiry check compares the row with the time it then writes,
and `Sweep.Run` reads the time after its list. The row's deletion cascades to
the documents, and the foreign keys refuse a document for a row that is gone
(`src/migrations/003_knowledge_bases.sql`, `004_documents.sql`,
`017_sessions.sql`). `DeleteKB` removes the rows of some documents, those of one
knowledge base, and leaves their files, as `kbHandler.delete` does; a request for
a knowledge base that is gone ends. Rejected and failed documents are documents
like any other: they have a row and count towards the quota. An object that
malware scanning removes is not modelled here, since removing one cannot break
any property.

A delete is refused while the document's scan is pending, but the scan may time
out before the upload has stored the file (`DocumentLifecycle` has that race), so
`DeleteBegin` takes any document that has a row, one in the middle of its upload
too. `ObjectsTracked` is about single documents: whatever the others went
through, a file that has no row belongs to a document that is exposed.

### Inquiry

| Variable | Code |
|---|---|
| `kb`, `inquiry` | whether the knowledge base and its inquiry have rows |
| `docs` | the documents of the knowledge base |
| `messages` | `inquiry_messages`: ordinal, role, query, documents retrieved and cited with the names stored, supersedes |
| `requests` | where each search or re-evaluation is, with what it has read |

Each Postgres call is a step, and `AppendMessage` is two, because its statement
computes the next ordinal under a snapshot and the unique index decides at the
insertion. A search whose question could not be stored goes on and stores its
answer. A message of the format from before documents carried names is among
the initial states. `orderly` is history: the search that gave an answer stored
its question and had no other beside it. `ReevaluatesItsQuestion` has it as its
hypothesis because the code needs it: with two searches at once the question
before an answer may be the other's, where `server/searchhandler.go:231-232`
says a re-evaluation repeats the query.

### SearchAnswer

`RRFMerge` with scores as integers (a common multiple of the denominators), the
order of retrieved documents, the numbers a footer cites, and the footer itself:
found in the whole answer (`FooterAt`) and hidden in a stream of deltas
(`Write`, `Flush`), which must show the same. The marker is shortened to three
letters that have no border, as the real one has none. Lower-casing may change a
text's length (U+023A is two bytes and its lower case three), although
`search/answerer.go:143-147` takes the position in the one for a position in
the other; the letter "wide" stands for it in the definitions, and the inputs
leave it out.

### RateLimiter

| Variable | Code |
|---|---|
| `memory`, `shared` | the counter of each replica, and the row all share |
| `burst`, `passed`, `told` | requests of this tick; history: what each counter let pass by age, and whether the two differed |

Both stores are asked about the same requests, so that they can be compared:
they tell a client the same unless it reaches several replicas, the database
fails (the middleware then lets the request pass) or a process restarts,
although one counts refused requests and the other does not. A window starts
with a request. Twice the limit within a window's length is therefore possible
and reached; `config/config.go:131` calls it a sliding window.

### Pagination

`list`, `gone` and `cursor` are the rows, the ids deleted and the client's
cursor; `seen`, `throughout` and `over` are history. Items may share a creation
time. A cursor whose item is gone sends the client back to the first page: it
sees items twice and still misses none.

### Communities, Louvain, GraphView

| Variable | Code |
|---|---|
| `entities`, `community`, `edges` | `canonical_entities` with `community_id` (and, as history, the run it is of), and the pairs that co-occur or are confirmed |
| `summary` | `kb_community_runs` |
| `rows`, `saves` | `kb_themes` and `kb_intrusion_tests`; results saved so far |
| `analysts` | where each request is, with what it read |

`Results` and `Response` are what a client gets: rows of themes or tests with
the `computed_at` they share, and the answer of a GET, in which an empty result
cannot be told from none. A recompute counts entities, reads nodes, reads edges and saves, four steps that
the graph changes between. Its result may be any assignment that joins nothing
unconnected (`Assignments`), which `Louvain` shows to hold of the algorithm
(`ComponentsApart`). A save of themes or tests is the DELETE, which sees the
rows committed when it begins, and the commit; so two at once may leave the rows
of both, and the properties exempt requests of a kind that overlapped.

| Variable of `Louvain` | Code |
|---|---|
| `graph`, `level`, `finalComm` | the graph, the level worked on, and the node of it that each entity is part of |
| `comm`, `sigmaTot`, `at`, `pass`, `moved` | local moving |
| `pc` | moving, done, or cancelled by the deadline |

Weights are small integers; gains and modularity are taken times the total
weight so that they stay integers, and ties are exact. The code's weights are
floating-point numbers: where gains are equal or nearly so, rounding may decide
which community a node joins, and what is proved holds of the code up to that.
The comment on `maxPasses`
(`community/louvain.go:95-97`) says every accepted move strictly increases
modularity. Leaving a community and joining another with the same gain does not,
and the model shows such moves. Modularity never falls all the same and no level
repeats, which is proved (`NoStepWorse`); the passes were never more than the
nodes on any graph the run visits (`ModularityNeverFalls`), which is not.

`GraphView` is PMI weighting and the rescue of confirmed relations, the filter
of the view shown, the selection of communities for themes and the choice of
intruders. A group of a multiple of twenty nodes keeps one more than its comment
says, because `1 - 0.95` is a little more than a twentieth in floating point;
the operator does what the code does.

### ModelAnswers

A response is a sequence of lines, each a prefix with a number or a text, in any
order and with any of them missing or repeated. The five parsers of the code are
folds over it. The property says without a fold whose answer each line is: that
of the last line before it that names an item.

## What the runs check

| Run | Instance | States | Shows |
|---|---|---|---|
| `job_dispatch` | `MCJobDispatch`, part by part: one job, two publishers, three attempts; one document, two attempts of each of its jobs | 231 466 | `TypeOK`, `OneDispatcher`, `ProgressHasRun`, `ActiveIsOwned`, `CompleteIsFinal`, `OutcomeStable`, `ImplementsLifecycle`, `AttemptsFinish` |
| `document_lifecycle` | one delivery, two requests, two attempts, ambiguous starts | 978 470 | `ProcessedWasClean`, `CleanFileKept`, `RejectedStaysFailed` |
| `document_lifecycle_live` | one delivery, one request, two attempts, one kind of loss | 292 846 | `ScanSettles`, `ProcessingSettles` |
| `document_delete` | one delivery, one request, one attempt, one loss | | a counterexample to `NoBrokenPointer` |
| `document_stale_finalize` | one delivery, one request, two attempts | | a counterexample to `StaleFinalizeDoesNothing` |
| `entity_extraction` | `MCIngestion`, part by part: two indexing attempts of each file; two batches and two extraction attempts; two edge jobs and two reviews; every small knowledge base; every short text | 2 253 794 | `IndexedIsWhole`, `RunReplacesAll`, `SavedOnce`, `EdgesComplete`, `AnswersKept`, `LegsAndLinksComplement`, `SplitCovers` |
| `region_order` | one attempt, papers with text on two pages and a table on the first | | a counterexample to `ChunksFindTheirRegion` |
| `entity_replace` | two batches, two attempts, one generation | | a counterexample to `EachRunReplacesTheLast` |
| `canonical_counts` | two documents, two texts, two canonicalizations, two alias resolutions, two reversals, at most three under way at once | 987 757 | `CountsCoverLinks`, `LinksSurvive` |
| `session_sweep` | two requests, one cleanup run at a time, a quota of one, two documents and any knowledge bases, any call failing | 1 805 511 | `ObjectsTracked`, `QuotaExcessBounded`, `SparesActiveSession`, `SessionIsSwept` |
| `inquiry` | `MCInquiry`, part by part: two requests, two queries, one document; all inputs of `SearchAnswer`; four items in pages; two replicas, a limit of two | 1 590 310 | `OrdinalsDense`, `ReevaluatesItsQuestion`, `HistoryKept`, `NamesAgree`, `StreamShowsSummary`, `SourcesRanked`, `WalkShowsAll`, `LimitHolds` |
| `communities` | `MCCommunities`, part by part: two analysts, three entities; Louvain on five nodes; all inputs of `GraphView` and `ModelAnswers` | 2 626 463 | `OneResultShown`, `SummaryFitsGraph`, `LevelsStandForGraph`, `ModularityNeverFalls`, `GraphShownIsFair`, `AnswersFindTheirItems` |

Every property of a passing run fails when one mapped definition is replaced by
a plausible mistake (the operators marked "Mutant", listed in `PROJECT.json`).

### Bounds

- `MaxAttempt`. An attempt only interacts with the attempts that replace it, so
  two attempts show every stale report and three show a stale one that is two
  behind. The bound stops new publishes; a report of an existing attempt is
  never cut off.
- `MaxPublished` of DocumentProgress: two attempts of each job, a publication and
  the owner's request for another, or a repeated one. `MayBeTold` (a state
  constraint) stops at states in which the list is excused, of which nothing is
  claimed, and does not list a document that is not indexed, which nobody is
  told to be complete.
- Publishers, `Requests`: two, because every hazard here is a check of one
  process and a write of another.
- `Deliveries`: one process that returns to "idle" and may deliver again any
  number of times, next to the timeout, which can reject as well.
- `MaxLosses`: how many kinds of process die in one behaviour. With 0 the safety
  run shows what the interleavings alone can do; with 1 the liveness run shows
  which loss excuses which property. `AmbiguousStart` is the one lost reply that
  changes what is true (below), so it has a constant of its own.
- `MaxGenerations`: two, a replacement under a reader. `MaxBatches` of
  CanonicalCounts: one batch per document, of any non-empty set of texts; the
  counts of one entity then come from two documents or from two aliases of one.
- `MaxRows`: two rows per text, so that one is deleted and created again under
  whoever still holds the first's id. `MaxCount` bounds how far repeated, lost
  canonicalizations may raise a count.
- `MaxAtOnce` of `canonical_counts` (its constraint `FewAtOnce`): at most three
  of its canonicalizations, alias resolutions and reversals are under way at once;
  a text whose row was created again counts as one of them. Two merges and a
  third run, or a merge between two others, show each way to get between its
  statements; the theorems hold for any number.
- `NotOverlapped` (a state constraint of `canonical_counts`) stops at states in
  which two reversals of one document overlapped: both properties exempt
  everything after it, so nothing is lost.
- `HardCap`, `IdleTimeout`, `WarningLeadTime` of SessionSweep: 3, 2 and 1. Time
  stops at `HardCap`, when both clocks have run out and stay so; before that the
  idle clock can run out alone, be reset by a Touch, and a warning can come
  before either. `MaxDocuments`: as many as two requests can hold at once under
  a quota of one.
- `Sweepers`: one run at a time, which starts again any number of times. The
  scheduler starts one every 15 minutes (`src/cmd/cleanup/main.go`); the theorems
  hold for any number at once.
- `MCUploads`, `MaxIndexAttempt`, `MaxInserts` of ChunkIndexing: texts of no, one
  and two windows, an image, a paper of two pages; two attempts and two
  insertions, so that one replaces the chunks under the other. `MCPapers` of
  `region_order` is the paper of its counterexample, at either number of windows.
- `FileIsRead` of DocumentLifecycle: whether indexing needs the stored file, as it
  does unless the file is an image. FALSE allows every behaviour of TRUE, and is
  what the safety run checks; the others are about a file that is read.
- `Names`, `MCFound`, `MaxEntitiesForEdges` of KnowledgeGraph: four names in a
  chain through three chunks, of which one may be oversized: three edges are the
  longest walk the queries look at. `MaxReplacements`, `MaxRuns`, `MaxReviews`:
  two, a replacement or a second job under a reader; `MaxChunks`: three, as many
  as edges of a walk.
- `MaxBytes`, `MaxRune` of Splitter: 8 and 3. A window then has neighbours on both
  sides for every relation of size, overlap and rune, and a text may end in a
  window shorter than the rest.
- `MaxMessages` of Inquiry: no request begins after three messages, and those that
  have begun store up to six: a question and its answer, and then two searches,
  two generations of re-evaluations, or a re-evaluation behind another request's
  turn.
- `MaxText`: six letters hold two markers of three, or one with its beginning
  before it. `MaxRanks`: three chunks in either leg, so that one in both legs can
  be last in each. The assumption `MaxRanks <= 61` of the proofs is the code's: a
  leg returns at most `k` chunks, which is 12 (`search/service.go:22`), and from
  62 on a chunk last in both legs may score less than the first of one. `Limit`, `Window`, `MaxBurst`: 2, 2 and 3, a request refused
  within a tick, and two windows that touch. `Items`, the page limits: four items
  in pages of two or three, as `parsePagination` would limit them.
- `MaxGraphEntities`: two of three entities, so that the limit is passed by one
  that appears. `MaxSaves`: three, two runs that overlap and one after.
  `MaxChangingSaves`: the graph changes before the first save, and the later ones
  find what it left. `OneKind`, a state constraint, keeps themes and tests from
  being saved in one behaviour: nothing reads both.
- `N`, `MaxEdges`, `MaxWeight` of Louvain: every graph of up to four edges on five
  nodes with weights 1 and 2, in two orders. Two levels are reached, and ties.
  `MaxPasses` is the code's.
- `GroupCap`, `GroupShare`: 2 and 4 where the code has 20 and 20, so that both
  kinds of group fit into four nodes. Sizes of communities go to 101, past every
  boundary of "a twentieth, at most five".
- `Items`, `MaxLines`, `MaxThemes` of ModelAnswers: five lines hold two blocks with
  an answer each and one line out of place.
- Symmetry is used in the runs without liveness only, over deliveries, requests,
  batches, documents, texts, entities and runs; no property names one of them.
- `CHECK_DEADLOCK FALSE`: the system stops when nobody publishes, uploads or
  requests anything any more, which is a normal end.

### Fairness

In `JobDispatch` a publisher that does not die finishes its call, and Step
Functions keeps driving an execution it started: weak fairness of each, without
the losses. (`MCSpec` states it for the part of `JobDispatch`; in the part of
`DocumentProgress` nothing is published by it, so that nothing is owed.) In
`DocumentLifecycle` the same holds for the upload once begun,
the timeout (its Wait ends), each delivery and each request once begun.
`RunError` is strongly fair: the state machines retry a step three times, so a
step that fails again and again does fail for good. No fairness makes a user
delete or retry, or GuardDuty report anything; the scan settles by its timeout. In `SessionSweep` time passes
and cleanup runs are started and continued (the scheduled task); nothing is
assumed of requests. `SessionIsSwept` has as its hypothesis that deletions of
objects and cleanup runs eventually stop failing. The other modules state no
liveness: `AttemptsFinish` and `ProcessingSettles` are what ends their
executions, and nobody has to ask, review or recompute.

### What the counterexamples show

- **A delete that stops half way** (`document_delete`). `delete` removes the
  object and then the row. Its comment (`server/dochandler.go:526-529`) says a
  failure between the two leaves "a harmless orphan (file without a row)",
  "preferable to a broken pointer (row without a file)". It leaves the broken
  pointer: an indexed document whose content can no longer be read. The delete
  can be repeated.
- **A stale Finalize** (`document_stale_finalize`). `docindex` says that a step
  running for an attempt that is no longer current does nothing
  (`pipeline/docindex/docindex.go:17-19`). `Finalize` compares the attempt only
  in its last call, MarkSucceeded, after it marked the document indexed. It
  needs an execution that outlives its attempt: a StartExecution that took
  effect and reported an error, so that the attempt was marked failed and the
  redelivered scan result started the next.

- **An extraction that does not replace the last** (`entity_replace`). One batch
  of attempt 1 fails for good while the invocation that persists another is past
  its checks. The user extracts again; attempt 2's Plan clears the entities; the
  old invocation saves; attempt 2 finds the batch done and keeps what it found.
  Past the same check it would save a second copy. The handler says "each run
  fully replaces the last, it never accumulates duplicates"
  (`server/dochandler.go:713-714`). `SavedOnce` and `RunReplacesAll` show that
  this needs a late write: no failure, retry or replacement of chunks in the
  attempt itself can do it.
- **A chunk with another's region** (`region_order`). `buildChunks` takes a
  chunk's region by its place in the list of detected regions out of the
  manifest as it was listed, "in the same order as resolved (both page order, top
  to bottom)" (`pipeline/regionclassify/regionclassify.go:416-418`). The
  layout job writes the text of all pages first and the tables after; the
  manifest is listed by page. A paper with text on two pages and a table on the
  first has chunks of the second page that point to a region of the first page,
  however Postgres orders the two regions of that page: to the table if the text
  is listed first, and to the text otherwise. The table's chunk points to the
  second page either way.
  `IndexedIsWhole` shows that without tables every chunk finds its own.

The ambiguity of StartExecution is also why the liveness run has
`AmbiguousStart = FALSE`: with it a stale execution can put a document back into
processing after the newer attempt failed, and `ProcessingSettles` would not
hold. Smaller disagreements between the code and its comments that no run of
their own shows are named in the modules' sections above.

## What is proved

Every theorem is about the specification of one module (`Spec`, or the one it
names), for every value of its constants that its assumptions allow. A run of a
composed instance uses `MCSpec`, whose behaviours are, seen by one part, those
of that part's specification. The assumptions ask for no more than that bounds
and limits are numbers, that data are finite where they are counted, and that a
null or an absent row is none of the ids, all of which the code's types give.
Where something else is assumed, it is named below.

Hardly any of the properties is inductive alone. Each section gives the
strengthening (`IInv` unless named otherwise) and why it takes that. Its lemmas
come in the same order everywhere: about the operators, then one per action,
then the theorems.

### JobDispatchProofs

| Theorem | Statement |
|---|---|
| `TypeCorrect` | `Spec => []TypeOK` |
| `Inductive` | `Spec => []IInv` |
| `OneDispatcherHolds` | `Spec => []OneDispatcher` |
| `ProgressHasRunHolds` | `Spec => []ProgressHasRun` |
| `ActiveIsOwnedHolds` | `Spec => []ActiveIsOwned` |
| `OutcomeStableHolds` | `Spec => OutcomeStable` |
| `ImplementsLifecycleHolds` | `Spec => ImplementsLifecycle` |
| `CompleteStays` | `ProgressSpec => []CompleteIsFinal` |

For `JobDispatch`: every set of keys and publishers and every positive
`MaxAttempt`. That two publishers never handle the
same attempt needs to know that no publisher is ahead of its record
(`PublishersNotAhead`): a fresh attempt number is then larger than any number in
use. That progress has an execution needs the same of executions
(`RunsNotAhead`), because a report counts only if its attempt is current. That
an active job is owned needs to know that an ended execution left a decided
record behind (`EndedIsDecided`), which is where RecordFailure's place in every
state machine enters. `RecordsOK` ties deleted keys to absent records. `IInv` is
their conjunction with the three properties and `TypeOK`.

The lemmas come first about the two rules (`EnqueueRule`, `TransitionRule`),
then about what one row write does to the store (`StoreStep`,
`RowWriteRefines`), and one per action or group of actions on `IInv`
(`PublishSafe`, `RunSafe`, `DeleteSafe`). The refinement follows from `IInv` and
the row lemma: an Enqueue that starts an attempt is a Begin, a Transition that
finishes one is a Finish, everything else is a stutter.

For `DocumentProgress`: every number of attempts of each job. `ProgressInv`
says of a list that nothing excuses (`Orderly`) that whatever may publish a job
is active itself, or is the scan of a document nobody has begun to index; so
once no job is active, none is published. A document read as indexed has had an
attempt of indexing, which is why reading the documents first is enough.

### DocumentLifecycleProofs

| Theorem | Statement |
|---|---|
| `Invariant` | `Spec => []IInv` |
| `OnlyCleanIsProcessed` | `Spec => []ProcessedWasClean` |
| `CleanIsKept` | `Spec => []CleanFileKept` |
| `RejectedIsFinal` | `Spec => RejectedStaysFailed` |

Any number of deliveries, requests and attempts, any losses, ambiguous starts or
none. Processes of different kinds are different (`ActorsAreDistinct`), which is
how the constants name them. Everything hangs on the scan record, and the
strengthening says how far each process may be for each state of it:
`NothingScanned` (before the record exists nobody has anything to go by),
`StoredIsScanned` (the file is stored only by an upload that recorded its scan),
`OnlyCleanStarts` (whoever is about to start an execution, or has started one,
found the scan settled) and `RemovedForCause` (a file is removed by a request
that goes on to delete the row, or by a scan that rejected it). The scan's
settlement is final because `Transition` refuses a second outcome of one attempt.

### IngestionProofs

| Theorem | Statement |
|---|---|
| `Invariant` | `Spec => []IInv` |
| `LatestReplacesAll` | `Spec => []RunReplacesAll` |
| `NoBatchTwice` | `Spec => []SavedOnce` |
| `IndexInvariant` | `IndexSpec => []IndexInv` |
| `IndexedStaysWhole` | `IndexSpec => []IndexedIsWhole` |
| `WindowsCover` | `fed \in Fed \cup {NothingFed} => SplitCovers` |

For `ChunkIndexing`: any files whose pages are finitely many, any number of
attempts and of insertions. Half of `IndexInv` holds whatever overlaps:
`RowsFit` says that chunks are inserted and deleted all at once, so that a
listing with as many rows as the file has chunks is one insertion
(`ListedAreOneInsertion`), and, being sorted by ordinal, lists each chunk at
its own place (`ListedInOrder`). That is why a backfill that matches by place
alone stores no vector but the chunk's own, even in an attempt that was replaced.
The other half, `Unspoiled`, holds while nobody wrote who was no longer current:
`CurrentFits` says what the rows are at each step of the current attempt, and
that a document it has still to write is not indexed. Of two attempts one is not
current, so that a step of one leaves the other's part alone (`AttemptStep`).
Without tables the pages of the detected regions increase, and so the manifest,
listed by page, is in the order of detection (`RegionsByPage`).

For `EntityExtraction`: any number of batches, attempts and replacements of the
chunks. `NotYetSaved`
says that an invocation about to save a batch is not among the attempts that
saved it. `OnlyCurrentWrote` is what holds while nobody wrote late: of the
chunks the current attempt planned from, nothing is saved but its own batches,
and at `Finalize` all of them. A replacement of the chunks makes both hold of
nothing, since the attempt then planned from another generation.

For `Splitter`: any text, size and overlap; the hypothesis holds of every state,
as nothing changes what was fed. `WindowAndNext` is the arithmetic of one round
of the loop: the window is not empty, the next starts inside the text, after
this one's start and before its end, and ends no earlier; with steps no shorter
than a rune both offsets are rune starts, since the last rune start before an
offset is less than `MaxRune` bytes away (`LastStart`). That the loop ends, so
that the recursive function exists (`LoopExists`), and that the windows from
each offset on are as `SplitCovers` says (`LoopCovers`) are inductions by hand,
from the end of the text down.

### KnowledgeGraphProofs

| Theorem | Statement |
|---|---|
| `Invariant` | `GraphSpec => []IInv` |
| `EdgesAreComplete` | `GraphSpec => []EdgesComplete` |
| `AnswersStay` | `GraphSpec => AnswersKept` |
| `LegsComplement` | `walk \in Walks \cup {NoWalk} => LegsAndLinksComplement` |

Any document, any number of edge jobs and reviews at once, any limit on the
entities of a chunk; names are numbers, as they are compared. What a process
has read is related to what is there now: `JobKnows` (the mentions a job listed
are those there are, unless they were replaced or added to), `ReviewKnows` (a
review that is alone of its kind is the only one to answer what it read) and
`Alone`. `EdgesFit` and `LinksFit` say of the rows that they join mentions there
are.

For `GraphLegs`: any finite set of entities and any set of chunks; the
hypothesis holds of every state, as nothing changes a walk. A knowledge base
has finitely many entities, or `Cardinality` would count nothing. Both sides of
`LegsAndLinksComplement` are first said of single entities (`SymIs`, `ReachIs`,
`HopsAre`): an edge is a chunk with both its ends, and reaching an entity is a
path of at most that many edges. `NearIsFound` then follows a path from its
seed, whose first edge is a chunk of the first leg, and whose second is one of
either. `ChainsAreThreeApart` drops from three_hop's walks the tests that they
do not turn back: one that did would be a shorter path, which the query excludes
as well.

### CanonicalCountsProofs

| Theorem | Statement |
|---|---|
| `Invariant` | `Spec => []IInv` |
| `CountsCover` | `Spec => []CountsCoverLinks` |
| `LinksStay` | `Spec => LinksSurvive` |

Any finite number of documents and texts, any number of runs of each kind, with
or without lost calls and cascades. `Covered` is an account of each count. It is
charged with the mentions linked, document by document, or with what a reversal
read of that document and is about to subtract, if that is more (`Held`), and
with what each canonicalization has counted and not linked yet (`Pending`). A
count is at least the sum; each transaction moves charges from one kind to the
other, merges them, or pays for new ones. Charges of a document are numbered
from 1, so that the greater of two is the union of two sets, and every step is
an inequality between cardinalities of finite sets.

Of a merge under way, `MergesFit` says that the mentions it repointed are still
linked to the row it deletes, and that the row they go to is there: whoever would
change either waits for the merge (`LockedLinked`, `LockedStay`). `AddCovers` says
that what it will add to the survivor's counts is enough for those mentions. What
was counted or linked for the deleted row since goes with the row, which is the
exception in `LinksSurvive`, and leaves no mention uncounted.

### SessionSweepProofs

| Theorem | Statement |
|---|---|
| `Typing` | `Spec => []TypeOK` |
| `QuotaExcess` | `Spec => []QuotaExcessBounded` |
| `FilesTracked` | `Spec => []ObjectsTracked` |
| `ActiveSpared` | `Spec => SparesActiveSession` |

Every finite set of requests, every set of cleanup runs, every quota and any
timeouts with `IdleTimeout <= HardCap`. `Typing` is no run's property, but the
others rest on it.
The bound on the quota is inductive as `QuotaExcessBounded` states it, with the
requests past their check counted in: a check that lets another one through
found fewer documents than the quota, and creating a row moves one from the
requests to the documents. For
the files, `TrackInv` is about each document that has a file or whose upload will
store one (`Kept`). If it is not exposed, it has a row (`KeptTracked`), and a
cleanup run past its list that failed nothing has yet to delete its object
(`SweepTracked`). A document is uploaded once (`UploadedOnce`), so that none is
kept when an upload is abandoned or a deletion comes to the row (`RowGoesLast`).
For `SparesActiveSession`, `SweepDecided` carries the decision through the
deletion: a run past it holds a last activity that has expired by now, because
time only advances.

### InquiryProofs

| Theorem | Statement |
|---|---|
| `Invariant` | `Spec => []IInv` |
| `TurnsAreNumbered` | `Spec => []OrdinalsDense` |
| `SameNamesShown` | `Spec => []NamesAgree` |
| `SameQuestionAgain` | `Spec => []ReevaluatesItsQuestion` |
| `TurnsAreKept` | `Spec => HistoryKept` |
| `LimitAlwaysHolds` | `LimiterSpec => []LimitHolds` |
| `WalkIsComplete` | `PageSpec => []WalkShowsAll` |
| `StreamIsSummary` | `StreamShowsSummary`, for each input |
| `SourcesAreRanked` | `SourcesRanked`, for each input |

Any number of requests, queries, documents and messages; the one document of
the old format (`OldDoc`) is not among those there are. An ordinal that a
request has read is at most the number of messages (`Fits`), and the unique
index refuses a smaller one, so that ordinals stay dense. A message supersedes
an earlier answer to the same query (`Told`), and a request that holds an answer
to supersede holds that answer's query (`AnswerTo`). That the root of a chain of
re-evaluations has that query too is an induction along the chain, whose ids
decrease; it is carried out by hand, from the least element of a set of numbers
(`Least`, `Induction`, `ChainInduction`), since the library's induction theorems
cannot be used.

For `RateLimiter`: any number of replicas, any limit, window and burst. `Fit`
bounds what each counter let pass within a window by what it counts, for each
age of a request; the sum over ages is again an induction by hand. The agreement
of both stores is part of `LimitHolds`: while `told.alike`, one replica's
counter is the row's up to the limit and no other is in a window (`Alike`).

For `Pagination`: any finite set of items, any limits. `Walked` says that an item
seen is there or gone, so that none returns as another; that what was there
throughout and is up to the cursor was seen; and that, unless a cursor was gone,
nothing behind the cursor was. A page is what follows the cursor up to the next
one (`OnePage`), because each item's place in the list is the number of those up
to it (`Places`, `SortedRows`).

For `SearchAnswer`: texts of any length and rankings of any chunks up to
`MaxRanks`, which is assumed to be at most 61 (see Bounds). The footer filter is a
fold over the deltas; `Streamed` says what it has shown and what it holds after
any number of letters, whatever the deltas were: all of the text but what may
begin a marker, and of what precedes a marker everything. The scores are sums of
fractions over a common multiple, and need no more of it than that each place's
share is between `Scale / 121` and `Scale / 61`: two shares of a chunk in both
legs are then no less than one of a chunk in one leg. That a sorted list is one
(`Ordered`) needs that in a finite set each place is taken by exactly one member,
which is an induction by hand on the set.

### CommunitiesProofs

| Theorem | Statement |
|---|---|
| `Invariant` | `CommunitySpec => []IInv` |
| `ShownIsOneResult` | `CommunitySpec => []OneResultShown` |
| `SummaryWithinGraph` | `CommunitySpec => []SummaryFitsGraph` |
| `GraphIsShownFairly` | `GraphShownIsFair`, for each input |
| `AnswersFindItems` | `AnswersFindTheirItems`, for each response |
| `LevelsStand` | `LouvainSpec => []LevelsStandForGraph` |
| `NoStepIsWorse` | `LouvainSpec => [][NoStepWorse]_louvainVars` |

Any finite set of entities, any number of requests and any limit. `Overwrites`
says that an orderly recompute has read every entity that carries a community,
so that its save leaves no older one; `Replaces` that what a save of themes or
tests does not see was stored by one that overlapped it; `SeesGraph` what a
recompute knows unless the graph grew under it. `SavedTogether` says of the rows
what `OneResultShown` says of the response. That n entities have at most
n(n - 1)/2 pairs (`SummaryFitsGraph`) is an induction by hand on finite sets.

For `GraphView`: any number of nodes and mentions and any positive caps. The
weight is compared by multiplying out, so that `MoreByChance` is an inequality of
products. What is shown of a group too large is any set of its members closed
under higher degrees, which `SmallSpared` needs to say of one group at a time.
The sizes of communities and the draws of intruders are fixed lists among the
inputs, but the lemmas behind them are not about those: `TwentiethIsDescribed`
and `IntrudersQualify` hold for every list of sizes and every draw.

For `ModelAnswers`: any number of items and of lines. Each parser is a fold from
the first line to the last. What it has read is described for any set of lines
(`AnswersOf`, `CurrentAfter`, `EndedAfter`), the description of a set is that of
the set without its last line and one step of the parser (`AnswersGrow`,
`PartGrows`, `EndedGrows`), and two readings that take the same step are equal
after each number of lines (`AlikeInTheEnd`). So the fold, which the library
defines by a choice among functions, equals the description (`NumberedIs`,
`PairsAre`, `ThemesAre`), and the property is read off that. For themes, a line
that begins one comes after all earlier ones, and the sorted list of beginnings
grows at its end (`OrderedGrows`).

For `Louvain`: any number of entities and edges and any natural weights. The
library defines the sum of a function over a set by a choice, so the section
"Sums" first shows, by an induction by hand on finite sets, that a sum adds up
over disjoint parts (`SumAdds`), over the classes of a partition (`SumOfParts`),
and under a renaming (`SumRenamed`). The invariant is `LevelInv`:

- `Stands`: every entity is part of one node of the level; a node's loop is the
  weight of the entities' edges inside it, and the edges between nodes weigh, for
  any choice of pairs of nodes, what the entities' edges between those pairs do.
  `LevelsStandForGraph` speaks of degrees only and is not inductive: the next
  level's degrees and the gains on this one are made of loops and edges.
- `Totals`, `Emptied`: a community's running total is the sum of the degrees of
  its nodes, nothing if it has none. A visit changes two totals by differences.
- `ComponentsApart`, which a visit keeps because only a community across an edge
  can gain (`BestCommIs`), and there are entities at both ends of an edge of a
  level (`EdgesMet`).

`Aggregate` keeps `Stands` because communities renumbered in the order of their
first nodes are the numbers from 1 without a gap (`CompactIs`), and the edges
between two of them, summed, are one edge (`BetweenSums`, `AggregatedFits`).
For `NoStepIsWorse`: the names of communities do not matter to modularity
(`QualityOfNames`), so that `Aggregate` leaves it alone (`FoldKeepsQ`). A visit
changes the shares of two communities, and these together by twice what joining
the one gains over staying in the other (`EnteredSums`, `GainIsTwice`), which is
never negative: a community is joined only if it gains no less than staying
would, or than nothing where the node has no edge into its own
(`VisitImproves`). A level is smaller than the one before because once a node has
left it, a community is empty (`Emptied`).

### Only model-checked

- Liveness (`AttemptsFinish`, `ScanSettles`, `ProcessingSettles`,
  `SessionIsSwept`): the prover has no rules for fairness.
- Of `ModularityNeverFalls`, that the passes over a level are never more than the
  graph's nodes. No invariant of a step implies it, a move on a tie gains nothing
  that could be counted, and the run finds it on every graph of five nodes and
  four edges. The rest of that property is `NoStepIsWorse`.

## What is not modelled

`PROJECT.json` lists every component with its reason. Left out within the
modules above:

- what a language model, an embedding model or a vision model answers: any
  answer, or a failure. How answers are read is modelled (`ModelAnswers`);
  prompts are not;
- the rankings of the vector and keyword legs, which are Postgres's own, the
  LIMITs of the graph queries, and the recognition of names in a query;
- HTTP validation, tenancy, event encoding, and the 90 days after which an
  execution name may be used again;
- floating point, except where a boundary depends on it (`GraphView`);
- in `DocumentLifecycle`, delete's decrement of canonical counts, which is in
  `CanonicalCounts`; its failure is a lost request like any other. An object that
  lands after its row was deleted is reachable (`UploadPut` after a delete),
  nothing in the code claims to collect it, and `ObjectsTracked` of
  `SessionSweep` excuses it;
- in `SessionSweep`, the banner's reads and usage counters. A request that finds
  its session expired just ends: the new session it gets has nothing in common
  with the old one;
- in `CanonicalCounts`, two overlapping reversals of one document. Each counts the
  links under its own snapshot, so that the counts may be taken off twice
  (`canonical/pgstore/pgstore.go:110`); the properties stop there;
- deadlocks between Postgres transactions: `SaveResult` of communities updates
  rows in the order of a Go map, so that two at once may deadlock, and one of
  them then fails like any call.

Consequences of the design that are exceptions of properties, and not
counterexamples: a document created while its session is being deleted, or
deleted before its upload has stored the file, leaves a file that no row leads
to, as do all documents of a knowledge base that is deleted, whose objects
nothing removes; a mention linked to an identity between a merge's first and last
statement is unlinked when that row goes, until its document is canonicalized
again; several requests at once may store
more documents than `MaxDocumentsPerSession`, by one for each after the first;
two recomputes of communities at once mix their ids; and a knowledge base whose
last recompute found no themes looks as if none was ever made.

The command-line tools under `src/cmd` other than those named, the web front end,
scripts and Terraform (except the state machines, which `JobDispatch` follows)
have no protocol of their own.

## Plan

What would be proved next, in order of importance:

1. `Louvain`: a bound on the passes over a level, if there is one for all graphs;
   ties leave the code's cap as the only one known.
2. `CanonicalCounts`: what remains true once two reversals of one document
   overlapped (a count may then be too small, by what one of them read).

Each run has one question; the budget is one safety run per area, a liveness
run where something must eventually happen, and a violation run for a
disagreement between the code and its comments.
