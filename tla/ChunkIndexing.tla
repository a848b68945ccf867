---------------------------- MODULE ChunkIndexing ----------------------------
(***************************************************************************)
(* How one document becomes chunks with vectors: the steps of document     *)
(* indexing (docindex) and of region classification (regionclassify), the  *)
(* embedding tail both end with (embedtail), and a backfill of vectors     *)
(* (reembed) beside them.  Each call to Postgres or to the scratch bucket  *)
(* is a step; an attempt may overlap the one it replaces, if that was      *)
(* started although its start was reported to fail.                        *)
(*                                                                         *)
(* A file's text and regions are always the same, so a chunk's text is     *)
(* known by its ordinal, and so is the vector made of it.  A row's id is   *)
(* the insertion it came with and its place in that.  The entity           *)
(* extraction published meanwhile is the one of EntityExtraction.          *)
(***************************************************************************)
EXTENDS JobStatus, Sequences, SequencesExt, Functions, FiniteSets

CONSTANTS
    Uploads,            \* bound: the files there may be
    MaxIndexAttempt,    \* bound: attempts
    MaxInserts          \* bound: insertions of chunks, and of a manifest

ASSUME UploadsAreFiles ==
    \A u \in Uploads : /\ u.windows \in Nat
                       /\ \A pages \in {u.texts, u.tables} : pages \subseteq Nat /\ IsFiniteSet(pages)
ASSUME IndexBounds == {MaxIndexAttempt, MaxInserts} \subseteq Nat \ {0}

IndexAttempts == 1 .. MaxIndexAttempt

VARIABLES
    upload,         \* the file
    docStatus,      \* documents.status
    record,         \* the status record of its indexing job
    execs,          \* execs[a]: the execution of attempt a
    unsure,         \* attempts whose start was not answered yet
    scratch,        \* attempts whose texts, and vectors, are in the scratch bucket
    manifest,       \* ingestion_manifest: page of its rows, by id
    chunkRows,      \* chunks: region and vector of its rows, by id
    inserts,        \* insertions of a manifest, and of chunks, so far
    overtaken       \* history: did an attempt write when no longer current?

indexState == <<manifest, chunkRows, inserts>>
indexVars == <<upload, docStatus, record, execs, unsure, scratch, indexState, overtaken>>

NoRegion == <<0, 0>>
NoVector == 0
NotStarted == [pc |-> "none", already |-> FALSE, listed |-> <<>>, at |-> 0]

IndexInit ==
    /\ upload \in Uploads
    /\ docStatus = "pending"
    /\ record = NoRecord
    /\ execs = [a \in IndexAttempts |-> NotStarted]
    /\ unsure = {}
    /\ scratch = {}
    /\ manifest = <<>> /\ chunkRows = <<>>
    /\ inserts = [manifest |-> 0, chunks |-> 0]
    /\ overtaken = FALSE

-----------------------------------------------------------------------------
(* Files                                                                   *)

\* The numbers in S from the least to the greatest.
InOrder(S) ==
    [k \in 1 .. Cardinality(S) |-> CHOOSE x \in S : Cardinality({y \in S : y <= x}) = k]

\* What the layout job writes: first the text of every page that has some,
\* then every table (extract_regions.py).  All are boxed as the whole page.
LayoutResult(u) ==
    LET region(p) == [page |-> p, needsVLM |-> "", text |-> TRUE]
        regions(S) == [k \in 1 .. Cardinality(S) |-> region(InOrder(S)[k])]
    IN  regions(u.texts) \o regions(u.tables)

\* An image is one figure.
RawRegions(u) ==
    IF u.kind = "pdf" THEN LayoutResult(u)
    ELSE <<[page |-> 1, needsVLM |-> "describe", text |-> FALSE]>>

\* resolve, as to whether the region is indexed or skipped.
Indexed(raw) == raw.needsVLM = "" /\ raw.text

\* The file's chunks in order, each as the place of its region; a text is
\* split into u.windows.
Splits(u) ==
    LET raws == RawRegions(u)
        places == IF u.kind = "text" THEN <<0>>
                  ELSE InOrder({i \in DOMAIN raws : Indexed(raws[i])})
    IN  [k \in 1 .. Len(places) * u.windows |-> places[(k - 1) \div u.windows + 1]]

IsText == upload.kind = "text"
Chunked == Len(Splits(upload)) > 0

-----------------------------------------------------------------------------
(* Attempts                                                                *)

IsCurrent(a) == record.attempt = a /\ Active(record)
Overtaken(a) == overtaken' = (overtaken \/ ~IsCurrent(a))
ExecAt(a, pc) == execs[a].pc = pc
ExecGoto(a, pc) == execs' = [execs EXCEPT ![a].pc = pc]

\* ingest.Start, of the scan's result or a retry of a failed document.
StartAttempt ==
    /\ Started(record) /\ record.attempt < MaxIndexAttempt
    /\ LET a == record.attempt + 1
           retried == IF docStatus = "failed" THEN {"failed", "pending"} ELSE {docStatus}
       IN  \/ /\ record' = Enqueue(record)
              /\ ExecGoto(a, "begin")
              /\ unsure' = unsure \cup {a}
              /\ docStatus' \in retried
           \/ /\ record' = MarkFailed(Enqueue(record), a, "dispatch")
              /\ UNCHANGED <<execs, unsure, docStatus>>
    /\ UNCHANGED <<upload, scratch, indexState, overtaken>>

\* The start is reported to have failed; a retry fails the document again.
StartFailed(a) ==
    /\ a \in unsure
    /\ unsure' = unsure \ {a}
    /\ record' = MarkFailed(record, a, "dispatch")
    /\ docStatus' \in {docStatus, "failed"}
    /\ UNCHANGED <<upload, execs, scratch, indexState, overtaken>>

\* Prepare, StageLayout and BuildChunks begin with MarkProcessing, which
\* tells an attempt that is no longer current to do nothing.
CheckAttempt(a) ==
    /\ execs[a].pc \in {"begin", "check"}
    /\ record' = MarkProcessing(record, a)
    /\ ExecGoto(a, CASE Superseded(TransitionError(record, a, "processing")) -> "ended"
                     [] ExecAt(a, "begin") -> "get"
                     [] OTHER -> "clearManifest")
    /\ UNCHANGED <<upload, docStatus, unsure, scratch, indexState, overtaken>>

\* A document that is indexed is left as it is.
GetDocument(a) ==
    /\ ExecAt(a, "get")
    /\ LET already == docStatus = "indexed"
       IN  execs' = [execs EXCEPT ![a].already = already,
                                  ![a].pc = IF already THEN "succeed" ELSE "markDoc"]
    /\ UNCHANGED <<upload, docStatus, record, unsure, scratch, indexState, overtaken>>

\* A text is split next, if there is any; a PDF's layout is found first.
MarkDocument(a) ==
    /\ ExecAt(a, "markDoc")
    /\ docStatus' = "processing"
    /\ Overtaken(a)
    /\ ExecGoto(a, CASE IsText -> IF Chunked THEN "clearChunks" ELSE "getDone"
                     [] upload.kind = "pdf" -> "layout"
                     [] OTHER -> "check")
    /\ UNCHANGED <<upload, record, unsure, scratch, indexState>>

\* The layout job.
LayoutJob(a) ==
    /\ ExecAt(a, "layout")
    /\ ExecGoto(a, "check")
    /\ UNCHANGED <<upload, docStatus, record, unsure, scratch, indexState, overtaken>>

-----------------------------------------------------------------------------
(* BuildChunks and Prepare                                                 *)

\* manifest.DeleteByDocument; a chunk whose region goes stays without one.
ClearManifest(a) ==
    /\ ExecAt(a, "clearManifest")
    /\ manifest' = <<>>
    /\ chunkRows' = [c \in DOMAIN chunkRows |-> [chunkRows[c] EXCEPT !.region = NoRegion]]
    /\ Overtaken(a)
    /\ ExecGoto(a, "createManifest")
    /\ UNCHANGED <<upload, docStatus, record, unsure, scratch, inserts>>

\* Regions of an image or a PDF, of the pages they were found on.
CreateManifest(a) ==
    /\ ExecAt(a, "createManifest")
    /\ inserts.manifest < MaxInserts
    /\ LET raws == RawRegions(upload)
           new == {<<inserts.manifest + 1, i>> : i \in DOMAIN raws}
       IN  manifest' = [r \in DOMAIN manifest \cup new |-> raws[r[2]].page]
    /\ inserts' = [inserts EXCEPT !.manifest = @ + 1]
    /\ Overtaken(a)
    /\ ExecGoto(a, "listManifest")
    /\ UNCHANGED <<upload, docStatus, record, unsure, scratch, chunkRows>>

\* replaceManifest, in two transactions.
ReplaceManifest(a) == ClearManifest(a) \/ CreateManifest(a)

\* manifest.ListByDocument: by page and height, and in any order beyond.
ListManifest(a) ==
    /\ ExecAt(a, "listManifest")
    /\ \E list \in SetToSeqs(DOMAIN manifest) :
          /\ \A i, j \in DOMAIN list : i < j => manifest[list[i]] <= manifest[list[j]]
          /\ execs' = [execs EXCEPT ![a].listed = list, ![a].pc = "clearChunks"]
    /\ UNCHANGED <<upload, docStatus, record, unsure, scratch, indexState, overtaken>>

\* Without chunks there is nothing to embed.
ClearChunks(a) ==
    /\ ExecAt(a, "clearChunks")
    /\ chunkRows' = <<>>
    /\ Overtaken(a)
    /\ ExecGoto(a, IF Chunked THEN "createChunks" ELSE "getDone")
    /\ UNCHANGED <<upload, docStatus, record, unsure, scratch, manifest, inserts>>

\* buildChunks gives a chunk the region listed at the place its own was
\* detected; the insertion fails if one of these is gone.
CreateChunks(a) ==
    /\ ExecAt(a, "createChunks")
    /\ inserts.chunks < MaxInserts
    /\ LET split == Splits(upload)
           gen == inserts.chunks + 1
           listed == execs[a].listed
           region(k) == IF split[k] \in DOMAIN listed THEN listed[split[k]] ELSE NoRegion
           new == {<<gen, k>> : k \in DOMAIN split}
       IN  /\ \A k \in DOMAIN split : region(k) \in DOMAIN manifest \cup {NoRegion}
           /\ chunkRows' = [c \in DOMAIN chunkRows \cup new |->
                              IF c \in new THEN [region |-> region(c[2]), vector |-> NoVector]
                              ELSE chunkRows[c]]
    /\ inserts' = [inserts EXCEPT !.chunks = @ + 1]
    /\ Overtaken(a)
    /\ execs' = [execs EXCEPT ![a].listed = <<>>, ![a].pc = "stage"]
    /\ UNCHANGED <<upload, docStatus, record, unsure, scratch, manifest>>

\* SetPhase, at which a superseded attempt does not stop, and the texts.
Stage(a) ==
    /\ ExecAt(a, "stage")
    /\ record' = IF IsText THEN record ELSE SetPhase(record, a, "embedding")
    /\ scratch' = scratch \cup {a}
    /\ ExecGoto(a, "embed")
    /\ UNCHANGED <<upload, docStatus, unsure, indexState, overtaken>>

\* The embedding job makes a vector of each text.
EmbedJob(a) ==
    /\ ExecAt(a, "embed")
    /\ ExecGoto(a, "list")
    /\ UNCHANGED <<upload, docStatus, record, unsure, scratch, indexState, overtaken>>

-----------------------------------------------------------------------------
(* Finalize                                                                *)

\* chunks.ListByDocument: by ordinal, and in any order beyond.
ChunkLists ==
    {list \in SetToSeqs(DOMAIN chunkRows) :
        \A i, j \in DOMAIN list : i < j => list[i][2] <= list[j][2]}

\* backfill reads the vectors, and lists the chunks, of which there must be
\* as many.
ListChunks(a) ==
    /\ ExecAt(a, "list")
    /\ a \in scratch
    /\ \E list \in ChunkLists :
          /\ Len(list) = Len(Splits(upload))
          /\ execs' = [execs EXCEPT ![a].listed = list, ![a].at = 1, ![a].pc = "update"]
    /\ UNCHANGED <<upload, docStatus, record, unsure, scratch, indexState, overtaken>>

\* Mutant: the last chunk is left out.
UpdatedAllButLast(a) == execs[a].at >= Len(Splits(upload)) - 1

UpdatedAll(a) == execs[a].at = Len(Splits(upload))

\* The next chunk gets the next vector, if it is still there.
UpdateEmbedding(a) ==
    /\ ExecAt(a, "update")
    /\ LET c == execs[a].listed[execs[a].at]
       IN  /\ c \in DOMAIN chunkRows
           /\ chunkRows' = [chunkRows EXCEPT ![c].vector = execs[a].at]
    /\ Overtaken(a)
    /\ execs' = IF UpdatedAll(a)
                THEN [execs EXCEPT ![a].listed = <<>>, ![a].at = 0, ![a].pc = "getDone"]
                ELSE [execs EXCEPT ![a].at = @ + 1]
    /\ UNCHANGED <<upload, docStatus, record, unsure, scratch, manifest, inserts>>

\* markIndexed, in two transactions.
GetDone(a) ==
    /\ ExecAt(a, "getDone")
    /\ ExecGoto(a, IF docStatus = "indexed" THEN "succeed" ELSE "markIndexed")
    /\ UNCHANGED <<upload, docStatus, record, unsure, scratch, indexState, overtaken>>

MarkIndexed(a) ==
    /\ ExecAt(a, "markIndexed")
    /\ docStatus' = "indexed"
    /\ Overtaken(a)
    /\ ExecGoto(a, "succeed")
    /\ UNCHANGED <<upload, record, unsure, scratch, indexState>>

Succeed(a) ==
    /\ ExecAt(a, "succeed")
    /\ record' = MarkSucceeded(record, a)
    /\ ExecGoto(a, "delete")
    /\ UNCHANGED <<upload, docStatus, unsure, scratch, indexState, overtaken>>

\* The objects go last, of what succeeded and of what failed, if they can be
\* deleted; the reply to Finalize may be lost, which then begins again, with
\* or without them.
DeleteObjects(a) ==
    /\ \/ ExecAt(a, "delete") /\ \/ ExecGoto(a, "ended")
                                 \/ Chunked /\ ~execs[a].already /\ ExecGoto(a, "list")
       \/ ExecAt(a, "deleteFailed") /\ ExecGoto(a, "ended")
    /\ scratch' \in {scratch, scratch \ {a}}
    /\ UNCHANGED <<upload, docStatus, record, unsure, indexState, overtaken>>

-----------------------------------------------------------------------------
(* Failures                                                                *)

PreparePcs == {"get", "markDoc"}
BuildPcs == {"clearManifest", "createManifest", "listManifest", "clearChunks", "createChunks",
             "stage"}
FinalizePcs == {"list", "update", "getDone", "markIndexed", "succeed"}

\* A call fails, or the reply to the step that made it is lost: the step
\* begins again.
StepAgain(a) ==
    /\ \/ /\ execs[a].pc \in PreparePcs \cup (IF IsText THEN BuildPcs \cup {"embed"} ELSE {})
          /\ execs' = [execs EXCEPT ![a] = [NotStarted EXCEPT !.pc = "begin"]]
       \/ /\ ~IsText /\ execs[a].pc \in BuildPcs \cup {"embed"}
          /\ execs' = [execs EXCEPT ![a] = [NotStarted EXCEPT !.pc = "check"]]
       \/ /\ execs[a].pc \in FinalizePcs \ {"list"}
          /\ execs' = [execs EXCEPT
                 ![a] = [NotStarted EXCEPT !.already = execs[a].already,
                         !.pc = IF execs[a].already THEN "succeed"
                                ELSE IF Chunked THEN "list" ELSE "getDone"]]
    /\ UNCHANGED <<upload, docStatus, record, unsure, scratch, indexState, overtaken>>

\* A step or a job fails for good.
StepFails(a) ==
    /\ execs[a].pc \in {"begin", "layout", "check", "embed"} \cup PreparePcs \cup BuildPcs \cup FinalizePcs
    /\ execs' = [execs EXCEPT ![a] = [NotStarted EXCEPT !.pc = "recordFailure"]]
    /\ UNCHANGED <<upload, docStatus, record, unsure, scratch, indexState, overtaken>>

\* A superseded attempt leaves the document to the newer one.
RecordIndexFailure(a) ==
    /\ ExecAt(a, "recordFailure")
    /\ record' = MarkFailed(record, a, "step")
    /\ ExecGoto(a, IF Superseded(TransitionError(record, a, "failed")) THEN "ended" ELSE "failDoc")
    /\ UNCHANGED <<upload, docStatus, unsure, scratch, indexState, overtaken>>

\* This call fails, or its reply is lost: repeated as long as the record's
\* failure is this attempt's.
FailDocument(a) ==
    /\ ExecAt(a, "failDoc")
    /\ docStatus' \in {docStatus, "failed"}
    /\ ExecGoto(a, "recordFailure") \/ (docStatus' = "failed" /\ ExecGoto(a, "deleteFailed"))
    /\ overtaken' = (overtaken \/ record.attempt # a)
    /\ UNCHANGED <<upload, record, unsure, scratch, indexState>>

-----------------------------------------------------------------------------
(* reembed                                                                 *)

\* Run, reembedKB, reembedBatch.  A backfill updates the chunks it listed
\* one by one, and leaves out those that fail or are gone.  The listing has
\* no vectors in it, so that every chunk looks as if it had none; and as a
\* chunk's text never changes, it does not matter when it was listed.
Reembed(c) ==
    /\ c \in DOMAIN chunkRows
    /\ chunkRows' = [chunkRows EXCEPT ![c].vector = c[2]]
    /\ UNCHANGED <<upload, docStatus, record, execs, unsure, scratch, manifest, inserts, overtaken>>

-----------------------------------------------------------------------------
PrepareStep(a) ==
    \/ CheckAttempt(a) \/ GetDocument(a) \/ MarkDocument(a) \/ LayoutJob(a)
    \/ ReplaceManifest(a) \/ ListManifest(a)
    \/ ClearChunks(a) \/ CreateChunks(a) \/ Stage(a) \/ EmbedJob(a)

FinalizeStep(a) ==
    \/ ListChunks(a) \/ UpdateEmbedding(a) \/ GetDone(a) \/ MarkIndexed(a)
    \/ Succeed(a) \/ DeleteObjects(a)

IndexNext ==
    \/ StartAttempt
    \/ \E a \in IndexAttempts : \/ StartFailed(a) \/ PrepareStep(a) \/ FinalizeStep(a)
                                \/ StepAgain(a) \/ StepFails(a)
                                \/ RecordIndexFailure(a) \/ FailDocument(a)
    \/ \E c \in DOMAIN chunkRows : Reembed(c)

IndexSpec == IndexInit /\ [][IndexNext]_indexVars

-----------------------------------------------------------------------------
(* Properties                                                              *)

\* A region of the manifest is told by its place in the detection's result.
RegionOf(c) == chunkRows[c].region[2]

\* The region of each chunk, if it has one, is the one it was split from.
OwnRegions == \A c \in DOMAIN chunkRows : RegionOf(c) \in {0, Splits(upload)[c[2]]}

\* However attempts overlap, fail and begin again, and whatever is embedded
\* once more beside them, a chunk has no vector but that of its own text
\* (embedtail's backfill matches by place alone).  And unless an attempt
\* wrote when it was no longer current, a document that is indexed has each
\* chunk of its file once, with its vector, and without tables each chunk
\* has its own region.
IndexedIsWhole ==
    /\ \A c \in DOMAIN chunkRows : chunkRows[c].vector \in {NoVector, c[2]}
    /\ docStatus = "indexed" /\ ~overtaken =>
          /\ IsInjective([c \in DOMAIN chunkRows |-> c[2]])
          /\ {c[2] : c \in DOMAIN chunkRows} = DOMAIN Splits(upload)
          /\ \A c \in DOMAIN chunkRows : chunkRows[c].vector # NoVector
    /\ upload.tables = {} /\ ~overtaken => OwnRegions

-----------------------------------------------------------------------------
(* What the comments in the code say and the code does not do              *)

\* "persisted is the manifest in the same order as resolved (both page
\* order, top to bottom), which is how each chunk finds its region's ID"
\* (regionclassify.buildChunks): so also in a file with tables, which the
\* layout job lists after the text of every page.
ChunksFindTheirRegion == ~overtaken => OwnRegions
=============================================================================
