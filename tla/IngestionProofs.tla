-------------------------- MODULE IngestionProofs --------------------------
(***************************************************************************)
(* What holds of ChunkIndexing for every file, every number of attempts    *)
(* and of insertions, of EntityExtraction for every number of batches, of  *)
(* extraction attempts and of replacements of the chunks, and of Splitter  *)
(* for every text.                                                         *)
(***************************************************************************)
EXTENDS EntityExtraction, ChunkIndexing, Splitter, FiniteSetTheorems, SequenceTheorems,
        WellFoundedInduction, TLAPS

(***************************************************************************)
(* Entities: the inductive invariant                                       *)
(***************************************************************************)
MapSteps == {"map", "finalize", "recordFailure", "ended"}

\* The types in full; a batch is persisted by an attempt that planned from
\* chunks there were, and that does not plan again; nor does one that has
\* succeeded.
Shape ==
    /\ TypeOK
    /\ runs \in [Attempts -> [pc : RunSteps, planned : 0 .. generation]]
    /\ saved \in [Batches -> Seq(Attempts)]
    /\ indexer = "create" => chunks = 0
    /\ \A a \in Attempts : runs[a].pc \in {"clear", "stage", "map"} => runs[a].planned > 0
    /\ \A a \in Attempts, b \in Batches :
          persists[a][b] # "todo" => runs[a].pc \in MapSteps /\ runs[a].planned > 0
    /\ \A a \in Attempts :
          job.attempt = a /\ job.status = "succeeded" => runs[a].pc \in MapSteps

\* An invocation about to save a batch has not saved it yet.
NotYetSaved ==
    \A b \in Batches :
       /\ IsInjective(saved[b])
       /\ \A a \in Attempts : PersistAt(a, b, "save") /\ chunks = runs[a].planned
                                 => a \notin Range(saved[b])

\* Nothing but its own batches is saved of what the current attempt planned,
\* since it cleared the rest.
OwnOnly(a) ==
    \A b \in Batches :
       /\ runs[a].pc \in {"stage", "map"} => saved[b] \in {<<>>, <<a>>}
       /\ PersistAt(a, b, "save") => saved[b] = <<>>
       /\ At(a, "map") /\ PersistAt(a, b, "done") => saved[b] = <<a>>
       /\ At(a, "finalize") => saved[b] = <<a>>

OnlyCurrentWrote ==
    ~late =>
       /\ \A b \in Batches : Len(saved[b]) <= 1
       /\ \A a \in Attempts :
             Current(a) /\ chunks # 0 /\ runs[a].planned = chunks => OwnOnly(a)
       /\ Replaced

IInv == Shape /\ NotYetSaved /\ OnlyCurrentWrote

(***************************************************************************)
(* Sequences and status records                                            *)
(***************************************************************************)

\* Saving a batch once more keeps the attempts that saved it distinct, if
\* this one is not among them.
LEMMA AppendOnce ==
  ASSUME NEW S, NEW s \in Seq(S), NEW e \in S
  PROVE  /\ Append(s, e) \in Seq(S)
         /\ Len(Append(s, e)) = Len(s) + 1
         /\ Range(Append(s, e)) = Range(s) \cup {e}
         /\ IsInjective(s) /\ e \notin Range(s) => IsInjective(Append(s, e))
  <1>1. /\ Len(s) \in Nat /\ DOMAIN s = 1 .. Len(s)
        /\ Append(s, e) \in Seq(S)
        /\ Len(Append(s, e)) = Len(s) + 1
        /\ DOMAIN Append(s, e) = 1 .. Len(s) + 1
        /\ \A i \in 1 .. Len(s) : Append(s, e)[i] = s[i]
        /\ Append(s, e)[Len(s) + 1] = e
    OBVIOUS
  <1>2. Range(Append(s, e)) = Range(s) \cup {e}
    <2>1. Range(Append(s, e)) \subseteq Range(s) \cup {e}
      <3>1. SUFFICES ASSUME NEW i \in 1 .. Len(s) + 1
                     PROVE  Append(s, e)[i] \in Range(s) \cup {e}
        BY <1>1 DEF Range
      <3>2. i \in 1 .. Len(s) \/ i = Len(s) + 1
        BY <1>1
      <3>3. QED BY <1>1, <3>2 DEF Range
    <2>2. Range(s) \cup {e} \subseteq Range(Append(s, e))
      <3>1. Len(s) + 1 \in DOMAIN Append(s, e) /\ 1 .. Len(s) \subseteq DOMAIN Append(s, e)
        BY <1>1
      <3>2. \A i \in 1 .. Len(s) : s[i] \in Range(Append(s, e))
        BY <1>1, <3>1 DEF Range
      <3>3. e \in Range(Append(s, e))
        BY <1>1, <3>1 DEF Range
      <3>4. QED BY <1>1, <3>2, <3>3 DEF Range
    <2>3. QED BY <2>1, <2>2
  <1>3. ASSUME IsInjective(s), e \notin Range(s),
               NEW i \in 1 .. Len(s) + 1, NEW j \in 1 .. Len(s) + 1,
               Append(s, e)[i] = Append(s, e)[j]
        PROVE  i = j
    <2>1. \A k \in 1 .. Len(s) : Append(s, e)[k] # e
      BY <1>1, <1>3 DEF Range
    <2>2. \A k \in 1 .. Len(s) + 1 : k \in 1 .. Len(s) \/ k = Len(s) + 1
      BY <1>1
    <2>3. CASE i \in 1 .. Len(s) /\ j \in 1 .. Len(s)
      BY <1>1, <1>3, <2>3 DEF IsInjective
    <2>4. QED BY <1>1, <1>3, <2>1, <2>2, <2>3
  <1>4. QED BY <1>1, <1>2, <1>3 DEF IsInjective

\* A new attempt is pending, and one whose start fails is failed at once.
LEMMA EnqueueTyped ==
  ASSUME NEW rec \in Record, ~Active(rec)
  PROVE  /\ Enqueue(rec) \in Record
         /\ Enqueue(rec).attempt = rec.attempt + 1
         /\ Enqueue(rec).status = "pending"
  BY DEF Enqueue, Record, Active, ActiveStatuses, FinishedStatuses, Phases, Reasons

\* A step's report keeps the attempt, never makes an attempt current again,
\* and only the current attempt's report of success makes it succeed.
LEMMA TransitionTyped ==
  ASSUME NEW rec \in Record, NEW attempt, NEW to \in Targets,
         NEW reason \in {"none"} \cup Reasons
  PROVE  LET new == Transition(rec, attempt, to, "none", reason)
         IN  /\ new \in Record
             /\ new.attempt = rec.attempt
             /\ Active(new) => Active(rec)
             /\ new.status = "succeeded" =>
                   \/ rec.status = "succeeded"
                   \/ Active(rec) /\ rec.attempt = attempt /\ to = "succeeded"
  BY DEF Transition, TransitionError, Targets, Record, Active, Finished, ActiveStatuses,
         FinishedStatuses, Phases, Reasons

LEMMA MarksTyped ==
  ASSUME NEW rec \in Record, NEW attempt, NEW reason \in Reasons
  PROVE  /\ LET new == MarkProcessing(rec, attempt)
            IN  /\ new \in Record /\ new.attempt = rec.attempt
                /\ Active(new) => Active(rec)
                /\ new.status = "succeeded" => rec.status = "succeeded"
         /\ LET new == MarkFailed(rec, attempt, reason)
            IN  /\ new \in Record /\ new.attempt = rec.attempt
                /\ Active(new) => Active(rec)
                /\ new.status = "succeeded" => rec.status = "succeeded"
         /\ LET new == MarkSucceeded(rec, attempt)
            IN  /\ new \in Record /\ new.attempt = rec.attempt
                /\ Active(new) => Active(rec)
                /\ new.status = "succeeded" =>
                      rec.status = "succeeded" \/ (Active(rec) /\ rec.attempt = attempt)
  <1>1. {"processing", "succeeded", "failed"} = Targets
    BY DEF Targets
  <1>2. "none" \in {"none"} \cup Reasons /\ reason \in {"none"} \cup Reasons
    OBVIOUS
  <1>3. QED
    BY <1>1, <1>2, TransitionTyped DEF MarkProcessing, MarkSucceeded, MarkFailed

\* An attempt told to stop is not the current one.
LEMMA SupersededIsNotCurrent ==
  ASSUME NEW a, Superseded(TransitionError(job, a, "processing"))
  PROVE  ~Current(a)
  BY DEF Superseded, TransitionError, Current, Active, Finished, ActiveStatuses, FinishedStatuses,
         Targets


(***************************************************************************)
(* Entities: what steps do                                                 *)
(***************************************************************************)

\* Publishing leaves everything as it is, or adds the next attempt.
LEMMA PublishMoves ==
  ASSUME Shape, Publish
  PROVE  /\ job' \in Record
         /\ unanswered' \subseteq Attempts
         /\ runs' \in [Attempts -> [pc : RunSteps, planned : 0 .. generation]]
         /\ \/ job' = job /\ runs' = runs
            \/ /\ ~Active(job) /\ job'.status # "succeeded"
               /\ job'.attempt = job.attempt + 1
               /\ job'.attempt <= MaxAttempt
               /\ \A a \in Attempts : \/ runs'[a] = runs[a]
                                      \/ a = job'.attempt /\ runs'[a].pc = "plan"
                                         /\ runs[a].pc = "none"
  <1> USE DEF Shape, TypeOK
  <1>1. CASE UNCHANGED <<job, runs, unanswered>>
    BY <1>1
  <1>2. ASSUME Started(job), job.attempt < MaxAttempt,
               NEW a, a = job.attempt + 1,
               \/ /\ job' = Enqueue(job)
                  /\ Goto(a, "plan")
                  /\ unanswered' = IF AmbiguousStart THEN unanswered \cup {a} ELSE {}
               \/ /\ job' = MarkFailed(Enqueue(job), a, "dispatch")
                  /\ UNCHANGED <<runs, unanswered>>
        PROVE  /\ job' \in Record
               /\ unanswered' \subseteq Attempts
               /\ runs' \in [Attempts -> [pc : RunSteps, planned : 0 .. generation]]
               /\ ~Active(job) /\ job'.status # "succeeded"
               /\ job'.attempt = job.attempt + 1
               /\ job'.attempt <= MaxAttempt
               /\ \A c \in Attempts : \/ runs'[c] = runs[c]
                                      \/ c = job'.attempt /\ runs'[c].pc = "plan"
                                         /\ runs[c].pc = "none"
    <2>1. ~Active(job) /\ job.attempt \in Nat
      BY <1>2 DEF Started, Record
    <2>2. a \in Attempts
      BY <1>2, <2>1, MaxAttemptIsPositive DEF Attempts
    <2>3. "dispatch" \in Reasons /\ "plan" \in RunSteps
      BY DEF Reasons, RunSteps, PlanSteps
    <2>4. /\ job' \in Record /\ job'.attempt = job.attempt + 1
          /\ job'.status # "succeeded"
      BY <1>2, <2>1, <2>3, EnqueueTyped, MarksTyped
    <2>5. unanswered' \subseteq Attempts
      BY <1>2, <2>2
    <2>6. /\ runs' \in [Attempts -> [pc : RunSteps, planned : 0 .. generation]]
          /\ \A c \in Attempts : \/ runs'[c] = runs[c]
                                 \/ c = a /\ runs'[c].pc = "plan" /\ runs[c].pc = "none"
      <3>1. runs[a].pc = "none"
        BY <1>2, <2>1, <2>2
      <3>2. CASE Goto(a, "plan")
        BY <2>2, <2>3, <3>1, <3>2 DEF Goto
      <3>3. CASE runs' = runs
        BY <3>3
      <3>4. QED BY <1>2, <3>2, <3>3
    <2>7. job'.attempt <= MaxAttempt
      BY <1>2, <2>1, <2>4, MaxAttemptIsPositive
    <2>8. QED BY <1>2, <2>1, <2>4, <2>5, <2>6, <2>7
  <1>3. QED BY <1>1, <1>2 DEF Publish

\* A step reports only outcomes of its own attempt.
LEMMA JobMoves ==
  ASSUME Shape, NEW a \in Attempts, StartReplyLost(a) \/ Run(a)
  PROVE  /\ job' \in Record
         /\ job'.attempt = job.attempt
         /\ Active(job') => Active(job)
         /\ job'.status = "succeeded" =>
               job.status = "succeeded" \/ (RunFinalize(a) /\ Current(a))
  <1> USE DEF Shape, TypeOK
  <1>1. {"dispatch", "step"} \subseteq Reasons
    BY DEF Reasons
  <1>2. CASE StartReplyLost(a) \/ RunPlan(a) \/ RunRecordFailure(a)
             \/ \E b \in Batches : PersistBegin(a, b)
    <2>1. PICK reason \in Reasons : job' \in {MarkProcessing(job, a), MarkFailed(job, a, reason)}
      BY <1>1, <1>2 DEF StartReplyLost, RunPlan, RunRecordFailure, PersistBegin
    <2>2. CASE job' = MarkProcessing(job, a)
      BY <2>2, MarksTyped
    <2>3. CASE job' = MarkFailed(job, a, reason)
      BY <2>3, MarksTyped
    <2>4. QED BY <2>1, <2>2, <2>3
  <1>3. CASE RunFinalize(a)
    BY <1>1, <1>3, MarksTyped DEF RunFinalize, Current
  <1>4. CASE RunList(a) \/ RunClear(a) \/ RunStage(a) \/ RunRetryPlan(a) \/ RunMapEnd(a) \/ RunError(a)
    BY <1>4 DEF RunList, RunClear, RunStage, RunRetryPlan, RunMapEnd, RunError
  <1>5. ASSUME NEW b \in Batches, Persist(a, b), ~PersistBegin(a, b)
        PROVE  job' = job
    BY <1>5 DEF Persist, PersistRead, PersistCheck, PersistSave, PersistError, PersistFail
  <1>6. QED BY <1>2, <1>3, <1>4, <1>5 DEF Run

\* An execution moves on its own, from the chunks it planned.
LEMMA GotoTyped ==
  ASSUME Shape, NEW a \in Attempts, NEW pc \in RunSteps, Goto(a, pc)
  PROVE  /\ runs' \in [Attempts -> [pc : RunSteps, planned : 0 .. generation]]
         /\ runs'[a].pc = pc /\ runs'[a].planned = runs[a].planned
         /\ \A c \in Attempts \ {a} : runs'[c] = runs[c]
  <1>1. runs \in [Attempts -> [pc : RunSteps, planned : 0 .. generation]]
    BY DEF Shape
  <1>2. QED BY <1>1 DEF Goto

\* An iteration of the Map moves on its own.
LEMMA PersistGotoTyped ==
  ASSUME TypeOK, NEW a \in Attempts, NEW b \in Batches, NEW pc \in PersistSteps,
         PersistGoto(a, b, pc)
  PROVE  /\ persists' \in [Attempts -> [Batches -> PersistSteps]]
         /\ \A c \in Attempts, d \in Batches :
               persists'[c][d] = IF c = a /\ d = b THEN pc ELSE persists[c][d]
         /\ \A c \in Attempts \ {a} : persists'[c] = persists[c]
  <1>1. persists \in [Attempts -> [Batches -> PersistSteps]]
    BY DEF TypeOK
  <1>2. persists' = [persists EXCEPT ![a] = [persists[a] EXCEPT ![b] = pc]]
    BY DEF PersistGoto
  <1>3. [persists[a] EXCEPT ![b] = pc] \in [Batches -> PersistSteps]
    BY <1>1
  <1>4. QED BY <1>1, <1>2, <1>3

\* Where an execution and its invocations get to.
LEMMA RunMoves ==
  ASSUME Shape, NEW a \in Attempts, Run(a)
  PROVE  /\ runs' \in [Attempts -> [pc : RunSteps, planned : 0 .. generation]]
         /\ persists' \in [Attempts -> [Batches -> PersistSteps]]
         /\ \A c \in Attempts \ {a} : runs'[c] = runs[c] /\ persists'[c] = persists[c]
         /\ runs[a].pc # "none"
         /\ runs'[a].pc \in {"clear", "stage", "map"} => runs'[a].planned > 0
         /\ runs'[a].planned = runs[a].planned \/ RunList(a)
         /\ runs[a].pc \in MapSteps => runs'[a].pc \in MapSteps
         /\ \A b \in Batches : persists'[a][b] # "todo" =>
               runs'[a].pc \in MapSteps /\ runs'[a].planned > 0
  <1> USE DEF Shape, TypeOK, At, PersistAt, MapSteps
  <1>1. generation \in Nat /\ chunks \in Nat /\ chunks \in 0 .. generation
    BY MaxGenerationsIsPositive
  <1>2. /\ RunSteps = {"none", "plan", "list", "clear", "stage", "map", "finalize",
                       "recordFailure", "ended"}
        /\ PlanSteps = {"plan", "list", "clear", "stage"}
    BY DEF RunSteps, PlanSteps
  <1>3. CASE RunPlan(a) \/ RunClear(a) \/ RunStage(a) \/ RunRetryPlan(a) \/ RunMapEnd(a)
             \/ RunFinalize(a) \/ RunError(a) \/ RunRecordFailure(a)
    <2>1. PICK pc \in RunSteps \ {"none"} : Goto(a, pc)
      BY <1>2, <1>3
      DEF RunPlan, RunClear, RunStage, RunRetryPlan, RunMapEnd, RunFinalize, RunError, RunRecordFailure
    <2>2. /\ persists' = persists
          /\ runs[a].pc # "none"
          /\ runs[a].pc \in MapSteps => pc \in MapSteps
          /\ pc \in {"clear", "stage", "map"} => runs[a].planned > 0
      BY <1>2, <1>3, <2>1, GotoTyped
      DEF RunPlan, RunClear, RunStage, RunRetryPlan, RunMapEnd, RunFinalize, RunError, RunRecordFailure
    <2>3. QED BY <2>1, <2>2, GotoTyped
  <1>4. CASE RunList(a)
    <2>1. /\ runs[a].pc = "list" /\ persists' = persists
          /\ runs' = [runs EXCEPT ![a] = [pc |-> IF chunks = 0 THEN "finalize" ELSE "clear",
                                         planned |-> chunks]]
      BY <1>4 DEF RunList
    <2>2. [pc |-> IF chunks = 0 THEN "finalize" ELSE "clear", planned |-> chunks]
             \in [pc : RunSteps, planned : 0 .. generation]
      BY <1>1, <1>2
    <2>3. /\ runs' \in [Attempts -> [pc : RunSteps, planned : 0 .. generation]]
          /\ \A c \in Attempts \ {a} : runs'[c] = runs[c]
          /\ runs'[a].pc = IF chunks = 0 THEN "finalize" ELSE "clear"
          /\ runs'[a].planned = chunks
      BY <2>1, <2>2
    <2>4. \A b \in Batches : persists[a][b] = "todo"
      BY <2>1
    <2>5. QED BY <1>1, <1>4, <2>1, <2>3, <2>4
  <1>5. ASSUME NEW b \in Batches, Persist(a, b)
        PROVE  /\ runs' \in [Attempts -> [pc : RunSteps, planned : 0 .. generation]]
               /\ \A c \in Attempts \ {a} : runs'[c] = runs[c]
               /\ runs'[a].pc \in {runs[a].pc, "recordFailure"}
               /\ runs'[a].planned = runs[a].planned
               /\ runs[a].pc \in MapSteps /\ runs[a].planned > 0
    <2>1. runs[a].pc \in MapSteps /\ runs[a].planned > 0
      BY <1>5
      DEF Persist, PersistBegin, PersistRead, PersistCheck, PersistSave, PersistError, PersistFail
    <2>2. runs' = runs \/ Goto(a, "recordFailure")
      BY <1>5
      DEF Persist, PersistBegin, PersistRead, PersistCheck, PersistSave, PersistError, PersistFail
    <2>3. QED BY <1>2, <2>1, <2>2, GotoTyped
  <1>6. ASSUME NEW b \in Batches, Persist(a, b)
        PROVE  /\ persists' \in [Attempts -> [Batches -> PersistSteps]]
               /\ \A c \in Attempts \ {a} : persists'[c] = persists[c]
    <2>1. PICK pc \in PersistSteps : PersistGoto(a, b, pc)
      BY <1>6
      DEF Persist, PersistBegin, PersistRead, PersistCheck, PersistSave, PersistError, PersistFail,
          PersistSteps
    <2>2. QED BY <2>1, PersistGotoTyped
  <1>7. CASE \E b \in Batches : Persist(a, b)
    BY <1>2, <1>5, <1>6, <1>7
  <1>8. QED BY <1>3, <1>4, <1>7 DEF Run


\* Only an execution's clear and its saves write entities.
LEMMA WriteMoves ==
  ASSUME Shape, NEW a \in Attempts, Run(a)
  PROVE  /\ UNCHANGED <<indexer, generation, chunks, unanswered>>
         /\ staged' \subseteq Attempts
         /\ saved' \in [Batches -> Seq(Attempts)]
         /\ \A b \in Batches : Range(saved'[b]) \subseteq Range(saved[b]) \cup {a}
         /\ chunks = 0 => saved' = NothingSaved
         /\ late' \in BOOLEAN
         /\ \/ saved' = saved /\ late' = late
            \/ RunClear(a)
            \/ \E b \in Batches : PersistSave(a, b)
  <1> USE DEF indexing
  <1>1. /\ saved \in [Batches -> Seq(Attempts)] /\ late \in BOOLEAN
        /\ staged \subseteq Attempts
        /\ chunks = 0 => saved = NothingSaved
    BY DEF Shape, TypeOK
  <1>2. CASE RunPlan(a) \/ RunList(a) \/ RunStage(a) \/ RunRetryPlan(a) \/ RunMapEnd(a)
             \/ RunFinalize(a) \/ RunError(a) \/ RunRecordFailure(a)
    BY <1>1, <1>2
    DEF RunPlan, RunList, RunStage, RunRetryPlan, RunMapEnd, RunFinalize, RunError, RunRecordFailure
  <1>3. CASE RunClear(a)
    <2>1. /\ saved' = NothingSaved /\ late' \in BOOLEAN
          /\ UNCHANGED <<indexer, generation, chunks, unanswered, staged>>
      BY <1>1, <1>3 DEF RunClear
    <2>2. /\ NothingSaved \in [Batches -> Seq(Attempts)]
          /\ \A b \in Batches : Range(NothingSaved[b]) = {}
      BY DEF NothingSaved, Range
    <2>3. QED BY <1>1, <1>3, <2>1, <2>2
  <1>4. ASSUME NEW b \in Batches, PersistSave(a, b)
        PROVE  /\ UNCHANGED <<indexer, generation, chunks, unanswered, staged>>
               /\ saved' \in [Batches -> Seq(Attempts)]
               /\ \A c \in Batches : Range(saved'[c]) \subseteq Range(saved[c]) \cup {a}
               /\ chunks # 0
               /\ late' \in BOOLEAN
    <2>1. /\ UNCHANGED <<indexer, generation, chunks, unanswered, staged>>
          /\ late' = (late \/ ~Current(a))
          /\ saved' = [saved EXCEPT ![b] = Append(saved[b], a)]
      BY <1>4 DEF PersistSave
    <2>2. chunks # 0
      BY <1>4 DEF PersistSave, PersistAt, Shape
    <2>3. late' \in BOOLEAN
      BY <1>1, <2>1 DEF Current, Active
    <2>4. QED BY <1>1, <2>1, <2>2, <2>3, AppendOnce
  <1>5. ASSUME NEW b \in Batches, Persist(a, b), ~PersistSave(a, b)
        PROVE  UNCHANGED <<indexer, generation, chunks, unanswered, staged, saved, late>>
    BY <1>5 DEF Persist, PersistBegin, PersistRead, PersistCheck, PersistError, PersistFail
  <1>6. QED BY <1>1, <1>2, <1>3, <1>4, <1>5 DEF Run

\* Indexing, and the user's retry, publish or replace the chunks.
LEMMA IndexMoves ==
  ASSUME Shape, Index \/ RetryExtraction
  PROVE  /\ UNCHANGED <<persists, staged, late>>
         /\ \/ Publish /\ UNCHANGED <<generation, chunks, saved>>
            \/ UNCHANGED <<job, unanswered, runs>>
         /\ indexer' \in IndexerSteps
         /\ generation' \in 0 .. MaxGenerations /\ generation <= generation'
         /\ chunks' \in {0, generation'}
         /\ indexer' = "create" => chunks' = 0
         /\ chunks' = chunks \/ chunks' = 0 \/ chunks' > generation
         /\ \/ saved' = saved /\ (chunks' = 0 => chunks = 0)
            \/ saved' = NothingSaved /\ chunks' = 0
  <1> USE DEF indexing
  <1>1. /\ generation \in 0 .. MaxGenerations /\ chunks \in {0, generation}
        /\ indexer \in IndexerSteps
        /\ indexer = "create" => chunks = 0
        /\ MaxGenerations \in Nat
    BY MaxGenerationsIsPositive DEF Shape, TypeOK
  <1>2. IndexerSteps = {"clear", "create", "publish", "stage", "embed", "done"}
    BY DEF IndexerSteps
  <1>3. QED
    BY <1>1, <1>2
    DEF Index, IndexClear, IndexCreate, IndexPublish, IndexProceed, IndexAgain, RetryExtraction

LEMMA ShapeKept ==
  ASSUME Shape, [Next]_vars
  PROVE  Shape'
  <1>1. /\ job \in Record /\ job.attempt \in Nat /\ job.attempt <= MaxAttempt
        /\ MaxAttempt \in Nat /\ generation \in Nat
        /\ saved \in [Batches -> Seq(Attempts)]
        /\ \A b \in Batches : Range(saved[b]) \subseteq 1 .. job.attempt
    BY MaxAttemptIsPositive, MaxGenerationsIsPositive DEF Shape, TypeOK, Record
  <1>2. CASE Index \/ RetryExtraction
    <2>1. /\ UNCHANGED <<persists, staged, late>>
          /\ job' \in Record /\ job'.attempt \in Nat /\ job'.attempt <= MaxAttempt
          /\ job.attempt <= job'.attempt
          /\ unanswered' \subseteq Attempts
          /\ runs' \in [Attempts -> [pc : RunSteps, planned : 0 .. generation]]
          /\ \A a \in Attempts : \/ runs'[a] = runs[a]
                                 \/ a = job'.attempt /\ runs'[a].pc = "plan"
                                    /\ runs[a].pc = "none"
      BY <1>1, <1>2, IndexMoves, PublishMoves DEF Shape, TypeOK, Record
    <2>2. ASSUME NEW a \in Attempts, a > job'.attempt PROVE runs'[a].pc = "none"
      <3>1. a > job.attempt /\ a # job'.attempt
        BY <1>1, <2>1, <2>2 DEF Attempts
      <3>2. runs[a].pc = "none"
        BY <3>1 DEF Shape, TypeOK
      <3>3. QED BY <2>1, <3>1, <3>2
    <2>3. /\ \A a \in Attempts : runs'[a].pc \in {"clear", "stage", "map"} => runs'[a].planned > 0
          /\ \A a \in Attempts, b \in Batches :
                persists'[a][b] # "todo" => runs'[a].pc \in MapSteps /\ runs'[a].planned > 0
      BY <2>1 DEF Shape, MapSteps
    <2>4. /\ saved' \in [Batches -> Seq(Attempts)]
          /\ \A b \in Batches : Range(saved'[b]) \subseteq 1 .. job'.attempt
          /\ chunks' = 0 => saved' = NothingSaved
      <3>1. /\ NothingSaved \in [Batches -> Seq(Attempts)]
            /\ \A b \in Batches : Range(NothingSaved[b]) = {}
        BY DEF NothingSaved, Range
      <3>2. 1 .. job.attempt \subseteq 1 .. job'.attempt
        BY <1>1, <2>1
      <3>3. chunks = 0 => saved = NothingSaved
        BY DEF Shape, TypeOK
      <3>4. QED BY <1>1, <1>2, <3>1, <3>2, <3>3, IndexMoves
    <2>5. /\ runs' \in [Attempts -> [pc : RunSteps, planned : 0 .. generation']]
          /\ \A a \in Attempts : /\ runs'[a].pc \in RunSteps
                                 /\ runs'[a].planned \in 0 .. generation'
      <3>1. generation' \in Nat /\ generation <= generation'
        BY <1>2, IndexMoves, MaxGenerationsIsPositive
      <3>2. 0 .. generation \subseteq 0 .. generation'
        BY <1>1, <3>1
      <3>3. QED BY <2>1, <3>2
    <2>6. /\ indexer' \in IndexerSteps /\ generation' \in 0 .. MaxGenerations
          /\ chunks' \in {0, generation'} /\ (indexer' = "create" => chunks' = 0)
      BY <1>2, IndexMoves
    <2>7. TypeOK'
      BY <2>1, <2>2, <2>4, <2>5, <2>6 DEF Shape, TypeOK
    <2>8. \A a \in Attempts :
             job'.attempt = a /\ job'.status = "succeeded" => runs'[a].pc \in MapSteps
      BY <1>2, IndexMoves, PublishMoves DEF Shape
    <2>9. QED BY <2>3, <2>4, <2>5, <2>6, <2>7, <2>8 DEF Shape
  <1>3. ASSUME NEW a \in Attempts, StartReplyLost(a)
        PROVE  Shape'
    <2>1. /\ job' \in Record /\ job'.attempt = job.attempt
          /\ job'.status = "succeeded" => job.status = "succeeded"
      BY <1>3, JobMoves DEF StartReplyLost, RunFinalize, indexing
    <2>2. QED
      BY <1>3, <2>1 DEF StartReplyLost, indexing, Shape, TypeOK
  <1>4. ASSUME NEW a \in Attempts, Run(a)
        PROVE  Shape'
    <2>1. job' \in Record /\ job'.attempt = job.attempt
      BY <1>4, JobMoves
    <2>2. /\ UNCHANGED <<indexer, generation, chunks, unanswered>>
          /\ staged' \subseteq Attempts
          /\ saved' \in [Batches -> Seq(Attempts)]
          /\ chunks = 0 => saved' = NothingSaved
          /\ late' \in BOOLEAN
      BY <1>4, WriteMoves
    <2>3. a <= job.attempt /\ a \in 1 .. job.attempt
      <3>1. runs[a].pc # "none"
        BY <1>4, RunMoves
      <3>2. QED BY <1>1, <3>1 DEF Shape, TypeOK, Attempts
    <2>4. \A b \in Batches : Range(saved'[b]) \subseteq 1 .. job'.attempt
      BY <1>1, <1>4, <2>1, <2>3, WriteMoves
    <2>5. /\ runs' \in [Attempts -> [pc : RunSteps, planned : 0 .. generation]]
          /\ persists' \in [Attempts -> [Batches -> PersistSteps]]
          /\ \A c \in Attempts : c > job.attempt => runs'[c].pc = "none"
      BY <1>1, <1>4, <2>3, RunMoves DEF Shape, TypeOK
    <2>6. /\ \A c \in Attempts : runs'[c].pc \in {"clear", "stage", "map"} => runs'[c].planned > 0
          /\ \A c \in Attempts, b \in Batches :
                persists'[c][b] # "todo" => runs'[c].pc \in MapSteps /\ runs'[c].planned > 0
      BY <1>4, RunMoves DEF Shape
    <2>7. TypeOK'
      BY <1>1, <2>1, <2>2, <2>4, <2>5 DEF Shape, TypeOK
    <2>8. \A c \in Attempts :
             job'.attempt = c /\ job'.status = "succeeded" => runs'[c].pc \in MapSteps
      BY <1>4, JobMoves, RunMoves DEF Shape, RunFinalize, At, Current, MapSteps
    <2>9. QED BY <2>2, <2>5, <2>6, <2>7, <2>8 DEF Shape
  <1>5. CASE UNCHANGED vars
    BY <1>5 DEF vars, indexing, Shape, TypeOK
  <1>6. QED BY <1>2, <1>3, <1>4, <1>5 DEF Next


(***************************************************************************)
(* Entities: no attempt saves a batch twice                                *)
(***************************************************************************)

\* An invocation gets to its save by finding the batch not saved, and leaves
\* it by saving.
LEMMA SaveMoves ==
  ASSUME Shape, NEW a \in Attempts, Run(a), NEW b \in Batches, persists'[a][b] = "save"
  PROVE  /\ runs'[a].planned = runs[a].planned
         /\ \/ PersistAt(a, b, "save") /\ saved'[b] \in {saved[b], <<>>}
            \/ PersistCheck(a, b) /\ ~BatchSaved(a, b) /\ saved' = saved
  <1>1. /\ persists \in [Attempts -> [Batches -> PersistSteps]]
        /\ saved \in [Batches -> Seq(Attempts)]
        /\ TypeOK
    BY DEF Shape, TypeOK
  <1>2. ~RunList(a)
    BY DEF RunList, At, Shape, MapSteps
  <1>3. CASE RunPlan(a) \/ RunClear(a) \/ RunStage(a) \/ RunRetryPlan(a) \/ RunMapEnd(a)
             \/ RunFinalize(a) \/ RunError(a) \/ RunRecordFailure(a)
    <2>1. persists' = persists /\ saved' \in {saved, NothingSaved}
      BY <1>3
      DEF RunPlan, RunClear, RunStage, RunRetryPlan, RunMapEnd, RunFinalize, RunError,
          RunRecordFailure
    <2>2. runs'[a].planned = runs[a].planned
      BY <1>2, RunMoves
    <2>3. QED BY <2>1, <2>2 DEF NothingSaved, PersistAt
  <1>4. ASSUME NEW d \in Batches, Persist(a, d), ~PersistSave(a, d), ~PersistCheck(a, d)
        PROVE  PersistAt(a, b, "save") /\ saved' = saved
    <2>1. PICK pc \in {"done", "read", "check", "todo"} : PersistGoto(a, d, pc)
      BY <1>4 DEF Persist, PersistBegin, PersistRead, PersistError, PersistFail
    <2>2. pc \in PersistSteps
      BY DEF PersistSteps
    <2>3. b # d
      BY <1>1, <2>1, <2>2, PersistGotoTyped
    <2>4. saved' = saved
      BY <1>4 DEF Persist, PersistBegin, PersistRead, PersistError, PersistFail
    <2>5. QED BY <1>1, <2>1, <2>2, <2>3, <2>4, PersistGotoTyped DEF PersistAt
  <1>5. ASSUME NEW d \in Batches, PersistCheck(a, d)
        PROVE  \/ PersistAt(a, b, "save") /\ saved' = saved
               \/ PersistCheck(a, b) /\ ~BatchSaved(a, b) /\ saved' = saved
    <2>1. PICK pc \in {"done", "save"} :
             PersistGoto(a, d, pc) /\ (pc = "save" => ~BatchSaved(a, d))
      BY <1>5 DEF PersistCheck
    <2>2. pc \in PersistSteps /\ saved' = saved
      BY <1>5 DEF PersistSteps, PersistCheck
    <2>3. CASE b = d
      <3>1. pc = "save"
        BY <1>1, <2>1, <2>2, <2>3, PersistGotoTyped
      <3>2. QED BY <1>5, <2>1, <2>2, <2>3, <3>1
    <2>4. CASE b # d
      BY <1>1, <2>1, <2>2, <2>4, PersistGotoTyped DEF PersistAt
    <2>5. QED BY <2>3, <2>4
  <1>6. ASSUME NEW d \in Batches, PersistSave(a, d)
        PROVE  PersistAt(a, b, "save") /\ saved'[b] = saved[b]
    <2>1. PICK pc \in {"done", "todo"} : PersistGoto(a, d, pc)
      BY <1>6 DEF PersistSave
    <2>2. pc \in PersistSteps
      BY DEF PersistSteps
    <2>3. b # d
      BY <1>1, <2>1, <2>2, PersistGotoTyped
    <2>4. saved'[b] = saved[b]
      BY <1>1, <1>6, <2>3 DEF PersistSave
    <2>5. QED BY <1>1, <2>1, <2>2, <2>3, <2>4, PersistGotoTyped DEF PersistAt
  <1>7. CASE \E d \in Batches : Persist(a, d)
    BY <1>2, <1>4, <1>5, <1>6, <1>7, RunMoves
  <1>8. QED BY <1>2, <1>3, <1>7 DEF Run

LEMMA NotYetSavedKept ==
  ASSUME Shape, NotYetSaved, [Next]_vars
  PROVE  NotYetSaved'
  <1>1. /\ saved \in [Batches -> Seq(Attempts)]
        /\ generation \in Nat
        /\ \A a \in Attempts : runs[a].planned \in Nat /\ runs[a].planned <= generation
    BY MaxGenerationsIsPositive DEF Shape, TypeOK
  <1>2. IsInjective(<<>>) /\ Range(<<>>) = {}
    BY DEF IsInjective, Range
  <1>3. \A b \in Batches : NothingSaved[b] = <<>>
    BY DEF NothingSaved
  <1>4. CASE Index \/ RetryExtraction
    <2>1. \A b \in Batches : saved'[b] \in {saved[b], <<>>}
      BY <1>3, <1>4, IndexMoves
    <2>2. ASSUME NEW a \in Attempts, NEW b \in Batches, persists'[a][b] = "save",
                 chunks' = runs'[a].planned
          PROVE  a \notin Range(saved'[b])
      <3>1. /\ persists' = persists
            /\ PersistAt(a, b, "save") /\ runs[a].pc # "none" /\ runs[a].planned > 0
        BY <1>4, <2>2, IndexMoves DEF Shape, MapSteps, PersistAt
      <3>2. runs'[a] = runs[a]
        BY <1>4, <3>1, IndexMoves, PublishMoves
      <3>3. chunks' = chunks
        BY <1>1, <1>4, <2>2, <3>1, <3>2, IndexMoves
      <3>4. a \notin Range(saved[b])
        BY <2>2, <3>1, <3>2, <3>3 DEF NotYetSaved
      <3>5. QED BY <1>2, <2>1, <3>4
    <2>3. \A b \in Batches : IsInjective(saved'[b])
      BY <1>2, <2>1 DEF NotYetSaved
    <2>4. QED BY <2>2, <2>3 DEF NotYetSaved, PersistAt
  <1>5. ASSUME NEW c \in Attempts, StartReplyLost(c)
        PROVE  NotYetSaved'
    BY <1>5 DEF StartReplyLost, indexing, NotYetSaved, PersistAt
  <1>6. ASSUME NEW c \in Attempts, Run(c)
        PROVE  NotYetSaved'
    <2>1. ASSUME NEW b \in Batches PROVE IsInjective(saved'[b])
      <3>1. IsInjective(saved[b])
        BY DEF NotYetSaved
      <3>2. CASE saved' = saved
        BY <3>1, <3>2
      <3>3. CASE RunClear(c)
        BY <1>2, <1>3, <3>3 DEF RunClear
      <3>4. ASSUME NEW d \in Batches, PersistSave(c, d) PROVE IsInjective(saved'[b])
        <4>1. c \notin Range(saved[d]) /\ saved' = [saved EXCEPT ![d] = Append(saved[d], c)]
          BY <3>4 DEF PersistSave, NotYetSaved
        <4>2. CASE b = d
          <5>1. saved[b] \in Seq(Attempts) /\ saved'[b] = Append(saved[b], c)
            BY <1>1, <4>1, <4>2
          <5>2. QED BY <3>1, <4>1, <4>2, <5>1, AppendOnce
        <4>3. CASE b # d
          BY <1>1, <3>1, <4>1, <4>3
        <4>4. QED BY <4>2, <4>3
      <3>5. QED BY <1>6, <3>2, <3>3, <3>4, WriteMoves
    <2>2. ASSUME NEW a \in Attempts, NEW b \in Batches, persists'[a][b] = "save",
                 chunks' = runs'[a].planned
          PROVE  a \notin Range(saved'[b])
      <3>1. chunks' = chunks
        BY <1>6, WriteMoves
      <3>2. CASE a # c
        <4>1. runs'[a] = runs[a] /\ persists'[a] = persists[a]
          BY <1>6, <3>2, RunMoves
        <4>2. a \notin Range(saved[b])
          BY <2>2, <3>1, <4>1 DEF NotYetSaved, PersistAt
        <4>3. QED BY <1>6, <3>2, <4>2, WriteMoves
      <3>3. CASE a = c
        <4>1. runs'[a].planned = runs[a].planned
          BY <1>6, <2>2, <3>3, SaveMoves
        <4>2. CASE PersistAt(a, b, "save") /\ saved'[b] \in {saved[b], <<>>}
          <5>1. a \notin Range(saved[b])
            BY <2>2, <3>1, <4>1, <4>2 DEF NotYetSaved
          <5>2. QED BY <1>2, <4>2, <5>1
        <4>3. CASE PersistCheck(a, b) /\ ~BatchSaved(a, b) /\ saved' = saved
          BY <1>2, <2>2, <3>1, <4>1, <4>3 DEF BatchSaved
        <4>4. QED BY <1>6, <2>2, <3>3, <4>2, <4>3, SaveMoves
      <3>4. QED BY <3>2, <3>3
    <2>3. QED BY <2>1, <2>2 DEF NotYetSaved, PersistAt
  <1>7. CASE UNCHANGED vars
    BY <1>7 DEF vars, indexing, NotYetSaved, PersistAt
  <1>8. QED BY <1>4, <1>5, <1>6, <1>7 DEF Next


(***************************************************************************)
(* Entities: as long as only current attempts write                        *)
(***************************************************************************)

\* A step of the current attempt's execution keeps to its own batches.
LEMMA OwnOnlyKept ==
  ASSUME Shape, NEW a \in Attempts, Run(a), Current(a), chunks # 0,
         runs'[a].planned = chunks,
         runs[a].planned = chunks => OwnOnly(a)
  PROVE  OwnOnly(a)'
  <1> USE DEF OwnOnly, At, PersistAt
  <1>1. /\ persists \in [Attempts -> [Batches -> PersistSteps]]
        /\ saved \in [Batches -> Seq(Attempts)]
        /\ TypeOK
        /\ {"plan", "list", "clear", "stage", "map", "finalize", "recordFailure", "ended"}
              \subseteq RunSteps
    BY DEF Shape, TypeOK, RunSteps, PlanSteps
  <1>2. CASE RunPlan(a) \/ RunRetryPlan(a) \/ RunError(a) \/ RunRecordFailure(a)
    <2>1. /\ UNCHANGED <<persists, saved>> /\ ~RunList(a)
          /\ \E pc \in {"list", "plan", "recordFailure", "ended"} : Goto(a, pc)
      <3>1. \E pc \in {"list", "plan", "recordFailure", "ended"} : Goto(a, pc)
        BY <1>2 DEF RunPlan, RunRetryPlan, RunError, RunRecordFailure
      <3>2. runs'[a].pc \in {"list", "plan", "recordFailure", "ended"}
        BY <1>1, <3>1, GotoTyped
      <3>3. ~RunList(a)
        BY <3>2 DEF RunList, Shape
      <3>4. QED BY <1>2, <3>1, <3>3 DEF RunPlan, RunRetryPlan, RunError, RunRecordFailure
    <2>2. runs'[a].pc \in {"list", "plan", "recordFailure", "ended"} /\ OwnOnly(a)
      BY <1>1, <2>1, GotoTyped, RunMoves
    <2>3. QED BY <2>1, <2>2
  <1>3. CASE RunList(a)
    <2>1. /\ UNCHANGED persists /\ runs[a].pc = "list"
          /\ runs'[a].pc \in {"finalize", "clear"}
          /\ runs'[a].pc = "clear"
      BY <1>3 DEF RunList, Shape
    <2>2. QED BY <2>1 DEF Shape, MapSteps
  <1>4. CASE RunClear(a)
    <2>1. /\ UNCHANGED persists /\ runs[a].pc = "clear" /\ runs'[a].pc = "stage"
          /\ \A b \in Batches : saved'[b] = <<>>
      BY <1>1, <1>4, GotoTyped DEF RunClear, NothingSaved
    <2>2. QED BY <2>1
  <1>5. CASE RunStage(a)
    <2>1. /\ UNCHANGED <<persists, saved>> /\ runs[a].pc = "stage" /\ runs'[a].pc = "map"
          /\ runs[a].planned = runs'[a].planned
      BY <1>1, <1>5, GotoTyped DEF RunStage
    <2>2. \A b \in Batches : persists[a][b] = "todo"
      BY <2>1 DEF Shape, MapSteps
    <2>3. QED BY <2>1, <2>2
  <1>6. CASE RunMapEnd(a)
    <2>1. /\ UNCHANGED <<persists, saved>> /\ runs[a].pc = "map" /\ runs'[a].pc = "finalize"
          /\ runs[a].planned = runs'[a].planned
          /\ \A b \in Batches : persists[a][b] = "done"
      BY <1>1, <1>6, GotoTyped DEF RunMapEnd
    <2>2. QED BY <2>1
  <1>7. CASE RunFinalize(a)
    <2>1. /\ UNCHANGED <<persists, saved>> /\ runs[a].pc = "finalize"
          /\ runs'[a].pc \in {"finalize", "ended"}
          /\ runs[a].planned = runs'[a].planned
      BY <1>1, <1>7, GotoTyped DEF RunFinalize
    <2>2. QED BY <2>1
  <1>8. ASSUME NEW b \in Batches, PersistBegin(a, b) \/ PersistRead(a, b) \/ PersistCheck(a, b)
                                  \/ PersistError(a, b)
        PROVE  OwnOnly(a)'
    <2>1. runs' = runs /\ saved' = saved
      BY <1>8 DEF PersistBegin, PersistRead, PersistCheck, PersistError
    <2>2. OwnOnly(a)
      BY <2>1
    <2>3. PICK pc \in PersistSteps :
             /\ PersistGoto(a, b, pc)
             /\ pc = "save" => saved[b] = <<>>
             /\ pc = "done" /\ runs[a].pc = "map" => saved[b] = <<a>>
      <3>1. CASE PersistBegin(a, b)
        <4>1. PersistGoto(a, b, "read")
          BY <3>1, SupersededIsNotCurrent DEF PersistBegin
        <4>2. QED BY <4>1 DEF PersistSteps
      <3>2. CASE PersistRead(a, b)
        BY <3>2 DEF PersistRead, PersistSteps
      <3>3. CASE PersistCheck(a, b)
        BY <2>1, <2>2, <3>3 DEF PersistCheck, PersistSteps, BatchSaved
      <3>4. CASE PersistError(a, b)
        BY <3>4 DEF PersistError, PersistSteps
      <3>5. QED BY <1>8, <3>1, <3>2, <3>3, <3>4
    <2>4. \A d \in Batches : persists'[a][d] = IF d = b THEN pc ELSE persists[a][d]
      BY <1>1, <2>3, PersistGotoTyped
    <2>5. QED BY <2>1, <2>2, <2>3, <2>4
  <1>9. ASSUME NEW b \in Batches, PersistSave(a, b)
        PROVE  OwnOnly(a)'
    <2>1. runs' = runs /\ persists[a][b] = "save" /\ saved' = [saved EXCEPT ![b] = Append(saved[b], a)]
      BY <1>9 DEF PersistSave
    <2>2. OwnOnly(a)
      BY <2>1
    <2>3. saved[b] = <<>> /\ saved'[b] = <<a>> /\ \A d \in Batches \ {b} : saved'[d] = saved[d]
      <3>1. saved[b] = <<>>
        BY <2>1, <2>2
      <3>2. saved'[b] = Append(saved[b], a) /\ \A d \in Batches \ {b} : saved'[d] = saved[d]
        BY <1>1, <2>1
      <3>3. Append(<<>>, a) = <<a>>
        OBVIOUS
      <3>4. QED BY <3>1, <3>2, <3>3
    <2>4. PICK pc \in {"done", "todo"} : PersistGoto(a, b, pc)
      BY <1>9 DEF PersistSave
    <2>5. pc \in PersistSteps
      BY DEF PersistSteps
    <2>6. \A d \in Batches : persists'[a][d] = IF d = b THEN pc ELSE persists[a][d]
      BY <1>1, <2>4, <2>5, PersistGotoTyped
    <2>7. ASSUME NEW d \in Batches
          PROVE  /\ runs'[a].pc \in {"stage", "map"} => saved'[d] \in {<<>>, <<a>>}
                 /\ persists'[a][d] = "save" => saved'[d] = <<>>
                 /\ runs'[a].pc = "map" /\ persists'[a][d] = "done" => saved'[d] = <<a>>
                 /\ runs'[a].pc = "finalize" => saved'[d] = <<a>>
      <3>1. CASE d = b
        BY <2>3, <2>4, <2>6, <3>1
      <3>2. CASE d # b
        BY <2>1, <2>2, <2>3, <2>6, <3>2
      <3>3. QED BY <3>1, <3>2
    <2>8. QED BY <2>7
  <1>10. ASSUME NEW b \in Batches, PersistFail(a, b)
         PROVE  OwnOnly(a)'
    <2>1. /\ saved' = saved /\ runs'[a].pc = "recordFailure"
          /\ runs[a].planned = runs'[a].planned
      BY <1>1, <1>10, GotoTyped DEF PersistFail
    <2>2. PersistGoto(a, b, "done") /\ "done" \in PersistSteps
      BY <1>10 DEF PersistFail, PersistSteps
    <2>3. \A d \in Batches : persists'[a][d] = IF d = b THEN "done" ELSE persists[a][d]
      BY <1>1, <2>2, PersistGotoTyped
    <2>4. QED BY <2>1, <2>3
  <1>11. QED
    BY <1>2, <1>3, <1>4, <1>5, <1>6, <1>7, <1>8, <1>9, <1>10 DEF Run, Persist


\* Only one attempt is current, and none once it has ended.
LEMMA OneIsCurrent ==
  ASSUME NEW a, NEW c, Current(a)
  PROVE  (Current(c) => c = a) /\ job.status # "succeeded"
  BY DEF Current, Active, ActiveStatuses

\* Without a late write, another attempt's execution writes nothing.
LEMMA OthersWriteNothing ==
  ASSUME NEW c \in Attempts, ~Current(c), ~late',
         \/ saved' = saved
         \/ RunClear(c)
         \/ \E b \in Batches : PersistSave(c, b)
  PROVE  saved' = saved
  BY DEF RunClear, PersistSave

LEMMA OnlyCurrentWroteKept ==
  ASSUME Shape, OnlyCurrentWrote, [Next]_vars
  PROVE  OnlyCurrentWrote'
  <1> SUFFICES ASSUME ~late'
               PROVE  /\ \A b \in Batches : Len(saved'[b]) <= 1
                      /\ \A a \in Attempts :
                            Current(a)' /\ chunks' # 0 /\ runs'[a].planned = chunks'
                               => OwnOnly(a)'
                      /\ Replaced'
    BY DEF OnlyCurrentWrote
  <1>1. /\ saved \in [Batches -> Seq(Attempts)]
        /\ generation \in Nat
        /\ job.attempt \in Nat
        /\ \A a \in Attempts : runs[a].planned \in Nat /\ runs[a].planned <= generation
    BY MaxGenerationsIsPositive DEF Shape, TypeOK, Record
  <1>2. Len(<<>>) = 0 /\ \A b \in Batches : NothingSaved[b] = <<>>
    BY DEF NothingSaved
  <1>3. ASSUME ~late
        PROVE  /\ \A b \in Batches : Len(saved[b]) <= 1
               /\ \A a \in Attempts :
                     Current(a) /\ chunks # 0 /\ runs[a].planned = chunks => OwnOnly(a)
               /\ Replaced
    BY <1>3 DEF OnlyCurrentWrote
  <1>4. CASE Index \/ RetryExtraction
    <2>1. ~late /\ persists' = persists
      BY <1>4, IndexMoves
    <2>2. \A b \in Batches : Len(saved'[b]) <= 1
      BY <1>2, <1>3, <1>4, <2>1, IndexMoves
    <2>3. ASSUME NEW a \in Attempts, Current(a)', job' # job, UNCHANGED <<chunks, saved>>
          PROVE  OwnOnly(a)'
      <3>1. job'.attempt = a /\ job'.attempt = job.attempt + 1
        BY <1>4, <2>3, IndexMoves, PublishMoves DEF Current
      <3>2. runs[a].pc = "none"
        BY <1>1, <3>1 DEF Shape, TypeOK
      <3>3. runs'[a] = runs[a] \/ runs'[a].pc = "plan"
        BY <1>4, IndexMoves, PublishMoves
      <3>4. \A b \in Batches : persists[a][b] = "todo"
        BY <3>2 DEF Shape, MapSteps
      <3>5. QED BY <2>1, <3>2, <3>3, <3>4 DEF OwnOnly, At, PersistAt
    <2>4. ASSUME job' = job, NEW a \in Attempts, chunks' # 0, runs'[a].planned = chunks'
          PROVE  /\ chunks' = chunks /\ saved' = saved
                 /\ runs'[a] = runs[a]
      <3>1. runs'[a] = runs[a]
        BY <1>1, <1>4, <2>4, IndexMoves, PublishMoves
      <3>2. QED BY <1>1, <1>4, <2>4, <3>1, IndexMoves
    <2>5. ASSUME NEW a \in Attempts, Current(a)', chunks' # 0, runs'[a].planned = chunks'
          PROVE  OwnOnly(a)'
      <3>1. CASE job' # job
        <4>1. UNCHANGED <<chunks, saved>>
          BY <1>4, <3>1, IndexMoves
        <4>2. QED BY <2>3, <2>5, <3>1, <4>1
      <3>2. CASE job' = job
        BY <1>3, <2>1, <2>4, <2>5, <3>2 DEF Current, OwnOnly, At, PersistAt
      <3>3. QED BY <3>1, <3>2
    <2>6. ASSUME NEW a \in Attempts, Succeeded(a)', NEW b \in Batches PROVE saved'[b] = <<a>>
      <3>1. job' = job
        BY <1>4, <2>6, IndexMoves, PublishMoves DEF Succeeded
      <3>2. QED
        BY <1>3, <2>1, <2>4, <2>6, <3>1 DEF Succeeded, Replaced
    <2>7. QED BY <2>2, <2>5, <2>6 DEF Replaced
  <1>5. ASSUME NEW c \in Attempts, StartReplyLost(c)
        PROVE  /\ \A b \in Batches : Len(saved'[b]) <= 1
               /\ \A a \in Attempts :
                     Current(a)' /\ chunks' # 0 /\ runs'[a].planned = chunks' => OwnOnly(a)'
               /\ Replaced'
    <2>1. UNCHANGED <<chunks, runs, persists, saved, late>>
      BY <1>5 DEF StartReplyLost, indexing
    <2>2. /\ job'.attempt = job.attempt /\ (Active(job') => Active(job))
          /\ job'.status = "succeeded" => job.status = "succeeded"
      BY <1>5, JobMoves DEF StartReplyLost, RunFinalize, indexing
    <2>3. ASSUME NEW a \in Attempts
          PROVE  /\ Current(a)' => Current(a)
                 /\ Succeeded(a)' => Succeeded(a)
      BY <2>1, <2>2 DEF Current, Succeeded, Active
    <2>4. QED
      BY <1>3, <2>1, <2>3 DEF Replaced, OwnOnly, At, PersistAt
  <1>6. ASSUME NEW c \in Attempts, Run(c)
        PROVE  /\ \A b \in Batches : Len(saved'[b]) <= 1
               /\ \A a \in Attempts :
                     Current(a)' /\ chunks' # 0 /\ runs'[a].planned = chunks' => OwnOnly(a)'
               /\ Replaced'
    <2>1. /\ chunks' = chunks /\ ~late
          /\ \/ saved' = saved
             \/ RunClear(c)
             \/ \E b \in Batches : PersistSave(c, b)
      BY <1>6, WriteMoves DEF RunClear, PersistSave
    <2>2. \A a \in Attempts : Current(a)' => Current(a)
      BY <1>6, JobMoves DEF Current, Active
    <2>3. ASSUME NEW b \in Batches PROVE Len(saved'[b]) <= 1
      <3>1. CASE RunClear(c)
        BY <1>2, <3>1 DEF RunClear
      <3>2. ASSUME NEW d \in Batches, PersistSave(c, d) PROVE Len(saved'[b]) <= 1
        <4>1. /\ Current(c) /\ chunks = runs[c].planned /\ PersistAt(c, d, "save")
              /\ saved' = [saved EXCEPT ![d] = Append(saved[d], c)]
          BY <3>2 DEF PersistSave
        <4>2. chunks # 0
          BY <1>1, <4>1 DEF PersistAt, Shape
        <4>3. saved[d] = <<>>
          BY <1>3, <2>1, <4>1, <4>2 DEF OwnOnly
        <4>4. Len(Append(saved[d], c)) = 1
          BY <1>1, <1>2, <4>3, AppendOnce
        <4>5. saved'[b] = IF b = d THEN Append(saved[d], c) ELSE saved[b]
          BY <1>1, <4>1
        <4>6. QED BY <1>3, <2>1, <4>4, <4>5
      <3>3. QED BY <1>3, <2>1, <3>1, <3>2
    <2>4. ASSUME NEW a \in Attempts, Current(a)', chunks' # 0, runs'[a].planned = chunks'
          PROVE  OwnOnly(a)'
      <3>1. Current(a)
        BY <2>2, <2>4
      <3>2. CASE a = c
        BY <1>3, <1>6, <2>1, <2>4, <3>1, <3>2, OwnOnlyKept
      <3>3. CASE a # c
        <4>1. ~Current(c)
          BY <3>1, <3>3, OneIsCurrent
        <4>2. saved' = saved
          BY <2>1, <4>1, OthersWriteNothing
        <4>3. runs'[a] = runs[a] /\ persists'[a] = persists[a]
          BY <1>6, <3>3, RunMoves
        <4>4. QED BY <1>3, <2>1, <2>4, <3>1, <4>2, <4>3 DEF OwnOnly, At, PersistAt
      <3>4. QED BY <3>2, <3>3
    <2>5. ASSUME NEW a \in Attempts, Succeeded(a)', NEW b \in Batches PROVE saved'[b] = <<a>>
      <3>1. job'.attempt = a /\ job.attempt = a /\ chunks # 0 /\ runs'[a].planned = chunks
        BY <1>6, <2>1, <2>5, JobMoves DEF Succeeded
      <3>2. CASE job.status = "succeeded"
        <4>1. runs'[a].planned = runs[a].planned
          BY <1>6, <3>1, <3>2, RunMoves DEF Shape, RunList, At, MapSteps
        <4>2. saved[b] = <<a>>
          BY <1>3, <2>1, <3>1, <3>2, <4>1 DEF Replaced, Succeeded
        <4>3. ~Current(c)
          BY <3>2, OneIsCurrent
        <4>4. QED BY <2>1, <4>2, <4>3, OthersWriteNothing
      <3>3. CASE RunFinalize(c) /\ Current(c)
        <4>1. c = a /\ At(a, "finalize") /\ saved' = saved
          BY <3>1, <3>3 DEF Current, RunFinalize
        <4>2. runs'[a].planned = runs[a].planned
          BY <1>6, <4>1, RunMoves DEF RunList, At
        <4>3. saved[b] = <<a>>
          BY <1>3, <2>1, <3>1, <3>3, <4>1, <4>2 DEF OwnOnly
        <4>4. QED BY <4>1, <4>3
      <3>4. QED BY <1>6, <2>5, <3>2, <3>3, JobMoves DEF Succeeded
    <2>6. QED BY <2>3, <2>4, <2>5 DEF Replaced
  <1>7. CASE UNCHANGED vars
    BY <1>3, <1>7 DEF vars, indexing, Replaced, Succeeded, Current, Active, OwnOnly, At, PersistAt
  <1>8. QED BY <1>4, <1>5, <1>6, <1>7 DEF Next

(***************************************************************************)
(* Entities: the theorems                                                  *)
(***************************************************************************)
LEMMA InitInvariant == Init => IInv
  <1> SUFFICES ASSUME Init PROVE IInv
    OBVIOUS
  <1> USE DEF Init
  <1>1. /\ NoRecord \in Record /\ NoRecord.attempt = 0 /\ NoRecord.status = "none"
        /\ MaxAttempt \in Nat /\ MaxGenerations \in Nat
        /\ {"clear"} \subseteq IndexerSteps /\ "none" \in RunSteps /\ "todo" \in PersistSteps
        /\ "none" \notin MapSteps
    BY MaxAttemptIsPositive, MaxGenerationsIsPositive
    DEF NoRecord, Record, Phases, IndexerSteps, RunSteps, PersistSteps, MapSteps
  <1>2. /\ saved \in [Batches -> Seq(Attempts)]
        /\ \A b \in Batches : saved[b] = <<>>
        /\ Range(<<>>) = {} /\ IsInjective(<<>>) /\ Len(<<>>) = 0
    BY DEF NothingSaved, Range, IsInjective
  <1>3. runs \in [Attempts -> [pc : RunSteps, planned : 0 .. generation]]
    BY <1>1
  <1>4. TypeOK
    <2>1. persists \in [Attempts -> [Batches -> PersistSteps]]
      BY <1>1
    <2>2. \A a \in Attempts : runs[a].pc = "none" /\ runs[a].planned = 0
      OBVIOUS
    <2>3. 0 \in 0 .. MaxGenerations /\ 0 \in 0 .. 0
      BY <1>1
    <2>4. \A b \in Batches : Range(saved[b]) \subseteq 1 .. job.attempt
      BY <1>2
    <2>5. \A a \in Attempts : /\ runs[a].pc \in RunSteps
                             /\ runs[a].planned \in 0 .. generation
                             /\ a > job.attempt => runs[a].pc = "none"
      BY <1>1, <2>2, <2>3
    <2>6. job \in Record /\ job.attempt <= MaxAttempt
      BY <1>1
    <2>7. QED BY <1>1, <2>1, <2>3, <2>4, <2>5, <2>6 DEF TypeOK
  <1>5. Shape
    BY <1>1, <1>2, <1>3, <1>4 DEF Shape
  <1>6. NotYetSaved
    BY <1>2 DEF NotYetSaved, PersistAt
  <1>7. OnlyCurrentWrote
    BY <1>1, <1>2 DEF OnlyCurrentWrote, Replaced, Succeeded, Current
  <1>8. QED BY <1>5, <1>6, <1>7 DEF IInv

\* Whatever fails, repeats or is superseded: an invocation saves a batch it
\* has not saved yet, and what the current attempt planned holds its own
\* batches only, unless one wrote late.
THEOREM Invariant == Spec => []IInv
  BY InitInvariant, ShapeKept, NotYetSavedKept, OnlyCurrentWroteKept, PTL DEF Spec, IInv

\* entityextract, replaced chunks, retries: a run that succeeds has replaced
\* everything earlier ones saved, for any number of batches, attempts and
\* replacements, unless one of them wrote after it was no longer current.
THEOREM LatestReplacesAll == Spec => []RunReplacesAll
  <1>1. IInv => RunReplacesAll
    BY DEF IInv, Shape, OnlyCurrentWrote, RunReplacesAll
  <1>2. QED BY <1>1, Invariant, PTL

\* PersistBatch: the check for entities already saved is enough for no attempt
\* ever to save a batch twice.
THEOREM NoBatchTwice == Spec => []SavedOnce
  <1>1. IInv => SavedOnce
    BY DEF IInv, NotYetSaved, OnlyCurrentWrote, SavedOnce
  <1>2. QED BY <1>1, Invariant, PTL

(***************************************************************************)
(* Numbers: the least of some, and induction                               *)
(***************************************************************************)
LEMMA Least ==
  ASSUME NEW T, T \subseteq Nat, T # {}
  PROVE  \E x \in T : \A y \in T : x <= y
  <1> DEFINE R == OpToRel(<, Nat)
  <1>1. IsWellFoundedOn(R, Nat)
    BY NatLessThanWellFounded
  <1>2. \A i, j \in Nat : i < j => <<i, j>> \in R
    BY DEF OpToRel
  <1> HIDE DEF R
  <1>3. PICK x \in T : \A y \in T : ~(<<y, x>> \in R)
    BY <1>1, WFMin
  <1>4. \A y \in T : ~(y < x)
    BY <1>2, <1>3
  <1>5. QED BY <1>3, <1>4

LEMMA Induction ==
  ASSUME NEW S, 0 \in S, \A n \in Nat : n \in S => n + 1 \in S
  PROVE  Nat \subseteq S
  <1>1. SUFFICES ASSUME Nat \ S # {} PROVE FALSE
    OBVIOUS
  <1>2. PICK n \in Nat \ S : \A m \in Nat \ S : n <= m
    BY <1>1, Least
  <1>3. n # 0 /\ n - 1 \in Nat /\ n - 1 \in S
    BY <1>2
  <1>4. QED BY <1>2, <1>3

(***************************************************************************)
(* Chunks: files                                                           *)
(***************************************************************************)
Increasing(s) == \A i, j \in DOMAIN s : i < j => s[i] < s[j]

\* The k-th number of a set has k up to it.
LEMMA NumbersInOrder ==
  ASSUME NEW S, S \subseteq Nat, IsFiniteSet(S)
  PROVE  /\ Cardinality(S) \in Nat
         /\ InOrder(S) \in [1 .. Cardinality(S) -> S]
         /\ Increasing(InOrder(S))
  <1> DEFINE n == Cardinality(S)
             upTo(x) == {y \in S : y <= x}
             place == [x \in S |-> Cardinality(upTo(x))]
             at(k) == CHOOSE x \in S : Cardinality(upTo(x)) = k
  <1>1. n \in Nat
    BY FS_CardinalityType
  <1>2. \A x \in S : /\ IsFiniteSet(upTo(x)) /\ Cardinality(upTo(x)) \in Nat
                     /\ Cardinality(upTo(x)) <= n
    <2>1. SUFFICES ASSUME NEW x \in S
                   PROVE  /\ IsFiniteSet(upTo(x)) /\ Cardinality(upTo(x)) \in Nat
                          /\ Cardinality(upTo(x)) <= n
      OBVIOUS
    <2>2. upTo(x) \in SUBSET S
      OBVIOUS
    <2> HIDE DEF upTo
    <2>3. QED BY <2>2, FS_Subset, FS_CardinalityType
  <1>3. \A x \in S : Cardinality(upTo(x)) # 0
    <2>1. SUFFICES ASSUME NEW x \in S PROVE Cardinality(upTo(x)) # 0
      OBVIOUS
    <2>2. x \in upTo(x)
      OBVIOUS
    <2>3. IsFiniteSet(upTo(x))
      BY <1>2
    <2> HIDE DEF upTo
    <2>4. QED BY <2>2, <2>3, FS_EmptySet
  <1>4. ASSUME NEW x \in S, NEW y \in S, x < y
        PROVE  Cardinality(upTo(x)) < Cardinality(upTo(y))
    <2>1. upTo(x) \in SUBSET upTo(y) /\ upTo(x) # upTo(y)
      <3>1. y \in upTo(y) /\ y \notin upTo(x)
        BY <1>4
      <3>2. ASSUME NEW z \in upTo(x) PROVE z \in upTo(y)
        <4>1. x \in Nat /\ y \in Nat /\ z \in Nat /\ z \in S /\ z <= x
          BY <3>2
        <4>2. z <= y
          BY <1>4, <4>1
        <4>3. QED BY <4>1, <4>2
      <3>3. QED BY <3>1, <3>2
    <2>2. /\ IsFiniteSet(upTo(y)) /\ Cardinality(upTo(x)) \in Nat /\ Cardinality(upTo(y)) \in Nat
      BY <1>2
    <2> HIDE DEF upTo
    <2>3. /\ Cardinality(upTo(x)) <= Cardinality(upTo(y))
          /\ Cardinality(upTo(x)) # Cardinality(upTo(y))
      BY <2>1, <2>2, FS_Subset
    <2>4. QED BY <2>2, <2>3
  <1>5. \A x \in S : Cardinality(upTo(x)) \in 1 .. n
    BY <1>1, <1>2, <1>3
  <1>6. \A x, y \in S : Cardinality(upTo(x)) = Cardinality(upTo(y)) => x = y
    <2>1. SUFFICES ASSUME NEW x \in S, NEW y \in S, Cardinality(upTo(x)) = Cardinality(upTo(y)),
                          x # y
                   PROVE  FALSE
      OBVIOUS
    <2>2. x < y \/ y < x
      BY <2>1
    <2>3. QED BY <1>2, <1>4, <2>1, <2>2
  <1> HIDE DEF upTo
  <1>7. place \in Injection(S, 1 .. n)
    BY <1>5, <1>6 DEF Injection, IsInjective
  <1>8. place \in Surjection(S, 1 .. n)
    <2>1. IsFiniteSet(1 .. n) /\ Cardinality(1 .. n) = n
      BY <1>1, FS_Interval
    <2>2. QED BY <1>7, <2>1, FS_Injection
  <1>9. \A k \in 1 .. n : at(k) \in S /\ Cardinality(upTo(at(k))) = k
    <2>1. \A k \in 1 .. n : \E x \in S : place[x] = k
      BY <1>8 DEF Surjection
    <2>2. \A k \in 1 .. n : \E x \in S : Cardinality(upTo(x)) = k
      BY <2>1
    <2>3. QED BY <2>2
  <1>10. InOrder(S) = [k \in 1 .. n |-> at(k)]
    BY DEF InOrder, upTo
  <1> HIDE DEF at
  <1>11. ASSUME NEW i \in 1 .. n, NEW j \in 1 .. n, i < j
         PROVE  at(i) < at(j)
    <2>1. at(i) \in S /\ at(j) \in S /\ Cardinality(upTo(at(i))) = i /\ Cardinality(upTo(at(j))) = j
      BY <1>9
    <2>2. at(i) \in Nat /\ at(j) \in Nat
      BY <2>1
    <2>3. CASE at(j) <= at(i)
      <3>1. j <= i
        <4>1. CASE at(j) = at(i)
          BY <2>1, <4>1
        <4>2. CASE at(j) < at(i)
          <5>1. Cardinality(upTo(at(j))) < Cardinality(upTo(at(i)))
            BY <1>4, <2>1, <4>2
          <5>2. QED BY <2>1, <5>1
        <4>3. QED BY <2>2, <2>3, <4>1, <4>2
      <3>2. QED BY <1>11, <3>1
    <2>4. QED BY <2>2, <2>3
  <1>12. QED BY <1>1, <1>9, <1>10, <1>11 DEF Increasing

LEMMA RegionsByPage ==
  ASSUME NEW u \in Uploads
  PROVE  /\ \E m \in Nat : DOMAIN RawRegions(u) = 1 .. m
         /\ \A i \in DOMAIN RawRegions(u) : RawRegions(u)[i].page \in Nat
         /\ u.tables = {} =>
               \A i, j \in DOMAIN RawRegions(u) :
                  i < j => RawRegions(u)[i].page < RawRegions(u)[j].page
  <1> DEFINE region(p) == [page |-> p, needsVLM |-> "", text |-> TRUE]
             regions(S) == [k \in 1 .. Cardinality(S) |-> region(InOrder(S)[k])]
             R == [page : Nat, needsVLM : {""}, text : {TRUE}]
  <1>1. CASE u.kind = "pdf"
    <2>1. ASSUME NEW S \in {u.texts, u.tables}
          PROVE  /\ Cardinality(S) \in Nat
                 /\ regions(S) \in Seq(R)
                 /\ Len(regions(S)) = Cardinality(S)
                 /\ \A i, j \in 1 .. Cardinality(S) : i < j => regions(S)[i].page < regions(S)[j].page
      <3>1. S \subseteq Nat /\ IsFiniteSet(S)
        BY UploadsAreFiles
      <3>2. /\ Cardinality(S) \in Nat /\ InOrder(S) \in [1 .. Cardinality(S) -> Nat]
            /\ \A i, j \in 1 .. Cardinality(S) : i < j => InOrder(S)[i] < InOrder(S)[j]
        BY <3>1, NumbersInOrder DEF Increasing
      <3>3. regions(S) \in [1 .. Cardinality(S) -> R]
        BY <3>2
      <3>4. \A i \in 1 .. Cardinality(S) : regions(S)[i].page = InOrder(S)[i]
        OBVIOUS
      <3> HIDE DEF regions, R
      <3>5. regions(S) \in Seq(R) /\ Len(regions(S)) = Cardinality(S)
        BY <3>2, <3>3
      <3>6. QED BY <3>2, <3>4, <3>5
    <2> HIDE DEF R
    <2>2. /\ Cardinality(u.texts) \in Nat /\ regions(u.texts) \in Seq(R)
          /\ Len(regions(u.texts)) = Cardinality(u.texts)
          /\ \A i, j \in 1 .. Cardinality(u.texts) :
                i < j => regions(u.texts)[i].page < regions(u.texts)[j].page
      BY <2>1
    <2>3. regions(u.tables) \in Seq(R) /\ Len(regions(u.tables)) = Cardinality(u.tables)
      BY <2>1
    <2>4. RawRegions(u) = regions(u.texts) \o regions(u.tables)
      BY <1>1 DEF RawRegions, LayoutResult
    <2> HIDE DEF regions
    <2>5. RawRegions(u) \in Seq(R)
      BY <2>2, <2>3, <2>4
    <2>6. /\ DOMAIN RawRegions(u) = 1 .. Len(RawRegions(u)) /\ Len(RawRegions(u)) \in Nat
          /\ \A i \in DOMAIN RawRegions(u) : RawRegions(u)[i] \in R
      BY <2>5
    <2>7. \A r \in R : r.page \in Nat
      BY DEF R
    <2>8. ASSUME u.tables = {}
          PROVE  RawRegions(u) = regions(u.texts)
      <3>1. Len(regions(u.tables)) = 0
        BY <2>3, <2>8, FS_EmptySet
      <3>2. regions(u.tables) = <<>>
        BY <2>3, <3>1
      <3>3. regions(u.texts) \o <<>> = regions(u.texts)
        BY <2>2
      <3>4. QED BY <2>4, <3>2, <3>3
    <2>9. DOMAIN regions(u.texts) = 1 .. Cardinality(u.texts)
      BY <2>2
    <2>10. QED BY <2>2, <2>6, <2>7, <2>8, <2>9
  <1>2. CASE u.kind # "pdf"
    <2>1. RawRegions(u) = <<[page |-> 1, needsVLM |-> "describe", text |-> FALSE]>>
      BY <1>2 DEF RawRegions
    <2>2. DOMAIN RawRegions(u) = 1 .. 1 /\ RawRegions(u)[1].page = 1
      BY <2>1
    <2>3. QED BY <2>2
  <1>3. QED BY <1>1, <1>2

LEMMA PiecesInOrder ==
  ASSUME NEW u \in Uploads
  PROVE  Len(Splits(u)) \in Nat /\ DOMAIN Splits(u) = 1 .. Len(Splits(u))
  <1> DEFINE raws == RawRegions(u)
             indexed == {i \in DOMAIN raws : Indexed(raws[i])}
             places == IF u.kind = "text" THEN <<0>> ELSE InOrder(indexed)
  <1>1. Len(places) \in Nat
    <2>1. CASE u.kind = "text"
      BY <2>1
    <2>2. CASE u.kind # "text"
      <3>1. PICK m \in Nat : DOMAIN raws = 1 .. m
        BY RegionsByPage
      <3>2. IsFiniteSet(1 .. m)
        BY FS_Interval
      <3>3. indexed \in SUBSET (1 .. m) /\ indexed \subseteq Nat
        BY <3>1
      <3> HIDE DEF indexed
      <3>4. IsFiniteSet(indexed)
        BY <3>2, <3>3, FS_Subset
      <3>5. Cardinality(indexed) \in Nat /\ InOrder(indexed) \in [1 .. Cardinality(indexed) -> indexed]
        BY <3>3, <3>4, NumbersInOrder
      <3>6. QED BY <2>2, <3>5
    <2>3. QED BY <2>1, <2>2
  <1>2. Splits(u) = [k \in 1 .. Len(places) * u.windows |-> places[(k - 1) \div u.windows + 1]]
    BY DEF Splits
  <1> HIDE DEF places
  <1>3. u.windows \in Nat
    BY UploadsAreFiles
  <1>4. Len(places) * u.windows \in Nat
    BY <1>1, <1>3
  <1> DEFINE n == Len(places) * u.windows
  <1> HIDE DEF n
  <1>5. DOMAIN Splits(u) = 1 .. n /\ n \in Nat
    BY <1>2, <1>4 DEF n
  <1>6. Splits(u) = [k \in 1 .. n |-> Splits(u)[k]]
    BY <1>2 DEF n
  <1>7. Len(Splits(u)) = n
    BY <1>5, <1>6
  <1>8. QED BY <1>5, <1>7

(***************************************************************************)
(* Chunks: lists                                                           *)
(***************************************************************************)

\* A list of the numbers up to n that increases is the list of them in order.
LEMMA IncreasingIsIdentity ==
  ASSUME NEW n \in Nat, NEW f \in [1 .. n -> 1 .. n], \A i, j \in 1 .. n : i < j => f[i] < f[j]
  PROVE  \A i \in 1 .. n : f[i] = i
  <1> DEFINE Above == {k \in Nat : k + 1 \in 1 .. n => f[k + 1] >= k + 1}
             Below == {k \in Nat : n - k \in 1 .. n => f[n - k] <= n - k}
  <1>1. 0 \in Above
    OBVIOUS
  <1>2. \A k \in Nat : k \in Above => k + 1 \in Above
    <2>1. SUFFICES ASSUME NEW k \in Nat, k \in Above, k + 1 + 1 \in 1 .. n
                   PROVE  f[k + 1 + 1] >= k + 1 + 1
      OBVIOUS
    <2>2. k + 1 \in 1 .. n /\ k + 1 < k + 1 + 1
      BY <2>1
    <2>3. f[k + 1] >= k + 1 /\ f[k + 1] < f[k + 1 + 1]
      BY <2>1, <2>2
    <2>4. PICK a, b : a = f[k + 1] /\ b = f[k + 1 + 1] /\ a \in Int /\ b \in Int
      BY <2>1, <2>2
    <2>5. a >= k + 1 /\ a < b
      BY <2>3, <2>4
    <2> HIDE DEF Above
    <2>6. b >= k + 1 + 1
      BY <2>4, <2>5
    <2>7. QED BY <2>4, <2>6
  <1>3. Nat \subseteq Above
    <2> HIDE DEF Above
    <2>1. QED BY <1>1, <1>2, Induction
  <1>4. 0 \in Below
    OBVIOUS
  <1>5. \A k \in Nat : k \in Below => k + 1 \in Below
    <2>1. SUFFICES ASSUME NEW k \in Nat, k \in Below, n - (k + 1) \in 1 .. n
                   PROVE  f[n - (k + 1)] <= n - (k + 1)
      OBVIOUS
    <2>2. n - k \in 1 .. n /\ n - (k + 1) < n - k
      BY <2>1
    <2>3. f[n - k] <= n - k /\ f[n - (k + 1)] < f[n - k]
      BY <2>1, <2>2
    <2>4. PICK a, b : a = f[n - k] /\ b = f[n - (k + 1)] /\ a \in Int /\ b \in Int
      BY <2>1, <2>2
    <2>5. a <= n - k /\ b < a
      BY <2>3, <2>4
    <2>6. b <= n - (k + 1)
      <3> HIDE DEF Below
      <3>1. QED BY <2>4, <2>5
    <2>7. QED BY <2>4, <2>6
  <1>6. Nat \subseteq Below
    <2> HIDE DEF Below
    <2>1. QED BY <1>4, <1>5, Induction
  <1>7. SUFFICES ASSUME NEW i \in 1 .. n PROVE f[i] = i
    OBVIOUS
  <1>8. i - 1 \in Above /\ n - i \in Below /\ i - 1 + 1 = i /\ n - (n - i) = i
    <2>1. i - 1 \in Nat /\ n - i \in Nat /\ i - 1 + 1 = i /\ n - (n - i) = i
      OBVIOUS
    <2> HIDE DEF Above, Below
    <2>2. QED BY <1>3, <1>6, <2>1
  <1>9. f[i] >= i /\ f[i] <= i
    BY <1>8
  <1>10. f[i] \in 1 .. n
    OBVIOUS
  <1>11. QED BY <1>9, <1>10

LEMMA OneRow ==
  ASSUME NEW g, NEW n \in Nat
  PROVE  Cardinality({g} \X (1 .. n)) = n
  <1>1. IsFiniteSet({g}) /\ Cardinality({g}) = 1
    BY FS_Singleton
  <1>2. IsFiniteSet(1 .. n) /\ Cardinality(1 .. n) = n
    BY FS_Interval
  <1>3. Cardinality({g} \X (1 .. n)) = Cardinality({g}) * Cardinality(1 .. n)
    <2> HIDE <1>1, <1>2
    <2>1. \A S, T : IsFiniteSet(S) /\ IsFiniteSet(T) =>
                      Cardinality(S \X T) = Cardinality(S) * Cardinality(T)
      BY FS_Product
    <2>2. QED BY <1>1, <1>2, <2>1
  <1>4. QED BY <1>1, <1>2, <1>3

\* So is a list of one insertion's rows whose places do not fall.
LEMMA ListedInOrder ==
  ASSUME NEW g \in Nat, NEW n \in Nat, NEW list \in SetToSeqs({g} \X (1 .. n)),
         \A i, j \in DOMAIN list : i < j => list[i][2] <= list[j][2]
  PROVE  DOMAIN list = 1 .. n /\ \A i \in 1 .. n : list[i] = <<g, i>>
  <1> DEFINE S == {g} \X (1 .. n)
             f == [i \in 1 .. n |-> list[i][2]]
  <1>1. Cardinality(S) = n
    BY OneRow
  <1>2. /\ list \in [1 .. n -> S]
        /\ \A i, j \in 1 .. n : i # j => list[i] # list[j]
    BY <1>1 DEF SetToSeqs
  <1>3. \A i \in 1 .. n : list[i][2] \in 1 .. n /\ list[i] = <<g, list[i][2]>>
    BY <1>2
  <1>4. f \in [1 .. n -> 1 .. n]
    BY <1>3
  <1>5. \A i, j \in 1 .. n : i < j => f[i] < f[j]
    <2>1. SUFFICES ASSUME NEW i \in 1 .. n, NEW j \in 1 .. n, i < j PROVE f[i] < f[j]
      OBVIOUS
    <2>2. f[i] <= f[j]
      BY <1>2, <2>1
    <2>3. f[i] # f[j]
      <3>1. list[i] # list[j]
        BY <1>2, <2>1
      <3>2. list[i] = <<g, f[i]>> /\ list[j] = <<g, f[j]>>
        BY <1>3
      <3>3. QED BY <3>1, <3>2
    <2>4. f[i] \in 1 .. n /\ f[j] \in 1 .. n
      BY <1>4
    <2>5. QED BY <2>2, <2>3, <2>4
  <1> HIDE DEF f
  <1>6. \A i \in 1 .. n : f[i] = i
    BY <1>4, <1>5, IncreasingIsIdentity
  <1>7. QED BY <1>2, <1>3, <1>6 DEF f

(***************************************************************************)
(* Chunks: the inductive invariant                                         *)
(***************************************************************************)
Pieces == DOMAIN Splits(upload)
Regions == DOMAIN RawRegions(upload)
Ids == Nat \X Nat

ClearingPcs == {"clearManifest", "createManifest", "listManifest"}
EarlyPcs == {"none", "begin", "get", "markDoc", "layout", "check"} \cup ClearingPcs
RebuildPcs == {"markDoc", "layout", "check", "embed"} \cup BuildPcs
ExecPcs == {"none", "begin", "get", "recordFailure", "failDoc", "delete", "deleteFailed", "ended"}
              \cup RebuildPcs \cup FinalizePcs

\* Chunks are inserted and deleted all at once, and a vector has the place of
\* the chunk it is stored with.
RowsFit ==
    /\ inserts \in [manifest : Nat, chunks : Nat]
    /\ DOMAIN manifest \subseteq Nat \X Regions
    /\ DOMAIN chunkRows \subseteq Nat \X Pieces
    /\ \A c \in DOMAIN chunkRows :
          /\ c[1] <= inserts.chunks
          /\ chunkRows[c] \in [region : Ids, vector : {NoVector, c[2]}]
          /\ \A k \in Pieces : <<c[1], k>> \in DOMAIN chunkRows
    /\ \A r \in DOMAIN manifest : r[1] <= inserts.manifest

\* An attempt that is not recorded yet has no execution, and one that said it
\* is done is not current; what finds the document indexed does nothing but
\* say so; and chunks to be updated are
\* listed in the order of their texts.
ExecState == [pc : ExecPcs, already : BOOLEAN, listed : Seq(Ids), at : Nat]

ExecFits(a) ==
    /\ a > record.attempt => ExecAt(a, "none")
    /\ ExecAt(a, "delete") => ~IsCurrent(a)
    /\ execs[a].already => execs[a].pc \in {"succeed", "delete", "ended"}
    /\ execs[a].pc \in EarlyPcs => execs[a].listed = <<>>
    /\ execs[a].pc \in {"createChunks", "stage", "embed", "list", "update"} => Chunked
    /\ ExecAt(a, "update") =>
          /\ DOMAIN execs[a].listed = Pieces /\ execs[a].at \in Pieces
          /\ \A k \in Pieces : execs[a].listed[k][2] = k

ExecsFit ==
    /\ record \in Record /\ record.attempt <= MaxIndexAttempt
    /\ execs \in [IndexAttempts -> ExecState]
    /\ \A a \in IndexAttempts : ExecFits(a)

IndexTypes == upload \in Uploads /\ overtaken \in BOOLEAN /\ RowsFit /\ ExecsFit

\* The chunks of one insertion, each with its vector.
OneInsertion == \E g \in Nat : DOMAIN chunkRows = {g} \X Pieces
AllEmbedded == \A c \in DOMAIN chunkRows : chunkRows[c].vector # NoVector

\* The regions of one insertion, by page.
ManifestInOrder ==
    \E g \in Nat : /\ DOMAIN manifest = {g} \X Regions
                   /\ \A i \in Regions : manifest[<<g, i>>] = RawRegions(upload)[i].page

\* What the rows are at each step of the attempt that alone has written them.
ChunksFit(a) ==
    /\ ExecAt(a, "createChunks") => DOMAIN chunkRows = {}
    /\ execs[a].pc \in {"stage", "embed"} \cup FinalizePcs /\ ~execs[a].already => OneInsertion
    /\ execs[a].pc \in {"getDone", "markIndexed", "succeed"} /\ ~execs[a].already => AllEmbedded
    /\ ExecAt(a, "update") =>
          \A k \in Pieces : /\ execs[a].listed[k] \in DOMAIN chunkRows
                            /\ k < execs[a].at => chunkRows[execs[a].listed[k]].vector # NoVector

RegionsFit(a) ==
    /\ ExecAt(a, "createManifest") => DOMAIN manifest = {}
    /\ ExecAt(a, "listManifest") => ManifestInOrder
    /\ execs[a].pc \in {"clearChunks", "createChunks"} =>
          \A i \in DOMAIN execs[a].listed : execs[a].listed[i][2] = i

CurrentFits(a) ==
    /\ execs[a].pc \in RebuildPcs => docStatus # "indexed"
    /\ ChunksFit(a)
    /\ upload.tables = {} => RegionsFit(a)

Unspoiled ==
    ~overtaken =>
       /\ \A a \in IndexAttempts : IsCurrent(a) => CurrentFits(a)
       /\ docStatus = "indexed" => OneInsertion /\ AllEmbedded
       /\ upload.tables = {} => OwnRegions

IndexInv == IndexTypes /\ Unspoiled

(***************************************************************************)
(* Chunks: what a step of an attempt leaves alone                          *)
(***************************************************************************)
LEMMA RecordMoves ==
  ASSUME record \in Record, NEW a,
         \/ record' = record
         \/ record' = MarkProcessing(record, a)
         \/ record' = SetPhase(record, a, "embedding")
         \/ record' = MarkSucceeded(record, a)
         \/ record' = MarkFailed(record, a, "step")
         \/ record' = MarkFailed(record, a, "dispatch")
  PROVE  /\ record' \in Record /\ record'.attempt = record.attempt
         /\ Active(record') => Active(record)
  <1>1. "step" \in Reasons /\ "dispatch" \in Reasons
    BY DEF Reasons
  <1>2. CASE record' = SetPhase(record, a, "embedding")
    BY <1>2 DEF SetPhase, Transition, TransitionError, Targets, Record, Active, Finished,
                ActiveStatuses, FinishedStatuses, Phases, Reasons
  <1>3. CASE record' = record
    BY <1>3 DEF Active
  <1>4. CASE record' = MarkProcessing(record, a)
    BY <1>1, <1>4, MarksTyped
  <1>5. CASE record' = MarkSucceeded(record, a)
    BY <1>1, <1>5, MarksTyped
  <1>6. CASE record' = MarkFailed(record, a, "step")
    BY <1>1, <1>6, MarksTyped
  <1>7. CASE record' = MarkFailed(record, a, "dispatch")
    BY <1>1, <1>7, MarksTyped
  <1>8. QED BY <1>2, <1>3, <1>4, <1>5, <1>6, <1>7

LEMMA CurrentGoesOn ==
  ASSUME NEW a, IsCurrent(a), NEW to \in Targets
  PROVE  ~Superseded(TransitionError(record, a, to))
  BY DEF IsCurrent, Superseded, TransitionError, Active, Finished, ActiveStatuses,
         FinishedStatuses, Targets

LEMMA FilesStay ==
  ASSUME upload' = upload
  PROVE  /\ Pieces' = Pieces /\ Regions' = Regions /\ Chunked' = Chunked /\ IsText' = IsText
         /\ RawRegions(upload)' = RawRegions(upload) /\ Splits(upload)' = Splits(upload)
  BY DEF Pieces, Regions, Chunked, IsText

LEMMA RowsStay ==
  ASSUME upload' = upload, UNCHANGED indexState
  PROVE  /\ RowsFit => RowsFit'
         /\ OneInsertion => OneInsertion'
         /\ AllEmbedded => AllEmbedded'
         /\ ManifestInOrder => ManifestInOrder'
         /\ OwnRegions => OwnRegions'
  <1>1. manifest' = manifest /\ chunkRows' = chunkRows /\ inserts' = inserts
    BY DEF indexState
  <1>2. /\ Pieces' = Pieces /\ Regions' = Regions
        /\ RawRegions(upload)' = RawRegions(upload) /\ Splits(upload)' = Splits(upload)
    BY FilesStay
  <1>3. QED BY <1>1, <1>2 DEF RowsFit, OneInsertion, AllEmbedded, ManifestInOrder, OwnRegions,
                              RegionOf

\* Of two attempts, one is not current; so while only current ones write, what
\* holds of the other still does.
LEMMA AttemptStep ==
  ASSUME IndexInv, NEW a \in IndexAttempts, upload' = upload,
         execs' \in [IndexAttempts -> ExecState],
         \A b \in IndexAttempts \ {a} : execs'[b] = execs[b],
         ExecFits(a)', RowsFit',
         record' \in Record, record'.attempt = record.attempt, Active(record') => Active(record),
         overtaken' \in BOOLEAN, overtaken => overtaken',
         ~overtaken' /\ ~IsCurrent(a) =>
            UNCHANGED <<manifest, chunkRows>> /\ docStatus' \in {docStatus, "failed"},
         ~overtaken' /\ IsCurrent(a) =>
            /\ IsCurrent(a)' => CurrentFits(a)'
            /\ docStatus' = "indexed" => OneInsertion' /\ AllEmbedded'
            /\ upload.tables = {} => OwnRegions'
  PROVE  IndexInv'
  <1>1. /\ Pieces' = Pieces /\ Regions' = Regions /\ Chunked' = Chunked
        /\ RawRegions(upload)' = RawRegions(upload) /\ Splits(upload)' = Splits(upload)
    BY FilesStay
  <1>2. IndexTypes /\ RowsFit /\ ExecsFit /\ Unspoiled
    BY DEF IndexInv, IndexTypes
  <1>3. ASSUME NEW b \in IndexAttempts, b # a
        PROVE  ExecFits(b)'
    <2>1. execs'[b] = execs[b] /\ ExecFits(b)
      BY <1>2, <1>3 DEF ExecsFit
    <2>2. IsCurrent(b)' => IsCurrent(b)
      BY DEF IsCurrent
    <2>3. QED BY <1>1, <2>1, <2>2 DEF ExecFits, ExecAt
  <1>4. IndexTypes'
    BY <1>2, <1>3 DEF IndexTypes, ExecsFit
  <1>5. ASSUME ~overtaken', ~IsCurrent(a)
        PROVE  /\ OneInsertion => OneInsertion'
               /\ AllEmbedded => AllEmbedded'
               /\ ManifestInOrder => ManifestInOrder'
               /\ OwnRegions => OwnRegions'
    BY <1>1, <1>5 DEF OneInsertion, AllEmbedded, ManifestInOrder, OwnRegions, RegionOf
  <1>6. ASSUME ~overtaken', NEW b \in IndexAttempts, IsCurrent(b)'
        PROVE  CurrentFits(b)'
    <2>1. IsCurrent(b)
      BY <1>6 DEF IsCurrent
    <2>2. CASE b = a
      BY <1>6, <2>1, <2>2
    <2>3. CASE b # a
      <3>1. ~IsCurrent(a) /\ execs'[b] = execs[b]
        BY <2>1, <2>3 DEF IsCurrent
      <3>2. chunkRows' = chunkRows /\ manifest' = manifest /\ docStatus' \in {docStatus, "failed"}
        BY <1>6, <3>1
      <3>3. CurrentFits(b)
        BY <1>2, <1>6, <2>1 DEF Unspoiled
      <3>4. ChunksFit(b)'
        BY <1>1, <1>5, <1>6, <3>1, <3>2, <3>3 DEF CurrentFits, ChunksFit, ExecAt
      <3>5. upload'.tables = {} => RegionsFit(b)'
        BY <1>1, <1>5, <1>6, <3>1, <3>2, <3>3 DEF CurrentFits, RegionsFit, ExecAt
      <3>6. QED BY <3>1, <3>2, <3>3, <3>4, <3>5 DEF CurrentFits
    <2>4. QED BY <2>2, <2>3
  <1>7. ASSUME ~overtaken'
        PROVE  /\ docStatus' = "indexed" => OneInsertion' /\ AllEmbedded'
               /\ upload'.tables = {} => OwnRegions'
    <2>1. CASE ~IsCurrent(a)
      BY <1>2, <1>5, <1>7, <2>1 DEF Unspoiled
    <2>2. CASE IsCurrent(a)
      BY <1>7, <2>2
    <2>3. QED BY <2>1, <2>2
  <1>8. Unspoiled'
    BY <1>6, <1>7 DEF Unspoiled
  <1>9. QED BY <1>4, <1>8 DEF IndexInv

\* A step that writes no rows.
LEMMA QuietStep ==
  ASSUME IndexInv, NEW a \in IndexAttempts, upload' = upload,
         execs' \in [IndexAttempts -> ExecState],
         \A b \in IndexAttempts \ {a} : execs'[b] = execs[b],
         ExecFits(a)',
         record' \in Record, record'.attempt = record.attempt, Active(record') => Active(record),
         UNCHANGED <<indexState, overtaken>>, docStatus' \in {docStatus, "failed"},
         ~overtaken /\ IsCurrent(a) => CurrentFits(a)'
  PROVE  IndexInv'
  <1>1. IndexTypes /\ RowsFit /\ Unspoiled
    BY DEF IndexInv, IndexTypes
  <1>2. RowsFit' /\ overtaken' = overtaken /\ overtaken \in BOOLEAN
    BY <1>1, RowsStay DEF IndexTypes
  <1>3. UNCHANGED <<manifest, chunkRows>>
    BY DEF indexState
  <1>4. ~overtaken =>
           /\ docStatus' = "indexed" => OneInsertion' /\ AllEmbedded'
           /\ upload.tables = {} => OwnRegions'
    BY <1>1, RowsStay DEF Unspoiled
  <1>5. QED BY <1>2, <1>3, <1>4, AttemptStep

(***************************************************************************)
(* Chunks: one execution                                                   *)
(***************************************************************************)
LEMMA ExecGoes ==
  ASSUME ExecsFit, NEW a \in IndexAttempts, NEW p \in ExecPcs, ExecGoto(a, p)
  PROVE  /\ execs' \in [IndexAttempts -> ExecState]
         /\ \A b \in IndexAttempts \ {a} : execs'[b] = execs[b]
         /\ execs'[a].pc = p /\ execs'[a].already = execs[a].already
         /\ execs'[a].listed = execs[a].listed /\ execs'[a].at = execs[a].at
  BY DEF ExecsFit, ExecGoto, ExecState

LEMMA FreshExec ==
  ASSUME NEW p \in ExecPcs, NEW b \in BOOLEAN
  PROVE  /\ [NotStarted EXCEPT !.pc = p] = [pc |-> p, already |-> FALSE, listed |-> <<>>, at |-> 0]
         /\ [NotStarted EXCEPT !.already = b, !.pc = p]
               = [pc |-> p, already |-> b, listed |-> <<>>, at |-> 0]
  <1>1. ASSUME NEW r \in ExecState, NEW s \in ExecState, r.pc = s.pc, r.already = s.already,
               r.listed = s.listed, r.at = s.at
        PROVE  r = s
    BY <1>1 DEF ExecState
  <1>2. ASSUME NEW r \in ExecState
        PROVE  LET one == [r EXCEPT !.pc = p]
                   two == [r EXCEPT !.already = b, !.pc = p]
               IN  /\ one \in ExecState /\ one.pc = p /\ one.already = r.already
                   /\ one.listed = r.listed /\ one.at = r.at
                   /\ two \in ExecState /\ two.pc = p /\ two.already = b
                   /\ two.listed = r.listed /\ two.at = r.at
    BY DEF ExecState
  <1>3. "none" \in ExecPcs /\ <<>> \in Seq(Ids)
    BY DEF ExecPcs
  <1>4. /\ NotStarted \in ExecState /\ NotStarted.already = FALSE
        /\ NotStarted.listed = <<>> /\ NotStarted.at = 0
    BY <1>3 DEF NotStarted, ExecState
  <1>5. ASSUME NEW c \in BOOLEAN
        PROVE  LET new == [pc |-> p, already |-> c, listed |-> <<>>, at |-> 0]
               IN  /\ new \in ExecState /\ new.pc = p /\ new.already = c
                   /\ new.listed = <<>> /\ new.at = 0
    BY <1>3 DEF ExecState
  <1> DEFINE one == [NotStarted EXCEPT !.pc = p]
             two == [NotStarted EXCEPT !.already = b, !.pc = p]
             new(c) == [pc |-> p, already |-> c, listed |-> <<>>, at |-> 0]
  <1>6. /\ one \in ExecState /\ one.pc = p /\ one.already = FALSE
        /\ one.listed = <<>> /\ one.at = 0
        /\ two \in ExecState /\ two.pc = p /\ two.already = b
        /\ two.listed = <<>> /\ two.at = 0
    BY <1>2, <1>4
  <1>7. \A c \in BOOLEAN : /\ new(c) \in ExecState /\ new(c).pc = p /\ new(c).already = c
                           /\ new(c).listed = <<>> /\ new(c).at = 0
    BY <1>5
  <1> HIDE DEF one, two, new
  <1>8. one = new(FALSE)
    BY <1>1, <1>6, <1>7
  <1>9. two = new(b)
    BY <1>1, <1>6, <1>7
  <1>10. QED BY <1>8, <1>9 DEF one, two, new

LEMMA ExecRestarts ==
  ASSUME ExecsFit, NEW a \in IndexAttempts, NEW p \in ExecPcs, NEW b \in BOOLEAN,
         execs' = [execs EXCEPT ![a] = [pc |-> p, already |-> b, listed |-> <<>>, at |-> 0]]
  PROVE  /\ execs' \in [IndexAttempts -> ExecState]
         /\ \A c \in IndexAttempts \ {a} : execs'[c] = execs[c]
         /\ execs'[a].pc = p /\ execs'[a].already = b
         /\ execs'[a].listed = <<>> /\ execs'[a].at = 0
  <1> DEFINE new == [pc |-> p, already |-> b, listed |-> <<>>, at |-> 0]
  <1>1. new \in ExecState
    <2>1. <<>> \in Seq(Ids) /\ 0 \in Nat
      OBVIOUS
    <2>2. QED BY <2>1 DEF ExecState
  <1>2. new.pc = p /\ new.already = b /\ new.listed = <<>> /\ new.at = 0
    OBVIOUS
  <1> HIDE DEF new
  <1>3. execs' = [execs EXCEPT ![a] = new]
    BY DEF new
  <1>4. execs \in [IndexAttempts -> ExecState]
    BY DEF ExecsFit
  <1>5. QED BY <1>1, <1>2, <1>3, <1>4

\* An execution that goes on is of an attempt that was recorded.
LEMMA Recorded ==
  ASSUME ExecsFit, NEW a \in IndexAttempts, ~ExecAt(a, "none")
  PROVE  ~(a > record.attempt)
  BY DEF ExecsFit, ExecFits

\* What is known of an attempt before it takes a step.
LEMMA Acting ==
  ASSUME IndexInv, NEW a \in IndexAttempts
  PROVE  /\ upload \in Uploads /\ overtaken \in BOOLEAN /\ RowsFit /\ ExecsFit
         /\ record \in Record /\ execs[a] \in ExecState /\ ExecFits(a)
         /\ ~overtaken /\ IsCurrent(a) => CurrentFits(a)
         /\ ~overtaken /\ docStatus = "indexed" => OneInsertion /\ AllEmbedded
         /\ ~overtaken /\ upload.tables = {} => OwnRegions
  BY DEF IndexInv, IndexTypes, ExecsFit, Unspoiled

\* A file without chunks has them all.
LEMMA NothingToEmbed ==
  ASSUME upload \in Uploads, ~Chunked, DOMAIN chunkRows \subseteq Nat \X Pieces
  PROVE  Pieces = {} /\ OneInsertion /\ AllEmbedded
  <1>1. Len(Splits(upload)) \in Nat /\ DOMAIN Splits(upload) = 1 .. Len(Splits(upload))
    BY PiecesInOrder
  <1>2. Pieces = {}
    BY <1>1 DEF Pieces, Chunked
  <1>3. DOMAIN chunkRows = {}
    BY <1>2
  <1>4. {0} \X Pieces = {}
    BY <1>2
  <1>5. QED BY <1>2, <1>3, <1>4 DEF OneInsertion, AllEmbedded

\* What was true of an attempt whose execution has not moved still is.
LEMMA FitsStay ==
  ASSUME NEW a, upload' = upload, UNCHANGED indexState, execs'[a] = execs[a],
         docStatus' \in {docStatus, "failed"}, CurrentFits(a)
  PROVE  CurrentFits(a)'
  <1>1. manifest' = manifest /\ chunkRows' = chunkRows
    BY DEF indexState
  <1>2. Pieces' = Pieces
    BY FilesStay
  <1>3. ChunksFit(a)'
    BY <1>1, <1>2, RowsStay DEF CurrentFits, ChunksFit, ExecAt
  <1>4. upload.tables = {} => RegionsFit(a)'
    BY <1>1, RowsStay DEF CurrentFits, RegionsFit, ExecAt
  <1>5. QED BY <1>3, <1>4 DEF CurrentFits

(***************************************************************************)
(* Chunks: the steps that write no rows                                    *)
(***************************************************************************)
LEMMA StartAttemptKeeps ==
  ASSUME IndexInv, StartAttempt
  PROVE  IndexInv'
  <1> DEFINE a == record.attempt + 1
  <1>1. IndexTypes /\ RowsFit /\ ExecsFit /\ Unspoiled
    BY DEF IndexInv, IndexTypes
  <1>2. /\ record \in Record /\ record.attempt \in Nat /\ ~Active(record)
        /\ record.attempt < MaxIndexAttempt
    BY <1>1 DEF StartAttempt, Started, ExecsFit, Record
  <1>3. MaxIndexAttempt \in Nat
    BY IndexBounds
  <1>4. a \in IndexAttempts /\ a \in Nat
    BY <1>2, <1>3 DEF IndexAttempts
  <1>5. Enqueue(record) \in Record /\ Enqueue(record).attempt = a
    BY <1>2, EnqueueTyped
  <1>6. record' \in Record /\ record'.attempt = a
    <2>1. CASE record' = Enqueue(record)
      BY <1>5, <2>1
    <2>2. CASE record' = MarkFailed(Enqueue(record), a, "dispatch")
      <3>1. "dispatch" \in Reasons
        BY DEF Reasons
      <3>2. QED BY <1>5, <2>2, <3>1, MarksTyped
    <2>3. QED BY <2>1, <2>2 DEF StartAttempt
  <1>7. upload' = upload /\ UNCHANGED indexState /\ overtaken' = overtaken
    BY DEF StartAttempt
  <1>8. ExecAt(a, "none") /\ ~execs[a].already /\ execs[a].listed = <<>>
    <2>1. ExecFits(a) /\ a > record.attempt
      BY <1>1, <1>2, <1>4 DEF ExecsFit
    <2>2. QED BY <2>1 DEF ExecFits, ExecAt, EarlyPcs
  <1>9. /\ execs' \in [IndexAttempts -> ExecState]
        /\ \A b \in IndexAttempts \ {a} : execs'[b] = execs[b]
        /\ execs'[a].pc \in {"none", "begin"} /\ ~execs'[a].already /\ execs'[a].listed = <<>>
    <2>1. CASE ExecGoto(a, "begin")
      <3>1. "begin" \in ExecPcs
        BY DEF ExecPcs
      <3>2. QED BY <1>1, <1>4, <1>8, <2>1, <3>1, ExecGoes
    <2>2. CASE execs' = execs
      BY <1>1, <1>4, <1>8, <2>2 DEF ExecsFit, ExecAt
    <2>3. QED BY <2>1, <2>2 DEF StartAttempt
  <1>10. Pieces' = Pieces /\ Chunked' = Chunked
    BY <1>7, FilesStay
  <1>11. ASSUME NEW b \in IndexAttempts
         PROVE  ExecFits(b)'
    <2>1. CASE b = a
      BY <1>4, <1>6, <1>9, <2>1 DEF ExecFits, ExecAt, EarlyPcs, ClearingPcs
    <2>2. CASE b # a
      <3>1. execs'[b] = execs[b] /\ ExecFits(b)
        BY <1>1, <1>9, <2>2 DEF ExecsFit
      <3>2. b > a => b > record.attempt
        BY <1>2, <1>4 DEF IndexAttempts
      <3>3. ~IsCurrent(b)'
        BY <1>6, <2>2 DEF IsCurrent
      <3>4. QED BY <1>6, <1>10, <3>1, <3>2, <3>3 DEF ExecFits, ExecAt
    <2>3. QED BY <2>1, <2>2
  <1>12. IndexTypes'
    <2>1. RowsFit'
      BY <1>1, <1>7, RowsStay
    <2>2. record'.attempt <= MaxIndexAttempt
      BY <1>2, <1>3, <1>6
    <2>3. QED BY <1>1, <1>6, <1>7, <1>9, <1>11, <2>1, <2>2 DEF IndexTypes, ExecsFit
  <1>13. ASSUME NEW b \in IndexAttempts, IsCurrent(b)'
         PROVE  CurrentFits(b)'
    <2>1. b = a
      BY <1>6, <1>13 DEF IsCurrent
    <2>2. execs'[b].pc \in {"none", "begin"}
      BY <1>9, <2>1
    <2>3. QED
      BY <2>2 DEF CurrentFits, ChunksFit, RegionsFit, ExecAt, RebuildPcs, ClearingPcs, BuildPcs,
                  FinalizePcs
  <1>14. docStatus' = "indexed" => docStatus = "indexed"
    BY DEF StartAttempt
  <1>15. Unspoiled'
    BY <1>1, <1>7, <1>13, <1>14, RowsStay DEF Unspoiled
  <1>16. QED BY <1>12, <1>15 DEF IndexInv

LEMMA StartFailedKeeps ==
  ASSUME IndexInv, NEW a \in IndexAttempts, StartFailed(a)
  PROVE  IndexInv'
  <1>1. /\ record \in Record /\ ExecFits(a) /\ execs \in [IndexAttempts -> ExecState]
        /\ ~overtaken /\ IsCurrent(a) => CurrentFits(a)
    BY Acting DEF ExecsFit
  <1>2. /\ record' = MarkFailed(record, a, "dispatch") /\ docStatus' \in {docStatus, "failed"}
        /\ upload' = upload /\ execs' = execs /\ UNCHANGED <<indexState, overtaken>>
    BY DEF StartFailed
  <1>3. /\ record' \in Record /\ record'.attempt = record.attempt
        /\ Active(record') => Active(record)
    BY <1>1, <1>2, RecordMoves
  <1>4. ExecFits(a)'
    BY <1>1, <1>2, <1>3, FilesStay DEF ExecFits, ExecAt, IsCurrent
  <1>5. CurrentFits(a) => CurrentFits(a)'
    BY <1>2, FitsStay
  <1>6. QED BY <1>1, <1>2, <1>3, <1>4, <1>5, QuietStep

LEMMA CheckAttemptKeeps ==
  ASSUME IndexInv, NEW a \in IndexAttempts, CheckAttempt(a)
  PROVE  IndexInv'
  <1> DEFINE p == CASE Superseded(TransitionError(record, a, "processing")) -> "ended"
                    [] ExecAt(a, "begin") -> "get"
                    [] OTHER -> "clearManifest"
  <1>1. /\ record \in Record /\ ExecsFit /\ ExecFits(a)
        /\ ~overtaken /\ IsCurrent(a) => CurrentFits(a)
    BY Acting
  <1>2. /\ execs[a].pc \in {"begin", "check"} /\ ExecGoto(a, p)
        /\ record' = MarkProcessing(record, a) /\ docStatus' = docStatus
        /\ upload' = upload /\ UNCHANGED <<indexState, overtaken>>
    BY DEF CheckAttempt
  <1>3. /\ record' \in Record /\ record'.attempt = record.attempt
        /\ Active(record') => Active(record)
    BY <1>1, <1>2, RecordMoves
  <1>4. /\ p \in {"ended", "get", "clearManifest"}
        /\ p = "clearManifest" => ExecAt(a, "check")
    BY <1>2 DEF ExecAt
  <1> HIDE DEF p
  <1>5. p \in ExecPcs
    BY <1>4 DEF ExecPcs, RebuildPcs, BuildPcs
  <1>6. /\ execs' \in [IndexAttempts -> ExecState]
        /\ \A b \in IndexAttempts \ {a} : execs'[b] = execs[b]
        /\ execs'[a].pc = p /\ execs'[a].already = execs[a].already
        /\ execs'[a].listed = execs[a].listed
    BY <1>1, <1>2, <1>5, ExecGoes
  <1>7. ~execs[a].already /\ execs[a].listed = <<>> /\ ~ExecAt(a, "none")
    BY <1>1, <1>2 DEF ExecFits, ExecAt, EarlyPcs
  <1>8. ExecFits(a)'
    BY <1>1, <1>3, <1>4, <1>6, <1>7 DEF ExecFits, ExecAt
  <1>9. CurrentFits(a) => CurrentFits(a)'
    BY <1>2, <1>4, <1>6 DEF CurrentFits, ChunksFit, RegionsFit, ExecAt, RebuildPcs, BuildPcs,
                            FinalizePcs
  <1>10. QED BY <1>1, <1>2, <1>3, <1>6, <1>8, <1>9, QuietStep

LEMMA GetDocumentKeeps ==
  ASSUME IndexInv, NEW a \in IndexAttempts, GetDocument(a)
  PROVE  IndexInv'
  <1> DEFINE already == docStatus = "indexed"
             p == IF already THEN "succeed" ELSE "markDoc"
  <1>1. /\ record \in Record /\ ExecsFit /\ ExecFits(a) /\ execs[a] \in ExecState
        /\ ~overtaken /\ IsCurrent(a) => CurrentFits(a)
    BY Acting
  <1>2. /\ execs[a].pc = "get" /\ docStatus' = docStatus /\ record' = record
        /\ execs' = [execs EXCEPT ![a].already = already, ![a].pc = p]
        /\ upload' = upload /\ UNCHANGED <<indexState, overtaken>>
    BY DEF GetDocument, ExecAt
  <1>3. /\ already \in BOOLEAN /\ p \in {"succeed", "markDoc"}
        /\ already <=> p = "succeed"
    OBVIOUS
  <1>4. p = "markDoc" => docStatus # "indexed"
    OBVIOUS
  <1> HIDE DEF already, p
  <1>5. p \in ExecPcs
    BY <1>3 DEF ExecPcs, RebuildPcs, FinalizePcs
  <1>6. /\ execs' \in [IndexAttempts -> ExecState]
        /\ \A b \in IndexAttempts \ {a} : execs'[b] = execs[b]
        /\ execs'[a].pc = p /\ execs'[a].already = already
        /\ execs'[a].listed = execs[a].listed
    BY <1>1, <1>2, <1>3, <1>5 DEF ExecsFit, ExecState
  <1>7. execs[a].listed = <<>> /\ ~ExecAt(a, "none")
    BY <1>1, <1>2 DEF ExecFits, ExecAt, EarlyPcs
  <1>8. ExecFits(a)'
    BY <1>1, <1>2, <1>3, <1>6, <1>7 DEF ExecFits, ExecAt
  <1>9. CurrentFits(a)'
    BY <1>2, <1>3, <1>4, <1>6 DEF CurrentFits, ChunksFit, RegionsFit, ExecAt, RebuildPcs,
                                  BuildPcs, FinalizePcs
  <1>10. Active(record') => Active(record)
    BY <1>2 DEF Active
  <1>11. QED BY <1>1, <1>2, <1>6, <1>8, <1>9, <1>10, QuietStep

LEMMA LayoutJobKeeps ==
  ASSUME IndexInv, NEW a \in IndexAttempts, LayoutJob(a)
  PROVE  IndexInv'
  <1>1. /\ record \in Record /\ ExecsFit /\ ExecFits(a)
        /\ ~overtaken /\ IsCurrent(a) => CurrentFits(a)
    BY Acting
  <1>2. /\ execs[a].pc = "layout" /\ ExecGoto(a, "check") /\ docStatus' = docStatus
        /\ record' = record /\ upload' = upload /\ UNCHANGED <<indexState, overtaken>>
    BY DEF LayoutJob, ExecAt
  <1>3. "check" \in ExecPcs
    BY DEF ExecPcs, RebuildPcs
  <1>4. /\ execs' \in [IndexAttempts -> ExecState]
        /\ \A b \in IndexAttempts \ {a} : execs'[b] = execs[b]
        /\ execs'[a].pc = "check" /\ execs'[a].already = execs[a].already
        /\ execs'[a].listed = execs[a].listed
    BY <1>1, <1>2, <1>3, ExecGoes
  <1>5. ~execs[a].already /\ execs[a].listed = <<>> /\ ~ExecAt(a, "none")
    BY <1>1, <1>2 DEF ExecFits, ExecAt, EarlyPcs
  <1>6. ExecFits(a)'
    BY <1>1, <1>2, <1>4, <1>5 DEF ExecFits, ExecAt
  <1>7. CurrentFits(a) => CurrentFits(a)'
    BY <1>2, <1>4 DEF CurrentFits, ChunksFit, RegionsFit, ExecAt, RebuildPcs, BuildPcs, FinalizePcs
  <1>8. Active(record') => Active(record)
    BY <1>2 DEF Active
  <1>9. QED BY <1>1, <1>2, <1>4, <1>6, <1>7, <1>8, QuietStep

\* The texts are staged, and then made into vectors.
LEMMA StagingKeeps ==
  ASSUME IndexInv, NEW a \in IndexAttempts, Stage(a) \/ EmbedJob(a)
  PROVE  IndexInv'
  <1> DEFINE p == IF ExecAt(a, "stage") THEN "embed" ELSE "list"
  <1>1. /\ record \in Record /\ ExecsFit /\ ExecFits(a)
        /\ ~overtaken /\ IsCurrent(a) => CurrentFits(a)
    BY Acting
  <1>2. /\ execs[a].pc \in {"stage", "embed"} /\ ExecGoto(a, p) /\ docStatus' = docStatus
        /\ record' = record \/ record' = SetPhase(record, a, "embedding")
        /\ upload' = upload /\ UNCHANGED <<indexState, overtaken>>
    BY DEF Stage, EmbedJob, ExecAt
  <1>3. p \in {"embed", "list"} /\ (p = "embed" => ExecAt(a, "stage"))
    OBVIOUS
  <1> HIDE DEF p
  <1>4. p \in ExecPcs
    BY <1>3 DEF ExecPcs, RebuildPcs, FinalizePcs
  <1>5. /\ execs' \in [IndexAttempts -> ExecState]
        /\ \A b \in IndexAttempts \ {a} : execs'[b] = execs[b]
        /\ execs'[a].pc = p /\ execs'[a].already = execs[a].already
        /\ execs'[a].listed = execs[a].listed
    BY <1>1, <1>2, <1>4, ExecGoes
  <1>6. /\ record' \in Record /\ record'.attempt = record.attempt
        /\ Active(record') => Active(record)
    BY <1>1, <1>2, RecordMoves
  <1>7. ~execs[a].already /\ Chunked /\ ~ExecAt(a, "none")
    BY <1>1, <1>2 DEF ExecFits, ExecAt
  <1>8. ExecFits(a)'
    BY <1>1, <1>2, <1>3, <1>5, <1>6, <1>7, FilesStay DEF ExecFits, ExecAt, EarlyPcs, ClearingPcs
  <1>9. CurrentFits(a) => CurrentFits(a)'
    <2>1. ASSUME CurrentFits(a) PROVE OneInsertion' /\ (p = "embed" => docStatus' # "indexed")
      <3>1. OneInsertion
        BY <1>2, <1>7, <2>1 DEF CurrentFits, ChunksFit
      <3>2. OneInsertion'
        BY <1>2, <3>1, RowsStay
      <3>3. ExecAt(a, "stage") => docStatus # "indexed"
        BY <2>1 DEF CurrentFits, ExecAt, RebuildPcs, BuildPcs
      <3>4. QED BY <1>2, <1>3, <3>2, <3>3
    <2>2. QED
      BY <1>3, <1>5, <2>1 DEF CurrentFits, ChunksFit, RegionsFit, ExecAt, RebuildPcs, BuildPcs
  <1>10. QED BY <1>1, <1>2, <1>5, <1>6, <1>8, <1>9, QuietStep

LEMMA GetDoneKeeps ==
  ASSUME IndexInv, NEW a \in IndexAttempts, GetDone(a)
  PROVE  IndexInv'
  <1> DEFINE p == IF docStatus = "indexed" THEN "succeed" ELSE "markIndexed"
  <1>1. /\ record \in Record /\ ExecsFit /\ ExecFits(a)
        /\ ~overtaken /\ IsCurrent(a) => CurrentFits(a)
    BY Acting
  <1>2. /\ execs[a].pc = "getDone" /\ ExecGoto(a, p) /\ docStatus' = docStatus
        /\ record' = record /\ upload' = upload /\ UNCHANGED <<indexState, overtaken>>
    BY DEF GetDone, ExecAt
  <1>3. p \in {"succeed", "markIndexed"}
    OBVIOUS
  <1> HIDE DEF p
  <1>4. p \in ExecPcs
    BY <1>3 DEF ExecPcs, FinalizePcs
  <1>5. /\ execs' \in [IndexAttempts -> ExecState]
        /\ \A b \in IndexAttempts \ {a} : execs'[b] = execs[b]
        /\ execs'[a].pc = p /\ execs'[a].already = execs[a].already
        /\ execs'[a].listed = execs[a].listed
    BY <1>1, <1>2, <1>4, ExecGoes
  <1>6. ~execs[a].already /\ ~ExecAt(a, "none")
    BY <1>1, <1>2 DEF ExecFits, ExecAt
  <1>7. ExecFits(a)'
    BY <1>1, <1>2, <1>3, <1>5, <1>6 DEF ExecFits, ExecAt, EarlyPcs, ClearingPcs
  <1>8. CurrentFits(a) => CurrentFits(a)'
    <2>1. CurrentFits(a) => OneInsertion /\ AllEmbedded
      BY <1>2, <1>6 DEF CurrentFits, ChunksFit, FinalizePcs
    <2>2. CurrentFits(a) => OneInsertion' /\ AllEmbedded'
      BY <1>2, <2>1, RowsStay
    <2>3. QED
      BY <1>3, <1>5, <2>2 DEF CurrentFits, ChunksFit, RegionsFit, ExecAt, RebuildPcs, BuildPcs
  <1>9. Active(record') => Active(record)
    BY <1>2 DEF Active
  <1>10. QED BY <1>1, <1>2, <1>5, <1>7, <1>8, <1>9, QuietStep

\* Who reports success is not current after it.
LEMMA SucceedKeeps ==
  ASSUME IndexInv, NEW a \in IndexAttempts, Succeed(a)
  PROVE  IndexInv'
  <1>1. /\ record \in Record /\ ExecsFit /\ ExecFits(a)
        /\ ~overtaken /\ IsCurrent(a) => CurrentFits(a)
    BY Acting
  <1>2. /\ execs[a].pc = "succeed" /\ ExecGoto(a, "delete") /\ docStatus' = docStatus
        /\ record' = MarkSucceeded(record, a)
        /\ upload' = upload /\ UNCHANGED <<indexState, overtaken>>
    BY DEF Succeed, ExecAt
  <1>3. "delete" \in ExecPcs
    BY DEF ExecPcs
  <1>4. /\ execs' \in [IndexAttempts -> ExecState]
        /\ \A b \in IndexAttempts \ {a} : execs'[b] = execs[b]
        /\ execs'[a].pc = "delete" /\ execs'[a].already = execs[a].already
        /\ execs'[a].listed = execs[a].listed
    BY <1>1, <1>2, <1>3, ExecGoes
  <1>5. /\ record' \in Record /\ record'.attempt = record.attempt
        /\ Active(record') => Active(record)
    BY <1>1, <1>2, RecordMoves
  <1>6. ~IsCurrent(a)'
    <2>1. ~(MarkSucceeded(record, a).attempt = a /\ Active(MarkSucceeded(record, a)))
      BY <1>1 DEF MarkSucceeded, Transition, TransitionError, Targets, Record, Active, Finished,
                  ActiveStatuses, FinishedStatuses
    <2>2. QED BY <1>2, <2>1 DEF IsCurrent
  <1>7. ~ExecAt(a, "none")
    BY <1>2 DEF ExecAt
  <1>8. ExecFits(a)'
    BY <1>1, <1>2, <1>4, <1>5, <1>6, <1>7 DEF ExecFits, ExecAt, EarlyPcs, ClearingPcs
  <1>9. CurrentFits(a)'
    BY <1>4 DEF CurrentFits, ChunksFit, RegionsFit, ExecAt, RebuildPcs, BuildPcs, FinalizePcs
  <1>10. QED BY <1>1, <1>2, <1>4, <1>5, <1>8, <1>9, QuietStep

LEMMA DeleteObjectsKeeps ==
  ASSUME IndexInv, NEW a \in IndexAttempts, DeleteObjects(a)
  PROVE  IndexInv'
  <1>1. /\ record \in Record /\ ExecsFit /\ ExecFits(a)
        /\ ~overtaken /\ IsCurrent(a) => CurrentFits(a)
    BY Acting
  <1>2. PICK p \in {"ended", "list"} :
          /\ ExecGoto(a, p)
          /\ p = "list" => ExecAt(a, "delete") /\ Chunked /\ ~execs[a].already
    BY DEF DeleteObjects
  <1>3. /\ execs[a].pc \in {"delete", "deleteFailed"} /\ docStatus' = docStatus
        /\ record' = record /\ upload' = upload /\ UNCHANGED <<indexState, overtaken>>
    BY DEF DeleteObjects, ExecAt
  <1>4. p \in ExecPcs
    BY DEF ExecPcs, FinalizePcs
  <1>5. /\ execs' \in [IndexAttempts -> ExecState]
        /\ \A b \in IndexAttempts \ {a} : execs'[b] = execs[b]
        /\ execs'[a].pc = p /\ execs'[a].already = execs[a].already
        /\ execs'[a].listed = execs[a].listed
    BY <1>1, <1>2, <1>4, ExecGoes
  <1>6. ExecFits(a)'
    <2>1. Chunked' = Chunked
      BY <1>3, FilesStay
    <2>2. ~ExecAt(a, "none")
      BY <1>3 DEF ExecAt
    <2>3. QED BY <1>1, <1>2, <1>3, <1>5, <2>1, <2>2 DEF ExecFits, ExecAt, EarlyPcs, ClearingPcs
  <1>7. IsCurrent(a) => CurrentFits(a)'
    <2>1. ExecAt(a, "delete") => ~IsCurrent(a)
      BY <1>1 DEF ExecFits
    <2>2. IsCurrent(a) => p = "ended"
      BY <1>2, <2>1
    <2>3. QED
      BY <1>5, <2>2 DEF CurrentFits, ChunksFit, RegionsFit, ExecAt, RebuildPcs, BuildPcs,
                        FinalizePcs
  <1>8. Active(record') => Active(record)
    BY <1>3 DEF Active
  <1>9. QED BY <1>1, <1>3, <1>5, <1>6, <1>7, <1>8, QuietStep

LEMMA StepAgainKeeps ==
  ASSUME IndexInv, NEW a \in IndexAttempts, StepAgain(a)
  PROVE  IndexInv'
  <1>1. /\ upload \in Uploads /\ RowsFit
        /\ record \in Record /\ ExecsFit /\ ExecFits(a) /\ execs[a] \in ExecState
        /\ ~overtaken /\ IsCurrent(a) => CurrentFits(a)
    BY Acting
  <1>2. /\ docStatus' = docStatus /\ record' = record
        /\ upload' = upload /\ UNCHANGED <<indexState, overtaken>>
    BY DEF StepAgain
  <1> DEFINE fresh(p, b) == [pc |-> p, already |-> b, listed |-> <<>>, at |-> 0]
             old == execs[a].pc
  <1>3. \A p \in ExecPcs, b \in BOOLEAN :
           /\ [NotStarted EXCEPT !.already = b, !.pc = p] = fresh(p, b)
           /\ [NotStarted EXCEPT !.pc = p] = fresh(p, FALSE)
    BY FreshExec
  <1>4. {"begin", "check", "succeed", "list", "getDone"} \subseteq ExecPcs
    BY DEF ExecPcs, RebuildPcs, FinalizePcs
  <1>5. PICK p \in {"begin", "check", "succeed", "list", "getDone"}, b \in BOOLEAN :
          /\ execs' = [execs EXCEPT ![a] = fresh(p, b)]
          /\ old \in RebuildPcs \cup FinalizePcs \cup {"get"}
          /\ b => p = "succeed"
          /\ p = "check" => old \in RebuildPcs
          /\ p \in {"list", "getDone"} =>
                /\ old \in FinalizePcs /\ ~execs[a].already
                /\ (p = "list" <=> Chunked)
          /\ p = "succeed" => b
    <2>1. CASE /\ execs[a].pc \in PreparePcs \cup (IF IsText THEN BuildPcs \cup {"embed"} ELSE {})
               /\ execs' = [execs EXCEPT ![a] = [NotStarted EXCEPT !.pc = "begin"]]
      <3>1. execs' = [execs EXCEPT ![a] = fresh("begin", FALSE)]
        BY <1>3, <1>4, <2>1
      <3>2. old \in RebuildPcs \cup FinalizePcs \cup {"get"}
        BY <2>1 DEF PreparePcs, RebuildPcs
      <3> HIDE DEF fresh
      <3>3. QED BY <3>1, <3>2
    <2>2. CASE /\ ~IsText /\ execs[a].pc \in BuildPcs \cup {"embed"}
               /\ execs' = [execs EXCEPT ![a] = [NotStarted EXCEPT !.pc = "check"]]
      <3>1. execs' = [execs EXCEPT ![a] = fresh("check", FALSE)]
        BY <1>3, <1>4, <2>2
      <3>2. old \in RebuildPcs
        BY <2>2 DEF RebuildPcs
      <3> HIDE DEF fresh
      <3>3. QED BY <3>1, <3>2
    <2>3. CASE /\ execs[a].pc \in FinalizePcs \ {"list"}
               /\ execs' = [execs EXCEPT
                      ![a] = [NotStarted EXCEPT !.already = execs[a].already,
                              !.pc = IF execs[a].already THEN "succeed"
                                     ELSE IF Chunked THEN "list" ELSE "getDone"]]
      <3> DEFINE p == IF execs[a].already THEN "succeed"
                      ELSE IF Chunked THEN "list" ELSE "getDone"
      <3>1. execs[a].already \in BOOLEAN /\ p \in {"succeed", "list", "getDone"}
        BY <1>1 DEF ExecState
      <3>2. execs' = [execs EXCEPT ![a] = fresh(p, execs[a].already)]
        BY <1>3, <1>4, <2>3, <3>1
      <3> HIDE DEF fresh
      <3>3. QED BY <2>3, <3>1, <3>2
    <2>4. QED BY <2>1, <2>2, <2>3 DEF StepAgain
  <1>6. p \in ExecPcs
    BY DEF ExecPcs, RebuildPcs, FinalizePcs
  <1>7. /\ execs' \in [IndexAttempts -> ExecState]
        /\ \A c \in IndexAttempts \ {a} : execs'[c] = execs[c]
        /\ execs'[a].pc = p /\ execs'[a].already = b /\ execs'[a].listed = <<>>
    BY <1>1, <1>5, <1>6, ExecRestarts
  <1>8. ExecFits(a)'
    <2>1. Chunked' = Chunked
      BY <1>2, FilesStay
    <2>2. ~ExecAt(a, "none")
      BY <1>5 DEF ExecAt, RebuildPcs, BuildPcs, FinalizePcs
    <2>3. ~(a > record.attempt)
      BY <1>1, <2>2, Recorded
    <2>4. QED BY <1>2, <1>5, <1>7, <2>1, <2>3 DEF ExecFits, ExecAt
  <1>9. CurrentFits(a) => CurrentFits(a)'
    <2>1. SUFFICES ASSUME CurrentFits(a) PROVE CurrentFits(a)'
      OBVIOUS
    <2>2. p = "check" => docStatus' # "indexed"
      BY <1>2, <1>5, <2>1 DEF CurrentFits
    <2>3. p \in {"list", "getDone"} => OneInsertion
      BY <1>5, <2>1 DEF CurrentFits, ChunksFit
    <2>4. p = "getDone" => AllEmbedded
      BY <1>1, <1>5, NothingToEmbed DEF RowsFit
    <2>5. /\ p \in {"list", "getDone"} => OneInsertion'
          /\ p = "getDone" => AllEmbedded'
      BY <1>2, <2>3, <2>4, RowsStay
    <2>6. QED
      BY <1>5, <1>7, <2>2, <2>5 DEF CurrentFits, ChunksFit, RegionsFit, ExecAt, RebuildPcs,
                                    BuildPcs, FinalizePcs
  <1>10. Active(record') => Active(record)
    BY <1>2 DEF Active
  <1>11. QED BY <1>1, <1>2, <1>7, <1>8, <1>9, <1>10, QuietStep

LEMMA StepFailsKeeps ==
  ASSUME IndexInv, NEW a \in IndexAttempts, StepFails(a)
  PROVE  IndexInv'
  <1>1. record \in Record /\ ExecsFit /\ ExecFits(a)
    BY Acting
  <1>2. /\ execs' = [execs EXCEPT ![a] = [NotStarted EXCEPT !.pc = "recordFailure"]]
        /\ docStatus' = docStatus /\ record' = record
        /\ upload' = upload /\ UNCHANGED <<indexState, overtaken>>
    BY DEF StepFails
  <1>3. "recordFailure" \in ExecPcs
    BY DEF ExecPcs
  <1>4. [NotStarted EXCEPT !.pc = "recordFailure"]
           = [pc |-> "recordFailure", already |-> FALSE, listed |-> <<>>, at |-> 0]
    BY <1>3, FreshExec
  <1>5. /\ execs' \in [IndexAttempts -> ExecState]
        /\ \A c \in IndexAttempts \ {a} : execs'[c] = execs[c]
        /\ execs'[a].pc = "recordFailure" /\ execs'[a].already = FALSE
        /\ execs'[a].listed = <<>>
    BY <1>1, <1>2, <1>3, <1>4, ExecRestarts
  <1>6. ~ExecAt(a, "none")
    BY DEF StepFails, ExecAt, PreparePcs, BuildPcs, FinalizePcs
  <1>7. ~(a > record.attempt)
    BY <1>1, <1>6, Recorded
  <1>8. ExecFits(a)'
    BY <1>2, <1>5, <1>7 DEF ExecFits, ExecAt
  <1>9. CurrentFits(a)'
    BY <1>5 DEF CurrentFits, ChunksFit, RegionsFit, ExecAt, RebuildPcs, BuildPcs, FinalizePcs
  <1>10. Active(record') => Active(record)
    BY <1>2 DEF Active
  <1>11. QED BY <1>1, <1>2, <1>5, <1>8, <1>9, <1>10, QuietStep

LEMMA RecordIndexFailureKeeps ==
  ASSUME IndexInv, NEW a \in IndexAttempts, RecordIndexFailure(a)
  PROVE  IndexInv'
  <1> DEFINE p == IF Superseded(TransitionError(record, a, "failed")) THEN "ended" ELSE "failDoc"
  <1>1. record \in Record /\ ExecsFit /\ ExecFits(a)
    BY Acting
  <1>2. /\ execs[a].pc = "recordFailure" /\ ExecGoto(a, p) /\ docStatus' = docStatus
        /\ record' = MarkFailed(record, a, "step")
        /\ upload' = upload /\ UNCHANGED <<indexState, overtaken>>
    BY DEF RecordIndexFailure, ExecAt
  <1>3. p \in {"ended", "failDoc"}
    OBVIOUS
  <1> HIDE DEF p
  <1>4. p \in ExecPcs
    BY <1>3 DEF ExecPcs
  <1>5. /\ execs' \in [IndexAttempts -> ExecState]
        /\ \A b \in IndexAttempts \ {a} : execs'[b] = execs[b]
        /\ execs'[a].pc = p /\ execs'[a].already = execs[a].already
    BY <1>1, <1>2, <1>4, ExecGoes
  <1>6. /\ record' \in Record /\ record'.attempt = record.attempt
        /\ Active(record') => Active(record)
    BY <1>1, <1>2, RecordMoves
  <1>7. ~execs[a].already /\ ~ExecAt(a, "none")
    BY <1>1, <1>2 DEF ExecFits, ExecAt
  <1>8. ExecFits(a)'
    BY <1>1, <1>3, <1>5, <1>6, <1>7 DEF ExecFits, ExecAt, EarlyPcs, ClearingPcs
  <1>9. CurrentFits(a)'
    BY <1>3, <1>5 DEF CurrentFits, ChunksFit, RegionsFit, ExecAt, RebuildPcs, BuildPcs, FinalizePcs
  <1>10. QED BY <1>1, <1>2, <1>5, <1>6, <1>8, <1>9, QuietStep

LEMMA FailDocumentKeeps ==
  ASSUME IndexInv, NEW a \in IndexAttempts, FailDocument(a)
  PROVE  IndexInv'
  <1>1. /\ upload \in Uploads /\ overtaken \in BOOLEAN /\ RowsFit
        /\ record \in Record /\ ExecsFit /\ ExecFits(a)
        /\ ~overtaken /\ docStatus = "indexed" => OneInsertion /\ AllEmbedded
        /\ ~overtaken /\ upload.tables = {} => OwnRegions
    BY Acting
  <1>2. PICK p \in {"recordFailure", "deleteFailed"} : ExecGoto(a, p)
    BY DEF FailDocument
  <1>3. /\ execs[a].pc = "failDoc" /\ docStatus' \in {docStatus, "failed"}
        /\ overtaken' = (overtaken \/ record.attempt # a) /\ record' = record
        /\ upload' = upload /\ UNCHANGED indexState
    BY DEF FailDocument, ExecAt
  <1>4. p \in ExecPcs
    BY DEF ExecPcs
  <1>5. /\ execs' \in [IndexAttempts -> ExecState]
        /\ \A b \in IndexAttempts \ {a} : execs'[b] = execs[b]
        /\ execs'[a].pc = p /\ execs'[a].already = execs[a].already
    BY <1>1, <1>2, <1>4, ExecGoes
  <1>6. ~execs[a].already /\ ~ExecAt(a, "none")
    BY <1>1, <1>3 DEF ExecFits, ExecAt
  <1>7. ExecFits(a)'
    BY <1>1, <1>3, <1>5, <1>6 DEF ExecFits, ExecAt, EarlyPcs, ClearingPcs
  <1>8. CurrentFits(a)'
    BY <1>5 DEF CurrentFits, ChunksFit, RegionsFit, ExecAt, RebuildPcs, BuildPcs, FinalizePcs
  <1>9. RowsFit' /\ UNCHANGED <<manifest, chunkRows>>
    BY <1>1, <1>3, RowsStay DEF indexState
  <1>10. ~overtaken' =>
            /\ docStatus' = "indexed" => OneInsertion' /\ AllEmbedded'
            /\ upload.tables = {} => OwnRegions'
    BY <1>1, <1>3, RowsStay
  <1>11. overtaken' \in BOOLEAN /\ (overtaken => overtaken') /\ (Active(record') => Active(record))
    BY <1>1, <1>3 DEF Active
  <1>12. QED BY <1>1, <1>3, <1>5, <1>7, <1>8, <1>9, <1>10, <1>11, AttemptStep

(***************************************************************************)
(* Chunks: the steps that list rows                                        *)
(***************************************************************************)
LEMMA RowsFinite ==
  ASSUME upload \in Uploads, RowsFit
  PROVE  IsFiniteSet(DOMAIN manifest) /\ IsFiniteSet(DOMAIN chunkRows)
  <1>1. inserts.manifest \in Nat /\ inserts.chunks \in Nat
    BY DEF RowsFit
  <1>2. PICK m \in Nat : Regions = 1 .. m
    BY RegionsByPage DEF Regions
  <1>3. Len(Splits(upload)) \in Nat /\ Pieces = 1 .. Len(Splits(upload))
    BY PiecesInOrder DEF Pieces
  <1>4. ASSUME NEW i \in Nat, NEW n \in Nat
        PROVE  IsFiniteSet((0 .. i) \X (1 .. n))
    <2>1. IsFiniteSet(0 .. i) /\ IsFiniteSet(1 .. n)
      BY FS_Interval
    <2>2. QED BY <2>1, FS_Product
  <1>5. DOMAIN manifest \in SUBSET ((0 .. inserts.manifest) \X (1 .. m))
    BY <1>1, <1>2 DEF RowsFit
  <1>6. DOMAIN chunkRows \in SUBSET ((0 .. inserts.chunks) \X (1 .. Len(Splits(upload))))
    BY <1>1, <1>3 DEF RowsFit
  <1>7. QED BY <1>1, <1>3, <1>4, <1>5, <1>6, FS_Subset

LEMMA ListedOnce ==
  ASSUME NEW S, IsFiniteSet(S), NEW list \in SetToSeqs(S)
  PROVE  list \in Seq(S) /\ Len(list) = Cardinality(S) /\ Cardinality(S) \in Nat
  <1>1. Cardinality(S) \in Nat
    BY FS_CardinalityType
  <1>2. list \in [1 .. Cardinality(S) -> S]
    BY DEF SetToSeqs
  <1>3. QED BY <1>1, <1>2

\* As many chunks as the file has are those of one insertion, and so they are
\* listed in the order of their texts.
LEMMA ListedAreOneInsertion ==
  ASSUME upload \in Uploads, RowsFit, Chunked,
         NEW list \in ChunkLists, Len(list) = Len(Splits(upload))
  PROVE  \E g \in Nat : /\ DOMAIN chunkRows = {g} \X Pieces
                        /\ DOMAIN list = Pieces
                        /\ \A k \in Pieces : list[k] = <<g, k>>
  <1> DEFINE n == Len(Splits(upload))
             S == DOMAIN chunkRows
  <1>1. n \in Nat /\ Pieces = 1 .. n /\ n > 0
    BY PiecesInOrder DEF Pieces, Chunked
  <1> HIDE DEF n
  <1>2. /\ list \in SetToSeqs(S)
        /\ \A i, j \in DOMAIN list : i < j => list[i][2] <= list[j][2]
    BY DEF ChunkLists
  <1>3. IsFiniteSet(S)
    BY RowsFinite
  <1>4. Cardinality(S) = n
    BY <1>2, <1>3, ListedOnce DEF n
  <1>5. PICK c \in S : TRUE
    BY <1>1, <1>3, <1>4, FS_EmptySet
  <1> DEFINE T == {c[1]} \X Pieces
  <1>6. c[1] \in Nat /\ T \in SUBSET S
    <2>1. c \in Nat \X Pieces /\ \A k \in Pieces : <<c[1], k>> \in S
      BY <1>5 DEF RowsFit
    <2>2. QED BY <2>1
  <1>7. Cardinality(T) = n
    <2>1. T = {c[1]} \X (1 .. n)
      BY <1>1
    <2>2. QED BY <1>1, <2>1, OneRow
  <1> HIDE DEF S, T
  <1>8. S = T
    BY <1>3, <1>4, <1>6, <1>7, FS_Subset
  <1>9. list \in SetToSeqs({c[1]} \X (1 .. n))
    BY <1>1, <1>2, <1>8 DEF T
  <1>10. DOMAIN list = 1 .. n /\ \A i \in 1 .. n : list[i] = <<c[1], i>>
    BY <1>1, <1>2, <1>6, <1>9, ListedInOrder
  <1>11. QED BY <1>1, <1>6, <1>8, <1>10 DEF S, T

LEMMA ListManifestKeeps ==
  ASSUME IndexInv, NEW a \in IndexAttempts, ListManifest(a)
  PROVE  IndexInv'
  <1>1. /\ upload \in Uploads /\ RowsFit /\ record \in Record /\ ExecsFit /\ ExecFits(a)
        /\ execs[a] \in ExecState
        /\ ~overtaken /\ IsCurrent(a) => CurrentFits(a)
    BY Acting
  <1>2. PICK list \in SetToSeqs(DOMAIN manifest) :
          /\ \A i, j \in DOMAIN list : i < j => manifest[list[i]] <= manifest[list[j]]
          /\ execs' = [execs EXCEPT ![a].listed = list, ![a].pc = "clearChunks"]
    BY DEF ListManifest
  <1>3. /\ execs[a].pc = "listManifest" /\ docStatus' = docStatus /\ record' = record
        /\ upload' = upload /\ UNCHANGED <<indexState, overtaken>>
    BY DEF ListManifest, ExecAt
  <1>4. IsFiniteSet(DOMAIN manifest)
    BY <1>1, RowsFinite
  <1>5. list \in Seq(Ids)
    <2>1. list \in Seq(DOMAIN manifest)
      BY <1>4, ListedOnce
    <2>2. DOMAIN manifest \subseteq Ids
      <3>1. PICK m \in Nat : Regions = 1 .. m
        BY <1>1, RegionsByPage DEF Regions
      <3>2. QED BY <1>1, <3>1 DEF RowsFit, Ids
    <2>3. QED BY <2>1, <2>2
  <1>6. "clearChunks" \in ExecPcs
    BY DEF ExecPcs, RebuildPcs, BuildPcs
  <1>7. /\ execs' \in [IndexAttempts -> ExecState]
        /\ \A b \in IndexAttempts \ {a} : execs'[b] = execs[b]
        /\ execs'[a].pc = "clearChunks" /\ execs'[a].already = execs[a].already
        /\ execs'[a].listed = list
    BY <1>1, <1>2, <1>5, <1>6 DEF ExecsFit, ExecState
  <1>8. ~execs[a].already /\ ~ExecAt(a, "none")
    BY <1>1, <1>3 DEF ExecFits, ExecAt
  <1>9. ExecFits(a)'
    BY <1>1, <1>3, <1>7, <1>8 DEF ExecFits, ExecAt, EarlyPcs, ClearingPcs
  <1>10. ASSUME CurrentFits(a), upload.tables = {}
         PROVE  \A i \in DOMAIN list : list[i][2] = i
    <2>1. PICK g \in Nat : /\ DOMAIN manifest = {g} \X Regions
                           /\ \A i \in Regions : manifest[<<g, i>>] = RawRegions(upload)[i].page
      BY <1>3, <1>10 DEF CurrentFits, RegionsFit, ManifestInOrder, ExecAt
    <2>2. PICK m \in Nat : Regions = 1 .. m
      BY <1>1, RegionsByPage DEF Regions
    <2>3. /\ \A i \in Regions : RawRegions(upload)[i].page \in Nat
          /\ \A i, j \in Regions : i < j => RawRegions(upload)[i].page < RawRegions(upload)[j].page
      BY <1>1, <1>10, RegionsByPage DEF Regions
    <2>4. \A i \in DOMAIN list : \E k \in Regions : list[i] = <<g, k>>
      <3>1. list \in Seq(DOMAIN manifest)
        BY <1>4, ListedOnce
      <3>2. \A i \in DOMAIN list : list[i] \in DOMAIN manifest
        BY <3>1
      <3>3. QED BY <2>1, <3>2
    <2>5. ASSUME NEW i \in DOMAIN list, NEW j \in DOMAIN list, i < j
          PROVE  list[i][2] <= list[j][2]
      <3>1. PICK k \in Regions, l \in Regions : list[i] = <<g, k>> /\ list[j] = <<g, l>>
        BY <2>4
      <3>2. RawRegions(upload)[k].page <= RawRegions(upload)[l].page
        BY <1>2, <2>1, <2>5, <3>1
      <3>3. k \in Nat /\ l \in Nat
        BY <2>2
      <3>4. ~(l < k)
        BY <2>3, <3>2
      <3>5. QED BY <3>1, <3>3, <3>4
    <2>6. list \in SetToSeqs({g} \X (1 .. m))
      BY <2>1, <2>2
    <2>7. QED BY <2>2, <2>5, <2>6, ListedInOrder
  <1>11. CurrentFits(a) => CurrentFits(a)'
    BY <1>3, <1>7, <1>10 DEF CurrentFits, ChunksFit, RegionsFit, ExecAt, RebuildPcs, BuildPcs,
                             FinalizePcs
  <1>12. Active(record') => Active(record)
    BY <1>3 DEF Active
  <1>13. QED BY <1>1, <1>3, <1>7, <1>9, <1>11, <1>12, QuietStep

LEMMA ListChunksKeeps ==
  ASSUME IndexInv, NEW a \in IndexAttempts, ListChunks(a)
  PROVE  IndexInv'
  <1>1. /\ upload \in Uploads /\ RowsFit /\ record \in Record /\ ExecsFit /\ ExecFits(a)
        /\ execs[a] \in ExecState
        /\ ~overtaken /\ IsCurrent(a) => CurrentFits(a)
    BY Acting
  <1>2. PICK list \in ChunkLists :
          /\ Len(list) = Len(Splits(upload))
          /\ execs' = [execs EXCEPT ![a].listed = list, ![a].at = 1, ![a].pc = "update"]
    BY DEF ListChunks
  <1>3. /\ execs[a].pc = "list" /\ docStatus' = docStatus /\ record' = record
        /\ upload' = upload /\ UNCHANGED <<indexState, overtaken>>
    BY DEF ListChunks, ExecAt
  <1>4. ~execs[a].already /\ ~ExecAt(a, "none") /\ Chunked
    BY <1>1, <1>3 DEF ExecFits, ExecAt
  <1>5. PICK g \in Nat : /\ DOMAIN chunkRows = {g} \X Pieces
                         /\ DOMAIN list = Pieces
                         /\ \A k \in Pieces : list[k] = <<g, k>>
    BY <1>1, <1>2, <1>4, ListedAreOneInsertion
  <1>6. /\ Pieces = 1 .. Len(Splits(upload)) /\ Len(Splits(upload)) \in Nat /\ 1 \in Pieces
    BY <1>1, <1>4, PiecesInOrder DEF Pieces, Chunked
  <1>7. list \in Seq(Ids)
    <2>1. list \in Seq(DOMAIN chunkRows)
      BY <1>1, RowsFinite, ListedOnce DEF ChunkLists
    <2>2. DOMAIN chunkRows \subseteq Ids
      BY <1>5, <1>6 DEF Ids
    <2>3. QED BY <2>1, <2>2
  <1>8. "update" \in ExecPcs
    BY DEF ExecPcs, FinalizePcs
  <1>9. /\ execs' \in [IndexAttempts -> ExecState]
        /\ \A b \in IndexAttempts \ {a} : execs'[b] = execs[b]
        /\ execs'[a].pc = "update" /\ execs'[a].already = execs[a].already
        /\ execs'[a].listed = list /\ execs'[a].at = 1
    BY <1>1, <1>2, <1>7, <1>8 DEF ExecsFit, ExecState
  <1>10. Pieces' = Pieces /\ Chunked' = Chunked
    BY <1>3, FilesStay
  <1>11. \A k \in Pieces : list[k][2] = k /\ list[k] \in DOMAIN chunkRows /\ ~(k < 1)
    <2>1. \A k \in Pieces : ~(k < 1)
      BY <1>6
    <2>2. ASSUME NEW k \in Pieces
          PROVE  list[k][2] = k /\ list[k] \in DOMAIN chunkRows
      <3>1. list[k] = <<g, k>>
        BY <1>5
      <3>2. <<g, k>> \in {g} \X Pieces /\ <<g, k>>[2] = k
        OBVIOUS
      <3>3. QED BY <1>5, <3>1, <3>2
    <2>3. QED BY <2>1, <2>2
  <1>12. ExecFits(a)'
    BY <1>1, <1>3, <1>4, <1>5, <1>6, <1>9, <1>10, <1>11 DEF ExecFits, ExecAt, EarlyPcs, ClearingPcs
  <1>13. CurrentFits(a)'
    <2>1. OneInsertion'
      BY <1>3, <1>5, RowsStay DEF OneInsertion
    <2>2. chunkRows' = chunkRows
      BY <1>3 DEF indexState
    <2>3. QED
      BY <1>9, <1>10, <1>11, <2>1, <2>2 DEF CurrentFits, ChunksFit, RegionsFit, ExecAt, RebuildPcs,
                                            BuildPcs
  <1>14. Active(record') => Active(record)
    BY <1>3 DEF Active
  <1>15. QED BY <1>1, <1>3, <1>9, <1>12, <1>13, <1>14, QuietStep

(***************************************************************************)
(* Chunks: the steps that write                                            *)
(***************************************************************************)

\* While nobody was overtaken, who writes is current.
LEMMA WriterIsCurrent ==
  ASSUME IndexInv, NEW a \in IndexAttempts, Overtaken(a)
  PROVE  /\ overtaken' \in BOOLEAN /\ (overtaken => overtaken')
         /\ ~overtaken' => /\ ~overtaken /\ IsCurrent(a) /\ CurrentFits(a)
                           /\ docStatus = "indexed" => OneInsertion /\ AllEmbedded
                           /\ upload.tables = {} => OwnRegions
  <1>1. overtaken' = (overtaken \/ ~IsCurrent(a))
    BY DEF Overtaken
  <1>2. overtaken \in BOOLEAN /\ IsCurrent(a) \in BOOLEAN
    BY Acting DEF IsCurrent, Active
  <1>3. ~overtaken' => ~overtaken /\ IsCurrent(a)
    BY <1>1
  <1>4. QED BY <1>1, <1>2, <1>3, Acting

LEMMA MarkDocumentKeeps ==
  ASSUME IndexInv, NEW a \in IndexAttempts, MarkDocument(a)
  PROVE  IndexInv'
  <1> DEFINE p == CASE IsText -> IF Chunked THEN "clearChunks" ELSE "getDone"
                    [] upload.kind = "pdf" -> "layout"
                    [] OTHER -> "check"
  <1>1. /\ upload \in Uploads /\ RowsFit /\ record \in Record /\ ExecsFit /\ ExecFits(a)
    BY Acting
  <1>2. /\ execs[a].pc = "markDoc" /\ ExecGoto(a, p) /\ docStatus' = "processing"
        /\ Overtaken(a) /\ record' = record /\ upload' = upload /\ UNCHANGED indexState
    BY DEF MarkDocument, ExecAt
  <1>3. /\ p \in {"clearChunks", "getDone", "layout", "check"}
        /\ p = "getDone" => ~Chunked
    BY DEF IsText
  <1> HIDE DEF p
  <1>4. p \in ExecPcs
    BY <1>3 DEF ExecPcs, RebuildPcs, BuildPcs, FinalizePcs
  <1>5. /\ execs' \in [IndexAttempts -> ExecState]
        /\ \A b \in IndexAttempts \ {a} : execs'[b] = execs[b]
        /\ execs'[a].pc = p /\ execs'[a].already = execs[a].already
        /\ execs'[a].listed = execs[a].listed
    BY <1>1, <1>2, <1>4, ExecGoes
  <1>6. ~execs[a].already /\ execs[a].listed = <<>> /\ ~ExecAt(a, "none")
    BY <1>1, <1>2 DEF ExecFits, ExecAt, EarlyPcs
  <1>7. ExecFits(a)'
    BY <1>1, <1>2, <1>3, <1>5, <1>6 DEF ExecFits, ExecAt
  <1>8. p = "getDone" => OneInsertion' /\ AllEmbedded'
    <2>1. p = "getDone" => OneInsertion /\ AllEmbedded
      BY <1>1, <1>3, NothingToEmbed DEF RowsFit
    <2>2. QED BY <1>2, <2>1, RowsStay
  <1>9. CurrentFits(a)'
    <2>1. ChunksFit(a)'
      BY <1>3, <1>5, <1>8 DEF ChunksFit, ExecAt, FinalizePcs
    <2>2. RegionsFit(a)'
      BY <1>3, <1>5, <1>6 DEF RegionsFit, ExecAt
    <2>3. QED BY <1>2, <2>1, <2>2 DEF CurrentFits
  <1>10. RowsFit' /\ UNCHANGED <<manifest, chunkRows>>
    BY <1>1, <1>2, RowsStay DEF indexState
  <1>11. /\ overtaken' \in BOOLEAN /\ (overtaken => overtaken')
         /\ ~overtaken' => IsCurrent(a) /\ (upload.tables = {} => OwnRegions)
    BY <1>2, WriterIsCurrent
  <1>12. OwnRegions => OwnRegions'
    BY <1>2, RowsStay
  <1>13. Active(record') => Active(record)
    BY <1>2 DEF Active
  <1>14. QED
    BY <1>1, <1>2, <1>5, <1>7, <1>9, <1>10, <1>11, <1>12, <1>13, AttemptStep

LEMMA ClearManifestKeeps ==
  ASSUME IndexInv, NEW a \in IndexAttempts, ClearManifest(a)
  PROVE  IndexInv'
  <1>1. /\ upload \in Uploads /\ RowsFit /\ record \in Record /\ ExecsFit /\ ExecFits(a)
    BY Acting
  <1>2. /\ execs[a].pc = "clearManifest" /\ ExecGoto(a, "createManifest")
        /\ docStatus' = docStatus /\ Overtaken(a) /\ record' = record /\ upload' = upload
        /\ inserts' = inserts /\ manifest' = <<>>
        /\ chunkRows' = [c \in DOMAIN chunkRows |-> [chunkRows[c] EXCEPT !.region = NoRegion]]
    BY DEF ClearManifest, ExecAt
  <1>3. "createManifest" \in ExecPcs
    BY DEF ExecPcs, RebuildPcs, BuildPcs
  <1>4. /\ execs' \in [IndexAttempts -> ExecState]
        /\ \A b \in IndexAttempts \ {a} : execs'[b] = execs[b]
        /\ execs'[a].pc = "createManifest" /\ execs'[a].already = execs[a].already
        /\ execs'[a].listed = execs[a].listed
    BY <1>1, <1>2, <1>3, ExecGoes
  <1>5. ~execs[a].already /\ execs[a].listed = <<>> /\ ~ExecAt(a, "none")
    BY <1>1, <1>2 DEF ExecFits, ExecAt, EarlyPcs, ClearingPcs
  <1>6. ExecFits(a)'
    BY <1>1, <1>2, <1>4, <1>5 DEF ExecFits, ExecAt
  <1>7. Pieces' = Pieces /\ Regions' = Regions /\ Splits(upload)' = Splits(upload)
    BY <1>2, FilesStay
  <1>8. DOMAIN manifest' = {} /\ DOMAIN chunkRows' = DOMAIN chunkRows
    BY <1>2
  <1>9. ASSUME NEW c \in DOMAIN chunkRows
        PROVE  /\ chunkRows'[c] \in [region : Ids, vector : {NoVector, c[2]}]
               /\ chunkRows'[c].region = NoRegion
    <2>1. chunkRows[c] \in [region : Ids, vector : {NoVector, c[2]}]
      BY <1>1 DEF RowsFit
    <2>2. NoRegion \in Ids
      BY DEF NoRegion, Ids
    <2>3. chunkRows'[c] = [chunkRows[c] EXCEPT !.region = NoRegion]
      BY <1>2
    <2>4. QED BY <2>1, <2>2, <2>3
  <1>10. RowsFit'
    BY <1>1, <1>2, <1>7, <1>8, <1>9 DEF RowsFit
  <1>11. OwnRegions'
    BY <1>8, <1>9 DEF OwnRegions, RegionOf, NoRegion
  <1>12. /\ overtaken' \in BOOLEAN /\ (overtaken => overtaken')
         /\ ~overtaken' => IsCurrent(a) /\ docStatus # "indexed"
    BY <1>2, WriterIsCurrent DEF CurrentFits, RebuildPcs, BuildPcs
  <1>13. docStatus # "indexed" => CurrentFits(a)'
    BY <1>2, <1>4, <1>8 DEF CurrentFits, ChunksFit, RegionsFit, ExecAt, FinalizePcs
  <1>14. Active(record') => Active(record)
    BY <1>2 DEF Active
  <1>15. QED
    BY <1>1, <1>2, <1>4, <1>6, <1>10, <1>11, <1>12, <1>13, <1>14, AttemptStep

LEMMA CreateManifestKeeps ==
  ASSUME IndexInv, NEW a \in IndexAttempts, CreateManifest(a)
  PROVE  IndexInv'
  <1> DEFINE raws == RawRegions(upload)
             g == inserts.manifest + 1
             new == {<<g, i>> : i \in DOMAIN raws}
  <1>1. /\ upload \in Uploads /\ RowsFit /\ record \in Record /\ ExecsFit /\ ExecFits(a)
    BY Acting
  <1>2. /\ execs[a].pc = "createManifest" /\ ExecGoto(a, "listManifest")
        /\ docStatus' = docStatus /\ Overtaken(a) /\ record' = record /\ upload' = upload
        /\ chunkRows' = chunkRows
        /\ manifest' = [r \in DOMAIN manifest \cup new |-> raws[r[2]].page]
        /\ inserts' = [inserts EXCEPT !.manifest = @ + 1]
    BY DEF CreateManifest, ExecAt
  <1>3. "listManifest" \in ExecPcs
    BY DEF ExecPcs, RebuildPcs, BuildPcs
  <1>4. /\ execs' \in [IndexAttempts -> ExecState]
        /\ \A b \in IndexAttempts \ {a} : execs'[b] = execs[b]
        /\ execs'[a].pc = "listManifest" /\ execs'[a].already = execs[a].already
        /\ execs'[a].listed = execs[a].listed
    BY <1>1, <1>2, <1>3, ExecGoes
  <1>5. ~execs[a].already /\ execs[a].listed = <<>> /\ ~ExecAt(a, "none")
    BY <1>1, <1>2 DEF ExecFits, ExecAt, EarlyPcs, ClearingPcs
  <1>6. ExecFits(a)'
    BY <1>1, <1>2, <1>4, <1>5 DEF ExecFits, ExecAt
  <1>7. /\ Pieces' = Pieces /\ Regions' = Regions /\ Splits(upload)' = Splits(upload)
        /\ RawRegions(upload)' = RawRegions(upload)
    BY <1>2, FilesStay
  <1>8. /\ inserts.manifest \in Nat /\ g \in Nat
        /\ inserts' \in [manifest : Nat, chunks : Nat] /\ inserts'.manifest = g
        /\ inserts'.chunks = inserts.chunks
    BY <1>1, <1>2 DEF RowsFit
  <1>9. new = {g} \X Regions
    BY DEF Regions
  <1> HIDE DEF new, g, raws
  <1>10. DOMAIN manifest' = DOMAIN manifest \cup ({g} \X Regions)
    BY <1>2, <1>9
  <1>11. \A r \in DOMAIN manifest' : r[1] <= g
    <2>1. \A r \in DOMAIN manifest : r[1] \in Nat /\ r[1] <= inserts.manifest
      BY <1>1 DEF RowsFit
    <2>2. \A r \in {g} \X Regions : r[1] = g
      OBVIOUS
    <2>3. inserts.manifest <= g
      BY <1>8 DEF g
    <2>4. QED BY <1>8, <1>10, <2>1, <2>2, <2>3
  <1>12. RowsFit'
    <2>1. DOMAIN manifest' \subseteq Nat \X Regions
      BY <1>1, <1>8, <1>10 DEF RowsFit
    <2>2. QED BY <1>1, <1>2, <1>7, <1>8, <1>11, <2>1 DEF RowsFit
  <1>13. OwnRegions => OwnRegions'
    BY <1>2, <1>7 DEF OwnRegions, RegionOf
  <1>14. /\ overtaken' \in BOOLEAN /\ (overtaken => overtaken')
         /\ ~overtaken' => /\ IsCurrent(a) /\ CurrentFits(a) /\ docStatus # "indexed"
                           /\ upload.tables = {} => OwnRegions
    BY <1>2, WriterIsCurrent DEF CurrentFits, RebuildPcs, BuildPcs
  <1>15. ASSUME CurrentFits(a), docStatus # "indexed"
         PROVE  CurrentFits(a)'
    <2>1. ASSUME upload.tables = {} PROVE ManifestInOrder'
      <3>1. DOMAIN manifest = {}
        BY <1>2, <1>15, <2>1 DEF CurrentFits, RegionsFit, ExecAt
      <3>2. DOMAIN manifest' = {g} \X Regions
        BY <1>10, <3>1
      <3>3. \A i \in Regions : manifest'[<<g, i>>] = raws[i].page
        BY <1>2, <1>9
      <3>4. QED BY <1>7, <1>8, <3>2, <3>3 DEF ManifestInOrder, raws
    <2>2. ChunksFit(a)'
      BY <1>4 DEF ChunksFit, ExecAt, FinalizePcs
    <2>3. upload'.tables = {} => RegionsFit(a)'
      BY <1>2, <1>4, <2>1 DEF RegionsFit, ExecAt
    <2>4. QED BY <1>2, <1>15, <2>2, <2>3 DEF CurrentFits
  <1>16. Active(record') => Active(record)
    BY <1>2 DEF Active
  <1>17. QED
    BY <1>1, <1>2, <1>4, <1>6, <1>12, <1>13, <1>14, <1>15, <1>16, AttemptStep

LEMMA ClearChunksKeeps ==
  ASSUME IndexInv, NEW a \in IndexAttempts, ClearChunks(a)
  PROVE  IndexInv'
  <1> DEFINE p == IF Chunked THEN "createChunks" ELSE "getDone"
  <1>1. /\ upload \in Uploads /\ RowsFit /\ record \in Record /\ ExecsFit /\ ExecFits(a)
    BY Acting
  <1>2. /\ execs[a].pc = "clearChunks" /\ ExecGoto(a, p)
        /\ docStatus' = docStatus /\ Overtaken(a) /\ record' = record /\ upload' = upload
        /\ chunkRows' = <<>> /\ manifest' = manifest /\ inserts' = inserts
    BY DEF ClearChunks, ExecAt
  <1>3. /\ p \in {"createChunks", "getDone"}
        /\ p = "createChunks" <=> Chunked
    OBVIOUS
  <1> HIDE DEF p
  <1>4. p \in ExecPcs
    BY <1>3 DEF ExecPcs, RebuildPcs, BuildPcs, FinalizePcs
  <1>5. /\ execs' \in [IndexAttempts -> ExecState]
        /\ \A b \in IndexAttempts \ {a} : execs'[b] = execs[b]
        /\ execs'[a].pc = p /\ execs'[a].already = execs[a].already
        /\ execs'[a].listed = execs[a].listed
    BY <1>1, <1>2, <1>4, ExecGoes
  <1>6. ~execs[a].already /\ ~ExecAt(a, "none")
    BY <1>1, <1>2 DEF ExecFits, ExecAt
  <1>7. Pieces' = Pieces /\ Regions' = Regions /\ Chunked' = Chunked
    BY <1>2, FilesStay
  <1>8. ExecFits(a)'
    BY <1>1, <1>2, <1>3, <1>5, <1>6, <1>7 DEF ExecFits, ExecAt, EarlyPcs, ClearingPcs
  <1>9. DOMAIN chunkRows' = {}
    BY <1>2
  <1>10. RowsFit' /\ OwnRegions' /\ AllEmbedded'
    BY <1>1, <1>2, <1>7, <1>9 DEF RowsFit, OwnRegions, AllEmbedded
  <1>11. p = "getDone" => OneInsertion'
    <2>1. p = "getDone" => Pieces = {}
      BY <1>1, <1>3, NothingToEmbed DEF RowsFit
    <2>2. p = "getDone" => {0} \X Pieces = {}
      BY <2>1
    <2>3. QED BY <1>7, <1>9, <2>2 DEF OneInsertion
  <1>12. /\ overtaken' \in BOOLEAN /\ (overtaken => overtaken')
         /\ ~overtaken' => IsCurrent(a) /\ CurrentFits(a) /\ docStatus # "indexed"
    BY <1>2, WriterIsCurrent DEF CurrentFits, RebuildPcs, BuildPcs
  <1>13. ASSUME CurrentFits(a), docStatus # "indexed"
         PROVE  CurrentFits(a)'
    <2>1. ChunksFit(a)'
      BY <1>3, <1>5, <1>9, <1>10, <1>11 DEF ChunksFit, ExecAt, FinalizePcs
    <2>2. upload'.tables = {} => RegionsFit(a)'
      BY <1>2, <1>3, <1>5, <1>13 DEF CurrentFits, RegionsFit, ExecAt
    <2>3. QED BY <1>2, <1>13, <2>1, <2>2 DEF CurrentFits
  <1>14. Active(record') => Active(record)
    BY <1>2 DEF Active
  <1>15. QED
    BY <1>1, <1>2, <1>5, <1>8, <1>10, <1>12, <1>13, <1>14, AttemptStep

LEMMA CreateChunksKeeps ==
  ASSUME IndexInv, NEW a \in IndexAttempts, CreateChunks(a)
  PROVE  IndexInv'
  <1> DEFINE split == Splits(upload)
             gen == inserts.chunks + 1
             listed == execs[a].listed
             region(k) == IF split[k] \in DOMAIN listed THEN listed[split[k]] ELSE NoRegion
             new == {<<gen, k>> : k \in DOMAIN split}
  <1>1. /\ upload \in Uploads /\ RowsFit /\ record \in Record /\ ExecsFit /\ ExecFits(a)
    BY Acting
  <1>2. /\ execs[a].pc = "createChunks" /\ docStatus' = docStatus /\ Overtaken(a)
        /\ record' = record /\ upload' = upload /\ manifest' = manifest
        /\ \A k \in DOMAIN split : region(k) \in DOMAIN manifest \cup {NoRegion}
        /\ chunkRows' = [c \in DOMAIN chunkRows \cup new |->
                           IF c \in new THEN [region |-> region(c[2]), vector |-> NoVector]
                           ELSE chunkRows[c]]
        /\ inserts' = [inserts EXCEPT !.chunks = @ + 1]
        /\ execs' = [execs EXCEPT ![a].listed = <<>>, ![a].pc = "stage"]
    BY DEF CreateChunks, ExecAt
  <1>3. "stage" \in ExecPcs /\ <<>> \in Seq(Ids)
    BY DEF ExecPcs, RebuildPcs, BuildPcs
  <1>4. /\ execs' \in [IndexAttempts -> ExecState]
        /\ \A b \in IndexAttempts \ {a} : execs'[b] = execs[b]
        /\ execs'[a].pc = "stage" /\ execs'[a].already = execs[a].already
        /\ execs'[a].listed = <<>>
    BY <1>1, <1>2, <1>3 DEF ExecsFit, ExecState
  <1>5. ~execs[a].already /\ ~ExecAt(a, "none") /\ Chunked
    BY <1>1, <1>2 DEF ExecFits, ExecAt
  <1>6. /\ Pieces' = Pieces /\ Regions' = Regions /\ Chunked' = Chunked
        /\ Splits(upload)' = Splits(upload)
    BY <1>2, FilesStay
  <1>7. ExecFits(a)'
    BY <1>1, <1>2, <1>4, <1>5, <1>6 DEF ExecFits, ExecAt
  <1>8. /\ inserts.chunks \in Nat /\ gen \in Nat
        /\ inserts' \in [manifest : Nat, chunks : Nat] /\ inserts'.chunks = gen
        /\ inserts'.manifest = inserts.manifest
    BY <1>1, <1>2 DEF RowsFit
  <1>9. new = {gen} \X Pieces
    BY DEF Pieces
  <1>10. \A k \in Pieces : region(k) \in Ids
    <2>1. NoRegion \in Ids
      BY DEF NoRegion, Ids
    <2>2. DOMAIN manifest \subseteq Ids
      <3>1. PICK m \in Nat : Regions = 1 .. m
        BY <1>1, RegionsByPage DEF Regions
      <3>2. QED BY <1>1, <3>1 DEF RowsFit, Ids
    <2> HIDE DEF region
    <2>3. QED BY <1>2, <2>1, <2>2 DEF Pieces
  <1>11. \A k \in Pieces : region(k)[2] \in {0, split[k]} \/ region(k) \in {listed[i] : i \in DOMAIN listed}
    BY DEF NoRegion
  <1>12. ASSUME \A i \in DOMAIN listed : listed[i][2] = i, NEW k \in Pieces
         PROVE  region(k)[2] \in {0, split[k]}
    BY <1>12 DEF NoRegion
  <1> HIDE DEF new, gen, region, listed, split
  <1>13. DOMAIN chunkRows' = DOMAIN chunkRows \cup ({gen} \X Pieces)
    BY <1>2, <1>9
  <1>14. \A c \in DOMAIN chunkRows : c \notin new /\ chunkRows'[c] = chunkRows[c]
    <2>1. ASSUME NEW c \in DOMAIN chunkRows
          PROVE  c \notin new
      <3>1. c[1] <= inserts.chunks /\ c[1] \in Nat
        BY <1>1 DEF RowsFit
      <3>2. c[1] # gen
        BY <1>8, <3>1 DEF gen
      <3>3. QED BY <1>9, <3>2
    <2>2. QED BY <1>2, <2>1
  <1>15. \A k \in Pieces : /\ <<gen, k>> \in DOMAIN chunkRows'
                           /\ chunkRows'[<<gen, k>>] = [region |-> region(k), vector |-> NoVector]
    BY <1>2, <1>9
  <1>16. ASSUME NEW c \in DOMAIN chunkRows'
         PROVE  /\ c[1] <= gen
                /\ chunkRows'[c] \in [region : Ids, vector : {NoVector, c[2]}]
                /\ \A k \in Pieces : <<c[1], k>> \in DOMAIN chunkRows'
    <2>1. CASE c \in DOMAIN chunkRows
      <3>1. /\ c[1] \in Nat /\ c[1] <= inserts.chunks
            /\ chunkRows[c] \in [region : Ids, vector : {NoVector, c[2]}]
            /\ \A k \in Pieces : <<c[1], k>> \in DOMAIN chunkRows
        BY <1>1, <2>1 DEF RowsFit
      <3>2. c[1] <= gen
        BY <1>8, <3>1 DEF gen
      <3>3. QED BY <1>13, <1>14, <2>1, <3>1, <3>2
    <2>2. CASE c \in {gen} \X Pieces
      <3>1. PICK k \in Pieces : c = <<gen, k>>
        BY <2>2
      <3>2. chunkRows'[c] = [region |-> region(k), vector |-> NoVector]
        BY <1>15, <3>1
      <3>3. region(k) \in Ids
        BY <1>10
      <3>4. c[1] = gen /\ c[2] = k
        BY <3>1
      <3>5. c[1] <= gen
        BY <1>8, <3>4
      <3>6. chunkRows'[c] \in [region : Ids, vector : {NoVector, c[2]}]
        BY <3>2, <3>3
      <3>7. \A l \in Pieces : <<c[1], l>> \in DOMAIN chunkRows'
        BY <1>15, <3>4
      <3>8. QED BY <3>5, <3>6, <3>7
    <2>3. QED BY <1>13, <2>1, <2>2
  <1>17. RowsFit'
    <2>1. DOMAIN chunkRows' \subseteq Nat \X Pieces
      BY <1>1, <1>8, <1>13 DEF RowsFit
    <2>2. QED BY <1>1, <1>2, <1>6, <1>8, <1>16, <2>1 DEF RowsFit
  <1>18. /\ overtaken' \in BOOLEAN /\ (overtaken => overtaken')
         /\ ~overtaken' => /\ IsCurrent(a) /\ CurrentFits(a) /\ docStatus # "indexed"
                           /\ upload.tables = {} => OwnRegions
    BY <1>2, WriterIsCurrent DEF CurrentFits, RebuildPcs, BuildPcs
  <1>19. ASSUME CurrentFits(a), docStatus # "indexed"
         PROVE  CurrentFits(a)'
    <2>1. DOMAIN chunkRows' = {gen} \X Pieces
      BY <1>2, <1>13, <1>19 DEF CurrentFits, ChunksFit, ExecAt
    <2>2. OneInsertion'
      BY <1>6, <1>8, <2>1 DEF OneInsertion
    <2>3. QED BY <1>2, <1>4, <1>19, <2>2 DEF CurrentFits, ChunksFit, RegionsFit, ExecAt
  <1>20. ASSUME CurrentFits(a), upload.tables = {}, OwnRegions
         PROVE  OwnRegions'
    <2>1. \A i \in DOMAIN listed : listed[i][2] = i
      BY <1>2, <1>20 DEF CurrentFits, RegionsFit, ExecAt, listed
    <2>2. ASSUME NEW c \in DOMAIN chunkRows'
          PROVE  chunkRows'[c].region[2] \in {0, split[c[2]]}
      <3>1. CASE c \in DOMAIN chunkRows
        BY <1>14, <1>20, <3>1 DEF OwnRegions, RegionOf, split
      <3>2. CASE c \in {gen} \X Pieces
        <4>1. PICK k \in Pieces : c = <<gen, k>>
          BY <3>2
        <4>2. chunkRows'[c] = [region |-> region(k), vector |-> NoVector] /\ c[2] = k
          BY <1>15, <4>1
        <4>3. region(k)[2] \in {0, split[k]}
          BY <1>12, <2>1
        <4>4. QED BY <4>2, <4>3
      <3>3. QED BY <1>13, <3>1, <3>2
    <2>3. QED BY <1>6, <2>2 DEF OwnRegions, RegionOf, split
  <1>21. Active(record') => Active(record)
    BY <1>2 DEF Active
  <1>22. QED
    BY <1>1, <1>2, <1>4, <1>7, <1>17, <1>18, <1>19, <1>20, <1>21, AttemptStep

\* A chunk gets the vector of its place, whoever stores it.
LEMMA VectorStored ==
  ASSUME upload \in Uploads, RowsFit, NEW c \in DOMAIN chunkRows, upload' = upload,
         chunkRows' = [chunkRows EXCEPT ![c].vector = c[2]],
         manifest' = manifest, inserts' = inserts
  PROVE  /\ RowsFit'
         /\ DOMAIN chunkRows' = DOMAIN chunkRows
         /\ chunkRows'[c].vector # NoVector
         /\ \A d \in DOMAIN chunkRows \ {c} : chunkRows'[d] = chunkRows[d]
         /\ OneInsertion => OneInsertion'
         /\ AllEmbedded => AllEmbedded'
         /\ OwnRegions => OwnRegions'
  <1>1. /\ c \in Nat \X Pieces
        /\ chunkRows[c] \in [region : Ids, vector : {NoVector, c[2]}]
    BY DEF RowsFit
  <1>2. c[2] \in Pieces /\ c[2] # NoVector
    <2>1. Pieces = 1 .. Len(Splits(upload)) /\ Len(Splits(upload)) \in Nat
      BY PiecesInOrder DEF Pieces
    <2>2. QED BY <1>1, <2>1 DEF NoVector
  <1>3. Pieces' = Pieces /\ Regions' = Regions /\ Splits(upload)' = Splits(upload)
    BY FilesStay
  <1>4. DOMAIN chunkRows' = DOMAIN chunkRows
    OBVIOUS
  <1>5. /\ \A d \in DOMAIN chunkRows \ {c} : chunkRows'[d] = chunkRows[d]
        /\ chunkRows'[c] = [chunkRows[c] EXCEPT !.vector = c[2]]
    OBVIOUS
  <1>6. /\ chunkRows'[c] \in [region : Ids, vector : {NoVector, c[2]}]
        /\ chunkRows'[c].vector = c[2] /\ chunkRows'[c].region = chunkRows[c].region
    BY <1>1, <1>5
  <1>7. RowsFit'
    BY <1>3, <1>4, <1>5, <1>6 DEF RowsFit
  <1>8. QED
    BY <1>2, <1>3, <1>4, <1>5, <1>6, <1>7 DEF OneInsertion, AllEmbedded, OwnRegions, RegionOf

LEMMA UpdateEmbeddingKeeps ==
  ASSUME IndexInv, NEW a \in IndexAttempts, UpdateEmbedding(a)
  PROVE  IndexInv'
  <1> DEFINE at == execs[a].at
             listed == execs[a].listed
             c == listed[at]
  <1>1. /\ upload \in Uploads /\ RowsFit /\ record \in Record /\ ExecsFit /\ ExecFits(a)
        /\ execs[a] \in ExecState
    BY Acting
  <1>2. /\ execs[a].pc = "update" /\ docStatus' = docStatus /\ Overtaken(a)
        /\ record' = record /\ upload' = upload /\ manifest' = manifest /\ inserts' = inserts
        /\ c \in DOMAIN chunkRows
        /\ chunkRows' = [chunkRows EXCEPT ![c].vector = at]
        /\ execs' = IF UpdatedAll(a)
                    THEN [execs EXCEPT ![a].listed = <<>>, ![a].at = 0, ![a].pc = "getDone"]
                    ELSE [execs EXCEPT ![a].at = @ + 1]
    BY DEF UpdateEmbedding, ExecAt
  <1>3. /\ DOMAIN listed = Pieces /\ at \in Pieces /\ \A k \in Pieces : listed[k][2] = k
        /\ ~execs[a].already /\ ~ExecAt(a, "none") /\ Chunked
    BY <1>1, <1>2 DEF ExecFits, ExecAt
  <1>4. Pieces = 1 .. Len(Splits(upload)) /\ Len(Splits(upload)) \in Nat
    BY <1>1, PiecesInOrder DEF Pieces
  <1>5. /\ Pieces' = Pieces /\ Chunked' = Chunked
    BY <1>2, FilesStay
  <1>6. /\ execs' \in [IndexAttempts -> ExecState]
        /\ \A b \in IndexAttempts \ {a} : execs'[b] = execs[b]
        /\ execs'[a].already = execs[a].already
        /\ \/ at = Len(Splits(upload)) /\ execs'[a].pc = "getDone"
           \/ /\ at # Len(Splits(upload)) /\ execs'[a].pc = "update"
              /\ execs'[a].listed = listed /\ execs'[a].at = at + 1
    <2>1. execs \in [IndexAttempts -> ExecState]
      BY <1>1 DEF ExecsFit
    <2>2. CASE UpdatedAll(a)
      <3>1. "getDone" \in ExecPcs /\ <<>> \in Seq(Ids)
        BY DEF ExecPcs, FinalizePcs
      <3>2. execs' = [execs EXCEPT ![a].listed = <<>>, ![a].at = 0, ![a].pc = "getDone"]
        BY <1>2, <2>2
      <3>3. QED BY <2>1, <2>2, <3>1, <3>2 DEF UpdatedAll, ExecState
    <2>3. CASE ~UpdatedAll(a)
      <3>1. execs' = [execs EXCEPT ![a].at = @ + 1]
        BY <1>2, <2>3
      <3> DEFINE next == [execs[a] EXCEPT !.at = @ + 1]
      <3>2. /\ next \in ExecState /\ next.pc = execs[a].pc /\ next.already = execs[a].already
            /\ next.listed = listed /\ next.at = at + 1
        BY <1>1 DEF ExecState
      <3> HIDE DEF next
      <3>3. execs' = [execs EXCEPT ![a] = next]
        BY <3>1 DEF next
      <3>4. execs' \in [IndexAttempts -> ExecState] /\ execs'[a] = next
        BY <2>1, <3>2, <3>3
      <3>5. \A b \in IndexAttempts \ {a} : execs'[b] = execs[b]
        BY <2>1, <3>3
      <3>6. QED BY <1>2, <2>3, <3>2, <3>4, <3>5 DEF UpdatedAll
    <2>4. QED BY <2>2, <2>3
  <1>7. c[2] = at
    BY <1>3
  <1>8. /\ RowsFit'
        /\ DOMAIN chunkRows' = DOMAIN chunkRows
        /\ chunkRows'[c].vector # NoVector
        /\ \A d \in DOMAIN chunkRows \ {c} : chunkRows'[d] = chunkRows[d]
        /\ OneInsertion => OneInsertion'
        /\ AllEmbedded => AllEmbedded'
        /\ OwnRegions => OwnRegions'
    <2> HIDE DEF c, at
    <2>1. chunkRows' = [chunkRows EXCEPT ![c].vector = c[2]]
      BY <1>2, <1>7
    <2>2. QED BY <1>1, <1>2, <2>1, VectorStored
  <1> HIDE DEF c, at, listed
  <1>9. at # Len(Splits(upload)) => at + 1 \in Pieces
    BY <1>3, <1>4
  <1>10. ExecFits(a)'
    <2>1. CASE execs'[a].pc = "getDone"
      BY <1>1, <1>2, <1>3, <1>6, <2>1 DEF ExecFits, ExecAt, EarlyPcs, ClearingPcs
    <2>2. CASE execs'[a].pc = "update"
      BY <1>1, <1>2, <1>3, <1>5, <1>6, <1>9, <2>2 DEF ExecFits, ExecAt, EarlyPcs, ClearingPcs
    <2>3. QED BY <1>6, <2>1, <2>2
  <1>11. /\ overtaken' \in BOOLEAN /\ (overtaken => overtaken')
         /\ ~overtaken' => /\ IsCurrent(a) /\ CurrentFits(a)
                           /\ docStatus = "indexed" => OneInsertion /\ AllEmbedded
                           /\ upload.tables = {} => OwnRegions
    BY <1>2, WriterIsCurrent
  <1>12. ASSUME CurrentFits(a)
         PROVE  CurrentFits(a)'
    <2>1. /\ OneInsertion
          /\ \A k \in Pieces : /\ listed[k] \in DOMAIN chunkRows
                               /\ k < at => chunkRows[listed[k]].vector # NoVector
      BY <1>2, <1>3, <1>12 DEF CurrentFits, ChunksFit, ExecAt, FinalizePcs, listed, at
    <2>2. \A k \in Pieces : k < at \/ k = at => chunkRows'[listed[k]].vector # NoVector
      <3>1. SUFFICES ASSUME NEW k \in Pieces, k < at \/ k = at
                     PROVE  chunkRows'[listed[k]].vector # NoVector
        OBVIOUS
      <3>2. CASE k = at
        BY <1>8, <3>2 DEF c
      <3>3. CASE k # at
        <4>1. listed[k] # c
          BY <1>3, <1>7, <3>3
        <4>2. QED BY <1>8, <2>1, <3>1, <3>3, <4>1
      <3>4. QED BY <3>2, <3>3
    <2>3. CASE execs'[a].pc = "update"
      <3>1. \A k \in Pieces : k < at + 1 => k < at \/ k = at
        BY <1>3, <1>4
      <3>2. execs'[a].listed = listed /\ execs'[a].at = at + 1
        BY <1>6, <2>3
      <3>3. ChunksFit(a)'
        BY <1>5, <1>8, <2>1, <2>2, <2>3, <3>1, <3>2 DEF ChunksFit, ExecAt
      <3>4. QED
        BY <2>3, <3>3 DEF CurrentFits, RegionsFit, ExecAt, RebuildPcs, BuildPcs
    <2>4. CASE execs'[a].pc = "getDone"
      <3>1. at = Len(Splits(upload))
        BY <1>6, <2>4
      <3>2. \A k \in Pieces : k < at \/ k = at
        BY <1>3, <1>4, <3>1
      <3>3. PICK g \in Nat : DOMAIN chunkRows = {g} \X Pieces
        BY <2>1 DEF OneInsertion
      <3>4. ASSUME NEW d \in DOMAIN chunkRows
            PROVE  chunkRows'[d].vector # NoVector
        <4>1. PICK k \in Pieces : d = <<g, k>>
          BY <3>3
        <4>2. PICK l \in Pieces : listed[k] = <<g, l>>
          BY <2>1, <3>3
        <4>3. l = k
          BY <1>3, <4>2
        <4>4. QED BY <2>2, <3>2, <4>1, <4>2, <4>3
      <3>5. OneInsertion' /\ AllEmbedded'
        BY <1>8, <2>1, <3>4 DEF AllEmbedded
      <3>6. QED
        BY <2>4, <3>5 DEF CurrentFits, ChunksFit, RegionsFit, ExecAt, RebuildPcs, BuildPcs
    <2>5. QED BY <1>6, <2>3, <2>4
  <1>13. Active(record') => Active(record)
    BY <1>2 DEF Active
  <1>14. QED
    BY <1>1, <1>2, <1>6, <1>8, <1>10, <1>11, <1>12, <1>13, AttemptStep

LEMMA MarkIndexedKeeps ==
  ASSUME IndexInv, NEW a \in IndexAttempts, MarkIndexed(a)
  PROVE  IndexInv'
  <1>1. /\ RowsFit /\ record \in Record /\ ExecsFit /\ ExecFits(a)
    BY Acting
  <1>2. /\ execs[a].pc = "markIndexed" /\ ExecGoto(a, "succeed")
        /\ Overtaken(a) /\ record' = record /\ upload' = upload /\ UNCHANGED indexState
    BY DEF MarkIndexed, ExecAt
  <1>3. "succeed" \in ExecPcs
    BY DEF ExecPcs, FinalizePcs
  <1>4. /\ execs' \in [IndexAttempts -> ExecState]
        /\ \A b \in IndexAttempts \ {a} : execs'[b] = execs[b]
        /\ execs'[a].pc = "succeed" /\ execs'[a].already = execs[a].already
        /\ execs'[a].listed = execs[a].listed
    BY <1>1, <1>2, <1>3, ExecGoes
  <1>5. ~execs[a].already /\ ~ExecAt(a, "none")
    BY <1>1, <1>2 DEF ExecFits, ExecAt
  <1>6. ExecFits(a)'
    BY <1>1, <1>2, <1>4, <1>5 DEF ExecFits, ExecAt, EarlyPcs, ClearingPcs
  <1>7. RowsFit' /\ UNCHANGED <<manifest, chunkRows>>
    BY <1>1, <1>2, RowsStay DEF indexState
  <1>8. /\ overtaken' \in BOOLEAN /\ (overtaken => overtaken')
        /\ ~overtaken' => IsCurrent(a) /\ CurrentFits(a) /\ (upload.tables = {} => OwnRegions)
    BY <1>2, WriterIsCurrent
  <1>9. CurrentFits(a) => OneInsertion' /\ AllEmbedded'
    <2>1. CurrentFits(a) => OneInsertion /\ AllEmbedded
      BY <1>2, <1>5 DEF CurrentFits, ChunksFit, FinalizePcs
    <2>2. QED BY <1>2, <2>1, RowsStay
  <1>10. CurrentFits(a) => CurrentFits(a)'
    BY <1>4, <1>9 DEF CurrentFits, ChunksFit, RegionsFit, ExecAt, RebuildPcs, BuildPcs
  <1>11. OwnRegions => OwnRegions'
    BY <1>2, RowsStay
  <1>12. Active(record') => Active(record)
    BY <1>2 DEF Active
  <1>13. QED
    BY <1>1, <1>2, <1>4, <1>6, <1>7, <1>8, <1>9, <1>10, <1>11, <1>12, AttemptStep

\* The backfill beside them gives a chunk no other vector.
LEMMA ReembedKeeps ==
  ASSUME IndexInv, NEW c \in DOMAIN chunkRows, Reembed(c)
  PROVE  IndexInv'
  <1>1. /\ upload \in Uploads /\ RowsFit /\ ExecsFit /\ IndexTypes /\ Unspoiled
    BY DEF IndexInv, IndexTypes
  <1>2. /\ chunkRows' = [chunkRows EXCEPT ![c].vector = c[2]]
        /\ upload' = upload /\ docStatus' = docStatus /\ record' = record /\ execs' = execs
        /\ manifest' = manifest /\ inserts' = inserts /\ overtaken' = overtaken
    BY DEF Reembed
  <1>3. /\ Pieces' = Pieces /\ Regions' = Regions /\ Chunked' = Chunked
        /\ RawRegions(upload)' = RawRegions(upload)
    BY <1>2, FilesStay
  <1>4. /\ RowsFit'
        /\ DOMAIN chunkRows' = DOMAIN chunkRows
        /\ \A d \in DOMAIN chunkRows :
              chunkRows[d].vector # NoVector => chunkRows'[d].vector # NoVector
        /\ OneInsertion => OneInsertion'
        /\ AllEmbedded => AllEmbedded'
        /\ OwnRegions => OwnRegions'
    BY <1>1, <1>2, VectorStored
  <1>5. IndexTypes'
    <2>1. \A b \in IndexAttempts : ExecFits(b) => ExecFits(b)'
      BY <1>2, <1>3 DEF ExecFits, ExecAt, IsCurrent
    <2>2. QED BY <1>1, <1>2, <1>4, <2>1 DEF IndexTypes, ExecsFit
  <1>6. ASSUME NEW b \in IndexAttempts, CurrentFits(b)
        PROVE  CurrentFits(b)'
    <2>1. ChunksFit(b)'
      BY <1>2, <1>3, <1>4, <1>6 DEF CurrentFits, ChunksFit, ExecAt
    <2>2. upload.tables = {} => RegionsFit(b)'
      <3>1. ManifestInOrder => ManifestInOrder'
        BY <1>2, <1>3 DEF ManifestInOrder
      <3>2. QED BY <1>2, <1>6, <3>1 DEF CurrentFits, RegionsFit, ExecAt
    <2>3. QED BY <1>2, <1>6, <2>1, <2>2 DEF CurrentFits
  <1>7. Unspoiled'
    BY <1>1, <1>2, <1>4, <1>6 DEF Unspoiled, IsCurrent
  <1>8. QED BY <1>5, <1>7 DEF IndexInv

(***************************************************************************)
(* Chunks: the theorems                                                    *)
(***************************************************************************)
LEMMA IndexInitInv == IndexInit => IndexInv
  <1>1. SUFFICES ASSUME IndexInit PROVE IndexInv
    OBVIOUS
  <1>2. DOMAIN manifest = {} /\ DOMAIN chunkRows = {}
    BY <1>1 DEF IndexInit
  <1>3. RowsFit
    BY <1>1, <1>2 DEF IndexInit, RowsFit
  <1>4. /\ record \in Record /\ record.attempt = 0 /\ ~Active(record)
    BY <1>1 DEF IndexInit, NoRecord, Record, Active, ActiveStatuses, FinishedStatuses, Phases
  <1>5. ExecsFit
    <2>1. "none" \in ExecPcs /\ <<>> \in Seq(Ids)
      BY DEF ExecPcs
    <2>2. NotStarted \in ExecState
      BY <2>1 DEF NotStarted, ExecState
    <2>3. /\ NotStarted.pc = "none" /\ NotStarted.listed = <<>> /\ ~NotStarted.already
      BY DEF NotStarted
    <2>4. MaxIndexAttempt \in Nat
      BY IndexBounds
    <2>5. execs = [a \in IndexAttempts |-> NotStarted]
      BY <1>1 DEF IndexInit
    <2>6. QED BY <1>4, <2>2, <2>3, <2>4, <2>5 DEF ExecsFit, ExecFits, ExecAt
  <1>6. IndexTypes
    BY <1>1, <1>3, <1>5 DEF IndexInit, IndexTypes
  <1>7. Unspoiled
    BY <1>1, <1>2, <1>4 DEF IndexInit, Unspoiled, IsCurrent, OwnRegions
  <1>8. QED BY <1>6, <1>7 DEF IndexInv

LEMMA IndexStep == IndexInv /\ [IndexNext]_indexVars => IndexInv'
  <1>1. SUFFICES ASSUME IndexInv, [IndexNext]_indexVars PROVE IndexInv'
    OBVIOUS
  <1>2. CASE StartAttempt
    BY <1>1, <1>2, StartAttemptKeeps
  <1>3. ASSUME NEW a \in IndexAttempts,
               \/ StartFailed(a) \/ PrepareStep(a) \/ FinalizeStep(a)
               \/ StepAgain(a) \/ StepFails(a) \/ RecordIndexFailure(a) \/ FailDocument(a)
        PROVE  IndexInv'
    <2>1. CASE StartFailed(a) \/ StepAgain(a) \/ StepFails(a)
      BY <1>1, <2>1, StartFailedKeeps, StepAgainKeeps, StepFailsKeeps
    <2>2. CASE RecordIndexFailure(a) \/ FailDocument(a)
      BY <1>1, <2>2, RecordIndexFailureKeeps, FailDocumentKeeps
    <2>3. CASE PrepareStep(a)
      BY <1>1, <2>3, CheckAttemptKeeps, GetDocumentKeeps, MarkDocumentKeeps, LayoutJobKeeps,
         ClearManifestKeeps, CreateManifestKeeps, ListManifestKeeps, ClearChunksKeeps,
         CreateChunksKeeps, StagingKeeps DEF PrepareStep, ReplaceManifest
    <2>4. CASE FinalizeStep(a)
      BY <1>1, <2>4, ListChunksKeeps, UpdateEmbeddingKeeps, GetDoneKeeps, MarkIndexedKeeps,
         SucceedKeeps, DeleteObjectsKeeps DEF FinalizeStep
    <2>5. QED BY <1>3, <2>1, <2>2, <2>3, <2>4
  <1>4. ASSUME NEW c \in DOMAIN chunkRows, Reembed(c)
        PROVE  IndexInv'
    BY <1>1, <1>4, ReembedKeeps
  <1>5. CASE UNCHANGED indexVars
    <2>1. /\ upload' = upload /\ docStatus' = docStatus /\ record' = record /\ execs' = execs
          /\ UNCHANGED indexState /\ overtaken' = overtaken
      BY <1>5 DEF indexVars
    <2>2. IndexTypes /\ RowsFit /\ ExecsFit /\ Unspoiled
      BY <1>1 DEF IndexInv, IndexTypes
    <2>3. \A b \in IndexAttempts : ExecFits(b) => ExecFits(b)'
      BY <2>1, FilesStay DEF ExecFits, ExecAt, IsCurrent
    <2>4. IndexTypes'
      BY <2>1, <2>2, <2>3, RowsStay DEF IndexTypes, ExecsFit
    <2>5. \A b \in IndexAttempts : CurrentFits(b) => CurrentFits(b)'
      BY <2>1, FitsStay
    <2>6. Unspoiled'
      BY <2>1, <2>2, <2>5, RowsStay DEF Unspoiled, IsCurrent
    <2>7. QED BY <2>4, <2>6 DEF IndexInv
  <1>6. QED BY <1>1, <1>2, <1>3, <1>4, <1>5 DEF IndexNext

LEMMA IndexInvGivesWhole == IndexInv => IndexedIsWhole
  <1>1. SUFFICES ASSUME IndexInv PROVE IndexedIsWhole
    OBVIOUS
  <1>2. RowsFit /\ Unspoiled
    BY <1>1 DEF IndexInv, IndexTypes
  <1>3. \A c \in DOMAIN chunkRows : chunkRows[c].vector \in {NoVector, c[2]}
    BY <1>2 DEF RowsFit
  <1>4. ASSUME OneInsertion
        PROVE  /\ IsInjective([c \in DOMAIN chunkRows |-> c[2]])
               /\ {c[2] : c \in DOMAIN chunkRows} = Pieces
    <2>1. PICK g \in Nat : DOMAIN chunkRows = {g} \X Pieces
      BY <1>4 DEF OneInsertion
    <2>2. \A c \in DOMAIN chunkRows : c[2] \in Pieces /\ c = <<g, c[2]>>
      BY <2>1
    <2>3. \A k \in Pieces : <<g, k>> \in DOMAIN chunkRows /\ <<g, k>>[2] = k
      BY <2>1
    <2> DEFINE place == [c \in DOMAIN chunkRows |-> c[2]]
    <2>4. \A c, d \in DOMAIN chunkRows : c[2] = d[2] => c = d
      BY <2>2
    <2>5. DOMAIN place = DOMAIN chunkRows /\ \A c \in DOMAIN chunkRows : place[c] = c[2]
      OBVIOUS
    <2> HIDE DEF place
    <2>6. IsInjective(place)
      BY <2>4, <2>5 DEF IsInjective
    <2>7. {c[2] : c \in DOMAIN chunkRows} \subseteq Pieces
      BY <2>2
    <2>8. ASSUME NEW k \in Pieces PROVE k \in {c[2] : c \in DOMAIN chunkRows}
      BY <2>3
    <2>9. {c[2] : c \in DOMAIN chunkRows} = Pieces
      BY <2>7, <2>8
    <2>10. QED BY <2>6, <2>9 DEF place
  <1>5. ASSUME docStatus = "indexed", ~overtaken
        PROVE  /\ IsInjective([c \in DOMAIN chunkRows |-> c[2]])
               /\ {c[2] : c \in DOMAIN chunkRows} = DOMAIN Splits(upload)
               /\ \A c \in DOMAIN chunkRows : chunkRows[c].vector # NoVector
    <2>1. OneInsertion /\ AllEmbedded
      BY <1>2, <1>5 DEF Unspoiled
    <2>2. QED BY <1>4, <2>1 DEF AllEmbedded, Pieces
  <1>6. upload.tables = {} /\ ~overtaken => OwnRegions
    BY <1>2 DEF Unspoiled
  <1>7. QED BY <1>3, <1>5, <1>6 DEF IndexedIsWhole

\* While nobody wrote who was no longer current, the rows are at every step
\* what the current attempt needs them to be; and a vector is always that of
\* its chunk's own text.
THEOREM IndexInvariant == IndexSpec => []IndexInv
  <1>1. QED BY IndexInitInv, IndexStep, PTL DEF IndexSpec

\* An indexed document has each chunk of its file once, with its own vector,
\* and in a file without tables its own region, however attempts of indexing
\* fail, begin again and overlap, unless one wrote when no longer current.
THEOREM IndexedStaysWhole == IndexSpec => []IndexedIsWhole
  <1>1. QED BY IndexInvariant, IndexInvGivesWhole, PTL

(***************************************************************************)
(* Splitting: the windows                                                  *)
(***************************************************************************)
Boundary(text, i) == i = Len(text) \/ text[i + 1]

WellFormed(text) ==
    /\ text \in Seq(BOOLEAN)
    /\ Len(text) > 0 => text[1]
    /\ \A i \in 1 .. Len(text) : \E j \in 1 .. i : i - j < MaxRune /\ text[j]

Aligned(text, start, i) ==
    LET at == AlignToRuneBoundary(text, i) IN IF at > start THEN at ELSE i

StepOf(size, overlap) == IF size - overlap <= 0 THEN 1 ELSE size - overlap

WindowEnd(text, size, start) ==
    IF start + size >= Len(text) THEN Len(text) ELSE Aligned(text, start, start + size)

NextStart(text, step, start) ==
    IF start + step >= Len(text) THEN start + step ELSE Aligned(text, start, start + step)

\* What Split's loop adds from an offset on.
Loop(f, text, size, overlap, start) ==
    IF start >= Len(text) THEN <<>>
    ELSE <<[start |-> start, end |-> WindowEnd(text, size, start)]>>
           \o IF WindowEnd(text, size, start) = Len(text) THEN <<>>
              ELSE f[NextStart(text, StepOf(size, overlap), start)]

Loops(f, text, size, overlap) ==
    f = [start \in 0 .. Len(text) + size |-> Loop(f, text, size, overlap, start)]

LEMMA SplitIsTheLoop ==
  ASSUME NEW text, NEW size, NEW overlap
  PROVE  Split(text, size, overlap) = (CHOOSE f : Loops(f, text, size, overlap))[0]
  BY DEF Split, Loops, Loop, WindowEnd, NextStart, Aligned, StepOf

\* The last rune's start up to an offset.
LEMMA LastStart ==
  ASSUME NEW text, WellFormed(text), NEW i \in 0 .. Len(text)
  PROVE  LET at == AlignToRuneBoundary(text, i)
         IN  /\ at \in 0 .. i
             /\ Boundary(text, at)
             /\ \A j \in 0 .. i : Boundary(text, j) => j <= at
             /\ i - at < MaxRune
  <1> DEFINE starts == {j \in 0 .. i : j = 0 \/ j = Len(text) \/ text[j + 1]}
             at == AlignToRuneBoundary(text, i)
  <1>1. Len(text) \in Nat /\ MaxRune \in Nat \ {0}
    BY TextBounds DEF WellFormed
  <1>2. \E j \in starts : \A k \in starts : k <= j
    <2> DEFINE back == {n \in Nat : i - n \in starts}
    <2>1. i \in back
      BY <1>1
    <2>2. PICK n \in back : \A m \in back : n <= m
      BY <2>1, Least
    <2>3. ASSUME NEW k \in starts PROVE k <= i - n
      <3>1. i - k \in back
        BY <1>1
      <3>2. n <= i - k
        BY <3>1, <2>2
      <3>3. QED BY <3>2, <1>1
    <2>4. QED BY <2>2, <2>3
  <1>3. at = CHOOSE j \in starts : \A k \in starts : k <= j
    BY DEF AlignToRuneBoundary
  <1>4. at \in starts /\ \A k \in starts : k <= at
    BY <1>2, <1>3
  <1> HIDE DEF at
  <1>5. \A j \in starts : Boundary(text, j)
    BY <1>1 DEF Boundary, WellFormed
  <1>6. \A j \in 0 .. i : Boundary(text, j) => j \in starts
    BY DEF Boundary
  <1>7. i - at < MaxRune
    <2>1. CASE i = Len(text)
      BY <2>1, <1>1, <1>4
    <2>2. CASE i # Len(text)
      <3>1. PICK j \in 1 .. i + 1 : i + 1 - j < MaxRune /\ text[j]
        BY <2>2, <1>1 DEF WellFormed
      <3>2. j - 1 \in starts
        BY <3>1, <1>1
      <3>3. at \in 0 .. i /\ j - 1 <= at
        BY <3>2, <1>4
      <3>4. QED BY <3>1, <3>3, <1>1
    <2>3. QED BY <2>1, <2>2
  <1>8. QED
    BY <1>4, <1>5, <1>6, <1>7 DEF at

\* A window ends after it starts, and the next one starts after it and
\* before it ends.
Advances(text, size, overlap, start, end, next) ==
    /\ end \in start + 1 .. Len(text) /\ end - start <= size
    /\ size - overlap >= MaxRune => Boundary(text, end)
    /\ end # Len(text) =>
          /\ next \in start + 1 .. Len(text) - 1 /\ next <= end
          /\ end <= WindowEnd(text, size, next)
          /\ size - overlap >= MaxRune =>
                Boundary(text, next) /\ end - next > overlap - MaxRune

LEMMA WindowAndNext ==
  ASSUME NEW text, WellFormed(text), NEW size \in Nat \ {0}, NEW overlap \in Nat,
         NEW start \in 0 .. Len(text) - 1
  PROVE  Advances(text, size, overlap, start, WindowEnd(text, size, start),
                  NextStart(text, StepOf(size, overlap), start))
  <1> DEFINE L == Len(text)
             step == StepOf(size, overlap)
             end == WindowEnd(text, size, start)
             next == NextStart(text, step, start)
             at(i) == AlignToRuneBoundary(text, i)
  <1>1. L \in Nat /\ MaxRune \in Nat \ {0} /\ step \in 1 .. size
        /\ (size - overlap >= MaxRune => step = size - overlap)
    BY TextBounds DEF WellFormed, StepOf
  <1>2. \A i \in 0 .. L : /\ at(i) \in 0 .. i /\ Boundary(text, at(i)) /\ i - at(i) < MaxRune
                          /\ \A j \in 0 .. i : Boundary(text, j) => j <= at(i)
    BY LastStart
  <1>3. \A s \in 0 .. L - 1 :
           WindowEnd(text, size, s) = IF s + size >= L THEN L
                                      ELSE IF at(s + size) > s THEN at(s + size) ELSE s + size
    BY DEF WindowEnd, Aligned
  <1>4. next = IF start + step >= L THEN start + step
               ELSE IF at(start + step) > start THEN at(start + step) ELSE start + step
    BY DEF NextStart, Aligned
  <1>5. Boundary(text, L)
    BY DEF Boundary
  <1> HIDE DEF L, step, next, at
  <1>6. end = IF start + size >= L THEN L
              ELSE IF at(start + size) > start THEN at(start + size) ELSE start + size
    BY <1>3 DEF L
  <1> HIDE DEF end
  <1>7. end \in start + 1 .. L /\ end - start <= size
    BY <1>1, <1>2, <1>6 DEF L
  <1>8. size - overlap >= MaxRune => Boundary(text, end)
    BY <1>1, <1>2, <1>5, <1>6 DEF L
  <1>9. ASSUME end # L
        PROVE  /\ next \in start + 1 .. L - 1 /\ next <= end
               /\ end <= WindowEnd(text, size, next)
               /\ size - overlap >= MaxRune =>
                     Boundary(text, next) /\ end - next > overlap - MaxRune
    <2>1. start \in 0 .. L - 1 /\ start + size < L /\ start + step < L
          /\ start + size \in 0 .. L /\ start + step \in 0 .. L
      BY <1>1, <1>6, <1>9 DEF L
    <2>2. /\ at(start + size) \in 0 .. start + size
          /\ at(start + step) \in 0 .. start + step
          /\ at(start + step) <= at(start + size)
      BY <2>1, <1>1, <1>2
    <2>3. next \in start + 1 .. L - 1
      BY <2>1, <2>2, <1>1, <1>4
    <2>4. next <= end
      <3>1. CASE at(start + step) > start
        BY <3>1, <2>1, <2>2, <1>1, <1>4, <1>6
      <3>2. CASE at(start + step) <= start
        <4>1. at(start + size) > start => at(start + size) > start + step
          <5>1. SUFFICES ASSUME at(start + size) > start, at(start + size) <= start + step
                         PROVE  FALSE
            BY <2>1, <2>2, <1>1
          <5>2. at(start + size) <= at(start + step)
            BY <5>1, <2>1, <2>2, <1>2
          <5>3. QED BY <5>1, <5>2, <3>2, <2>1, <2>2
        <4>2. QED BY <4>1, <3>2, <2>1, <2>2, <1>1, <1>4, <1>6
      <3>3. QED BY <3>1, <3>2, <2>1, <2>2
    <2>5. end <= WindowEnd(text, size, next)
      <3>1. WindowEnd(text, size, next) =
               IF next + size >= L THEN L
               ELSE IF at(next + size) > next THEN at(next + size) ELSE next + size
        BY <2>1, <2>3, <1>3
      <3>2. CASE next + size >= L
        BY <3>1, <3>2, <1>7
      <3>3. CASE next + size < L
        <4>1. next + size \in 0 .. L /\ start + size \in 0 .. next + size
          BY <3>3, <2>1, <2>3, <1>1
        <4>2. at(next + size) \in 0 .. next + size /\ at(start + size) <= at(next + size)
          BY <4>1, <2>1, <2>2, <1>2
        <4>3. CASE at(start + size) > start
          BY <4>1, <4>2, <4>3, <3>1, <3>3, <2>1, <2>2, <2>3, <1>1, <1>6
        <4>4. CASE at(start + size) <= start
          <5>1. at(next + size) > next => at(next + size) > start + size
            <6>1. SUFFICES ASSUME at(next + size) > next, at(next + size) <= start + size
                           PROVE  FALSE
              BY <4>1, <4>2, <2>1
            <6>2. at(next + size) \in 0 .. start + size /\ Boundary(text, at(next + size))
              BY <6>1, <4>1, <4>2, <1>2
            <6>3. at(next + size) <= at(start + size)
              BY <6>2, <2>1, <1>2
            <6>4. QED BY <6>1, <6>3, <4>4, <4>2, <2>1, <2>2, <2>3
          <5>2. end = start + size
            BY <4>4, <2>1, <2>2, <1>1, <1>6
          <5>3. QED BY <5>1, <5>2, <4>1, <4>2, <3>1, <3>3, <2>1, <2>3, <1>1
        <4>5. QED BY <4>3, <4>4, <2>1, <2>2
      <3>4. QED BY <3>2, <3>3, <2>3, <1>1
    <2>6. ASSUME size - overlap >= MaxRune
          PROVE  Boundary(text, next) /\ end - next > overlap - MaxRune
      <3>1. step = size - overlap
        BY <2>6, <1>1
      <3>2. \A i \in 0 .. L : i - at(i) < MaxRune /\ Boundary(text, at(i))
        BY <1>2
      <3>3. /\ start + step - at(start + step) < MaxRune /\ Boundary(text, at(start + step))
            /\ start + size - at(start + size) < MaxRune
        <4>1. start + step \in 0 .. L /\ start + size \in 0 .. L
          BY <2>1
        <4>2. start + step - at(start + step) < MaxRune
          BY <4>1, <3>2, <2>1, <2>2, <1>1
        <4>3. Boundary(text, at(start + step))
          BY <4>1, <3>2
        <4>4. start + size - at(start + size) < MaxRune
          BY <4>1, <3>2, <2>1, <2>2, <1>1
        <4>5. QED BY <4>2, <4>3, <4>4
      <3>4. at(start + step) > start /\ at(start + size) > start
        BY <3>1, <3>2, <3>3, <2>6, <2>1, <2>2, <1>1
      <3>5. next = at(start + step) /\ end = at(start + size)
        BY <3>4, <2>1, <1>4, <1>6, <1>1
      <3>6. QED BY <3>1, <3>2, <3>3, <3>5, <2>1, <2>2, <1>1
    <2>7. QED BY <2>3, <2>4, <2>5, <2>6
  <1>10. QED BY <1>7, <1>8, <1>9 DEF L, end, next, step, Advances

\* The loop ends: what it adds from an offset on is that of a later one.
LEMMA LoopExists ==
  ASSUME NEW text, WellFormed(text), NEW size \in Nat \ {0}, NEW overlap \in Nat
  PROVE  \E f : Loops(f, text, size, overlap)
  <1> DEFINE top == Len(text) + size
             body(f, s) == Loop(f, text, size, overlap, s)
             Solved(f, n) == /\ f = [s \in 0 .. top |-> f[s]]
                             /\ \A s \in 0 .. top : s + n >= top => f[s] = body(f, s)
             Good == {n \in Nat : \E f : Solved(f, n)}
  <1>1. top \in Nat /\ Len(text) \in Nat /\ Len(text) < top
    BY DEF WellFormed
  <1>2. \A f, s : Len(text) <= s => body(f, s) = <<>>
    BY DEF Loop
  <1>3. ASSUME NEW f, NEW g, NEW s \in 0 .. top, \A t \in s + 1 .. top : f[t] = g[t]
        PROVE  body(f, s) = body(g, s)
    <2>1. CASE s >= Len(text)
      BY <2>1, <1>1, <1>2
    <2>2. CASE s < Len(text)
      <3>1. WindowEnd(text, size, s) # Len(text) =>
               NextStart(text, StepOf(size, overlap), s) \in s + 1 .. top
        <4>1. s \in 0 .. Len(text) - 1
          BY <2>2, <1>1
        <4>2. Advances(text, size, overlap, s, WindowEnd(text, size, s),
                       NextStart(text, StepOf(size, overlap), s))
          BY <4>1, WindowAndNext
        <4>3. QED BY <4>1, <4>2, <1>1 DEF Advances
      <3>2. WindowEnd(text, size, s) # Len(text) =>
               f[NextStart(text, StepOf(size, overlap), s)] = g[NextStart(text, StepOf(size, overlap), s)]
        BY <3>1, <1>3
      <3>3. QED BY <3>2 DEF Loop
    <2>3. QED BY <2>1, <2>2, <1>1
  <1> HIDE DEF top, body
  <1>4. 0 \in Good
    <2> DEFINE f == [s \in 0 .. top |-> <<>>]
    <2>1. Solved(f, 0)
      BY <1>1, <1>2
    <2>2. QED BY <2>1
  <1>5. ASSUME NEW n \in Nat, n \in Good PROVE n + 1 \in Good
    <2>1. PICK f : Solved(f, n)
      BY <1>5
    <2> DEFINE k == top - (n + 1)
               g == [s \in 0 .. top |-> IF s = k THEN body(f, k) ELSE f[s]]
    <2>2. \A s \in 0 .. top : g[s] = IF s = k THEN body(f, k) ELSE f[s]
      OBVIOUS
    <2>3. g = [s \in 0 .. top |-> g[s]]
      OBVIOUS
    <2> HIDE DEF g
    <2>4. ASSUME NEW s \in 0 .. top, s + (n + 1) >= top
          PROVE  g[s] = body(g, s)
      <3>1. s >= k /\ \A t \in s + 1 .. top : f[t] = g[t]
        BY <2>2, <2>4, <1>1
      <3>2. body(f, s) = body(g, s)
        BY <3>1, <1>3
      <3>3. g[s] = body(f, s)
        <4>1. CASE s = k
          BY <4>1, <2>2
        <4>2. CASE s # k
          <5>1. s + n >= top
            BY <4>2, <2>4, <1>1
          <5>2. f[s] = body(f, s)
            BY <5>1, <2>1
          <5>3. QED BY <5>2, <4>2, <2>2
        <4>3. QED BY <4>1, <4>2
      <3>4. QED BY <3>2, <3>3
    <2>5. Solved(g, n + 1)
      BY <2>3, <2>4
    <2> HIDE DEF Solved
    <2>6. \E h : Solved(h, n + 1)
      BY <2>5
    <2>7. QED BY <2>6
  <1>6. top \in Good
    <2> HIDE DEF Good
    <2>1. QED BY <1>1, <1>4, <1>5, Induction
  <1>7. PICK f : Solved(f, top)
    BY <1>6
  <1>8. \A s \in 0 .. top : f[s] = body(f, s)
    BY <1>7, <1>1
  <1>9. f = [s \in 0 .. top |-> body(f, s)]
    BY <1>7, <1>8
  <1>10. Loops(f, text, size, overlap)
    BY <1>9 DEF Loops, top, body
  <1>11. QED BY <1>10

\* What SplitCovers says of the windows from an offset on.
Covers(text, size, overlap, start, w) ==
    LET n == Len(w)
    IN  /\ w \in Seq([start : Nat, end : Nat]) /\ n > 0
        /\ w[1] = [start |-> start, end |-> WindowEnd(text, size, start)]
        /\ w[n].end = Len(text)
        /\ \A i \in 1 .. n : w[i].end - w[i].start \in 1 .. size
        /\ \A i \in 1 .. n - 1 : /\ w[i].start < w[i + 1].start
                                 /\ w[i].end <= w[i + 1].end
                                 /\ w[i + 1].start <= w[i].end
        /\ size - overlap >= MaxRune /\ Boundary(text, start) =>
              /\ \A i \in 1 .. n : Boundary(text, w[i].start) /\ Boundary(text, w[i].end)
              /\ \A i \in 1 .. n - 1 : w[i].end - w[i + 1].start > overlap - MaxRune

LEMMA OneWindow ==
  ASSUME NEW text, WellFormed(text), NEW size \in Nat \ {0}, NEW overlap \in Nat,
         NEW start \in 0 .. Len(text) - 1, WindowEnd(text, size, start) = Len(text)
  PROVE  Covers(text, size, overlap, start,
                <<[start |-> start, end |-> WindowEnd(text, size, start)]>>)
  <1> DEFINE first == [start |-> start, end |-> WindowEnd(text, size, start)]
             w == <<first>>
  <1>1. /\ Len(text) \in Nat /\ MaxRune \in Nat
        /\ first.end \in start + 1 .. Len(text) /\ first.end - first.start \in 1 .. size
        /\ first.start = start
        /\ size - overlap >= MaxRune => Boundary(text, first.end)
    <2>1. Advances(text, size, overlap, start, first.end,
                   NextStart(text, StepOf(size, overlap), start))
      BY WindowAndNext
    <2>2. Len(text) \in Nat /\ MaxRune \in Nat /\ first.start = start
      BY TextBounds DEF WellFormed
    <2> HIDE DEF first
    <2>3. QED BY <2>1, <2>2 DEF Advances
  <1>2. first \in [start : Nat, end : Nat]
    BY <1>1
  <1>3. first.end = Len(text)
    OBVIOUS
  <1> HIDE DEF first
  <1>4. w \in Seq([start : Nat, end : Nat]) /\ Len(w) = 1 /\ w[1] = first
    BY <1>2
  <1> HIDE DEF w
  <1>5. 1 .. Len(w) = {1} /\ 1 .. Len(w) - 1 = {}
    BY <1>4
  <1>6. w[1] = [start |-> start, end |-> WindowEnd(text, size, start)]
    BY <1>4 DEF first
  <1>7. Covers(text, size, overlap, start, w)
    BY <1>1, <1>3, <1>4, <1>5, <1>6 DEF Covers
  <1>8. QED BY <1>7 DEF w, first

LEMMA OneMoreWindow ==
  ASSUME NEW text, WellFormed(text), NEW size \in Nat \ {0}, NEW overlap \in Nat,
         NEW start \in 0 .. Len(text) - 1, WindowEnd(text, size, start) # Len(text),
         NEW rest, Covers(text, size, overlap, NextStart(text, StepOf(size, overlap), start), rest)
  PROVE  Covers(text, size, overlap, start,
                <<[start |-> start, end |-> WindowEnd(text, size, start)]>> \o rest)
  <1> DEFINE first == [start |-> start, end |-> WindowEnd(text, size, start)]
             next == NextStart(text, StepOf(size, overlap), start)
             w == <<first>> \o rest
             n == Len(rest)
  <1>1. /\ Len(text) \in Nat /\ MaxRune \in Nat
        /\ first.end \in start + 1 .. Len(text) /\ first.end - first.start \in 1 .. size
        /\ first.start = start
        /\ next \in start + 1 .. Len(text) - 1 /\ next <= first.end
        /\ first.end <= WindowEnd(text, size, next)
        /\ size - overlap >= MaxRune =>
              /\ Boundary(text, first.end) /\ Boundary(text, next)
              /\ first.end - next > overlap - MaxRune
    <2>1. Advances(text, size, overlap, start, first.end, next)
      BY WindowAndNext
    <2>2. Len(text) \in Nat /\ MaxRune \in Nat /\ first.start = start /\ first.end # Len(text)
      BY TextBounds DEF WellFormed
    <2> HIDE DEF first, next
    <2>3. QED BY <2>1, <2>2 DEF Advances
  <1>2. first \in [start : Nat, end : Nat]
    BY <1>1
  <1>3. first = [start |-> start, end |-> WindowEnd(text, size, start)]
    OBVIOUS
  <1>4. /\ rest \in Seq([start : Nat, end : Nat]) /\ n \in Nat \ {0}
        /\ rest[1].start = next /\ rest[1].end = WindowEnd(text, size, next)
        /\ rest[n].end = Len(text)
    BY <1>1 DEF Covers
  <1>5. \A i \in 1 .. n : rest[i] \in [start : Nat, end : Nat]
                          /\ rest[i].end - rest[i].start \in 1 .. size
    <2>1. \A i \in 1 .. Len(rest) : rest[i] \in [start : Nat, end : Nat]
      BY <1>4, ElementOfSeq
    <2>2. \A i \in 1 .. Len(rest) : rest[i].end - rest[i].start \in 1 .. size
      BY DEF Covers
    <2>3. QED BY <2>1, <2>2
  <1>6. \A i \in 1 .. n - 1 : /\ rest[i].start < rest[i + 1].start
                              /\ rest[i].end <= rest[i + 1].end
                              /\ rest[i + 1].start <= rest[i].end
    BY DEF Covers
  <1>7. ASSUME size - overlap >= MaxRune
        PROVE  /\ \A i \in 1 .. n : Boundary(text, rest[i].start) /\ Boundary(text, rest[i].end)
               /\ \A i \in 1 .. n - 1 : rest[i].end - rest[i + 1].start > overlap - MaxRune
    BY <1>1, <1>7 DEF Covers
  <1> HIDE DEF first, next
  <1>8. /\ w \in Seq([start : Nat, end : Nat]) /\ Len(w) = n + 1
        /\ w[1] = first /\ \A k \in 1 .. n : w[k + 1] = rest[k]
    <2> DEFINE R == [start : Nat, end : Nat]
    <2>1. first \in R /\ rest \in Seq(R)
      BY <1>2, <1>4
    <2> HIDE DEF R
    <2>2. <<first>> \in Seq(R) /\ Len(<<first>>) = 1 /\ <<first>>[1] = first
      BY <2>1
    <2>3. /\ w \in Seq(R) /\ Len(w) = 1 + n
          /\ \A i \in 1 .. 1 + n : w[i] = IF i <= 1 THEN <<first>>[i] ELSE rest[i - 1]
      BY <2>1, <2>2, ConcatProperties
    <2> HIDE DEF w
    <2>4. ASSUME NEW k \in 1 .. n PROVE w[k + 1] = rest[k]
      <3>1. k + 1 \in 1 .. 1 + n /\ ~(k + 1 <= 1) /\ (k + 1) - 1 = k
        BY <1>4
      <3>2. w[k + 1] = rest[(k + 1) - 1]
        BY <3>1, <2>3
      <3>3. QED BY <3>1, <3>2
    <2>5. w[1] = first
      <3>1. 1 \in 1 .. 1 + n
        BY <1>4
      <3>2. QED BY <3>1, <2>2, <2>3
    <2>6. Len(w) = n + 1
      BY <2>3, <1>4
    <2> HIDE DEF n
    <2>7. QED BY <2>3, <2>4, <2>5, <2>6 DEF R
  <1> HIDE DEF w, n
  <1>9. /\ w[n + 1] = rest[n] /\ w[2] = rest[1]
        /\ \A i \in 1 .. n + 1 : i = 1 \/ \E k \in 1 .. n : i = k + 1
        /\ \A i \in 1 .. n : i = 1 \/ \E k \in 1 .. n - 1 : i = k + 1
    <2>1. w[1 + 1] = rest[1] /\ w[n + 1] = rest[n]
      <3>1. 1 \in 1 .. n /\ n \in 1 .. n
        BY <1>4
      <3>2. QED BY <3>1, <1>8
    <2>2. \A i \in 2 .. n + 1 : i - 1 \in 1 .. n /\ i = (i - 1) + 1
      BY <1>4
    <2>3. \A i \in 2 .. n : i - 1 \in 1 .. n - 1
      BY <1>4
    <2>4. \A i \in 1 .. n + 1 : i = 1 \/ i \in 2 .. n + 1
      BY <1>4
    <2>5. \A i \in 1 .. n : i = 1 \/ i \in 2 .. n
      BY <1>4
    <2>6. \A i \in 2 .. n : \E k \in 1 .. n - 1 : i = k + 1
      BY <2>2, <2>3, <1>4
    <2>7. QED BY <2>1, <2>2, <2>4, <2>5, <2>6
  <1>10. \A i \in 1 .. n + 1 : w[i].end - w[i].start \in 1 .. size
    <2>1. TAKE i \in 1 .. n + 1
    <2>2. CASE i = 1
      BY <2>2, <1>1, <1>8
    <2>3. CASE i # 1
      <3>1. PICK k \in 1 .. n : i = k + 1
        BY <2>3, <1>9
      <3>2. QED BY <3>1, <1>5, <1>8
    <2>4. QED BY <2>2, <2>3
  <1>11. \A i \in 1 .. n : /\ w[i].start < w[i + 1].start
                           /\ w[i].end <= w[i + 1].end
                           /\ w[i + 1].start <= w[i].end
    <2>1. TAKE i \in 1 .. n
    <2>2. CASE i = 1
      <3>1. w[i] = first /\ w[i + 1] = rest[1]
        BY <2>2, <1>8, <1>9
      <3>2. /\ first.start < rest[1].start
            /\ first.end <= rest[1].end
            /\ rest[1].start <= first.end
        BY <1>1, <1>4
      <3>3. QED BY <3>1, <3>2
    <2>3. CASE i # 1
      <3>1. PICK k \in 1 .. n - 1 : i = k + 1
        BY <2>3, <1>9
      <3>2. w[i] = rest[k] /\ w[i + 1] = rest[k + 1]
        <4>1. k \in 1 .. n /\ k + 1 \in 1 .. n
          BY <1>4
        <4>2. QED BY <4>1, <3>1, <1>8
      <3>3. QED BY <3>1, <3>2, <1>6
    <2>4. QED BY <2>2, <2>3
  <1>12. ASSUME size - overlap >= MaxRune, Boundary(text, start)
         PROVE  /\ \A i \in 1 .. n + 1 : Boundary(text, w[i].start) /\ Boundary(text, w[i].end)
                /\ \A i \in 1 .. n : w[i].end - w[i + 1].start > overlap - MaxRune
    <2>1. ASSUME NEW i \in 1 .. n + 1
          PROVE  Boundary(text, w[i].start) /\ Boundary(text, w[i].end)
      <3>1. CASE i = 1
        BY <3>1, <1>1, <1>8, <1>12
      <3>2. CASE i # 1
        <4>1. PICK k \in 1 .. n : i = k + 1
          BY <3>2, <1>9
        <4>2. QED BY <4>1, <1>7, <1>8, <1>12
      <3>3. QED BY <3>1, <3>2
    <2>2. ASSUME NEW i \in 1 .. n
          PROVE  w[i].end - w[i + 1].start > overlap - MaxRune
      <3>1. CASE i = 1
        BY <3>1, <1>1, <1>4, <1>8, <1>9, <1>12
      <3>2. CASE i # 1
        <4>1. PICK k \in 1 .. n - 1 : i = k + 1
          BY <3>2, <1>9
        <4>2. w[i] = rest[k] /\ w[i + 1] = rest[k + 1]
          <5>1. k \in 1 .. n /\ k + 1 \in 1 .. n
            BY <1>4
          <5>2. QED BY <5>1, <4>1, <1>8
        <4>3. QED BY <4>1, <4>2, <1>7, <1>12
      <3>3. QED BY <3>1, <3>2
    <2>3. QED BY <2>1, <2>2
  <1>13. Len(w) = n + 1 /\ Len(w) - 1 = n /\ n + 1 > 0
    <2>1. n \in Nat /\ Len(w) = n + 1
      BY <1>4, <1>8
    <2>2. QED BY <2>1
  <1>14. w[1] = [start |-> start, end |-> WindowEnd(text, size, start)]
    BY <1>3, <1>8
  <1>15. Covers(text, size, overlap, start, w)
    BY <1>4, <1>8, <1>9, <1>10, <1>11, <1>12, <1>13, <1>14 DEF Covers
  <1>16. QED BY <1>15 DEF w, first

LEMMA LoopCovers ==
  ASSUME NEW text, WellFormed(text), NEW size \in Nat \ {0}, NEW overlap \in Nat,
         NEW f, Loops(f, text, size, overlap)
  PROVE  \A start \in 0 .. Len(text) - 1 : Covers(text, size, overlap, start, f[start])
  <1> DEFINE L == Len(text)
             Good == {n \in Nat : \A s \in 0 .. L - 1 :
                                     s + n >= L => Covers(text, size, overlap, s, f[s])}
  <1>1. L \in Nat
    BY DEF WellFormed
  <1>2. \A s \in 0 .. L : f[s] = Loop(f, text, size, overlap, s)
    BY <1>1 DEF Loops
  <1>3. 0 \in Good
    BY <1>1
  <1>4. ASSUME NEW n \in Nat, n \in Good PROVE n + 1 \in Good
    <2>1. SUFFICES ASSUME NEW s \in 0 .. L - 1, s + (n + 1) >= L
                   PROVE  Covers(text, size, overlap, s, f[s])
      OBVIOUS
    <2> DEFINE first == [start |-> s, end |-> WindowEnd(text, size, s)]
               next == NextStart(text, StepOf(size, overlap), s)
    <2>2. CASE first.end = L
      <3>1. f[s] = <<first>> \o <<>>
        <4>1. f[s] = Loop(f, text, size, overlap, s) /\ ~(s >= L)
          BY <1>1, <1>2
        <4>2. QED BY <4>1, <2>2 DEF Loop
      <3>2. <<first>> \o <<>> = <<first>>
        OBVIOUS
      <3>3. QED BY <3>1, <3>2, <2>2, OneWindow
    <2>3. CASE first.end # L
      <3>1. f[s] = <<first>> \o f[next]
        <4>1. f[s] = Loop(f, text, size, overlap, s) /\ ~(s >= L)
          BY <1>1, <1>2
        <4>2. QED BY <4>1, <2>3 DEF Loop
      <3>2. next \in s + 1 .. L - 1
        BY <2>3, WindowAndNext DEF Advances
      <3>3. next \in 0 .. L - 1 /\ next + n >= L
        BY <3>2, <2>1, <1>1
      <3>4. Covers(text, size, overlap, next, f[next])
        BY <3>3, <1>4
      <3>5. QED BY <3>1, <3>4, <2>3, OneMoreWindow
    <2>4. QED BY <2>2, <2>3
  <1>5. L \in Good
    <2> HIDE DEF Good
    <2>1. QED BY <1>1, <1>3, <1>4, Induction
  <1>6. QED BY <1>1, <1>5

\* Whatever the text, the size and the overlap, the windows Split cuts cover
\* the text without a gap, and with steps no shorter than a rune none is cut
\* inside one and neighbours share the overlap but for part of a rune.
THEOREM WindowsCover ==
    ASSUME fed \in Fed \cup {NothingFed}
    PROVE  SplitCovers
  <1> DEFINE text == fed.text
             size == fed.size
             overlap == fed.overlap
             windows == Split(text, size, overlap)
  <1>1. WellFormed(text) /\ size \in Nat \ {0} /\ overlap \in Nat
    <2>1. CASE fed \in Fed
      <3>1. PICK n \in 0 .. MaxBytes : text \in Text(n)
        BY <2>1 DEF Fed
      <3>2. n \in Nat /\ text \in [1 .. n -> BOOLEAN]
        BY <3>1, TextBounds DEF Text
      <3>3. text \in Seq(BOOLEAN) /\ Len(text) = n
        BY <3>2
      <3>4. QED BY <2>1, <3>1, <3>3, TextBounds DEF Fed, Text, WellFormed
    <2>2. CASE fed = NothingFed
      BY <2>2 DEF NothingFed, WellFormed
    <2>3. QED BY <2>1, <2>2
  <1>2. PICK f : Loops(f, text, size, overlap) /\ windows = f[0]
    BY <1>1, LoopExists, SplitIsTheLoop
  <1> HIDE DEF text, size, overlap, windows
  <1>3. Len(text) \in Nat /\ f[0] = Loop(f, text, size, overlap, 0)
    <2>1. Len(text) \in Nat /\ 0 \in 0 .. Len(text) + size
      BY <1>1 DEF WellFormed
    <2>2. QED BY <2>1, <1>2 DEF Loops
  <1>4. CASE text = <<>>
    <2>1. windows = <<>>
      BY <1>2, <1>3, <1>4 DEF Loop
    <2>2. QED BY <2>1, <1>4 DEF SplitCovers, windows, text, size, overlap
  <1>5. CASE text # <<>>
    <2>1. Len(text) > 0 /\ Boundary(text, 0)
      BY <1>1, <1>5 DEF WellFormed, Boundary
    <2>2. Covers(text, size, overlap, 0, windows)
      BY <2>1, <1>1, <1>2, <1>3, LoopCovers
    <2> DEFINE n == Len(windows)
    <2>3. /\ n > 0 /\ n \in Nat /\ windows[1].start = 0 /\ windows[n].end = Len(text)
          /\ \A i \in 1 .. n : windows[i].end - windows[i].start \in 1 .. size
          /\ \A i \in 1 .. n - 1 : /\ windows[i].start < windows[i + 1].start
                                   /\ windows[i].end <= windows[i + 1].end
                                   /\ windows[i + 1].start <= windows[i].end
      BY <2>2 DEF Covers
    <2>4. size - overlap >= MaxRune =>
             /\ \A i \in 1 .. n : Boundary(text, windows[i].start) /\ Boundary(text, windows[i].end)
             /\ \A i \in 1 .. n - 1 : windows[i].end - windows[i + 1].start > overlap - MaxRune
      BY <2>1, <2>2 DEF Covers
    <2>5. (n = 0) = (text = <<>>)
      BY <2>3, <1>5
    <2>6. QED
      BY <2>3, <2>4, <2>5 DEF SplitCovers, Boundary, windows, text, size, overlap
  <1>6. QED BY <1>4, <1>5
=============================================================================
