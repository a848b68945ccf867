------------------------------ MODULE JobStatus ------------------------------
(***************************************************************************)
(* The state rules of internal/jobstatus: what one (document, job type)    *)
(* status record may become.  Both stores (Postgres and memory) apply      *)
(* these rules under a row lock, so one write is one atomic step of every  *)
(* module that keeps records; those modules hold the record itself.        *)
(*                                                                         *)
(* A record's failure reason is abstracted to who wrote it.  An empty      *)
(* phase or reason is "none", and a missing row is NoRecord, whose         *)
(* attempt 0 makes the first enqueue attempt 1.                            *)
(***************************************************************************)
EXTENDS Integers

ActiveStatuses == {"pending", "processing"}
FinishedStatuses == {"succeeded", "failed"}
Phases == {"none", "embedding"}
Reasons == {"dispatch", "step", "scan", "timeout"}

Record == [status    : {"none"} \cup ActiveStatuses \cup FinishedStatuses,
           phase     : Phases,
           attempt   : Nat,
           lastError : {"none"} \cup Reasons]

NoRecord == [status |-> "none", phase |-> "none", attempt |-> 0, lastError |-> "none"]

Active(rec) == rec.status \in ActiveStatuses
Finished(rec) == rec.status \in FinishedStatuses

-----------------------------------------------------------------------------
(* Enqueue: a missing or finished record starts its next attempt; an       *)
(* active one is left alone and the caller is told not to start a run.     *)

\* Mutant: the caller starts a run whatever the record says.
StartedAlways(cur) == TRUE

Started(cur) == ~Active(cur)

\* Mutant: a retry keeps the attempt number of the attempt it replaces.
EnqueueSameAttempt(cur) ==
    IF Active(cur) THEN cur
    ELSE [status |-> "pending", phase |-> "none",
          attempt |-> IF cur.attempt = 0 THEN 1 ELSE cur.attempt,
          lastError |-> "none"]

Enqueue(cur) ==
    IF Active(cur) THEN cur
    ELSE [status |-> "pending", phase |-> "none",
          attempt |-> cur.attempt + 1, lastError |-> "none"]

-----------------------------------------------------------------------------
(* Transition: moving the record to status `to' on behalf of `attempt'.    *)

Targets == {"processing", "succeeded", "failed"}

\* Mutant: the attempt is not compared with the record's.
TransitionErrorAnyAttempt(cur, attempt, to) ==
    IF cur.status = "none" THEN "ErrNotFound"
    ELSE IF to \notin Targets THEN "ErrInvalidTransition"
    ELSE IF Finished(cur) /\ cur.status # to THEN "ErrNotActive"
    ELSE "nil"

\* Mutant: a finished record can be moved again.
TransitionErrorReopen(cur, attempt, to) ==
    IF cur.status = "none" THEN "ErrNotFound"
    ELSE IF attempt # cur.attempt THEN "ErrAttemptSuperseded"
    ELSE IF to \notin Targets THEN "ErrInvalidTransition"
    ELSE "nil"

TransitionError(cur, attempt, to) ==
    IF cur.status = "none" THEN "ErrNotFound"
    ELSE IF attempt # cur.attempt THEN "ErrAttemptSuperseded"
    ELSE IF to \notin Targets THEN "ErrInvalidTransition"
    ELSE IF Finished(cur) /\ cur.status # to THEN "ErrNotActive"
    ELSE "nil"

\* pipeline.Superseded: the step's attempt is not the current one any more,
\* or has already finished, so the step should stop.
Superseded(err) == err \in {"ErrAttemptSuperseded", "ErrNotActive"}

\* Mutant: repeating an outcome rewrites its reason.
TransitionRewrite(cur, attempt, to, phase, reason) ==
    IF TransitionError(cur, attempt, to) # "nil" THEN cur
    ELSE [cur EXCEPT !.status = to, !.lastError = reason]

Transition(cur, attempt, to, phase, reason) ==
    IF TransitionError(cur, attempt, to) # "nil" \/ Finished(cur) THEN cur
    ELSE [status    |-> to,
          phase     |-> IF to = "succeeded" THEN "none"
                        ELSE IF to = "processing" /\ phase # "none" THEN phase
                        ELSE cur.phase,
          attempt   |-> cur.attempt,
          lastError |-> IF to = "succeeded" THEN "none"
                        ELSE IF to = "failed" THEN reason
                        ELSE cur.lastError]

\* The Writer's methods; each reports TransitionError(cur, attempt, <target>).
MarkProcessing(cur, attempt) == Transition(cur, attempt, "processing", "none", "none")
SetPhase(cur, attempt, phase) == Transition(cur, attempt, "processing", phase, "none")
MarkSucceeded(cur, attempt) == Transition(cur, attempt, "succeeded", "none", "none")
MarkFailed(cur, attempt, reason) == Transition(cur, attempt, "failed", "none", reason)
=============================================================================
