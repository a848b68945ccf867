-------------------------- MODULE JobDispatchProofs --------------------------
(***************************************************************************)
(* What holds of JobDispatch for every set of keys and publishers and      *)
(* every bound on the attempts, and of DocumentProgress for every bound.   *)
(***************************************************************************)
EXTENDS JobDispatch, DocumentProgress, TLAPS

(***************************************************************************)
(* The rules of JobStatus                                                  *)
(***************************************************************************)

\* Enqueue returns a record; it either leaves an active record alone or
\* starts the next attempt as pending.
LEMMA EnqueueRule ==
  ASSUME NEW r \in Record
  PROVE  /\ Enqueue(r) \in Record
         /\ Active(r) => Enqueue(r) = r
         /\ ~Active(r) => /\ Enqueue(r).status = "pending"
                          /\ Enqueue(r).attempt = r.attempt + 1
  <1>1. CASE Active(r)
    BY <1>1 DEF Enqueue
  <1>2. CASE ~Active(r)
    <2>1. Enqueue(r) = [status |-> "pending", phase |-> "none",
                        attempt |-> r.attempt + 1, lastError |-> "none"]
      BY <1>2 DEF Enqueue
    <2>2. r.attempt + 1 \in Nat
      BY DEF Record
    <2>3. Enqueue(r) \in Record
      BY <2>1, <2>2 DEF Record, ActiveStatuses, Phases
    <2>4. QED BY <1>2, <2>1, <2>3
  <1>3. QED BY <1>1, <1>2

\* Transition returns a record of the same attempt; it changes only an active
\* record, on behalf of that record's attempt, and then to the target.
LEMMA TransitionRule ==
  ASSUME NEW r \in Record, NEW a \in Nat, NEW to \in Targets,
         NEW phase \in Phases, NEW reason \in Reasons \cup {"none"}
  PROVE  /\ Transition(r, a, to, phase, reason) \in Record
         /\ Transition(r, a, to, phase, reason).attempt = r.attempt
         /\ (a # r.attempt \/ ~Active(r)) =>
                Transition(r, a, to, phase, reason) = r
         /\ (a = r.attempt /\ Active(r)) =>
                Transition(r, a, to, phase, reason).status = to
  <1> USE DEF Record, ActiveStatuses, FinishedStatuses, Phases, Reasons, Targets,
              Active, Finished
  <1>1. CASE TransitionError(r, a, to) # "nil" \/ Finished(r)
    BY <1>1 DEF Transition, TransitionError
  <1>2. CASE ~(TransitionError(r, a, to) # "nil" \/ Finished(r))
    <2>1. r.status \in {"pending", "processing"} /\ a = r.attempt
      BY <1>2 DEF TransitionError
    <2>2. Transition(r, a, to, phase, reason) =
            [status    |-> to,
             phase     |-> IF to = "succeeded" THEN "none"
                           ELSE IF to = "processing" /\ phase # "none" THEN phase
                           ELSE r.phase,
             attempt   |-> r.attempt,
             lastError |-> IF to = "succeeded" THEN "none"
                           ELSE IF to = "failed" THEN reason
                           ELSE r.lastError]
      BY <1>2 DEF Transition
    <2>3. QED BY <2>1, <2>2
  <1>3. QED BY <1>1, <1>2

\* The same two rules for the store as a whole: one row changes.
LEMMA EnqueueStep ==
  ASSUME TypeOK, NEW k \in Keys,
         records' = [records EXCEPT ![k] = Enqueue(records[k])]
  PROVE  /\ records' \in [Keys -> Record]
         /\ \A j \in Keys \ {k} : records'[j] = records[j]
         /\ records'[k] = Enqueue(records[k])
  BY EnqueueRule DEF TypeOK

LEMMA TransitionStep ==
  ASSUME TypeOK, NEW k \in Keys, NEW a \in Nat, NEW to \in Targets,
         NEW phase \in Phases, NEW reason \in Reasons \cup {"none"},
         records' = [records EXCEPT ![k] =
                       Transition(records[k], a, to, phase, reason)]
  PROVE  /\ records' \in [Keys -> Record]
         /\ \A j \in Keys : records'[j].attempt = records[j].attempt
         /\ \A j \in Keys :
               (j # k \/ a # records[j].attempt \/ ~Active(records[j]))
                 => records'[j] = records[j]
         /\ (a = records[k].attempt /\ Active(records[k]))
                 => records'[k].status = to
  <1>1. records[k] \in Record
    BY DEF TypeOK
  <1>2. /\ Transition(records[k], a, to, phase, reason) \in Record
        /\ Transition(records[k], a, to, phase, reason).attempt = records[k].attempt
        /\ (a # records[k].attempt \/ ~Active(records[k])) =>
               Transition(records[k], a, to, phase, reason) = records[k]
        /\ (a = records[k].attempt /\ Active(records[k])) =>
               Transition(records[k], a, to, phase, reason).status = to
    BY <1>1, TransitionRule
  <1>3. QED BY <1>2 DEF TypeOK

\* And for the executions: one of them moves to step s.
LEMMA RunsStep ==
  ASSUME TypeOK, NEW k \in Keys, NEW a \in Attempts, NEW s \in RunSteps,
         runs' = [runs EXCEPT ![k][a] = s]
  PROVE  /\ runs' \in [Keys -> [Attempts -> RunSteps]]
         /\ runs'[k][a] = s
         /\ \A j \in Keys, b \in Attempts :
               (j # k \/ b # a) => runs'[j][b] = runs[j][b]
  BY DEF TypeOK

-----------------------------------------------------------------------------
(***************************************************************************)
(* Types                                                                   *)
(***************************************************************************)

\* publish leaves every variable in its type.
LEMMA PublishType ==
  ASSUME TypeOK, NEW p \in Publishers, Publish(p)
  PROVE  TypeOK'
  <1> USE MaxAttemptIsPositive, NoKeyIsNoKey
  <1>1. ASSUME NEW k \in Keys, PublishEnqueue(p, k) PROVE TypeOK'
    <2>1. records[k] \in Record /\ records[k].attempt < MaxAttempt
      BY <1>1 DEF TypeOK, PublishEnqueue
    <2>2. records' \in [Keys -> Record]
      BY <1>1, EnqueueStep DEF PublishEnqueue
    <2>3. CASE Started(records[k])
      <3>1. Enqueue(records[k]).attempt \in Attempts
        BY <2>1, <2>3, EnqueueRule DEF Started, Attempts, Record
      <3>2. publishers' = [publishers EXCEPT ![p] =
                [pc |-> "dispatch", key |-> k, attempt |-> Enqueue(records[k]).attempt]]
        BY <1>1, <2>3 DEF PublishEnqueue
      <3>3. QED BY <1>1, <2>2, <3>1, <3>2 DEF TypeOK, PublishEnqueue, PublisherSteps, Attempts
    <2>4. CASE ~Started(records[k])
      BY <1>1, <2>2, <2>4 DEF TypeOK, PublishEnqueue
    <2>5. QED BY <2>3, <2>4
  <1>2. ASSUME publishers[p].pc = "dispatch",
               StartExecution(publishers[p].key, publishers[p].attempt)
        PROVE  runs' \in [Keys -> [Attempts -> RunSteps]]
    BY <1>2 DEF TypeOK, StartExecution, RunSteps
  <1>3. CASE DispatchOK(p)
    BY <1>2, <1>3 DEF TypeOK, DispatchOK, Idle, PublisherSteps
  <1>4. CASE DispatchReplyLost(p)
    BY <1>2, <1>4 DEF TypeOK, DispatchReplyLost
  <1>5. CASE DispatchError(p)
    BY <1>5 DEF TypeOK, DispatchError, PublisherSteps
  <1>6. CASE MarkDispatchFailed(p)
    <2>1. publishers[p].key \in Keys /\ publishers[p].attempt \in Attempts
      BY <1>6 DEF TypeOK, MarkDispatchFailed
    <2>2. records' = [records EXCEPT ![publishers[p].key] =
                        Transition(records[publishers[p].key], publishers[p].attempt,
                                   "failed", "none", "dispatch")]
      BY <1>6 DEF MarkDispatchFailed, MarkFailed
    <2>3. publishers[p].attempt \in Nat
      BY <2>1 DEF Attempts
    <2>4. "failed" \in Targets /\ "none" \in Phases /\ "dispatch" \in Reasons
      BY DEF Targets, Phases, Reasons
    <2>5. records' \in [Keys -> Record]
      BY <2>1, <2>2, <2>3, <2>4, TransitionStep
    <2>6. QED BY <1>6, <2>5 DEF TypeOK, MarkDispatchFailed, Idle, PublisherSteps
  <1>7. CASE PublisherLost(p)
    BY <1>7 DEF TypeOK, PublisherLost, Idle, PublisherSteps
  <1>8. QED BY <1>1, <1>3, <1>4, <1>5, <1>6, <1>7 DEF Publish

\* An execution's steps leave every variable in its type.
LEMMA RunType ==
  ASSUME TypeOK, NEW k \in Keys, NEW a \in Attempts, Run(k, a)
  PROVE  TypeOK'
  <1> USE DEF RunSteps
  <1>a. a \in Nat
    BY MaxAttemptIsPositive DEF Attempts
  <1>1. CASE RunBegin(k, a)
    <2>1. records' \in [Keys -> Record]
      BY <1>1, <1>a, TransitionStep DEF RunBegin, MarkProcessing, Targets, Phases
    <2>2. PICK s \in {"working", "ended", "recordFailure"} :
              runs' = [runs EXCEPT ![k][a] = s]
      BY <1>1 DEF RunBegin
    <2>3. runs' \in [Keys -> [Attempts -> RunSteps]]
      BY <2>2, RunsStep
    <2>4. QED BY <1>1, <2>1, <2>3 DEF TypeOK, RunBegin
  <1>2. CASE RunCheckStale(k, a)
    BY <1>2 DEF TypeOK, RunCheckStale
  <1>3. CASE RunSetPhase(k, a)
    <2>1. records' \in [Keys -> Record]
      BY <1>3, <1>a, TransitionStep DEF RunSetPhase, SetPhase, Targets, Phases
    <2>2. QED BY <1>3, <2>1 DEF TypeOK, RunSetPhase
  <1>4. CASE RunSucceed(k, a)
    <2>1. records' \in [Keys -> Record]
      BY <1>4, <1>a, TransitionStep DEF RunSucceed, MarkSucceeded, Targets, Phases
    <2>2. PICK s \in {"ended", "recordFailure"} :
              runs' = [runs EXCEPT ![k][a] = s]
      BY <1>4 DEF RunSucceed
    <2>3. runs' \in [Keys -> [Attempts -> RunSteps]]
      BY <2>2, RunsStep
    <2>4. QED BY <1>4, <2>1, <2>3 DEF TypeOK, RunSucceed
  <1>5. CASE RunSucceedReplyLost(k, a)
    <2>1. records' \in [Keys -> Record]
      BY <1>5, <1>a, TransitionStep
         DEF RunSucceedReplyLost, MarkSucceeded, Targets, Phases
    <2>2. QED BY <1>5, <2>1 DEF TypeOK, RunSucceedReplyLost
  <1>6. CASE RunError(k, a)
    BY <1>6 DEF TypeOK, RunError
  <1>7. CASE RunRecordFailure(k, a)
    <2>1. records' \in [Keys -> Record]
      BY <1>7, <1>a, TransitionStep
         DEF RunRecordFailure, MarkFailed, Targets, Phases, Reasons
    <2>2. QED BY <1>7, <2>1 DEF TypeOK, RunRecordFailure
  <1>8. CASE RunAbort(k, a)
    BY <1>8 DEF TypeOK, RunAbort
  <1>9. QED BY <1>1, <1>2, <1>3, <1>4, <1>5, <1>6, <1>7, <1>8 DEF Run

\* Deleting a document leaves every variable in its type.
LEMMA DeleteType ==
  ASSUME TypeOK, NEW k \in Keys, DeleteDocument(k)
  PROVE  TypeOK'
  <1>1. NoRecord \in Record
    BY DEF NoRecord, Record, Phases
  <1>2. QED BY <1>1 DEF TypeOK, DeleteDocument

\* Type correctness of the status store, its publishers and its executions.
THEOREM TypeCorrect == Spec => []TypeOK
  <1>1. Init => TypeOK
    <2>1. NoRecord \in Record
      BY DEF NoRecord, Record, Phases
    <2>2. QED BY <2>1, MaxAttemptIsPositive
                 DEF Init, TypeOK, Idle, PublisherSteps, RunSteps
  <1>2. TypeOK /\ [Next]_vars => TypeOK'
    <2> SUFFICES ASSUME TypeOK, [Next]_vars PROVE TypeOK'
      OBVIOUS
    <2>1. CASE UNCHANGED vars
      BY <2>1 DEF vars, TypeOK
    <2>2. QED BY <2>1, PublishType, RunType, DeleteType DEF Next
  <1>3. QED BY <1>1, <1>2, PTL DEF Spec

-----------------------------------------------------------------------------
(***************************************************************************)
(* The inductive invariant                                                 *)
(*                                                                         *)
(* OneDispatcher and ActiveIsOwned are not inductive by themselves.  A new *)
(* attempt has to be new to every publisher (PublishersNotAhead) and to    *)
(* Step Functions (RunsNotAhead): attempts are numbered upwards, except    *)
(* that a deleted document's row is gone, which is why a key in `gone' is  *)
(* never enqueued again.  And a publisher that hands its attempt to an     *)
(* execution that already ended must find the attempt decided              *)
(* (EndedIsDecided).                                                       *)
(***************************************************************************)
RecordsOK ==
    \A k \in Keys :
       /\ (records[k].status = "none") <=> (records[k].attempt = 0)
       /\ records[k].attempt <= MaxAttempt
       /\ k \in gone => records[k] = NoRecord

PublishersNotAhead ==
    \A p \in Publishers :
       publishers[p].pc # "idle" /\ publishers[p].key \notin gone
         => publishers[p].attempt <= records[publishers[p].key].attempt

RunsNotAhead ==
    \A k \in Keys, a \in Attempts :
       k \notin gone /\ runs[k][a] # "none" => a <= records[k].attempt

EndedIsDecided ==
    \A k \in Keys, a \in Attempts :
       /\ runs[k][a] = "ended"
       /\ records[k].attempt = a
       /\ Active(records[k])
       => <<k, a>> \in orphaned

IInv ==
    /\ TypeOK
    /\ RecordsOK
    /\ PublishersNotAhead
    /\ RunsNotAhead
    /\ EndedIsDecided
    /\ OneDispatcher
    /\ ProgressHasRun
    /\ ActiveIsOwned

\* A step of execution a writes only k's row, only while that row is on
\* attempt a and active, and moves only its own execution.
OwnRowOnly(k, a) ==
    \A j \in Keys :
       /\ records'[j].attempt = records[j].attempt
       /\ (j # k \/ a # records[j].attempt \/ ~Active(records[j]))
             => records'[j] = records[j]
       /\ Active(records[j]) => records'[j].status # "none"

OwnRunOnly(k, a) ==
    /\ runs[k][a] \in Live
    /\ runs'[k][a] \in Live \cup {"ended"}
    /\ \A j \in Keys, b \in Attempts :
          (j # k \/ b # a) => runs'[j][b] = runs[j][b]

LEMMA OwnRow ==
  ASSUME TypeOK, NEW k \in Keys, NEW a \in Nat, NEW to \in Targets,
         NEW phase \in Phases, NEW reason \in Reasons \cup {"none"},
         records' = [records EXCEPT ![k] =
                       Transition(records[k], a, to, phase, reason)]
  PROVE  /\ OwnRowOnly(k, a)
         /\ (a = records[k].attempt /\ Active(records'[k])) => to = "processing"
         /\ (a = records[k].attempt /\ Active(records[k])) => records'[k].status = to
  <1>1. /\ \A j \in Keys : records'[j].attempt = records[j].attempt
        /\ \A j \in Keys :
              (j # k \/ a # records[j].attempt \/ ~Active(records[j]))
                => records'[j] = records[j]
        /\ (a = records[k].attempt /\ Active(records[k]))
                => records'[k].status = to
    BY TransitionStep
  <1>2. QED
    BY <1>1 DEF OwnRowOnly, Active, ActiveStatuses, Targets

LEMMA RunEffect ==
  ASSUME TypeOK, NEW k \in Keys, NEW a \in Attempts, Run(k, a)
  PROVE  /\ UNCHANGED <<gone, publishers>>
         /\ orphaned \subseteq orphaned'
         /\ OwnRowOnly(k, a)
         /\ OwnRunOnly(k, a)
         /\ (/\ runs'[k][a] = "ended"
             /\ records[k].attempt = a
             /\ Active(records'[k])) => <<k, a>> \in orphaned'
  <1>a. a \in Nat
    BY MaxAttemptIsPositive DEF Attempts
  <1>b. /\ "none" \in Phases /\ "embedding" \in Phases /\ "step" \in Reasons
        /\ "processing" \in Targets /\ "succeeded" \in Targets /\ "failed" \in Targets
        /\ "working" \in RunSteps /\ "ended" \in RunSteps /\ "recordFailure" \in RunSteps
    BY DEF Phases, Reasons, Targets, RunSteps
  <1>c. ASSUME UNCHANGED records PROVE OwnRowOnly(k, a)
    BY <1>c DEF OwnRowOnly, Active, ActiveStatuses
  <1>d. ASSUME NEW s \in {"working", "recordFailure", "ended"},
               runs[k][a] \in Live, runs' = [runs EXCEPT ![k][a] = s]
        PROVE  OwnRunOnly(k, a) /\ runs'[k][a] = s
    <2>1. s \in RunSteps /\ s \in Live \cup {"ended"}
      BY DEF RunSteps, Live
    <2>2. /\ runs'[k][a] = s
          /\ \A j \in Keys, b \in Attempts :
                (j # k \/ b # a) => runs'[j][b] = runs[j][b]
      <3>1. runs \in [Keys -> [Attempts -> RunSteps]]
        BY DEF TypeOK
      <3>2. QED BY <1>d, <3>1
    <2>3. QED BY <1>d, <2>1, <2>2 DEF OwnRunOnly
  <1>e. ASSUME UNCHANGED runs, runs[k][a] = "working" PROVE OwnRunOnly(k, a)
    BY <1>e DEF OwnRunOnly, Live
  <1>1. CASE RunBegin(k, a)
    <2>1. OwnRowOnly(k, a)
      BY <1>1, <1>a, <1>b, OwnRow DEF RunBegin, MarkProcessing
    <2>2. PICK s \in {"working", "recordFailure", "ended"} :
             /\ runs' = [runs EXCEPT ![k][a] = s]
             /\ s = "ended" => Superseded(TransitionError(records[k], a, "processing"))
      BY <1>1 DEF RunBegin
    <2>3. OwnRunOnly(k, a) /\ runs'[k][a] = s
      BY <1>1, <2>2, <1>d DEF RunBegin, Live
    <2>4. s = "ended" => records[k].attempt # a \/ ~Active(records[k])
      BY <2>2 DEF Superseded, TransitionError, Finished, Active, FinishedStatuses,
                  ActiveStatuses
    <2>5. ~Active(records[k]) => records'[k] = records[k]
      BY <2>1 DEF OwnRowOnly
    <2>6. QED BY <1>1, <2>1, <2>3, <2>4, <2>5 DEF RunBegin
  <1>2. CASE RunCheckStale(k, a)
    <2>1. OwnRunOnly(k, a)
      BY <1>2, <1>d DEF RunCheckStale, Live
    <2>2. records[k].attempt # a \/ ~Active(records[k])
      BY <1>2 DEF RunCheckStale, Superseded, TransitionError, Finished, Active,
                  FinishedStatuses, ActiveStatuses
    <2>3. QED BY <1>2, <1>c, <2>1, <2>2 DEF RunCheckStale
  <1>3. CASE RunSetPhase(k, a)
    <2>1. OwnRowOnly(k, a)
      BY <1>3, <1>a, <1>b, OwnRow DEF RunSetPhase, SetPhase
    <2>2. QED BY <1>3, <1>e, <2>1 DEF RunSetPhase
  <1>4. CASE RunSucceed(k, a)
    <2>1. /\ OwnRowOnly(k, a)
          /\ (a = records[k].attempt) => ~Active(records'[k])
      BY <1>4, <1>a, <1>b, OwnRow DEF RunSucceed, MarkSucceeded
    <2>2. PICK s \in {"ended", "recordFailure"} : runs' = [runs EXCEPT ![k][a] = s]
      BY <1>4 DEF RunSucceed
    <2>3. OwnRunOnly(k, a)
      BY <1>4, <2>2, <1>d DEF RunSucceed, Live
    <2>4. QED BY <1>4, <2>1, <2>3 DEF RunSucceed
  <1>5. CASE RunSucceedReplyLost(k, a)
    <2>1. OwnRowOnly(k, a)
      BY <1>5, <1>a, <1>b, OwnRow DEF RunSucceedReplyLost, MarkSucceeded
    <2>2. QED BY <1>5, <1>e, <2>1 DEF RunSucceedReplyLost
  <1>6. CASE RunError(k, a)
    <2>1. OwnRunOnly(k, a) /\ runs'[k][a] = "recordFailure"
      BY <1>6, <1>d DEF RunError, Live
    <2>2. QED BY <1>6, <1>c, <2>1 DEF RunError
  <1>7. CASE RunRecordFailure(k, a)
    <2>1. /\ OwnRowOnly(k, a)
          /\ (a = records[k].attempt) => ~Active(records'[k])
      BY <1>7, <1>a, <1>b, OwnRow DEF RunRecordFailure, MarkFailed
    <2>2. OwnRunOnly(k, a)
      BY <1>7, <1>d DEF RunRecordFailure, Live
    <2>3. QED BY <1>7, <2>1, <2>2 DEF RunRecordFailure
  <1>8. CASE RunAbort(k, a)
    <2>1. OwnRunOnly(k, a)
      BY <1>8, <1>d DEF RunAbort, Live
    <2>2. QED BY <1>8, <1>c, <2>1 DEF RunAbort
  <1>9. QED BY <1>1, <1>2, <1>3, <1>4, <1>5, <1>6, <1>7, <1>8 DEF Run

\* Executions preserve the invariant.
LEMMA RunSafe ==
  ASSUME IInv, NEW k \in Keys, NEW a \in Attempts, Run(k, a)
  PROVE  IInv'
  <1>1. TypeOK /\ TypeOK'
    BY RunType DEF IInv
  <1>2. /\ UNCHANGED <<gone, publishers>>
        /\ orphaned \subseteq orphaned'
        /\ OwnRowOnly(k, a)
        /\ OwnRunOnly(k, a)
        /\ (/\ runs'[k][a] = "ended"
            /\ records[k].attempt = a
            /\ Active(records'[k])) => <<k, a>> \in orphaned'
    BY <1>1, RunEffect
  <1>3. \A j \in Keys, b \in Attempts :
           /\ runs[j][b] # "none" => runs'[j][b] # "none"
           /\ runs'[j][b] # "none" => runs[j][b] # "none"
           /\ runs[j][b] \in Live => runs'[j][b] \in Live \/ <<j, b>> = <<k, a>>
    BY <1>2 DEF OwnRunOnly, Live
  <1>4. RecordsOK'
    <2> SUFFICES ASSUME NEW j \in Keys
                 PROVE  /\ (records'[j].status = "none") <=> (records'[j].attempt = 0)
                        /\ records'[j].attempt <= MaxAttempt
                        /\ j \in gone' => records'[j] = NoRecord
      BY DEF RecordsOK
    <2>1. /\ (records[j].status = "none") <=> (records[j].attempt = 0)
          /\ records[j].attempt <= MaxAttempt
          /\ j \in gone => records[j] = NoRecord
      BY DEF IInv, RecordsOK
    <2>2. Active(records[j]) => records[j].status # "none" /\ records[j] # NoRecord
      BY DEF Active, ActiveStatuses, NoRecord
    <2>3. QED BY <1>2, <2>1, <2>2 DEF OwnRowOnly
  <1>5. PublishersNotAhead'
    <2>1. \A p \in Publishers : publishers[p].pc # "idle" => publishers[p].key \in Keys
      BY <1>1 DEF TypeOK
    <2>2. QED BY <1>2, <2>1 DEF IInv, PublishersNotAhead, OwnRowOnly
  <1>6. RunsNotAhead'
    BY <1>2, <1>3 DEF IInv, RunsNotAhead, OwnRowOnly
  <1>7. EndedIsDecided'
    <2> SUFFICES ASSUME NEW j \in Keys, NEW b \in Attempts,
                        runs'[j][b] = "ended", records'[j].attempt = b, Active(records'[j])
                 PROVE  <<j, b>> \in orphaned'
      BY DEF EndedIsDecided
    <2>1. CASE j = k /\ b = a
      BY <1>2, <2>1 DEF OwnRowOnly
    <2>2. CASE ~(j = k /\ b = a)
      BY <1>2, <2>2 DEF OwnRowOnly, OwnRunOnly, IInv, EndedIsDecided
    <2>3. QED BY <2>1, <2>2
  <1>8. OneDispatcher'
    BY <1>2 DEF IInv, OneDispatcher
  <1>9. ProgressHasRun'
    BY <1>2, <1>3 DEF IInv, ProgressHasRun, OwnRowOnly, OwnRunOnly, Live
  <1>10. ActiveIsOwned'
    <2> SUFFICES ASSUME NEW j \in Keys, Active(records'[j])
                 PROVE  Owned(j)' \/ <<j, records'[j].attempt>> \in orphaned'
      BY DEF ActiveIsOwned
    <2>1. Active(records[j]) /\ records'[j].attempt = records[j].attempt
      BY <1>2 DEF OwnRowOnly
    <2>2. Owned(j) \/ <<j, records[j].attempt>> \in orphaned
      BY <2>1 DEF IInv, ActiveIsOwned
    <2>3. CASE runs[j][records[j].attempt] \in Live /\ records[j].attempt \in Attempts
      <3>1. runs'[j][records[j].attempt] \in Live \/ <<j, records[j].attempt>> = <<k, a>>
        BY <1>3, <2>3
      <3>2. QED BY <1>2, <2>1, <2>3, <3>1 DEF Owned, OwnRunOnly
    <2>4. QED BY <1>2, <2>1, <2>2, <2>3 DEF Owned
  <1>11. QED
    BY <1>1, <1>4, <1>5, <1>6, <1>7, <1>8, <1>9, <1>10 DEF IInv

\* Deleting a document preserves the invariant: its jobs are forgotten, and
\* what still runs or is being published for them owns nothing any more.
LEMMA DeleteSafe ==
  ASSUME IInv, NEW k \in Keys, DeleteDocument(k)
  PROVE  IInv'
  <1>1. TypeOK /\ TypeOK'
    BY DeleteType DEF IInv
  <1>2. /\ gone' = gone \cup {k}
        /\ records'[k] = NoRecord
        /\ \A j \in Keys \ {k} : records'[j] = records[j]
        /\ UNCHANGED <<publishers, runs, orphaned>>
    BY <1>1 DEF DeleteDocument, TypeOK
  <1>3. ~Active(NoRecord) /\ NoRecord.attempt = 0 /\ NoRecord.status = "none"
    BY DEF NoRecord, Active, ActiveStatuses
  <1>4. RecordsOK'
    BY <1>2, <1>3, MaxAttemptIsPositive DEF IInv, RecordsOK
  <1>5. PublishersNotAhead'
    BY <1>1, <1>2 DEF IInv, PublishersNotAhead, TypeOK
  <1>6. RunsNotAhead'
    BY <1>2 DEF IInv, RunsNotAhead
  <1>7. EndedIsDecided'
    BY <1>2, <1>3 DEF IInv, EndedIsDecided
  <1>8. OneDispatcher' /\ ProgressHasRun'
    BY <1>2, <1>3 DEF IInv, OneDispatcher, ProgressHasRun
  <1>9. ActiveIsOwned'
    BY <1>2, <1>3 DEF IInv, ActiveIsOwned, Owned
  <1>10. QED
    BY <1>1, <1>4, <1>5, <1>6, <1>7, <1>8, <1>9 DEF IInv

\* A step that leaves every variable alone preserves the invariant.
LEMMA StutterSafe ==
  ASSUME IInv, UNCHANGED vars
  PROVE  IInv'
  BY DEF vars, IInv, TypeOK, RecordsOK, PublishersNotAhead, RunsNotAhead,
         EndedIsDecided, OneDispatcher, ProgressHasRun, ActiveIsOwned, Owned

\* Recording an attempt: either the job is active and nothing happens, or the
\* new attempt's number is one that neither a publisher nor an execution has.
LEMMA EnqueueSafe ==
  ASSUME IInv, NEW p \in Publishers, NEW k \in Keys, PublishEnqueue(p, k)
  PROVE  IInv'
  <1> DEFINE n == records[k].attempt + 1
  <1>1. TypeOK /\ TypeOK' /\ records[k] \in Record /\ k \notin gone
    BY PublishType DEF IInv, Publish, TypeOK, PublishEnqueue
  <1>2. CASE Active(records[k])
    <2>1. UNCHANGED <<records, publishers>>
      BY <1>1, <1>2 DEF PublishEnqueue, Enqueue, Started, TypeOK
    <2>2. QED BY <2>1, StutterSafe DEF PublishEnqueue, vars
  <1>3. CASE ~Active(records[k])
    <2>1. /\ \A j \in Keys \ {k} : records'[j] = records[j]
          /\ records'[k].status = "pending"
          /\ records'[k].attempt = n
      BY <1>1, <1>3, EnqueueStep, EnqueueRule DEF PublishEnqueue
    <2>2. /\ publishers'[p] = [pc |-> "dispatch", key |-> k, attempt |-> n]
          /\ \A q \in Publishers \ {p} : publishers'[q] = publishers[q]
          /\ publishers[p].pc = "idle"
          /\ UNCHANGED <<gone, runs, orphaned>>
      BY <1>1, <1>3, EnqueueRule DEF PublishEnqueue, Started, TypeOK
    <2>3. n \in Attempts /\ n <= MaxAttempt /\ n # 0 /\ records[k].attempt < n
      BY <1>1, MaxAttemptIsPositive DEF PublishEnqueue, Record, Attempts
    <2>4. \A q \in Publishers :
             publishers[q].pc # "idle" /\ publishers[q].key = k
               => publishers[q].attempt # n /\ publishers[q].attempt <= n
      <3>1. \A q \in Publishers : publishers[q].attempt \in Nat
        BY <1>1, MaxAttemptIsPositive DEF TypeOK
      <3>2. QED BY <1>1, <2>3, <3>1 DEF IInv, PublishersNotAhead, Record
    <2>5. runs[k][n] = "none"
      BY <1>1, <2>3 DEF IInv, RunsNotAhead, Record
    <2>6. RecordsOK'
      BY <1>1, <2>1, <2>2, <2>3 DEF IInv, RecordsOK
    <2>7. PublishersNotAhead'
      <3> SUFFICES ASSUME NEW q \in Publishers, publishers'[q].pc # "idle",
                          publishers'[q].key \notin gone
                   PROVE  publishers'[q].attempt <= records'[publishers'[q].key].attempt
        BY <2>2 DEF PublishersNotAhead
      <3>1. CASE q = p
        BY <2>1, <2>2, <2>3, <3>1 DEF Attempts
      <3>2. CASE q # p
        <4>1. publishers'[q] = publishers[q] /\ publishers[q].key \in Keys
          BY <1>1, <2>2, <3>2 DEF TypeOK
        <4>2. QED BY <2>1, <2>4, <4>1 DEF IInv, PublishersNotAhead
      <3>3. QED BY <3>1, <3>2
    <2>8. RunsNotAhead'
      <3> SUFFICES ASSUME NEW j \in Keys, NEW b \in Attempts, j \notin gone,
                          runs[j][b] # "none"
                   PROVE  b <= records'[j].attempt
        BY <2>2 DEF RunsNotAhead
      <3>1. b <= records[j].attempt /\ b \in Nat
        BY MaxAttemptIsPositive DEF IInv, RunsNotAhead, Attempts
      <3>2. QED BY <1>1, <2>1, <3>1 DEF Record
    <2>9. EndedIsDecided'
      BY <2>1, <2>2, <2>5 DEF IInv, EndedIsDecided
    <2>10. OneDispatcher'
      BY <2>2, <2>4 DEF IInv, OneDispatcher
    <2>11. ProgressHasRun'
      BY <2>1, <2>2 DEF IInv, ProgressHasRun
    <2>12. ActiveIsOwned'
      <3> SUFFICES ASSUME NEW j \in Keys, Active(records'[j])
                   PROVE  Owned(j)' \/ <<j, records'[j].attempt>> \in orphaned
        BY <2>2 DEF ActiveIsOwned
      <3>1. CASE j = k
        BY <2>1, <2>2, <3>1 DEF Owned
      <3>2. CASE j # k
        <4>1. Owned(j) \/ <<j, records[j].attempt>> \in orphaned
          BY <2>1, <3>2 DEF IInv, ActiveIsOwned
        <4>2. QED BY <2>1, <2>2, <3>2, <4>1 DEF Owned
      <3>3. QED BY <3>1, <3>2
    <2>13. QED
      BY <1>1, <2>6, <2>7, <2>8, <2>9, <2>10, <2>11, <2>12 DEF IInv
  <1>4. QED BY <1>2, <1>3

\* Handing an attempt to Step Functions, whether or not the publisher learns
\* of it: the execution is live, or it already ended and the attempt is decided.
LEMMA HandOverSafe ==
  ASSUME IInv, TypeOK', NEW p \in Publishers,
         publishers[p].pc = "dispatch",
         StartExecution(publishers[p].key, publishers[p].attempt),
         publishers'[p] = publishers[p] \/ publishers'[p].pc = "idle",
         \A q \in Publishers \ {p} : publishers'[q] = publishers[q],
         UNCHANGED <<records, gone, orphaned>>
  PROVE  IInv'
  <1> DEFINE k == publishers[p].key
             a == publishers[p].attempt
  <1>1. k \in Keys /\ a \in Attempts /\ TypeOK
    BY DEF IInv, TypeOK
  <1>2. /\ \A j \in Keys, b \in Attempts : j # k \/ b # a => runs'[j][b] = runs[j][b]
        /\ runs[k][a] = "none" => runs'[k][a] = "started"
        /\ runs[k][a] # "none" => runs'[k][a] = runs[k][a]
    BY <1>1 DEF StartExecution, TypeOK
  <1>3. \A q \in Publishers :
           publishers'[q] = publishers[q] \/ publishers'[q].pc = "idle"
    OBVIOUS
  <1>4. RecordsOK'
    BY DEF IInv, RecordsOK
  <1>5. PublishersNotAhead'
    BY <1>3 DEF IInv, PublishersNotAhead
  <1>6. RunsNotAhead'
    <2>1. k \notin gone => a <= records[k].attempt
      BY DEF IInv, PublishersNotAhead
    <2>2. QED BY <1>1, <1>2, <2>1 DEF IInv, RunsNotAhead
  <1>7. EndedIsDecided'
    BY <1>1, <1>2 DEF IInv, EndedIsDecided
  <1>8. OneDispatcher'
    BY <1>3 DEF IInv, OneDispatcher
  <1>9. ProgressHasRun'
    BY <1>1, <1>2 DEF IInv, ProgressHasRun
  <1>10. ActiveIsOwned'
    <2> SUFFICES ASSUME NEW j \in Keys, Active(records[j])
                 PROVE  Owned(j)' \/ <<j, records[j].attempt>> \in orphaned
      BY DEF ActiveIsOwned
    <2>1. Owned(j) \/ <<j, records[j].attempt>> \in orphaned
      BY DEF IInv, ActiveIsOwned
    <2>2. CASE j = k /\ records[j].attempt = a
      <3>1. runs'[k][a] \in Live \/ runs'[k][a] = "ended"
        BY <1>1, <1>2 DEF TypeOK, RunSteps, Live
      <3>2. QED BY <1>1, <1>7, <2>2, <3>1 DEF EndedIsDecided, Owned
    <2>3. CASE ~(j = k /\ records[j].attempt = a)
      BY <1>2, <2>1, <2>3 DEF Owned
    <2>4. QED BY <2>2, <2>3
  <1>11. QED
    BY <1>4, <1>5, <1>6, <1>7, <1>8, <1>9, <1>10 DEF IInv

\* Marking an attempt failed on behalf of the publisher that could not start it.
LEMMA MarkDispatchFailedSafe ==
  ASSUME IInv, NEW p \in Publishers, MarkDispatchFailed(p)
  PROVE  IInv'
  <1> DEFINE k == publishers[p].key
             a == publishers[p].attempt
  <1>1. TypeOK /\ TypeOK' /\ k \in Keys /\ a \in Nat
    <2>1. TypeOK /\ TypeOK'
      BY PublishType DEF IInv, Publish
    <2>2. QED BY <2>1 DEF TypeOK, MarkDispatchFailed, Attempts
  <1>2. /\ OwnRowOnly(k, a)
        /\ (a = records[k].attempt) => ~Active(records'[k])
        /\ (a = records[k].attempt /\ Active(records[k])) => records'[k].status = "failed"
    <2>1. "failed" \in Targets /\ "none" \in Phases /\ "dispatch" \in Reasons
      BY DEF Targets, Phases, Reasons
    <2>2. records' = [records EXCEPT ![k] = Transition(records[k], a, "failed", "none", "dispatch")]
      BY DEF MarkDispatchFailed, MarkFailed
    <2>3. QED BY <1>1, <2>1, <2>2, OwnRow
  <1>3. /\ \A q \in Publishers \ {p} : publishers'[q] = publishers[q]
        /\ publishers'[p].pc = "idle"
        /\ UNCHANGED <<gone, runs, orphaned>>
    BY <1>1 DEF MarkDispatchFailed, TypeOK, Idle
  <1>4. \A j \in Keys :
           /\ records'[j].attempt = records[j].attempt
           /\ Active(records'[j]) => records'[j] = records[j]
           /\ records'[j].status \in {"processing", "succeeded"} =>
                  records'[j] = records[j]
    BY <1>2 DEF OwnRowOnly
  <1>5. RecordsOK'
    <2>1. \A j \in Keys : records[j] = NoRecord => ~Active(records[j])
      BY DEF NoRecord, Active, ActiveStatuses
    <2>2. \A j \in Keys : Active(records[j]) => records[j].status # "none"
      BY DEF Active, ActiveStatuses
    <2>3. QED BY <1>2, <1>3, <2>1, <2>2 DEF IInv, RecordsOK, OwnRowOnly
  <1>6. PublishersNotAhead'
    <2>1. \A q \in Publishers : publishers[q].pc # "idle" => publishers[q].key \in Keys
      BY <1>1 DEF TypeOK
    <2>2. QED BY <1>3, <1>4, <2>1 DEF IInv, PublishersNotAhead
  <1>7. RunsNotAhead'
    BY <1>3, <1>4 DEF IInv, RunsNotAhead
  <1>8. EndedIsDecided'
    BY <1>3, <1>4 DEF IInv, EndedIsDecided
  <1>9. OneDispatcher'
    BY <1>3 DEF IInv, OneDispatcher
  <1>10. ProgressHasRun'
    BY <1>3, <1>4 DEF IInv, ProgressHasRun
  <1>11. ActiveIsOwned'
    <2> SUFFICES ASSUME NEW j \in Keys, Active(records'[j])
                 PROVE  Owned(j)' \/ <<j, records'[j].attempt>> \in orphaned
      BY <1>3 DEF ActiveIsOwned
    <2>1. records'[j] = records[j] /\ ~(j = k /\ a = records[j].attempt)
      BY <1>2, <1>4
    <2>2. Owned(j) \/ <<j, records[j].attempt>> \in orphaned
      BY <2>1 DEF IInv, ActiveIsOwned
    <2>3. QED BY <1>3, <2>1, <2>2 DEF Owned
  <1>12. QED
    BY <1>1, <1>5, <1>6, <1>7, <1>8, <1>9, <1>10, <1>11 DEF IInv

\* publish preserves the invariant.
LEMMA PublishSafe ==
  ASSUME IInv, NEW p \in Publishers, Publish(p)
  PROVE  IInv'
  <1>1. TypeOK /\ TypeOK'
    BY PublishType DEF IInv
  <1>2. CASE \E k \in Keys : PublishEnqueue(p, k)
    BY <1>2, EnqueueSafe
  <1>3. CASE DispatchOK(p)
    <2>1. /\ publishers'[p].pc = "idle"
          /\ \A q \in Publishers \ {p} : publishers'[q] = publishers[q]
      BY <1>1, <1>3 DEF DispatchOK, TypeOK, Idle
    <2>2. QED BY <1>1, <1>3, <2>1, HandOverSafe DEF DispatchOK
  <1>4. CASE DispatchReplyLost(p)
    BY <1>1, <1>4, HandOverSafe DEF DispatchReplyLost
  <1>5. CASE DispatchError(p)
    <2>1. \A q \in Publishers : /\ publishers'[q].key = publishers[q].key
                                /\ publishers'[q].attempt = publishers[q].attempt
                                /\ publishers'[q].pc # "idle" => publishers[q].pc # "idle"
                                /\ publishers[q].pc # "idle" => publishers'[q].pc # "idle"
      BY <1>1, <1>5 DEF DispatchError, TypeOK
    <2>2. UNCHANGED <<records, gone, runs, orphaned>>
      BY <1>5 DEF DispatchError
    <2>3. RecordsOK' /\ RunsNotAhead' /\ EndedIsDecided' /\ ProgressHasRun'
      BY <2>2 DEF IInv, RecordsOK, RunsNotAhead, EndedIsDecided, ProgressHasRun
    <2>4. PublishersNotAhead'
      BY <2>1, <2>2 DEF IInv, PublishersNotAhead
    <2>5. OneDispatcher'
      BY <2>1 DEF IInv, OneDispatcher
    <2>6. ActiveIsOwned'
      BY <2>1, <2>2 DEF IInv, ActiveIsOwned, Owned
    <2>7. QED BY <1>1, <2>3, <2>4, <2>5, <2>6 DEF IInv
  <1>6. CASE MarkDispatchFailed(p)
    BY <1>6, MarkDispatchFailedSafe
  <1>7. CASE PublisherLost(p)
    <2>1. /\ publishers'[p].pc = "idle"
          /\ \A q \in Publishers \ {p} : publishers'[q] = publishers[q]
          /\ orphaned' = orphaned \cup {<<publishers[p].key, publishers[p].attempt>>}
          /\ UNCHANGED <<records, gone, runs>>
      BY <1>1, <1>7 DEF PublisherLost, TypeOK, Idle
    <2>2. RecordsOK' /\ RunsNotAhead' /\ EndedIsDecided' /\ ProgressHasRun'
      BY <2>1 DEF IInv, RecordsOK, RunsNotAhead, EndedIsDecided, ProgressHasRun
    <2>3. PublishersNotAhead' /\ OneDispatcher'
      BY <2>1 DEF IInv, PublishersNotAhead, OneDispatcher
    <2>4. ActiveIsOwned'
      BY <2>1 DEF IInv, ActiveIsOwned, Owned
    <2>5. QED BY <1>1, <2>2, <2>3, <2>4 DEF IInv
  <1>8. QED
    BY <1>2, <1>3, <1>4, <1>5, <1>6, <1>7 DEF Publish

\* The inductive invariant holds initially and is preserved by every step.
THEOREM Inductive == Spec => []IInv
  <1>1. Init => IInv
    <2> SUFFICES ASSUME Init PROVE IInv
      OBVIOUS
    <2>1. TypeOK
      <3>1. NoRecord \in Record
        BY DEF NoRecord, Record, Phases
      <3>2. QED BY <3>1, MaxAttemptIsPositive
                   DEF Init, TypeOK, Idle, PublisherSteps, RunSteps
    <2>2. \A k \in Keys : /\ records[k].status = "none"
                          /\ records[k].attempt = 0
                          /\ ~Active(records[k])
      BY DEF Init, NoRecord, Active, ActiveStatuses
    <2>3. RecordsOK
      BY <2>2, MaxAttemptIsPositive DEF Init, RecordsOK
    <2>4. QED
      BY <2>1, <2>2, <2>3 DEF Init, Idle, IInv, PublishersNotAhead, RunsNotAhead,
         EndedIsDecided, OneDispatcher, ProgressHasRun, ActiveIsOwned
  <1>2. IInv /\ [Next]_vars => IInv'
    BY StutterSafe, PublishSafe, RunSafe, DeleteSafe DEF Next
  <1>3. QED BY <1>1, <1>2, PTL DEF Spec

\* No two publish calls ever handle the same attempt of the same job.
THEOREM OneDispatcherHolds == Spec => []OneDispatcher
  <1>1. IInv => OneDispatcher
    BY DEF IInv
  <1>2. QED BY <1>1, Inductive, PTL

\* A job is processing or succeeded only if its current attempt was started.
THEOREM ProgressHasRunHolds == Spec => []ProgressHasRun
  <1>1. IInv => ProgressHasRun
    BY DEF IInv
  <1>2. QED BY <1>1, Inductive, PTL

\* An active job has a publisher or a live execution, or was orphaned.
THEOREM ActiveIsOwnedHolds == Spec => []ActiveIsOwned
  <1>1. IInv => ActiveIsOwned
    BY DEF IInv
  <1>2. QED BY <1>1, Inductive, PTL

-----------------------------------------------------------------------------
(***************************************************************************)
(* Outcomes                                                                *)
(***************************************************************************)

\* The row a publisher marks failed is its own attempt's, if still active.
LEMMA MarkDispatchFailedRow ==
  ASSUME TypeOK, NEW p \in Publishers, MarkDispatchFailed(p)
  PROVE  /\ publishers[p].key \in Keys
         /\ OwnRowOnly(publishers[p].key, publishers[p].attempt)
         /\ UNCHANGED gone
  <1>1. publishers[p].key \in Keys /\ publishers[p].attempt \in Nat
    BY DEF TypeOK, MarkDispatchFailed, Attempts
  <1>2. "failed" \in Targets /\ "none" \in Phases /\ "dispatch" \in Reasons
    BY DEF Targets, Phases, Reasons
  <1>3. records' = [records EXCEPT ![publishers[p].key] =
                      Transition(records[publishers[p].key], publishers[p].attempt,
                                 "failed", "none", "dispatch")]
    BY DEF MarkDispatchFailed, MarkFailed
  <1>4. OwnRowOnly(publishers[p].key, publishers[p].attempt)
    BY <1>1, <1>2, <1>3, OwnRow
  <1>5. QED BY <1>1, <1>4 DEF MarkDispatchFailed

\* Every step is one of four kinds for the store: it leaves the rows alone,
\* starts the next attempt of a job that is not active, writes the row of an
\* attempt on its behalf, or deletes a document's row.
LEMMA StoreStep ==
  ASSUME IInv, [Next]_vars
  PROVE  \/ UNCHANGED <<records, gone>>
         \/ \E k \in Keys :
               /\ UNCHANGED gone
               /\ k \notin gone
               /\ ~Active(records[k])
               /\ records' = [records EXCEPT ![k] = Enqueue(records[k])]
         \/ \E k \in Keys, a \in Nat : OwnRowOnly(k, a) /\ UNCHANGED gone
         \/ \E k \in Keys : DeleteDocument(k)
  <1>1. TypeOK
    BY DEF IInv
  <1>2. CASE UNCHANGED vars
    BY <1>2 DEF vars
  <1>3. CASE \E p \in Publishers : Publish(p)
    <2>1. PICK p \in Publishers : Publish(p)
      BY <1>3
    <2>2. CASE \E k \in Keys : PublishEnqueue(p, k)
      <3>1. PICK k \in Keys : PublishEnqueue(p, k)
        BY <2>2
      <3>2. CASE Active(records[k])
        BY <1>1, <3>1, <3>2 DEF PublishEnqueue, Enqueue, TypeOK
      <3>3. QED BY <3>1, <3>2 DEF PublishEnqueue
    <2>3. CASE MarkDispatchFailed(p)
      <3>1. publishers[p].attempt \in Nat
        BY <1>1, MaxAttemptIsPositive DEF TypeOK
      <3>2. QED BY <1>1, <2>3, <3>1, MarkDispatchFailedRow
    <2>4. QED
      BY <2>1, <2>2, <2>3
         DEF Publish, DispatchOK, DispatchReplyLost, DispatchError, PublisherLost
  <1>4. CASE \E k \in Keys, a \in Attempts : Run(k, a)
    <2>1. PICK k \in Keys, a \in Attempts : Run(k, a)
      BY <1>4
    <2>2. a \in Nat
      BY MaxAttemptIsPositive DEF Attempts
    <2>3. UNCHANGED <<gone, publishers>> /\ OwnRowOnly(k, a)
      BY <1>1, <2>1, RunEffect
    <2>4. QED BY <2>2, <2>3
  <1>5. CASE \E k \in Keys : DeleteDocument(k)
    BY <1>5
  <1>6. QED BY <1>2, <1>3, <1>4, <1>5 DEF Next

\* A decided outcome, with its reason, stays until the next attempt.
THEOREM OutcomeStableHolds == Spec => OutcomeStable
  <1>1. IInv /\ [Next]_vars => [OutcomeStep]_vars
    <2> SUFFICES ASSUME IInv, [Next]_vars, NEW k \in Keys, Finished(records[k])
                 PROVE  \/ records'[k] = records[k]
                        \/ records'[k].attempt > records[k].attempt
                        \/ k \in gone' \ gone
      BY DEF OutcomeStep
    <2>1. TypeOK /\ records[k] \in Record /\ records[k].attempt \in Nat
      BY DEF IInv, TypeOK, Record
    <2>2. ~Active(records[k])
      BY DEF Finished, Active, FinishedStatuses, ActiveStatuses
    <2>3. CASE UNCHANGED <<records, gone>>
      BY <2>3
    <2>4. ASSUME NEW j \in Keys, ~Active(records[j]),
                 records' = [records EXCEPT ![j] = Enqueue(records[j])]
          PROVE  records'[k] = records[k] \/ records'[k].attempt > records[k].attempt
      BY <2>1, <2>4, EnqueueRule, EnqueueStep
    <2>5. ASSUME NEW j \in Keys, NEW a \in Nat, OwnRowOnly(j, a)
          PROVE  records'[k] = records[k]
      BY <2>2, <2>5 DEF OwnRowOnly
    <2>6. ASSUME NEW j \in Keys, DeleteDocument(j)
          PROVE  records'[k] = records[k] \/ k \in gone' \ gone
      BY <2>1, <2>6 DEF DeleteDocument, TypeOK
    <2>7. QED BY <2>3, <2>4, <2>5, <2>6, StoreStep
  <1>2. QED BY <1>1, Inductive, PTL DEF Spec, OutcomeStable

-----------------------------------------------------------------------------
(***************************************************************************)
(* Refinement                                                              *)
(***************************************************************************)

\* A row written on behalf of its attempt, with no document deleted, is seen
\* as the end of an attempt or not at all.
LEMMA RowWriteRefines ==
  ASSUME IInv, TypeOK', NEW k \in Keys, NEW a \in Nat, OwnRowOnly(k, a), UNCHANGED gone
  PROVE  JL!Finish(k) \/ UNCHANGED jobView
  <1> USE DEF Active, ActiveStatuses
  <1>1. \A j \in Keys : records[j] \in Record /\ records'[j] \in Record
    BY DEF IInv, TypeOK
  <1>2. \A j \in Keys \ {k} : records'[j] = records[j]
    BY DEF OwnRowOnly
  <1>3. CASE ~Active(records[k]) \/ Active(records'[k]) \/ k \in gone
    <2>1. k \in gone => records'[k] = records[k]
      BY DEF IInv, RecordsOK, NoRecord, OwnRowOnly
    <2>2. records'[k].attempt = records[k].attempt /\ (~Active(records[k]) => records'[k] = records[k])
      BY DEF OwnRowOnly
    <2>3. QED BY <1>2, <1>3, <2>1, <2>2 DEF jobView
  <1>4. CASE Active(records[k]) /\ ~Active(records'[k]) /\ k \notin gone
    <2>1. records'[k].status \in JL!Outcomes /\ records'[k].attempt = records[k].attempt
      BY <1>1, <1>4 DEF OwnRowOnly, Record, FinishedStatuses, JL!Outcomes
    <2>2. jobView[k] = [state |-> "active", attempt |-> records[k].attempt]
      BY <1>4 DEF jobView
    <2>3. jobView' = [jobView EXCEPT ![k] =
             [state |-> records'[k].status, attempt |-> jobView[k].attempt]]
      BY <1>2, <1>4, <2>1, <2>2 DEF jobView
    <2>4. \E o \in JL!Outcomes :
             jobView' = [jobView EXCEPT ![k] = [state |-> o, attempt |-> @.attempt]]
      BY <2>1, <2>3
    <2>5. jobView[k].state = "active"
      BY <2>2
    <2>6. QED BY <2>4, <2>5 DEF JL!Finish
  <1>5. QED BY <1>3, <1>4

\* The status store implements JobLifecycle, whatever is lost, late or repeated.
THEOREM ImplementsLifecycleHolds == Spec => ImplementsLifecycle
  <1>1. Init => JL!Init
    BY DEF Init, JL!Init, jobView, NoRecord, Active, ActiveStatuses
  <1>2. IInv /\ IInv' /\ [Next]_vars => [JL!Next]_jobView
    <2> SUFFICES ASSUME IInv, IInv', [Next]_vars
                 PROVE  JL!Next \/ UNCHANGED jobView
      OBVIOUS
    <2>1. TypeOK /\ TypeOK'
      BY DEF IInv
    <2>2. CASE UNCHANGED <<records, gone>>
      BY <2>2 DEF jobView
    <2>3. ASSUME NEW k \in Keys, k \notin gone, ~Active(records[k]), UNCHANGED gone,
                 records' = [records EXCEPT ![k] = Enqueue(records[k])]
          PROVE  JL!Begin(k)
      <3>1. /\ records[k] \in Record
            /\ records'[k].status = "pending"
            /\ records'[k].attempt = records[k].attempt + 1
            /\ \A j \in Keys \ {k} : records'[j] = records[j]
        BY <2>1, <2>3, EnqueueRule, EnqueueStep DEF TypeOK
      <3>2. jobView[k] = [state |-> records[k].status, attempt |-> records[k].attempt]
        BY <2>3 DEF jobView
      <3>3. records[k].status \in {"none"} \cup JL!Outcomes
        BY <2>3, <3>1 DEF Record, Active, ActiveStatuses, FinishedStatuses, JL!Outcomes
      <3>4. jobView' = [jobView EXCEPT ![k] =
               [state |-> "active", attempt |-> jobView[k].attempt + 1]]
        BY <2>3, <3>1, <3>2 DEF jobView, Active, ActiveStatuses
      <3>5. QED BY <3>2, <3>3, <3>4 DEF JL!Begin
    <2>4. ASSUME NEW k \in Keys, NEW a \in Nat, OwnRowOnly(k, a), UNCHANGED gone
          PROVE  JL!Finish(k) \/ UNCHANGED jobView
      BY <2>1, <2>4, RowWriteRefines
    <2>5. ASSUME NEW k \in Keys, DeleteDocument(k) PROVE JL!Forget(k)
      <3>1. records'[k].attempt = 0
        BY <2>1, <2>5 DEF DeleteDocument, TypeOK, NoRecord
      <3>2. k \notin gone => jobView[k].state # "gone"
        BY <2>1 DEF jobView, TypeOK, Record, Active, ActiveStatuses, FinishedStatuses
      <3>3. jobView' = [jobView EXCEPT ![k] = [state |-> "gone", attempt |-> 0]]
        BY <2>1, <2>5, <3>1 DEF DeleteDocument, TypeOK, jobView
      <3>4. QED BY <2>5, <3>2, <3>3 DEF DeleteDocument, JL!Forget
    <2>6. QED BY <2>2, <2>3, <2>4, <2>5, StoreStep DEF JL!Next
  <1>3. QED
    BY <1>1, <1>2, Inductive, PTL DEF Spec, ImplementsLifecycle, JL!Spec

(***************************************************************************)
(* The progress of a document                                              *)
(***************************************************************************)
JobSteps == {"none", "begin", "prepare", "publish", "embed", "finalize", "edges",
             "canonicalization", "finish", "failDocument"}

ProgressTypes ==
    /\ regions \in BOOLEAN /\ document \in Documents /\ listed \in Documents \cup {"none"}
    /\ told \in BOOLEAN /\ excused \in BOOLEAN
    /\ jobs \in [JobTypes -> Record]
    /\ steps \in [JobTypes -> JobSteps]

\* An execution, and an active job, is of some attempt; a scan's steps follow
\* its outcome.
StepsFit ==
    /\ \A t \in JobTypes : Active(jobs[t]) => jobs[t].attempt > 0
    /\ \A t \in JobTypes \ {"scan"} : steps[t] # "none" => jobs[t].attempt > 0
    /\ \A t \in JobTypes \ {"scan", "index"} : steps[t] # "failDocument"
    /\ jobs["scan"].status # "none"
    /\ steps["scan"] \in {"none", "publish", "failDocument"}
    /\ steps["scan"] = "publish" => jobs["scan"].status = "succeeded"
    /\ steps["scan"] = "failDocument" => jobs["scan"].status = "failed"

\* What may publish is active itself, or the scan whose document nobody has
\* begun to index.
Orderly ==
    /\ \A t \in JobTypes \ {"scan"} : steps[t] \notin {"none", "failDocument"} => Active(jobs[t])
    /\ steps["scan"] = "publish" => jobs["index"].attempt = 0
    /\ jobs["index"].attempt = 0 =>
          /\ document # "indexed" /\ listed # "indexed" /\ ~told
          /\ document = "failed" => jobs["scan"].status = "failed"
    /\ told => ActiveJobs = {}

ProgressInv == ProgressTypes /\ StepsFit /\ (~excused => Orderly)

\* What one write makes of a job's current attempt.
LEMMA CurrentWrite ==
  ASSUME NEW r \in Record, NEW to \in Targets, NEW phase \in Phases, NEW reason \in Reasons \cup {"none"}
  PROVE  LET w == Transition(r, r.attempt, to, phase, reason)
         IN  /\ w \in Record /\ w.attempt = r.attempt
             /\ ~Active(r) => w = r
             /\ Active(r) => w.status = to
  <1>1. r.attempt \in Nat
    BY DEF Record
  <1>2. QED BY <1>1, TransitionRule

LEMMA PublishedRule ==
  ASSUME ProgressTypes, NEW t \in JobTypes, NEW o \in Published(t)
  PROVE  /\ o.job \in Record
         /\ \/ o.job = jobs[t] /\ o.step = steps[t]
            \/ /\ ~Active(jobs[t]) /\ o.job.attempt = jobs[t].attempt + 1
               /\ \/ o.step = "none"
                  \/ o.step = "begin" /\ (Active(o.job) \/ o.sure = FALSE)
  <1> DEFINE next == Enqueue(jobs[t])
             failed == MarkFailed(next, next.attempt, "dispatch")
  <1>1. /\ jobs[t] \in Record /\ next \in Record
        /\ ~Active(jobs[t]) => next.status = "pending" /\ next.attempt = jobs[t].attempt + 1
    BY EnqueueRule DEF ProgressTypes
  <1>2. failed \in Record /\ failed.attempt = next.attempt
    BY <1>1, CurrentWrite DEF MarkFailed, Targets, Phases, Reasons
  <1>3. CASE ~Started(jobs[t])
    BY <1>1, <1>3 DEF Published
  <1>4. CASE Started(jobs[t])
    <2>1. ~Active(jobs[t]) /\ Active(next)
      BY <1>1, <1>4 DEF Started, Active, ActiveStatuses
    <2>2. \/ o = [job |-> jobs[t], step |-> steps[t], sure |-> TRUE]
          \/ o = [job |-> next, step |-> "begin", sure |-> TRUE]
          \/ o = [job |-> next, step |-> "none", sure |-> TRUE]
          \/ o = [job |-> failed, step |-> "none", sure |-> TRUE]
          \/ o = [job |-> failed, step |-> "begin", sure |-> FALSE]
      BY <1>4 DEF Published
    <2> HIDE DEF next, failed
    <2>3. CASE o = [job |-> jobs[t], step |-> steps[t], sure |-> TRUE]
      BY <1>1, <2>3
    <2>4. CASE \/ o = [job |-> next, step |-> "begin", sure |-> TRUE]
               \/ o = [job |-> next, step |-> "none", sure |-> TRUE]
      <3>1. o.job = next /\ o.step \in {"begin", "none"}
        BY <2>4
      <3>2. QED BY <1>1, <2>1, <3>1
    <2>5. CASE \/ o = [job |-> failed, step |-> "none", sure |-> TRUE]
               \/ o = [job |-> failed, step |-> "begin", sure |-> FALSE]
      <3>1. o.job = failed /\ (o.step = "none" \/ (o.step = "begin" /\ o.sure = FALSE))
        BY <2>5
      <3>2. QED BY <1>1, <1>2, <2>1, <3>1
    <2>6. QED BY <2>2, <2>3, <2>4, <2>5
  <1>5. QED BY <1>3, <1>4

LEMMA ProgressInitInv == ProgressInit => ProgressInv
  <1> SUFFICES ASSUME ProgressInit PROVE ProgressInv
    OBVIOUS
  <1>1. /\ NoRecord \in Record /\ NoRecord.status = "none" /\ NoRecord.attempt = 0
        /\ ~Active(NoRecord)
    BY DEF NoRecord, Record, Phases, Active, ActiveStatuses
  <1>2. /\ Enqueue(NoRecord) \in Record /\ Enqueue(NoRecord).status = "pending"
        /\ Enqueue(NoRecord).attempt = 1
    BY <1>1, EnqueueRule
  <1> DEFINE r == Enqueue(NoRecord)
  <1> HIDE DEF r
  <1>3. jobs = [t \in JobTypes |-> IF t = "scan" THEN r ELSE NoRecord]
    BY DEF ProgressInit, r
  <1>4. ProgressTypes
    BY <1>1, <1>2, <1>3 DEF ProgressInit, ProgressTypes, JobSteps, Documents, r
  <1>5. QED BY <1>1, <1>2, <1>3, <1>4 DEF ProgressInit, ProgressInv, StepsFit, Orderly, JobTypes, r

\* A job goes on, without becoming active.
LEMMA OneMoves ==
  ASSUME ProgressInv, NEW t \in JobTypes \ {"scan"}, NEW r \in Record, NEW s \in JobSteps,
         jobs' = [jobs EXCEPT ![t] = r], steps' = [steps EXCEPT ![t] = s],
         r.attempt = jobs[t].attempt,
         Active(r) => Active(jobs[t]),
         s # "none" => steps[t] # "none",
         s = "failDocument" => t = "index",
         ~excused' => ~excused /\ (s \notin {"none", "failDocument"} => Active(r)),
         UNCHANGED <<regions, listed, told>>, excused' \in BOOLEAN, document' \in Documents,
         document' = document \/ jobs["index"].attempt > 0
  PROVE  ProgressInv'
  <1>1. /\ jobs' \in [JobTypes -> Record] /\ steps' \in [JobTypes -> JobSteps]
        /\ jobs'[t] = r /\ steps'[t] = s
        /\ \A u \in JobTypes \ {t} : jobs'[u] = jobs[u] /\ steps'[u] = steps[u]
    BY DEF ProgressInv, ProgressTypes
  <1>2. "scan" \in JobTypes /\ "index" \in JobTypes
    BY DEF JobTypes
  <1>3. ProgressTypes'
    BY <1>1 DEF ProgressInv, ProgressTypes
  <1>4. StepsFit'
    BY <1>1, <1>2 DEF ProgressInv, StepsFit
  <1>5. ASSUME ~excused' PROVE Orderly'
    <2>1. Orderly
      BY <1>5 DEF ProgressInv
    <2>2. \A u \in JobTypes \ {"scan"} : steps'[u] \notin {"none", "failDocument"} => Active(jobs'[u])
      BY <1>1, <1>5, <2>1 DEF Orderly
    <2>3. jobs'["index"].attempt = jobs["index"].attempt
      BY <1>1, <1>2
    <2>4. steps'["scan"] = steps["scan"] /\ jobs'["scan"] = jobs["scan"]
      BY <1>1, <1>2
    <2>5. \A u \in JobTypes : Active(jobs'[u]) => Active(jobs[u])
      BY <1>1
    <2>6. told' => ActiveJobs' = {}
      BY <2>1, <2>5 DEF Orderly, ActiveJobs
    <2>7. jobs["index"].attempt \in Nat
      BY <1>2 DEF ProgressInv, ProgressTypes, Record
    <2>8. QED BY <2>1, <2>2, <2>3, <2>4, <2>6, <2>7 DEF Orderly
  <1>6. QED BY <1>3, <1>4, <1>5 DEF ProgressInv

\* A job is published, or is not.
LEMMA PublishStep ==
  ASSUME ProgressInv, NEW p \in JobTypes, NEW t \in JobTypes \ {"scan"}, p # t,
         NEW s \in JobSteps \ {"failDocument"}, PublishJob(p, t, s),
         steps[p] \notin {"none", "failDocument"},
         IF p = "scan" THEN t = "index" /\ s = "none" /\ steps[p] = "publish" ELSE t # "index"
  PROVE  ProgressInv'
  <1>1. PICK o \in Published(t) :
           /\ jobs' = [jobs EXCEPT ![t] = o.job]
           /\ steps' = [steps EXCEPT ![t] = o.step, ![p] = s]
           /\ excused' = (excused \/ ~o.sure)
    BY DEF PublishJob
  <1>2. /\ o.job \in Record
        /\ \/ o.job = jobs[t] /\ o.step = steps[t]
           \/ /\ ~Active(jobs[t]) /\ o.job.attempt = jobs[t].attempt + 1
              /\ \/ o.step = "none"
                 \/ o.step = "begin" /\ (Active(o.job) \/ o.sure = FALSE)
    BY PublishedRule DEF ProgressInv
  <1>3. UNCHANGED <<regions, document, listed, told>>
    BY DEF PublishJob
  <1>4. /\ o.step \in JobSteps
        /\ jobs' \in [JobTypes -> Record] /\ steps' \in [JobTypes -> JobSteps]
        /\ jobs'[t] = o.job /\ steps'[t] = o.step /\ steps'[p] = s
        /\ \A u \in JobTypes \ {t} : jobs'[u] = jobs[u]
        /\ \A u \in JobTypes \ {t, p} : steps'[u] = steps[u]
    BY <1>1, <1>2 DEF ProgressInv, ProgressTypes, JobSteps
  <1>5. "scan" \in JobTypes /\ "index" \in JobTypes
    BY DEF JobTypes
  <1>6. jobs[t].attempt \in Nat /\ jobs["index"].attempt \in Nat
    BY <1>5 DEF ProgressInv, ProgressTypes, Record
  <1>7. ProgressTypes'
    BY <1>1, <1>3, <1>4 DEF ProgressInv, ProgressTypes
  <1>8. StepsFit'
    <2>1. \A u \in JobTypes : Active(jobs'[u]) => jobs'[u].attempt > 0
      BY <1>2, <1>4, <1>6 DEF ProgressInv, StepsFit
    <2>2. \A u \in JobTypes \ {"scan"} : steps'[u] # "none" => jobs'[u].attempt > 0
      BY <1>2, <1>4, <1>6 DEF ProgressInv, StepsFit
    <2>3. \A u \in JobTypes \ {"scan", "index"} : steps'[u] # "failDocument"
      BY <1>2, <1>4 DEF ProgressInv, StepsFit
    <2>4. jobs'["scan"] = jobs["scan"] /\ (steps'["scan"] = steps["scan"] \/ steps'["scan"] = "none")
      BY <1>4, <1>5
    <2>5. QED BY <2>1, <2>2, <2>3, <2>4 DEF ProgressInv, StepsFit
  <1>9. ASSUME ~excused' PROVE Orderly'
    <2>1. Orderly /\ o.sure # FALSE
      BY <1>1, <1>9 DEF ProgressInv
    <2>2. ~told
      <3>1. CASE p = "scan"
        BY <2>1, <3>1 DEF Orderly
      <3>2. CASE p # "scan"
        BY <2>1, <3>2 DEF Orderly, ActiveJobs
      <3>3. QED BY <3>1, <3>2
    <2>3. \A u \in JobTypes \ {"scan"} : steps'[u] \notin {"none", "failDocument"} => Active(jobs'[u])
      BY <1>2, <1>4, <2>1 DEF Orderly
    <2>4. steps'["scan"] = "publish" => p # "scan" /\ steps["scan"] = "publish"
      BY <1>4, <1>5
    <2>5. p # "scan" => jobs'["index"] = jobs["index"]
      BY <1>4, <1>5
    <2>6. jobs'["index"].attempt = 0 => jobs["index"].attempt = 0
      BY <1>2, <1>4, <1>5, <1>6
    <2>7. jobs'["scan"] = jobs["scan"]
      BY <1>4, <1>5
    <2>8. QED BY <1>3, <2>1, <2>2, <2>3, <2>4, <2>5, <2>6, <2>7 DEF Orderly
  <1>10. QED BY <1>7, <1>8, <1>9 DEF ProgressInv

\* The owner asks for a job once the document has been indexed, or has failed
\* to be.
LEMMA AskStep ==
  ASSUME ProgressInv, NEW t \in {"index", "entities"}, NEW d \in Documents, NEW e \in Documents,
         AskAgain(t, d, e), document \in {"failed", "indexed"}
  PROVE  ProgressInv'
  <1>1. PICK o \in Published(t) :
           /\ jobs' = [jobs EXCEPT ![t] = o.job]
           /\ steps' = [steps EXCEPT ![t] = o.step]
           /\ excused' = (excused \/ ~o.sure)
           /\ document' \in IF Active(o.job) THEN {d} ELSE {d, e}
    BY DEF AskAgain
  <1>2. t \in JobTypes \ {"scan"} /\ "scan" \in JobTypes /\ "index" \in JobTypes
    BY DEF JobTypes
  <1>3. /\ o.job \in Record
        /\ \/ o.job = jobs[t] /\ o.step = steps[t]
           \/ /\ ~Active(jobs[t]) /\ o.job.attempt = jobs[t].attempt + 1
              /\ \/ o.step = "none"
                 \/ o.step = "begin" /\ (Active(o.job) \/ o.sure = FALSE)
    BY <1>2, PublishedRule DEF ProgressInv
  <1>4. /\ UNCHANGED <<regions, listed>> /\ told' = FALSE
        /\ jobs["scan"].status = "succeeded" /\ document' \in Documents
    BY <1>1 DEF AskAgain
  <1>5. /\ o.step \in JobSteps
        /\ jobs' \in [JobTypes -> Record] /\ steps' \in [JobTypes -> JobSteps]
        /\ jobs'[t] = o.job /\ steps'[t] = o.step
        /\ \A u \in JobTypes \ {t} : jobs'[u] = jobs[u] /\ steps'[u] = steps[u]
    BY <1>1, <1>2, <1>3 DEF ProgressInv, ProgressTypes, JobSteps
  <1>6. jobs[t].attempt \in Nat /\ jobs["index"].attempt \in Nat
    BY <1>2 DEF ProgressInv, ProgressTypes, Record
  <1>7. ProgressTypes'
    BY <1>1, <1>4, <1>5 DEF ProgressInv, ProgressTypes
  <1>8. StepsFit'
    <2>1. \A u \in JobTypes : Active(jobs'[u]) => jobs'[u].attempt > 0
      BY <1>2, <1>3, <1>5, <1>6 DEF ProgressInv, StepsFit
    <2>2. \A u \in JobTypes \ {"scan"} : steps'[u] # "none" => jobs'[u].attempt > 0
      BY <1>2, <1>3, <1>5, <1>6 DEF ProgressInv, StepsFit
    <2>3. \A u \in JobTypes \ {"scan", "index"} : steps'[u] # "failDocument"
      BY <1>3, <1>5 DEF ProgressInv, StepsFit
    <2>4. jobs'["scan"] = jobs["scan"] /\ steps'["scan"] = steps["scan"]
      BY <1>2, <1>5
    <2>5. QED BY <2>1, <2>2, <2>3, <2>4 DEF ProgressInv, StepsFit
  <1>9. ASSUME ~excused' PROVE Orderly'
    <2>1. Orderly /\ o.sure # FALSE
      BY <1>1, <1>9 DEF ProgressInv
    <2>2. jobs["index"].attempt > 0 /\ jobs'["index"].attempt > 0
      BY <1>2, <1>3, <1>4, <1>5, <1>6, <2>1 DEF Orderly
    <2>3. \A u \in JobTypes \ {"scan"} : steps'[u] \notin {"none", "failDocument"} => Active(jobs'[u])
      BY <1>2, <1>3, <1>5, <2>1 DEF Orderly
    <2>4. steps'["scan"] = steps["scan"]
      BY <1>2, <1>5
    <2>5. QED BY <1>4, <2>1, <2>2, <2>3, <2>4 DEF Orderly
  <1>10. QED BY <1>7, <1>8, <1>9 DEF ProgressInv

\* What may fail a document has failed as a job.
LEMMA FailureRule ==
  ASSUME ProgressInv, NEW t \in JobTypes, RecordFailure(t)
  PROVE  \E w \in Record, s \in {"none", "failDocument"} :
            /\ jobs' = [jobs EXCEPT ![t] = w] /\ steps' = [steps EXCEPT ![t] = s]
            /\ w.attempt = jobs[t].attempt /\ ~Active(w)
            /\ ~Active(jobs[t]) => w = jobs[t]
            /\ s = "failDocument" => t \in {"scan", "index"}
            /\ s = "failDocument" /\ jobs[t].status # "none" => w.status = "failed"
  <1> DEFINE r == jobs[t]
             w == MarkFailed(r, r.attempt, "step")
             isOver == Superseded(TransitionError(r, r.attempt, "failed"))
             s == IF t \in {"scan", "index"} /\ ~isOver THEN "failDocument" ELSE "none"
  <1>1. r \in Record
    BY DEF ProgressInv, ProgressTypes
  <1>2. /\ w \in Record /\ w.attempt = r.attempt
        /\ ~Active(r) => w = r
        /\ Active(r) => w.status = "failed"
    BY <1>1, CurrentWrite DEF MarkFailed, Targets, Phases, Reasons
  <1>3. jobs' = [jobs EXCEPT ![t] = w] /\ steps' = [steps EXCEPT ![t] = s]
    BY DEF RecordFailure, Goto
  <1>4. ~isOver => Active(r) \/ r.status \in {"failed", "none"}
    BY <1>1 DEF Superseded, TransitionError, Targets, Finished, FinishedStatuses, Record, Active,
                ActiveStatuses
  <1>5. s = "failDocument" /\ r.status # "none" => w.status = "failed"
    BY <1>2, <1>4
  <1>6. ~Active(w)
    BY <1>2 DEF Active, ActiveStatuses
  <1>7. s \in {"none", "failDocument"} /\ (s = "failDocument" => t \in {"scan", "index"})
    OBVIOUS
  <1> HIDE DEF w, s
  <1>8. QED BY <1>2, <1>3, <1>5, <1>6, <1>7

\* A step of the scan's result.
LEMMA ScanMoves ==
  ASSUME ProgressInv, NEW r \in Record, NEW s \in {"none", "publish", "failDocument"},
         jobs' = [jobs EXCEPT !["scan"] = r], steps' = [steps EXCEPT !["scan"] = s],
         r.attempt = jobs["scan"].attempt, r.status # "none",
         Active(r) => Active(jobs["scan"]),
         jobs["scan"].status = "failed" => r.status = "failed",
         s = "publish" => r.status = "succeeded" /\ (~excused' => jobs["index"].attempt = 0),
         s = "failDocument" => r.status = "failed",
         document' = document \/ (document' = "failed" /\ r.status = "failed"),
         UNCHANGED <<regions, listed, told>>, excused' \in BOOLEAN, ~excused' => ~excused
  PROVE  ProgressInv'
  <1>1. "scan" \in JobTypes /\ "index" \in JobTypes
    BY DEF JobTypes
  <1>2. /\ jobs' \in [JobTypes -> Record] /\ steps' \in [JobTypes -> JobSteps]
        /\ jobs'["scan"] = r /\ steps'["scan"] = s
        /\ \A u \in JobTypes \ {"scan"} : jobs'[u] = jobs[u] /\ steps'[u] = steps[u]
    BY <1>1 DEF ProgressInv, ProgressTypes, JobSteps
  <1>3. ProgressTypes'
    BY <1>2 DEF ProgressInv, ProgressTypes, Documents
  <1>4. StepsFit'
    BY <1>1, <1>2 DEF ProgressInv, StepsFit
  <1>5. ASSUME ~excused' PROVE Orderly'
    <2>1. Orderly
      BY <1>5 DEF ProgressInv
    <2>2. \A u \in JobTypes : Active(jobs'[u]) => Active(jobs[u])
      BY <1>1, <1>2
    <2>3. told' => ActiveJobs' = {}
      BY <2>1, <2>2 DEF Orderly, ActiveJobs
    <2>4. jobs'["index"] = jobs["index"]
      BY <1>1, <1>2
    <2>5. \A u \in JobTypes \ {"scan"} : steps'[u] \notin {"none", "failDocument"} => Active(jobs'[u])
      BY <1>2, <2>1 DEF Orderly
    <2>6. QED BY <1>2, <1>5, <2>1, <2>3, <2>4, <2>5 DEF Orderly
  <1>6. QED BY <1>3, <1>4, <1>5 DEF ProgressInv

LEMMA ScanReportedStep == ProgressInv /\ ScanReported => ProgressInv'
  <1> SUFFICES ASSUME ProgressInv, ScanReported PROVE ProgressInv'
    OBVIOUS
  <1>1. /\ "scan" \in JobTypes /\ jobs["scan"] \in Record
        /\ jobs["scan"].status \notin {"none", "failed"}
        /\ jobs["index"].attempt \in Nat /\ excused \in BOOLEAN
    BY DEF ScanReported, ProgressInv, ProgressTypes, StepsFit, JobTypes, Record
  <1>2. UNCHANGED <<regions, document, listed, told>>
    BY DEF ScanReported
  <1>3. CASE RecordFailure("scan") /\ UNCHANGED excused
    <2>1. PICK w \in Record, s \in {"none", "failDocument"} :
            /\ jobs' = [jobs EXCEPT !["scan"] = w] /\ steps' = [steps EXCEPT !["scan"] = s]
            /\ w.attempt = jobs["scan"].attempt /\ ~Active(w)
            /\ ~Active(jobs["scan"]) => w = jobs["scan"]
            /\ s = "failDocument" /\ jobs["scan"].status # "none" => w.status = "failed"
      BY <1>1, <1>3, FailureRule
    <2>2. w.status # "none"
      <3>1. CASE Active(jobs["scan"])
        <4>1. s = "failDocument"
          <5>1. ~Superseded(TransitionError(jobs["scan"], jobs["scan"].attempt, "failed"))
            BY <3>1 DEF Superseded, TransitionError, Targets, Finished, FinishedStatuses, Active,
                        ActiveStatuses
          <5>2. steps' = [steps EXCEPT !["scan"] = "failDocument"]
            BY <1>3, <5>1 DEF RecordFailure, Goto
          <5>3. QED BY <1>1, <2>1, <5>2 DEF ProgressInv, ProgressTypes
        <4>2. QED BY <1>1, <2>1, <4>1
      <3>2. CASE ~Active(jobs["scan"])
        BY <1>1, <2>1, <3>2
      <3>3. QED BY <3>1, <3>2
    <2>3. QED BY <1>1, <1>2, <1>3, <2>1, <2>2, ScanMoves
  <1>4. CASE /\ jobs' = [jobs EXCEPT !["scan"] = MarkSucceeded(@, @.attempt)]
             /\ Goto("scan", "publish")
             /\ excused' = (excused \/ jobs["index"].attempt > 0)
    <2>1. PICK r : r = MarkSucceeded(jobs["scan"], jobs["scan"].attempt)
      OBVIOUS
    <2>2. /\ r \in Record /\ r.attempt = jobs["scan"].attempt
          /\ ~Active(jobs["scan"]) => r = jobs["scan"]
          /\ Active(jobs["scan"]) => r.status = "succeeded"
      <3>1. "succeeded" \in Targets /\ "none" \in Phases /\ "none" \in Reasons \cup {"none"}
        BY DEF Targets, Phases
      <3>2. r = Transition(jobs["scan"], jobs["scan"].attempt, "succeeded", "none", "none")
        BY <2>1 DEF MarkSucceeded
      <3>3. QED BY <1>1, <3>1, <3>2, CurrentWrite
    <2>3. r.status = "succeeded" /\ ~Active(r)
      BY <1>1, <2>2 DEF Record, Active, ActiveStatuses, FinishedStatuses
    <2>4. jobs' = [jobs EXCEPT !["scan"] = r] /\ steps' = [steps EXCEPT !["scan"] = "publish"]
      BY <1>4, <2>1 DEF Goto
    <2>5. excused' \in BOOLEAN /\ (~excused' => ~excused /\ jobs["index"].attempt = 0)
      <3>1. CASE jobs["index"].attempt > 0
        BY <1>4, <3>1
      <3>2. CASE ~(jobs["index"].attempt > 0)
        <4>1. excused' = excused
          BY <1>1, <1>4, <3>2
        <4>2. QED BY <1>1, <3>2, <4>1
      <3>3. QED BY <3>1, <3>2
    <2>6. QED BY <1>1, <1>2, <2>2, <2>3, <2>4, <2>5, ScanMoves
  <1>5. QED BY <1>3, <1>4 DEF ScanReported

\* A job's step that leaves its record as it is.
LEMMA StepOnly ==
  ASSUME ProgressInv, NEW t \in JobTypes \ {"scan"}, NEW s \in JobSteps \ {"failDocument"},
         jobs' = jobs, Goto(t, s), steps[t] \notin {"none", "failDocument"},
         UNCHANGED <<regions, listed, told, excused>>, document' \in Documents,
         document' = document \/ t = "index"
  PROVE  ProgressInv'
  <1>1. jobs[t] \in Record /\ jobs' = [jobs EXCEPT ![t] = jobs[t]] /\ excused \in BOOLEAN
    BY DEF ProgressInv, ProgressTypes
  <1>2. t = "index" => jobs["index"].attempt > 0
    BY DEF ProgressInv, StepsFit
  <1>3. ~excused => Active(jobs[t])
    BY DEF ProgressInv, Orderly
  <1>4. QED BY <1>1, <1>2, <1>3, OneMoves DEF Goto

\* A step that writes the job's current attempt.
LEMMA WriteStep ==
  ASSUME ProgressInv, NEW t \in JobTypes \ {"scan"}, NEW s \in JobSteps \ {"failDocument"},
         NEW to \in Targets, NEW phase \in Phases,
         jobs' = [jobs EXCEPT ![t] = Transition(jobs[t], jobs[t].attempt, to, phase, "none")],
         Goto(t, s), steps[t] \notin {"none", "failDocument"},
         s = "none" \/ to = "processing" \/ excused',
         UNCHANGED <<regions, document, listed, told>>, excused' = excused \/ excused' = TRUE
  PROVE  ProgressInv'
  <1>1. PICK r : r = Transition(jobs[t], jobs[t].attempt, to, phase, "none")
    OBVIOUS
  <1>2. jobs[t] \in Record /\ document \in Documents /\ excused \in BOOLEAN
    BY DEF ProgressInv, ProgressTypes
  <1>3. /\ r \in Record /\ r.attempt = jobs[t].attempt
        /\ ~Active(jobs[t]) => r = jobs[t]
        /\ Active(jobs[t]) => r.status = to
    BY <1>1, <1>2, CurrentWrite
  <1>4. Active(r) => Active(jobs[t])
    BY <1>3
  <1>5. excused' \in BOOLEAN /\ (~excused' => ~excused)
    BY <1>2
  <1>6. ~excused' /\ s # "none" => Active(r)
    <2>1. ASSUME ~excused', s # "none" PROVE Active(r)
      <3>1. Active(jobs[t])
        BY <1>5, <2>1 DEF ProgressInv, Orderly
      <3>2. to = "processing"
        BY <2>1
      <3>3. QED BY <1>3, <3>1, <3>2 DEF Active, ActiveStatuses
    <2>2. QED BY <2>1
  <1>7. jobs' = [jobs EXCEPT ![t] = r]
    BY <1>1
  <1>8. QED BY <1>2, <1>3, <1>4, <1>5, <1>6, <1>7, OneMoves DEF Goto

LEMMA JobStepInv ==
  ASSUME ProgressInv, NEW t \in JobTypes, JobStep(t)
  PROVE  ProgressInv'
  <1>1. /\ t = "scan" => steps[t] \in {"none", "publish", "failDocument"}
        /\ jobs[t] \in Record /\ document \in Documents /\ excused \in BOOLEAN
    BY DEF ProgressInv, ProgressTypes, StepsFit
  <1>2. CASE Begin(t)
    <2>1. t # "scan" /\ steps[t] = "begin"
      BY <1>1, <1>2 DEF Begin, At
    <2>2. PICK s \in {"none", "prepare", "edges", "finish"} : Goto(t, s)
      <3>1. FirstStep[t] \in {"prepare", "edges", "finish"}
        BY <2>1 DEF FirstStep, JobTypes
      <3>2. QED BY <1>2, <3>1 DEF Begin
    <2>3. /\ jobs' = [jobs EXCEPT ![t] = Transition(jobs[t], jobs[t].attempt, "processing", "none", "none")]
          /\ UNCHANGED <<regions, document, listed, told, excused>>
      BY <1>2 DEF Begin, MarkProcessing
    <2>4. "processing" \in Targets /\ "none" \in Phases /\ s \in JobSteps \ {"failDocument"}
      BY DEF Targets, Phases, JobSteps
    <2>5. QED BY <2>1, <2>2, <2>3, <2>4, WriteStep
  <1>3. CASE RepeatStep(t)
    <2>1. t # "scan" /\ steps[t] \notin {"none", "failDocument"}
      BY <1>3 DEF RepeatStep, At
    <2>2. PICK s \in {"begin", "finalize", "edges"} : Goto(t, s)
      BY <1>3 DEF RepeatStep
    <2>3. s \in JobSteps \ {"failDocument"} /\ UNCHANGED <<regions, document, jobs, listed, told, excused>>
      BY <1>3 DEF RepeatStep, JobSteps
    <2>4. QED BY <1>1, <2>1, <2>2, <2>3, StepOnly
  <1>4. CASE Finish(t)
    <2>1. t # "scan" /\ steps[t] \notin {"none", "failDocument"}
      BY <1>1, <1>4 DEF Finish, At
    <2>2. PICK s \in {"none", "edges"} :
             Goto(t, s) /\ ((s = "none" /\ excused' = excused) \/ excused' = TRUE)
      BY <1>4 DEF Finish
    <2>3. /\ jobs' = [jobs EXCEPT ![t] = Transition(jobs[t], jobs[t].attempt, "succeeded", "none", "none")]
          /\ UNCHANGED <<regions, document, listed, told>>
      BY <1>4 DEF Finish, MarkSucceeded
    <2>4. "succeeded" \in Targets /\ "none" \in Phases /\ s \in JobSteps \ {"failDocument"}
      BY DEF Targets, Phases, JobSteps
    <2>5. QED BY <2>1, <2>2, <2>3, <2>4, WriteStep
  <1>5. CASE Fail(t)
    <2>1. t # "scan" /\ steps[t] # "none" /\ RecordFailure(t)
      BY <1>5 DEF Fail
    <2>2. PICK w \in Record, s \in {"none", "failDocument"} :
            /\ jobs' = [jobs EXCEPT ![t] = w] /\ steps' = [steps EXCEPT ![t] = s]
            /\ w.attempt = jobs[t].attempt /\ ~Active(w)
            /\ s = "failDocument" => t \in {"scan", "index"}
      BY <2>1, FailureRule
    <2>3. s \in JobSteps /\ UNCHANGED <<regions, document, listed, told, excused>>
      BY <1>5 DEF Fail, JobSteps
    <2>4. QED BY <1>1, <2>1, <2>2, <2>3, OneMoves
  <1>6. CASE FailDocument(t)
    <2>1. /\ steps[t] = "failDocument" /\ document' = "failed" /\ steps' = [steps EXCEPT ![t] = "none"]
          /\ UNCHANGED <<regions, jobs, listed, told, excused>>
      BY <1>6 DEF FailDocument, At, Goto
    <2>2. t \in {"scan", "index"}
      BY <2>1 DEF ProgressInv, StepsFit
    <2>3. jobs' = [jobs EXCEPT ![t] = jobs[t]]
      BY <2>1 DEF ProgressInv, ProgressTypes
    <2>4. CASE t = "scan"
      <3>1. jobs["scan"].status = "failed" /\ ~Active(jobs["scan"])
        BY <2>1, <2>4 DEF ProgressInv, StepsFit, Active, ActiveStatuses
      <3>2. QED BY <1>1, <2>1, <2>3, <2>4, <3>1, ScanMoves
    <2>5. CASE t = "index"
      <3>1. jobs["index"].attempt > 0
        BY <2>1, <2>5 DEF ProgressInv, StepsFit
      <3>2. "none" \in JobSteps /\ "failed" \in Documents
        BY DEF JobSteps, Documents
      <3>3. QED BY <1>1, <2>1, <2>3, <2>5, <3>1, <3>2, OneMoves
    <2>6. QED BY <2>2, <2>4, <2>5
  <1>7. QED BY <1>2, <1>3, <1>4, <1>5, <1>6 DEF JobStep

\* The list shows an indexed document none of whose jobs is active as complete.
LEMMA CompleteRule ==
  ASSUME ProgressTypes, NEW active \in SUBSET JobTypes, Progress(listed, active) = {"complete"}
  PROVE  listed = "indexed" /\ active = {}
  <1>1. ASSUME NEW t \in active PROVE FALSE
    <2>1. StageFor(t, jobs[t].phase) \in {"scanning", "analyzing", "embedding", "entities"}
      BY DEF StageFor, JobTypes
    <2>2. StageFor(t, jobs[t].phase) = "analyzing" => regions
      BY DEF StageFor, JobTypes
    <2>3. StageFor(t, jobs[t].phase) \in StagesForDocument
      BY <2>1, <2>2 DEF StagesForDocument
    <2>4. StageFor(t, jobs[t].phase) \in ActiveStageKeys(active)
      BY <2>3 DEF ActiveStageKeys
    <2>5. StageFor(t, jobs[t].phase) # "complete"
      BY <2>1
    <2>6. QED BY <2>4, <2>5 DEF Progress
  <1>2. active = {}
    BY <1>1
  <1>3. ActiveStageKeys(active) = {}
    BY <1>2 DEF ActiveStageKeys
  <1>4. QED BY <1>2, <1>3 DEF Progress

LEMMA ListStep == ProgressInv /\ (List \/ EnrichPage) => ProgressInv'
  <1>1. ASSUME ProgressInv, List PROVE ProgressInv'
    <2>1. ProgressTypes' /\ StepsFit'
      BY <1>1 DEF List, ProgressInv, ProgressTypes, StepsFit
    <2>2. ASSUME Orderly PROVE Orderly'
      BY <1>1, <2>2 DEF List, Orderly, ActiveJobs
    <2>3. excused' = excused
      BY <1>1 DEF List
    <2>4. QED BY <1>1, <2>1, <2>2, <2>3 DEF ProgressInv
  <1>2. ASSUME ProgressInv, EnrichPage PROVE ProgressInv'
    <2>1. PICK active \in {ActiveJobs, {}} :
             /\ told' = (told \/ Progress(listed, active) = {"complete"})
             /\ excused' = (excused \/ active # ActiveJobs)
      BY <1>2 DEF EnrichPage
    <2>2. listed' = "none" /\ UNCHANGED <<regions, document, jobs, steps>>
      BY <1>2 DEF EnrichPage
    <2>3. told' \in BOOLEAN /\ excused' \in BOOLEAN
      BY <2>1 DEF ProgressInv
    <2>4. ProgressTypes' /\ StepsFit'
      BY <1>2, <2>2, <2>3 DEF ProgressInv, ProgressTypes, StepsFit
    <2>5. ASSUME ~excused' PROVE Orderly'
      <3>1. Orderly /\ active = ActiveJobs
        BY <1>2, <2>1, <2>5 DEF ProgressInv
      <3>2. told' => told \/ (listed = "indexed" /\ ActiveJobs = {})
        BY <1>2, <2>1, <3>1, CompleteRule DEF ProgressInv, ActiveJobs
      <3>3. ActiveJobs' = ActiveJobs
        BY <2>2 DEF ActiveJobs
      <3>4. QED BY <2>2, <3>1, <3>2, <3>3 DEF Orderly
    <2>6. QED BY <2>4, <2>5 DEF ProgressInv
  <1>3. QED BY <1>1, <1>2

LEMMA ProgressNextInv ==
  ASSUME ProgressInv, [ProgressNext]_progressVars
  PROVE  ProgressInv'
  <1>1. CASE UNCHANGED progressVars
    <2>1. UNCHANGED <<regions, document, jobs, steps, listed, told, excused>>
      BY <1>1 DEF progressVars
    <2>2. QED BY <2>1 DEF ProgressInv, ProgressTypes, StepsFit, Orderly, ActiveJobs
  <1>2. CASE ScanReported
    BY <1>2, ScanReportedStep
  <1>3. CASE Start \/ PublishEntities \/ PublishEdges \/ PublishCanonicalization
    <2>1. /\ {"scan", "index", "entities", "edges", "canonicalization"} = JobTypes
          /\ {"none", "embed", "canonicalization", "finish"} \subseteq JobSteps \ {"failDocument"}
      BY DEF JobTypes, JobSteps
    <2>2. CASE Start
      BY <2>1, <2>2, PublishStep DEF Start, At
    <2>3. CASE PublishEntities
      BY <2>1, <2>3, PublishStep DEF PublishEntities, At
    <2>4. CASE PublishEdges
      <3>1. CASE PublishJob("entities", "edges", "canonicalization")
        BY <2>1, <2>4, <3>1, PublishStep DEF PublishEdges, At
      <3>2. CASE /\ Goto("entities", "finish")
                 /\ UNCHANGED <<regions, document, jobs, listed, told, excused>>
        BY <2>1, <2>4, <3>2, StepOnly DEF PublishEdges, At, ProgressInv, ProgressTypes
      <3>3. QED BY <2>4, <3>1, <3>2 DEF PublishEdges
    <2>5. CASE PublishCanonicalization
      BY <2>1, <2>5, PublishStep DEF PublishCanonicalization, At
    <2>6. QED BY <1>3, <2>2, <2>3, <2>4, <2>5
  <1>4. CASE Prepare \/ MarkDocumentIndexed
    <2>1. PICK s \in {"finish", "publish"} : Goto("index", s)
      BY <1>4 DEF Prepare, MarkDocumentIndexed
    <2>2. /\ steps["index"] \in {"prepare", "finalize"}
          /\ document' \in Documents /\ UNCHANGED <<regions, jobs, listed, told, excused>>
      BY <1>4 DEF Prepare, MarkDocumentIndexed, At, ProgressInv, ProgressTypes, Documents
    <2>3. s \in JobSteps \ {"failDocument"} /\ "index" \in JobTypes \ {"scan"}
      BY DEF JobSteps, JobTypes
    <2>4. QED BY <2>1, <2>2, <2>3, StepOnly
  <1>5. CASE Embed
    <2>1. "index" \in JobTypes \ {"scan"} /\ "finalize" \in JobSteps \ {"failDocument"}
      BY DEF JobSteps, JobTypes
    <2>2. /\ steps["index"] = "embed" /\ Goto("index", "finalize")
          /\ UNCHANGED <<regions, document, listed, told, excused>>
      BY <1>5 DEF Embed, At
    <2>3. CASE regions
      <3>1. jobs' = [jobs EXCEPT !["index"] =
                       Transition(jobs["index"], jobs["index"].attempt, "processing", "embedding", "none")]
        BY <1>5, <2>3 DEF Embed, SetPhase
      <3>2. "processing" \in Targets /\ "embedding" \in Phases
        BY DEF Targets, Phases
      <3>3. QED BY <2>1, <2>2, <3>1, <3>2, WriteStep
    <2>4. CASE ~regions
      <3>1. jobs' = jobs
        BY <1>5, <2>4 DEF Embed
      <3>2. QED BY <2>1, <2>2, <3>1, StepOnly DEF ProgressInv, ProgressTypes
    <2>5. QED BY <2>3, <2>4
  <1>6. CASE \E t \in JobTypes : JobStep(t)
    BY <1>6, JobStepInv
  <1>7. CASE List \/ EnrichPage
    BY <1>7, ListStep
  <1>8. CASE Retry \/ RetryEntityExtraction
    <2>1. {"pending", "failed", "indexed"} \subseteq Documents
      BY DEF Documents
    <2>2. QED BY <1>8, <2>1, AskStep DEF Retry, RetryEntityExtraction
  <1>9. QED BY <1>1, <1>2, <1>3, <1>4, <1>5, <1>6, <1>7, <1>8 DEF ProgressNext

\* A document that its list once showed as complete has no active job, and
\* gets none until its owner asks for one, whatever failed on the way, however
\* many attempts of each job there are; the excuses aside (enrichPage).
THEOREM CompleteStays == ProgressSpec => []CompleteIsFinal
  <1>1. ProgressInv => CompleteIsFinal
    BY DEF ProgressInv, Orderly, CompleteIsFinal
  <1>2. QED BY <1>1, ProgressInitInv, ProgressNextInv, PTL DEF ProgressSpec
=============================================================================
