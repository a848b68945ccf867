---------------------------- MODULE JobDispatch ----------------------------
(***************************************************************************)
(* How a background job attempt is recorded, dispatched, run and finished: *)
(*                                                                         *)
(*  - queue/dispatch.Publisher.publish records the attempt in the job      *)
(*    status store, starts a Step Functions execution for it and, if that  *)
(*    fails, marks the attempt failed;                                     *)
(*  - Step Functions runs at most one execution per name, and the name is  *)
(*    {job type}-{document}-{attempt};                                     *)
(*  - the execution's Lambda steps report progress and the outcome through *)
(*    the status store, on behalf of their own attempt.                    *)
(*                                                                         *)
(* Every call may be lost: the publishing process may die between two      *)
(* calls, an AWS or database reply may not come back although the call was *)
(* applied, a step may be repeated by the state machine's Retry.  The work *)
(* the steps do between their status writes belongs to other modules.      *)
(***************************************************************************)
EXTENDS JobStatus

CONSTANTS
    Keys,           \* (document, job type) pairs, the status table's key
    NoKey,          \* the key of a publisher that publishes nothing
    Publishers,     \* concurrent callers of publish (API requests, Lambdas)
    MaxAttempt      \* bound: attempts per key

ASSUME MaxAttemptIsPositive == MaxAttempt \in Nat \ {0}
ASSUME NoKeyIsNoKey == NoKey \notin Keys

Attempts == 1 .. MaxAttempt

VARIABLES
    records,        \* records[k]: k's row of document_job_status
    gone,           \* the keys whose document (and so whose row) was deleted
    publishers,     \* publishers[p]: where p is in publish
    runs,           \* runs[k][a]: the execution named after k and attempt a
    orphaned        \* attempts whose publisher died, or whose failure
                    \* could not be recorded: nothing will ever finish them

vars == <<records, gone, publishers, runs, orphaned>>

PublisherSteps == {"idle", "dispatch", "markFailed"}
Idle == [pc |-> "idle", key |-> NoKey, attempt |-> 0]

\* "none": the name is unused.  "ended" names stay taken (for 90 days).
RunSteps == {"none", "started", "working", "recordFailure", "ended"}
Live == {"started", "working", "recordFailure"}

TypeOK ==
    /\ records \in [Keys -> Record]
    /\ gone \subseteq Keys
    /\ publishers \in [Publishers -> [pc : PublisherSteps,
                                      key : Keys \cup {NoKey},
                                      attempt : 0 .. MaxAttempt]]
    /\ \A p \in Publishers :
          publishers[p].pc # "idle" => /\ publishers[p].key \in Keys
                                       /\ publishers[p].attempt \in Attempts
    /\ runs \in [Keys -> [Attempts -> RunSteps]]
    /\ orphaned \subseteq Keys \X Attempts

Init ==
    /\ records = [k \in Keys |-> NoRecord]
    /\ gone = {}
    /\ publishers = [p \in Publishers |-> Idle]
    /\ runs = [k \in Keys |-> [a \in Attempts |-> "none"]]
    /\ orphaned = {}

-----------------------------------------------------------------------------
(* publish                                                                 *)

\* Mutant: the attempt dispatched is the one before the new record's.
PublishEnqueueOldAttempt(p, k) ==
    /\ publishers[p].pc = "idle"
    /\ k \notin gone
    /\ records[k].attempt < MaxAttempt
    /\ records' = [records EXCEPT ![k] = Enqueue(records[k])]
    /\ publishers' = IF Started(records[k])
                     THEN [publishers EXCEPT ![p] =
                             [pc |-> "dispatch", key |-> k,
                              attempt |-> records[k].attempt]]
                     ELSE publishers
    /\ UNCHANGED <<gone, runs, orphaned>>

\* The row's foreign key refuses a job for a deleted document, and publish
\* then returns the error with nothing changed.
PublishEnqueue(p, k) ==
    /\ publishers[p].pc = "idle"
    /\ k \notin gone
    /\ records[k].attempt < MaxAttempt
    /\ records' = [records EXCEPT ![k] = Enqueue(records[k])]
    /\ publishers' = IF Started(records[k])
                     THEN [publishers EXCEPT ![p] =
                             [pc |-> "dispatch", key |-> k,
                              attempt |-> Enqueue(records[k]).attempt]]
                     ELSE publishers
    /\ UNCHANGED <<gone, runs, orphaned>>

\* StartExecution takes effect only under a new name.
StartExecution(k, a) ==
    runs' = IF runs[k][a] = "none" THEN [runs EXCEPT ![k][a] = "started"]
            ELSE runs

\* The execution started, now or (ErrExecutionAlreadyExists) on an earlier try.
DispatchOK(p) ==
    /\ publishers[p].pc = "dispatch"
    /\ StartExecution(publishers[p].key, publishers[p].attempt)
    /\ publishers' = [publishers EXCEPT ![p] = Idle]
    /\ UNCHANGED <<records, gone, orphaned>>

\* The execution started but the reply was lost: the client tries again, or
\* gives up with DispatchError.
DispatchReplyLost(p) ==
    /\ publishers[p].pc = "dispatch"
    /\ StartExecution(publishers[p].key, publishers[p].attempt)
    /\ UNCHANGED <<records, gone, publishers, orphaned>>

\* Mutant: a failed dispatch is returned without marking the attempt failed.
DispatchErrorUnrecorded(p) ==
    /\ publishers[p].pc = "dispatch"
    /\ publishers' = [publishers EXCEPT ![p] = Idle]
    /\ UNCHANGED <<records, gone, runs, orphaned>>

DispatchError(p) ==
    /\ publishers[p].pc = "dispatch"
    /\ publishers' = [publishers EXCEPT ![p].pc = "markFailed"]
    /\ UNCHANGED <<records, gone, runs, orphaned>>

MarkDispatchFailed(p) ==
    LET k == publishers[p].key
        a == publishers[p].attempt
    IN  /\ publishers[p].pc = "markFailed"
        /\ records' = [records EXCEPT ![k] = MarkFailed(records[k], a, "dispatch")]
        /\ publishers' = [publishers EXCEPT ![p] = Idle]
        /\ UNCHANGED <<gone, runs, orphaned>>

\* The publishing process died, its request context was cancelled, or the
\* status write failed too: publish ends with the attempt as it stands.
PublisherLost(p) ==
    /\ publishers[p].pc # "idle"
    /\ publishers' = [publishers EXCEPT ![p] = Idle]
    /\ orphaned' = orphaned \cup {<<publishers[p].key, publishers[p].attempt>>}
    /\ UNCHANGED <<records, gone, runs>>

-----------------------------------------------------------------------------
(* The execution of attempt a of job k                                     *)

\* The first step marks the attempt processing.  A superseded attempt is
\* stale: its later steps do nothing.  With no record the pipelines fail and
\* the stateless jobs run untracked.
RunBegin(k, a) ==
    LET err == TransitionError(records[k], a, "processing")
    IN  /\ runs[k][a] = "started"
        /\ records' = [records EXCEPT ![k] = MarkProcessing(records[k], a)]
        /\ \/ /\ err = "nil"
              /\ runs' = [runs EXCEPT ![k][a] = "working"]
           \/ /\ Superseded(err)
              /\ runs' = [runs EXCEPT ![k][a] = "ended"]
           \/ /\ err = "ErrNotFound"
              /\ \E s \in {"working", "recordFailure"} :
                    runs' = [runs EXCEPT ![k][a] = s]
        /\ UNCHANGED <<gone, publishers, orphaned>>

\* A later step, or a repeated first one, asks whether the attempt is still
\* current by marking it processing again, and stops if it is not.
RunCheckStale(k, a) ==
    /\ runs[k][a] = "working"
    /\ Superseded(TransitionError(records[k], a, "processing"))
    /\ runs' = [runs EXCEPT ![k][a] = "ended"]
    /\ UNCHANGED <<records, gone, publishers, orphaned>>

\* Region classification moves on to embedding, superseded or not.
RunSetPhase(k, a) ==
    /\ runs[k][a] = "working"
    /\ TransitionError(records[k], a, "processing") # "ErrNotFound"
    /\ records' = [records EXCEPT ![k] = SetPhase(records[k], a, "embedding")]
    /\ UNCHANGED <<gone, runs, publishers, orphaned>>

\* Finalize: a superseded outcome is dropped; a missing record is an error,
\* except to a stateless job that already ran untracked.
RunSucceed(k, a) ==
    LET err == TransitionError(records[k], a, "succeeded")
    IN  /\ runs[k][a] = "working"
        /\ records' = [records EXCEPT ![k] = MarkSucceeded(records[k], a)]
        /\ \/ runs' = [runs EXCEPT ![k][a] = "ended"]
           \/ /\ err = "ErrNotFound"
              /\ runs' = [runs EXCEPT ![k][a] = "recordFailure"]
        /\ UNCHANGED <<gone, publishers, orphaned>>

\* The success was written but the step is repeated, or fails afterwards.
RunSucceedReplyLost(k, a) ==
    /\ runs[k][a] = "working"
    /\ records' = [records EXCEPT ![k] = MarkSucceeded(records[k], a)]
    /\ UNCHANGED <<gone, runs, publishers, orphaned>>

\* Mutant: a state without a Catch.
RunErrorUncaught(k, a) ==
    /\ runs[k][a] \in {"started", "working"}
    /\ runs' = [runs EXCEPT ![k][a] = "ended"]
    /\ UNCHANGED <<records, gone, publishers, orphaned>>

\* A step failed for good or ran out of retries: its Catch.
RunError(k, a) ==
    /\ runs[k][a] \in {"started", "working"}
    /\ runs' = [runs EXCEPT ![k][a] = "recordFailure"]
    /\ UNCHANGED <<records, gone, publishers, orphaned>>

RunRecordFailure(k, a) ==
    /\ runs[k][a] = "recordFailure"
    /\ records' = [records EXCEPT ![k] = MarkFailed(records[k], a, "step")]
    /\ runs' = [runs EXCEPT ![k][a] = "ended"]
    /\ UNCHANGED <<gone, publishers, orphaned>>

\* RecordFailure itself ran out of retries; nothing catches that.
RunAbort(k, a) ==
    /\ runs[k][a] = "recordFailure"
    /\ runs' = [runs EXCEPT ![k][a] = "ended"]
    /\ orphaned' = orphaned \cup {<<k, a>>}
    /\ UNCHANGED <<records, gone, publishers>>

\* The document is deleted, by its user or with the expired session, and its
\* status row cascades.  Executions and publishers are not told.
DeleteDocument(k) ==
    /\ k \notin gone
    /\ gone' = gone \cup {k}
    /\ records' = [records EXCEPT ![k] = NoRecord]
    /\ UNCHANGED <<publishers, runs, orphaned>>

Publish(p) ==
    \/ \E k \in Keys : PublishEnqueue(p, k)
    \/ DispatchOK(p) \/ DispatchReplyLost(p) \/ DispatchError(p)
    \/ MarkDispatchFailed(p) \/ PublisherLost(p)

Run(k, a) ==
    \/ RunBegin(k, a) \/ RunCheckStale(k, a) \/ RunSetPhase(k, a)
    \/ RunSucceed(k, a) \/ RunSucceedReplyLost(k, a)
    \/ RunError(k, a) \/ RunRecordFailure(k, a) \/ RunAbort(k, a)

Next ==
    \/ \E p \in Publishers : Publish(p)
    \/ \E k \in Keys, a \in Attempts : Run(k, a)
    \/ \E k \in Keys : DeleteDocument(k)

Spec == Init /\ [][Next]_vars

\* A publisher that does not die finishes its call, and Step Functions keeps
\* driving a started execution: each is one weakly fair process.  Nobody is
\* obliged to publish, to delete, or to lose a reply.
Fairness ==
    /\ \A p \in Publishers :
          WF_vars(DispatchOK(p) \/ DispatchError(p) \/ MarkDispatchFailed(p))
    /\ \A k \in Keys, a \in Attempts :
          WF_vars(RunBegin(k, a) \/ RunSucceed(k, a) \/ RunError(k, a)
                  \/ RunRecordFailure(k, a))

FairSpec == Spec /\ Fairness

-----------------------------------------------------------------------------
(* Properties                                                              *)

\* Only one publish call handles an attempt after recording it, so an attempt
\* is started, or marked as never started, by one caller: a duplicate publish
\* of an active job (Started = false) leaves it alone.
OneDispatcher ==
    \A p, q \in Publishers :
       /\ p # q
       /\ publishers[p].pc # "idle"
       /\ publishers[q].pc # "idle"
       /\ publishers[p].key = publishers[q].key
       => publishers[p].attempt # publishers[q].attempt

\* A record says processing or succeeded only of an attempt that has an
\* execution of its own: a slow execution of an older attempt never reports
\* on the attempt that replaced it (ErrAttemptSuperseded).
ProgressHasRun ==
    \A k \in Keys, a \in Attempts :
       /\ records[k].attempt = a
       /\ records[k].status \in {"processing", "succeeded"}
       => runs[k][a] # "none"

\* An active job is being taken care of: some publisher is still dispatching
\* its attempt or the attempt's execution is live, so the delete and retry
\* guards it holds will be released.  The only exceptions are the attempts
\* whose publisher or failure report was lost (publish's known gap).
Owned(k) ==
    \/ \E p \in Publishers : /\ publishers[p].pc # "idle"
                             /\ publishers[p].key = k
                             /\ publishers[p].attempt = records[k].attempt
    \/ \E a \in Attempts : a = records[k].attempt /\ runs[k][a] \in Live

ActiveIsOwned ==
    \A k \in Keys :
       Active(records[k]) => Owned(k) \/ <<k, records[k].attempt>> \in orphaned

\* An attempt's outcome is decided once, whoever reports it: its publisher
\* after a lost reply, its execution, or a repeated step of that execution.
\* Neither the outcome nor its first reason changes until the next attempt.
OutcomeStep ==
    \A k \in Keys :
       Finished(records[k]) => \/ records'[k] = records[k]
                               \/ records'[k].attempt > records[k].attempt
                               \/ k \in gone' \ gone

OutcomeStable == [][OutcomeStep]_vars

\* The store as its readers see it: publishers, executions, phases and
\* reasons hidden, pending and processing both active.
jobView ==
    [k \in Keys |->
       [state   |-> IF k \in gone THEN "gone"
                    ELSE IF Active(records[k]) THEN "active"
                    ELSE records[k].status,
        attempt |-> records[k].attempt]]

JL == INSTANCE JobLifecycle WITH job <- jobView

\* The store, under publishers and executions that are lost, repeated and
\* late, implements the numbered attempts of JobLifecycle.
ImplementsLifecycle == JL!Spec

\* Every recorded attempt eventually ends or is replaced, unless its
\* publisher or its failure report was lost.
AttemptsFinish ==
    \A k \in Keys, a \in Attempts :
       (records[k].attempt = a /\ Active(records[k]))
         ~> (\/ records[k].attempt # a
             \/ ~Active(records[k])
             \/ <<k, a>> \in orphaned)
=============================================================================
