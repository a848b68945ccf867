---------------------------- MODULE JobLifecycle ----------------------------
(***************************************************************************)
(* What the job status store promises its readers (the progress UI and the *)
(* delete and retry guards): every job is a sequence of numbered attempts, *)
(* at most one of them active; an attempt ends once, with one outcome; a   *)
(* new attempt starts only after the previous one ended; and a deleted     *)
(* document's jobs never come back.  Nothing is said of publishers, queues *)
(* or executions: JobDispatch implements this specification.               *)
(***************************************************************************)
EXTENDS Integers

CONSTANT Keys           \* (document, job type) pairs

VARIABLE job            \* job[k]: its state and its current attempt

Outcomes == {"succeeded", "failed"}
States == {"none", "active", "gone"} \cup Outcomes

TypeOK == job \in [Keys -> [state : States, attempt : Nat]]

Init == job = [k \in Keys |-> [state |-> "none", attempt |-> 0]]

Begin(k) ==
    /\ job[k].state \in {"none"} \cup Outcomes
    /\ job' = [job EXCEPT ![k] = [state |-> "active", attempt |-> @.attempt + 1]]

Finish(k) ==
    /\ job[k].state = "active"
    /\ \E o \in Outcomes :
          job' = [job EXCEPT ![k] = [state |-> o, attempt |-> @.attempt]]

Forget(k) ==
    /\ job[k].state # "gone"
    /\ job' = [job EXCEPT ![k] = [state |-> "gone", attempt |-> 0]]

Next == \E k \in Keys : Begin(k) \/ Finish(k) \/ Forget(k)

Spec == Init /\ [][Next]_job
=============================================================================
