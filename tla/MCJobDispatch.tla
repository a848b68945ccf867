--------------------------- MODULE MCJobDispatch ---------------------------
(* The instance TLC checks; the keys and publishers are model values.      *)
(* Each initial state belongs to one part: the attempts of one job, or the *)
(* jobs of one document and the progress its list shows.                   *)
EXTENDS JobDispatch, DocumentProgress, TLC

VARIABLE part       \* the part this behaviour belongs to

MCInit ==
    /\ part \in {"attempts", "progress"}
    /\ Init
    /\ ProgressInit /\ (part = "progress" \/ ~regions)

MCNext ==
    /\ UNCHANGED part
    /\ \/ part = "attempts" /\ Next /\ UNCHANGED progressVars
       \/ part = "progress" /\ ProgressNext /\ UNCHANGED vars

\* In the other part nothing is published, so that nothing is owed.
MCSpec == MCInit /\ [][MCNext]_<<vars, progressVars, part>> /\ Fairness

\* Of an excused list nothing is claimed any more, and no other document
\* than an indexed one is told to be complete.
MayBeTold == ~excused /\ listed \in {"none", "indexed"}
=============================================================================
