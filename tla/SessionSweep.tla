---------------------------- MODULE SessionSweep ----------------------------
(***************************************************************************)
(* One session from its creation to its deletion, with what it owns:       *)
(*                                                                         *)
(*  - requests that carry its cookie (auth.Middleware), among them uploads *)
(*    and deletions of documents (server/dochandler.go);                   *)
(*  - runs of the cleanup command (account.Sweep, account.Deleter), which  *)
(*    act on a list of the sessions and on a list of the documents.        *)
(*                                                                         *)
(* Every call to Postgres or to the uploads bucket is a step.  The session *)
(* is created at time 0 by the request that found none.  Time is counted   *)
(* up to HardCap, from which the session is expired whatever else happens. *)
(***************************************************************************)
EXTENDS Integers, FiniteSets

CONSTANTS
    Requests,       \* requests in progress at once; a request follows another
    Sweepers,       \* cleanup runs in progress at once
    MaxDocsPerSession,
    MaxDocuments,   \* bound: documents ever created
    HardCap,
    IdleTimeout,
    WarningLeadTime

ASSUME RequestsAreFinite == IsFiniteSet(Requests)
ASSUME MaxDocumentsIsNat == MaxDocuments \in Nat
ASSUME MaxDocsIsPositive == MaxDocsPerSession \in Nat \ {0}
ASSUME ClocksAreTimes ==
    /\ HardCap \in Nat \ {0}
    /\ IdleTimeout \in 1 .. HardCap
    /\ WarningLeadTime \in Nat

Documents == 1 .. MaxDocuments
NoDocument == 0

VARIABLES
    now,
    session,        \* the row: does it exist, last_active_at, was it warned
    docs,           \* the documents that have a row
    objects,        \* the documents that have a file in the bucket
    created,        \* documents ever created, numbered in that order
    requests,       \* where each request is
    sweepers,       \* where each cleanup run is
    exposed         \* history: the documents whose file may outlive their row

tenant == <<docs, objects, created, exposed>>
vars == <<now, session, tenant, requests, sweepers>>

Times == 0 .. HardCap
RequestSteps == {"idle", "check", "touch", "handle", "create", "put", "abandon",
                 "deleteObject", "deleteRow"}
SweepSteps == {"idle", "decide", "warn", "list", "objects", "row"}

RequestRecord == [pc : RequestSteps, time : Times, doc : NoDocument .. MaxDocuments]
SweepRecord == [pc : SweepSteps, lastActive : Times, warned : BOOLEAN,
                todo : SUBSET Documents, failed : BOOLEAN]

\* The document a request holds was created, and an upload holds one.
HoldsCreated(r) ==
    /\ requests[r].doc <= created
    /\ requests[r].pc \in {"put", "abandon"} => requests[r].doc # NoDocument

TypeOK ==
    /\ now \in Times
    /\ session \in [exists : BOOLEAN, lastActive : Times, warned : BOOLEAN]
    /\ created \in 0 .. MaxDocuments
    /\ docs \subseteq 1 .. created /\ objects \subseteq 1 .. created
    /\ requests \in [Requests -> RequestRecord]
    /\ \A r \in Requests : HoldsCreated(r)
    /\ sweepers \in [Sweepers -> SweepRecord]
    /\ exposed \subseteq Documents
    /\ ~session.exists => docs = {}

IdleRequest == [pc |-> "idle", time |-> 0, doc |-> NoDocument]
IdleSweeper == [pc |-> "idle", lastActive |-> 0, warned |-> FALSE, todo |-> {}, failed |-> FALSE]

Init ==
    /\ now = 0
    /\ session = [exists |-> TRUE, lastActive |-> 0, warned |-> FALSE]
    /\ docs = {} /\ objects = {} /\ created = 0 /\ exposed = {}
    /\ requests = [r \in Requests |-> IdleRequest]
    /\ sweepers = [s \in Sweepers |-> IdleSweeper]

\* The document's file is still to be stored.
Uploading(d) == \E r \in Requests : requests[r].pc = "put" /\ requests[r].doc = d

\* A deletion of the session that has its list of documents.
Deleting(s) == sweepers[s].pc \in {"objects", "row"}

\* An object is deleted: for good, unless it is stored afterwards.
Remove(d) ==
    /\ objects' = objects \ {d}
    /\ exposed' = IF Uploading(d) THEN exposed \cup {d} ELSE exposed

\* Session.Expired of a row created at 0.
Expired(lastActive, time) ==
    time >= HardCap \/ time - lastActive >= IdleTimeout

Tick ==
    /\ now < HardCap
    /\ now' = now + 1
    /\ UNCHANGED <<session, tenant, requests, sweepers>>

-----------------------------------------------------------------------------
(* Requests.                                                               *)

Goto(r, pc) == requests' = [requests EXCEPT ![r].pc = pc]
Finish(r) == requests' = [requests EXCEPT ![r] = IdleRequest]

\* GetByID; a visitor whose session is gone gets another one.
GetSession(r) ==
    /\ requests[r].pc = "idle"
    /\ session.exists
    /\ requests' = [requests EXCEPT ![r].pc = "check", ![r].time = session.lastActive]
    /\ UNCHANGED <<now, session, tenant, sweepers>>

\* The row read is compared with the time of day, which Touch will write.
CheckExpired(r) ==
    /\ requests[r].pc = "check"
    /\ IF Expired(requests[r].time, now)
       THEN Finish(r)
       ELSE requests' = [requests EXCEPT ![r].pc = "touch", ![r].time = now]
    /\ UNCHANGED <<now, session, tenant, sweepers>>

\* A failed Touch, or one that finds no row, is logged and passed over.
Touch(r) ==
    /\ requests[r].pc = "touch"
    /\ \/ session' = [session EXCEPT !.lastActive =
                          IF session.exists THEN requests[r].time ELSE @]
       \/ UNCHANGED session
    /\ requests' = [requests EXCEPT ![r].pc = "handle", ![r].time = 0]
    /\ UNCHANGED <<now, tenant, sweepers>>

\* Any request that stores nothing, one for a knowledge base that is gone, a
\* cancelled one.
RequestEnds(r) ==
    /\ requests[r].pc \notin {"idle", "check", "touch"}
    /\ Finish(r)
    /\ UNCHANGED <<now, session, tenant, sweepers>>

\* Mutant: the quota check lets one document too many through.
CheckQuotaOffByOne(r) ==
    /\ requests[r].pc = "handle"
    /\ session.exists
    /\ Cardinality(docs) <= MaxDocsPerSession
    /\ Goto(r, "create")
    /\ UNCHANGED <<now, session, tenant, sweepers>>

\* upload: the quota, read from the rows.
CheckQuota(r) ==
    /\ requests[r].pc = "handle"
    /\ session.exists
    /\ Cardinality(docs) < MaxDocsPerSession
    /\ Goto(r, "create")
    /\ UNCHANGED <<now, session, tenant, sweepers>>

\* The foreign keys refuse the row of a session that is gone.  A deletion
\* that has its list does not know of this document.
CreateRow(r) ==
    /\ requests[r].pc = "create"
    /\ session.exists
    /\ created < MaxDocuments
    /\ created' = created + 1
    /\ docs' = docs \cup {created'}
    /\ exposed' = IF \E s \in Sweepers : Deleting(s) THEN exposed \cup {created'} ELSE exposed
    /\ requests' = [requests EXCEPT ![r].pc = "put", ![r].doc = created']
    /\ UNCHANGED <<now, session, objects, sweepers>>

Put(r) ==
    /\ requests[r].pc = "put"
    /\ objects' = objects \cup {requests[r].doc}
    /\ Finish(r)
    /\ UNCHANGED <<now, session, docs, created, exposed, sweepers>>

\* scans.Begin or Put fails; Put may have taken effect all the same.
PutFails(r) ==
    /\ requests[r].pc = "put"
    /\ \/ UNCHANGED <<objects, exposed>>
       \/ /\ objects' = objects \cup {requests[r].doc}
          /\ exposed' = exposed \cup {requests[r].doc}
    /\ Goto(r, "abandon")
    /\ UNCHANGED <<now, session, docs, created, sweepers>>

\* abandonUpload; when its Delete fails too, the row stays, marked failed.
AbandonUpload(r) ==
    /\ requests[r].pc = "abandon"
    /\ docs' \in {docs, docs \ {requests[r].doc}}
    /\ Finish(r)
    /\ UNCHANGED <<now, session, objects, created, exposed, sweepers>>

\* delete: refused while the document's malware scan is pending.  The scan may
\* time out and fail the document while its file is still being stored
\* (DocumentLifecycle has the scan), so any document may be deleted.
DeleteBegin(r) ==
    /\ requests[r].pc = "handle"
    /\ \E d \in docs :
         requests' = [requests EXCEPT ![r].pc = "deleteObject", ![r].doc = d]
    /\ UNCHANGED <<now, session, tenant, sweepers>>

DeleteObject(r) ==
    /\ requests[r].pc = "deleteObject"
    /\ Remove(requests[r].doc)
    /\ Goto(r, "deleteRow")
    /\ UNCHANGED <<now, session, docs, created, sweepers>>

DeleteRow(r) ==
    /\ requests[r].pc = "deleteRow"
    /\ docs' = docs \ {requests[r].doc}
    /\ Finish(r)
    /\ UNCHANGED <<now, session, objects, created, exposed, sweepers>>

\* A knowledge base is deleted, and by cascade the rows of its documents K;
\* their objects are not.
DeleteKB(r) ==
    /\ requests[r].pc = "handle"
    /\ \E K \in SUBSET docs \ {{}} :
         /\ docs' = docs \ K
         /\ exposed' = exposed \cup K
    /\ Finish(r)
    /\ UNCHANGED <<now, session, objects, created, sweepers>>

Request(r) ==
    \/ GetSession(r) \/ CheckExpired(r) \/ Touch(r) \/ RequestEnds(r)
    \/ CheckQuota(r) \/ CreateRow(r) \/ Put(r) \/ PutFails(r) \/ AbandonUpload(r)
    \/ DeleteBegin(r) \/ DeleteObject(r) \/ DeleteRow(r) \/ DeleteKB(r)

-----------------------------------------------------------------------------
(* Cleanup runs.                                                           *)

SweepGoto(s, pc) == sweepers' = [sweepers EXCEPT ![s].pc = pc]

\* Mutant: the errors of a session are not cleared for the next run.
SweepEndKeepsFailed(s) ==
    sweepers' = [sweepers EXCEPT ![s] = [IdleSweeper EXCEPT !.failed = sweepers[s].failed]]

SweepEnd(s) == sweepers' = [sweepers EXCEPT ![s] = IdleSweeper]

\* ListForSweep: the row as of now; the decision comes later.
SweepSnapshot(s) ==
    /\ sweepers[s].pc = "idle"
    /\ session.exists
    /\ sweepers' = [sweepers EXCEPT ![s].pc = "decide",
                                    ![s].lastActive = session.lastActive,
                                    ![s].warned = session.warned]
    /\ UNCHANGED <<now, session, tenant, requests>>

WarningDue(lastActive, time) ==
    \/ HardCap - time <= WarningLeadTime
    \/ IdleTimeout - (time - lastActive) <= WarningLeadTime

\* Mutant: a session already warned is deleted once it is in the warning window.
SweepDecideWarned(s) ==
    /\ sweepers[s].pc = "decide"
    /\ LET seen == sweepers[s] IN
       IF WarningDue(seen.lastActive, now)
       THEN IF seen.warned \/ Expired(seen.lastActive, now)
            THEN sweepers' = [sweepers EXCEPT ![s].pc = "list", ![s].warned = FALSE]
            ELSE SweepGoto(s, "warn")
       ELSE SweepEnd(s)
    /\ UNCHANGED <<now, session, tenant, requests>>

SweepDecide(s) ==
    /\ sweepers[s].pc = "decide"
    /\ LET seen == sweepers[s] IN
       IF Expired(seen.lastActive, now)
       THEN sweepers' = [sweepers EXCEPT ![s].pc = "list", ![s].warned = FALSE]
       ELSE IF ~seen.warned /\ WarningDue(seen.lastActive, now) THEN SweepGoto(s, "warn")
       ELSE SweepEnd(s)
    /\ UNCHANGED <<now, session, tenant, requests>>

SweepWarn(s) ==
    /\ sweepers[s].pc = "warn"
    /\ session' = [session EXCEPT !.warned = @ \/ session.exists]
    /\ SweepEnd(s)
    /\ UNCHANGED <<now, tenant, requests>>

\* Deleter.Delete: the documents whose objects it will delete.
SweepListDocs(s) ==
    /\ sweepers[s].pc = "list"
    /\ sweepers' = [sweepers EXCEPT ![s].pc = "objects", ![s].todo = docs]
    /\ UNCHANGED <<now, session, tenant, requests>>

SweepDeleteObject(s) ==
    /\ sweepers[s].pc = "objects"
    /\ \E d \in sweepers[s].todo :
         /\ Remove(d)
         /\ sweepers' = [sweepers EXCEPT ![s].todo = @ \ {d}]
    /\ UNCHANGED <<now, session, docs, created, requests>>

SweepObjectFails(s) ==
    /\ sweepers[s].pc = "objects"
    /\ \E d \in sweepers[s].todo :
         sweepers' = [sweepers EXCEPT ![s].todo = @ \ {d}, ![s].failed = TRUE]
    /\ UNCHANGED <<now, session, tenant, requests>>

\* Mutant: the row is deleted although an object was not.
SweepObjectsDoneAnyway(s) ==
    /\ sweepers[s].pc = "objects"
    /\ sweepers[s].todo = {}
    /\ SweepGoto(s, "row")
    /\ UNCHANGED <<now, session, tenant, requests>>

\* Any failed deletion keeps the row, for the next run.
SweepObjectsDone(s) ==
    /\ sweepers[s].pc = "objects"
    /\ sweepers[s].todo = {}
    /\ IF sweepers[s].failed THEN SweepEnd(s) ELSE SweepGoto(s, "row")
    /\ UNCHANGED <<now, session, tenant, requests>>

\* Mutant: the foreign keys do not cascade.
SweepDeleteRowKeepsDocs(s) ==
    /\ sweepers[s].pc = "row"
    /\ session' = [session EXCEPT !.exists = FALSE]
    /\ SweepEnd(s)
    /\ UNCHANGED <<now, tenant, requests>>

\* The deletion cascades to the documents' rows.
SweepDeleteRow(s) ==
    /\ sweepers[s].pc = "row"
    /\ session' = [session EXCEPT !.exists = FALSE]
    /\ docs' = {}
    /\ SweepEnd(s)
    /\ UNCHANGED <<now, objects, created, exposed, requests>>

\* A call to Postgres fails, or the task is killed.
SweepLost(s) ==
    /\ sweepers[s].pc # "idle"
    /\ SweepEnd(s)
    /\ UNCHANGED <<now, session, tenant, requests>>

Sweep(s) ==
    \/ SweepSnapshot(s) \/ SweepDecide(s) \/ SweepWarn(s) \/ SweepListDocs(s)
    \/ SweepDeleteObject(s) \/ SweepObjectsDone(s) \/ SweepDeleteRow(s)

SweepFails(s) == SweepObjectFails(s) \/ SweepLost(s)

Next ==
    \/ Tick
    \/ \E r \in Requests : Request(r)
    \/ \E s \in Sweepers : Sweep(s) \/ SweepFails(s)

Spec == Init /\ [][Next]_vars

\* Time passes, the scheduler starts cleanup runs and Fargate runs them.
FairSpec ==
    /\ Spec
    /\ WF_vars(Tick)
    /\ \A s \in Sweepers : WF_vars(Sweep(s))

-----------------------------------------------------------------------------
(* Properties.                                                             *)

\* A file is always reachable from a row, so that the cleanup or its owner can
\* delete it.  Deleter.Delete promises it for its own failures
\* (account.go:38-41).  Only these documents are excused: one created behind
\* the list of a deletion of the session; one whose object was deleted, by its
\* owner or with the session, before it was stored; one that went with its
\* knowledge base; and one whose Put failed and stored the file all the same.
ObjectsTracked == \A d \in objects : d \in docs \/ d \in exposed

\* The requests that passed the quota check and did not store their row yet.
Admitted == {r \in Requests : requests[r].pc = "create"}

\* The quota is checked in one call and used in another (dochandler.go:135,
\* 185): requests that pass it together each store a document.  The documents
\* there are, and those let through, exceed it by at most one for each request
\* but one, although MaxDocumentsPerSession "caps the number of documents a
\* single session may upload" (server.go:87).
QuotaExcessBounded ==
    Cardinality(docs) + Cardinality(Admitted) <= MaxDocsPerSession + Cardinality(Requests) - 1

\* The sweep deletes a session only when its clocks ran out, or when a request
\* that had passed the expiry check wrote its time after the list was read
\* (sweep.go:54-65 against middleware.go:81-84).
SparesActiveSession ==
    [][session.exists /\ ~session'.exists =>
         \/ Expired(session.lastActive, now)
         \/ \E s \in Sweepers : /\ sweepers[s].pc = "row"
                                /\ sweepers[s].lastActive # session.lastActive]_vars

\* Once cleanup runs stop failing, the session is deleted (sweep.go:47,
\* "self-healing if a run is missed"), whatever failed before and whatever
\* requests are in progress.
\* (A step that is the end of a run like any other is not a failure.)
FailuresEnd == <>[][\A s \in Sweepers : SweepFails(s) => Sweep(s)]_vars
SessionIsSwept == FailuresEnd => <>~session.exists
=============================================================================
