------------------------ MODULE SessionSweepProofs ------------------------
(***************************************************************************)
(* What holds of SessionSweep for every number of requests, cleanup runs   *)
(* and documents, every quota and every choice of the clocks.              *)
(***************************************************************************)
EXTENDS SessionSweep, FiniteSetTheorems, TLAPS

(***************************************************************************)
(* Types                                                                   *)
(***************************************************************************)
LEMMA InitTyped == Init => TypeOK
  <1> SUFFICES ASSUME Init PROVE TypeOK
    OBVIOUS
  <1>1. requests \in [Requests -> RequestRecord]
    BY MaxDocumentsIsNat, ClocksAreTimes
    DEF Init, IdleRequest, RequestRecord, RequestSteps, Times, NoDocument
  <1>2. sweepers \in [Sweepers -> SweepRecord]
    BY ClocksAreTimes DEF Init, IdleSweeper, SweepRecord, SweepSteps, Times
  <1>3. session \in [exists : BOOLEAN, lastActive : Times, warned : BOOLEAN]
    BY ClocksAreTimes DEF Init, Times
  <1>4. /\ now \in Times /\ created \in 0 .. MaxDocuments
        /\ docs = {} /\ objects = {} /\ exposed = {}
    BY ClocksAreTimes, MaxDocumentsIsNat
    DEF Init, Times
  <1>5. \A r \in Requests : requests[r].doc = 0 /\ requests[r].pc = "idle"
    BY DEF Init, IdleRequest, NoDocument
  <1>6. \A r \in Requests : HoldsCreated(r)
    BY <1>4, <1>5 DEF HoldsCreated
  <1>7. docs \subseteq 1 .. created /\ objects \subseteq 1 .. created
    BY <1>4
  <1>8. QED BY <1>1, <1>2, <1>3, <1>4, <1>6, <1>7 DEF TypeOK

\* Every request stays a request.
LEMMA RequestTyped ==
  ASSUME TypeOK, NEW r \in Requests, Request(r)
  PROVE  requests' \in [Requests -> RequestRecord]
  <1> DEFINE RT == [Requests -> RequestRecord]
  <1> USE ClocksAreTimes, MaxDocumentsIsNat DEF Times, NoDocument, Documents
  <1>1. requests \in RT /\ now \in Times /\ session.lastActive \in Times
    BY DEF TypeOK
  <1>2. ASSUME NEW pc \in RequestSteps, Goto(r, pc) PROVE requests' \in RT
    BY <1>1, <1>2 DEF Goto, RequestRecord
  <1>3. ASSUME Finish(r) PROVE requests' \in RT
    BY <1>1, <1>3 DEF Finish, RequestRecord, IdleRequest, RequestSteps
  <1>4. ASSUME NEW pc \in RequestSteps, NEW t \in Times,
               requests' = [requests EXCEPT ![r].pc = pc, ![r].time = t]
        PROVE  requests' \in RT
    BY <1>1, <1>4 DEF RequestRecord
  <1>5. ASSUME NEW pc \in RequestSteps, NEW d \in NoDocument .. MaxDocuments,
               requests' = [requests EXCEPT ![r].pc = pc, ![r].doc = d]
        PROVE  requests' \in RT
    BY <1>1, <1>5 DEF RequestRecord
  <1>6. CASE GetSession(r)
    <2>1. requests' = [requests EXCEPT ![r].pc = "check", ![r].time = session.lastActive]
      BY <1>6 DEF GetSession
    <2>2. "check" \in RequestSteps
      BY DEF RequestSteps
    <2>3. QED BY <1>1, <1>4, <2>1, <2>2
  <1>7. CASE CheckExpired(r)
    BY <1>1, <1>3, <1>4, <1>7 DEF CheckExpired, RequestSteps
  <1>8. CASE Touch(r)
    <2>1. requests' = [requests EXCEPT ![r].pc = "handle", ![r].time = 0]
      BY <1>8 DEF Touch
    <2>2. "handle" \in RequestSteps /\ 0 \in Times
      BY DEF RequestSteps
    <2>3. QED BY <1>4, <2>1, <2>2
  <1>9. CASE CheckQuota(r) \/ DeleteObject(r) \/ PutFails(r)
    <2>1. PICK pc \in RequestSteps : Goto(r, pc)
      <3>1. {"create", "deleteRow", "abandon"} \subseteq RequestSteps
        BY DEF RequestSteps
      <3>2. QED BY <1>9, <3>1 DEF CheckQuota, DeleteObject, PutFails
    <2>2. QED BY <1>2, <2>1
  <1>10. CASE CreateRow(r)
    <2>1. created' \in NoDocument .. MaxDocuments
      BY <1>10 DEF CreateRow, TypeOK
    <2>2. QED BY <1>5, <1>10, <2>1 DEF CreateRow, RequestSteps
  <1>11. CASE DeleteBegin(r)
    <2>1. docs \subseteq NoDocument .. MaxDocuments
      BY DEF TypeOK
    <2>2. QED BY <1>5, <1>11, <2>1 DEF DeleteBegin, RequestSteps
  <1>12. CASE RequestEnds(r) \/ Put(r) \/ AbandonUpload(r) \/ DeleteRow(r) \/ DeleteKB(r)
    BY <1>3, <1>12 DEF RequestEnds, Put, AbandonUpload, DeleteRow, DeleteKB
  <1>13. QED
    BY <1>6, <1>7, <1>8, <1>9, <1>10, <1>11, <1>12 DEF Request

\* Every cleanup run stays a cleanup run.
LEMMA SweepTyped ==
  ASSUME TypeOK, NEW s \in Sweepers, Sweep(s) \/ SweepFails(s)
  PROVE  sweepers' \in [Sweepers -> SweepRecord]
  <1> DEFINE ST == [Sweepers -> SweepRecord]
  <1> USE ClocksAreTimes DEF Times
  <1>1. /\ sweepers \in ST
        /\ session.lastActive \in Times /\ session.warned \in BOOLEAN
        /\ docs \subseteq Documents
    BY MaxDocumentsIsNat DEF TypeOK, Documents
  <1>2. ASSUME NEW pc \in SweepSteps, SweepGoto(s, pc) PROVE sweepers' \in ST
    BY <1>1, <1>2 DEF SweepGoto, SweepRecord
  <1>3. ASSUME SweepEnd(s) PROVE sweepers' \in ST
    BY <1>1, <1>3 DEF SweepEnd, SweepRecord, IdleSweeper, SweepSteps
  <1>4. CASE SweepSnapshot(s)
    <2> DEFINE snapshot == [sweepers[s] EXCEPT !.pc = "decide", !.lastActive = session.lastActive,
                                               !.warned = session.warned]
    <2>1. "decide" \in SweepSteps /\ sweepers[s] \in SweepRecord
      BY <1>1 DEF SweepSteps
    <2>2. snapshot \in SweepRecord
      BY <1>1, <2>1 DEF SweepRecord
    <2>3. sweepers' = [sweepers EXCEPT ![s] = snapshot]
      BY <1>1, <1>4 DEF SweepSnapshot
    <2> HIDE DEF snapshot
    <2>4. QED BY <1>1, <2>2, <2>3
  <1>5. CASE SweepDecide(s)
    <2>1. CASE sweepers' = [sweepers EXCEPT ![s].pc = "list", ![s].warned = FALSE]
      <3>1. [sweepers[s] EXCEPT !.pc = "list", !.warned = FALSE] \in SweepRecord
        BY <1>1 DEF SweepRecord, SweepSteps
      <3>2. QED BY <1>1, <2>1, <3>1
    <2>2. QED BY <1>2, <1>3, <1>5, <2>1 DEF SweepDecide, SweepSteps
  <1>6. CASE SweepListDocs(s)
    <2>1. [sweepers[s] EXCEPT !.pc = "objects", !.todo = docs] \in SweepRecord
      BY <1>1 DEF SweepRecord, SweepSteps
    <2>2. sweepers' = [sweepers EXCEPT ![s] = [@ EXCEPT !.pc = "objects", !.todo = docs]]
      BY <1>1, <1>6 DEF SweepListDocs
    <2>3. QED BY <1>1, <2>1, <2>2
  <1>7. CASE SweepDeleteObject(s)
    BY <1>1, <1>7 DEF SweepDeleteObject, SweepRecord
  <1>8. CASE SweepObjectFails(s)
    <2>1. PICK d \in sweepers[s].todo :
            sweepers' = [sweepers EXCEPT ![s].todo = @ \ {d}, ![s].failed = TRUE]
      BY <1>8 DEF SweepObjectFails
    <2>2. ASSUME NEW b \in BOOLEAN, NEW left \in SUBSET Documents,
                 sweepers' = [sweepers EXCEPT ![s].todo = left, ![s].failed = b]
          PROVE  sweepers' \in ST
      BY <1>1, <2>2 DEF SweepRecord
    <2>3. sweepers[s].todo \ {d} \in SUBSET Documents
      BY <1>1 DEF SweepRecord
    <2>4. QED BY <2>1, <2>2, <2>3
  <1>9. CASE SweepObjectsDone(s)
    BY <1>2, <1>3, <1>9 DEF SweepObjectsDone, SweepSteps
  <1>10. CASE SweepWarn(s) \/ SweepDeleteRow(s) \/ SweepLost(s)
    BY <1>3, <1>10 DEF SweepWarn, SweepDeleteRow, SweepLost
  <1>11. QED
    BY <1>4, <1>5, <1>6, <1>7, <1>8, <1>9, <1>10 DEF Sweep, SweepFails

\* That goes on for the documents requests hold.
LEMMA HeldTyped ==
  ASSUME TypeOK, NEW r \in Requests, Request(r), NEW q \in Requests
  PROVE  HoldsCreated(q)'
  <1> USE DEF TypeOK, HoldsCreated, NoDocument, RequestRecord
  <1>0. created \in Nat /\ docs \subseteq 1 .. created /\ HoldsCreated(q)
    BY MaxDocumentsIsNat
  <1>1. CASE GetSession(r)
    BY <1>0, <1>1 DEF GetSession, tenant
  <1>2. CASE CheckExpired(r)
    BY <1>0, <1>2 DEF CheckExpired, Finish, IdleRequest, tenant
  <1>3. CASE Touch(r)
    BY <1>0, <1>3 DEF Touch, tenant
  <1>4. CASE RequestEnds(r) \/ Put(r) \/ AbandonUpload(r) \/ DeleteRow(r) \/ DeleteKB(r)
    <2>1. created' = created /\ Finish(r)
      BY <1>4 DEF RequestEnds, Put, AbandonUpload, DeleteRow, DeleteKB, tenant
    <2>2. QED BY <1>0, <2>1 DEF Finish, IdleRequest
  <1>5. CASE CheckQuota(r)
    BY <1>0, <1>5 DEF CheckQuota, Goto, tenant
  <1>6. CASE CreateRow(r)
    BY <1>0, <1>6 DEF CreateRow
  <1>7. CASE PutFails(r)
    BY <1>0, <1>7 DEF PutFails, Goto
  <1>8. CASE DeleteBegin(r)
    BY <1>0, <1>8 DEF DeleteBegin, tenant
  <1>9. CASE DeleteObject(r)
    BY <1>0, <1>9 DEF DeleteObject, Goto
  <1>10. QED
    BY <1>1, <1>2, <1>3, <1>4, <1>5, <1>6, <1>7, <1>8, <1>9 DEF Request

\* What becomes exposed as its object is deleted is a document.
LEMMA RemoveTyped ==
  ASSUME TypeOK, NEW d, Remove(d)
  PROVE  exposed' \subseteq Documents /\ objects' \subseteq objects
  <1>1. Uploading(d) => d \in Documents
    BY MaxDocumentsIsNat
    DEF Uploading, TypeOK, HoldsCreated, RequestRecord, NoDocument, Documents
  <1>2. QED BY <1>1 DEF Remove, TypeOK

LEMMA TypingNext == TypeOK /\ [Next]_vars => TypeOK'
  <1> SUFFICES ASSUME TypeOK, [Next]_vars PROVE TypeOK'
    OBVIOUS
  <1> USE MaxDocumentsIsNat
      DEF TypeOK, HoldsCreated, NoDocument, tenant, Documents, Times
  <1>1. CASE Tick
    BY <1>1, ClocksAreTimes DEF Tick
  <1>2. ASSUME NEW r \in Requests, Request(r) PROVE TypeOK'
    <2>1. requests' \in [Requests -> RequestRecord]
      BY <1>2, RequestTyped
    <2>2. /\ \A q \in Requests : HoldsCreated(q)'
          /\ requests[r].time \in Times
          /\ requests[r].pc \in {"put", "abandon"} =>
                 requests[r].doc \in 1 .. created /\ requests[r].doc \in Documents
      BY <1>2, HeldTyped DEF RequestRecord, NoDocument
    <2>3. CASE GetSession(r) \/ CheckExpired(r) \/ RequestEnds(r) \/ CheckQuota(r)
               \/ DeleteBegin(r)
      BY <2>1, <2>2, <2>3 DEF GetSession, CheckExpired, RequestEnds, CheckQuota, DeleteBegin
    <2>4. CASE Touch(r)
      BY <2>1, <2>2, <2>4 DEF Touch
    <2>5. CASE CreateRow(r)
      BY <2>1, <2>2, <2>5 DEF CreateRow
    <2>6. CASE Put(r)
      BY <2>1, <2>2, <2>6 DEF Put
    <2>7. CASE PutFails(r)
      BY <2>1, <2>2, <2>7 DEF PutFails
    <2>8. CASE AbandonUpload(r)
      BY <2>1, <2>2, <2>8 DEF AbandonUpload
    <2>9. CASE DeleteObject(r)
      BY <2>1, <2>2, <2>9, RemoveTyped DEF DeleteObject
    <2>10. CASE DeleteRow(r)
      BY <2>1, <2>2, <2>10 DEF DeleteRow
    <2>11. CASE DeleteKB(r)
      BY <2>1, <2>2, <2>11 DEF DeleteKB
    <2>12. QED
      BY <1>2, <2>3, <2>4, <2>5, <2>6, <2>7, <2>8, <2>9, <2>10, <2>11 DEF Request
  <1>3. ASSUME NEW s \in Sweepers, Sweep(s) \/ SweepFails(s) PROVE TypeOK'
    <2>1. sweepers' \in [Sweepers -> SweepRecord]
      BY <1>3, SweepTyped
    <2>2. CASE SweepSnapshot(s) \/ SweepDecide(s) \/ SweepListDocs(s)
               \/ SweepObjectFails(s) \/ SweepObjectsDone(s) \/ SweepLost(s)
      BY <2>1, <2>2 DEF SweepSnapshot, SweepDecide, SweepListDocs, SweepObjectFails,
                        SweepObjectsDone, SweepLost
    <2>3. CASE SweepWarn(s)
      BY <2>1, <2>3 DEF SweepWarn
    <2>4. CASE SweepDeleteObject(s)
      BY <2>1, <2>4, RemoveTyped DEF SweepDeleteObject
    <2>5. CASE SweepDeleteRow(s)
      BY <2>1, <2>5 DEF SweepDeleteRow
    <2>6. QED
      BY <1>3, <2>2, <2>3, <2>4, <2>5 DEF Sweep, SweepFails
  <1>4. CASE UNCHANGED vars
    BY <1>4 DEF vars
  <1>5. QED
    BY <1>1, <1>2, <1>3, <1>4 DEF Next

\* The types of the variables, among them: a session that is gone has no
\* documents (the cascade of the migrations).
THEOREM Typing == Spec => []TypeOK
  BY InitTyped, TypingNext, PTL DEF Spec

(***************************************************************************)
(* The quota                                                               *)
(***************************************************************************)

LEMMA Sizes ==
  ASSUME TypeOK
  PROVE  /\ IsFiniteSet(docs) /\ Cardinality(docs) \in Nat
         /\ IsFiniteSet(Admitted) /\ Cardinality(Admitted) \in Nat
         /\ Cardinality(Requests) \in Nat
         /\ Cardinality(Admitted) <= Cardinality(Requests)
  <1>1. IsFiniteSet(1 .. created) /\ docs \in SUBSET (1 .. created)
    BY FS_Interval, MaxDocumentsIsNat DEF TypeOK
  <1>2. IsFiniteSet(docs)
    BY <1>1, FS_Subset
  <1>3. Admitted \in SUBSET Requests
    BY DEF Admitted
  <1>4. IsFiniteSet(Admitted) /\ Cardinality(Admitted) <= Cardinality(Requests)
    BY <1>3, RequestsAreFinite, FS_Subset
  <1>5. QED BY <1>2, <1>4, RequestsAreFinite, FS_CardinalityType

\* A step that adds neither a document nor an admitted request keeps it.
LEMMA QuotaShrinks ==
  ASSUME TypeOK, TypeOK', QuotaExcessBounded, docs' \subseteq docs, Admitted' \subseteq Admitted
  PROVE  QuotaExcessBounded'
  <1>1. Cardinality(docs') <= Cardinality(docs)
    BY Sizes, FS_Subset
  <1>2. Cardinality(Admitted') <= Cardinality(Admitted)
    BY Sizes, FS_Subset
  <1>3. Cardinality(docs') \in Nat /\ Cardinality(Admitted') \in Nat
    <2>1. IsFiniteSet(docs') /\ IsFiniteSet(Admitted')
      BY Sizes, FS_Subset
    <2>2. QED BY <2>1, FS_CardinalityType
  <1>4. QED BY <1>1, <1>2, <1>3, Sizes, MaxDocsIsPositive DEF QuotaExcessBounded

LEMMA QuotaNext ==
  ASSUME TypeOK, TypeOK', [Next]_vars, QuotaExcessBounded
  PROVE  QuotaExcessBounded'
  <1>1. ASSUME docs' \subseteq docs, requests' = requests PROVE QuotaExcessBounded'
    BY <1>1, QuotaShrinks DEF Admitted
  <1>2. ASSUME NEW r \in Requests, Request(r) PROVE QuotaExcessBounded'
    <2>1. requests \in [Requests -> RequestRecord]
      BY DEF TypeOK
    <2>2. ASSUME docs' \subseteq docs,
                 requests'[r].pc # "create", \A p \in Requests : p # r => requests'[p] = requests[p]
          PROVE  QuotaExcessBounded'
      <3>1. Admitted' \subseteq Admitted
        BY <2>2 DEF Admitted
      <3>2. QED BY <2>2, <3>1, QuotaShrinks
    <2>3. CASE GetSession(r)
      BY <2>1, <2>2, <2>3 DEF GetSession, tenant, RequestRecord
    <2>4. CASE CheckExpired(r)
      BY <2>1, <2>2, <2>4 DEF CheckExpired, Finish, IdleRequest, tenant, RequestRecord
    <2>5. CASE Touch(r)
      BY <2>1, <2>2, <2>5 DEF Touch, tenant, RequestRecord
    <2>6. CASE RequestEnds(r) \/ Put(r) \/ AbandonUpload(r) \/ DeleteRow(r) \/ DeleteKB(r)
      <3>1. docs' \subseteq docs /\ Finish(r)
        BY <2>6 DEF RequestEnds, Put, AbandonUpload, DeleteRow, DeleteKB, tenant
      <3>2. QED BY <2>1, <2>2, <3>1 DEF Finish, IdleRequest
    <2>7. CASE CheckQuota(r)
      <3>1. docs' = docs /\ Cardinality(docs) < MaxDocsPerSession
        BY <2>7 DEF CheckQuota, tenant
      <3>2. Admitted' \in SUBSET Requests
        BY DEF Admitted
      <3>3. Cardinality(Admitted') \in Nat /\ Cardinality(Admitted') <= Cardinality(Requests)
        BY <3>2, RequestsAreFinite, FS_Subset, FS_CardinalityType
      <3>4. QED BY <3>1, <3>3, Sizes, MaxDocsIsPositive DEF QuotaExcessBounded
    <2>8. CASE CreateRow(r)
      <3>1. /\ requests[r].pc = "create"
            /\ docs' = docs \cup {created + 1}
            /\ requests' = [requests EXCEPT ![r].pc = "put", ![r].doc = created']
        BY <2>8 DEF CreateRow
      <3>2. created + 1 \notin docs
        BY MaxDocumentsIsNat DEF TypeOK
      <3>3. Cardinality(docs') = Cardinality(docs) + 1
        BY <3>1, <3>2, Sizes, FS_AddElement
      <3>4. Admitted' = Admitted \ {r} /\ r \in Admitted
        BY <2>1, <3>1 DEF Admitted, RequestRecord
      <3>5. Cardinality(Admitted') = Cardinality(Admitted) - 1
        BY <3>4, Sizes, FS_RemoveElement
      <3>6. QED BY <3>3, <3>5, Sizes, MaxDocsIsPositive DEF QuotaExcessBounded
    <2>9. CASE PutFails(r)
      BY <2>1, <2>2, <2>9 DEF PutFails, Goto, RequestRecord
    <2>10. CASE DeleteBegin(r)
      BY <2>1, <2>2, <2>10 DEF DeleteBegin, tenant, RequestRecord
    <2>11. CASE DeleteObject(r)
      BY <2>1, <2>2, <2>11 DEF DeleteObject, Goto, RequestRecord
    <2>12. QED
      BY <1>2, <2>3, <2>4, <2>5, <2>6, <2>7, <2>8, <2>9, <2>10, <2>11 DEF Request
  <1>3. ASSUME NEW s \in Sweepers, Sweep(s) \/ SweepFails(s) PROVE QuotaExcessBounded'
    BY <1>1, <1>3
    DEF Sweep, SweepFails, SweepSnapshot, SweepDecide, SweepWarn, SweepListDocs,
        SweepDeleteObject, SweepObjectFails, SweepObjectsDone, SweepDeleteRow, SweepLost,
        tenant
  <1>4. CASE Tick \/ UNCHANGED vars
    BY <1>1, <1>4 DEF Tick, vars, tenant
  <1>5. QED BY <1>2, <1>3, <1>4 DEF Next

\* However many requests are in progress and whatever the quota, documents
\* exceed it by at most one for each request but one.
THEOREM QuotaExcess == Spec => []QuotaExcessBounded
  <1>1. Init => QuotaExcessBounded
    <2>1. SUFFICES ASSUME Init PROVE QuotaExcessBounded
      OBVIOUS
    <2>2. docs = {} /\ Admitted = {}
      BY <2>1, RequestsAreFinite DEF Init, Admitted, IdleRequest
    <2>3. Cardinality(docs) = 0 /\ Cardinality(Admitted) = 0
      BY <2>2, FS_EmptySet
    <2>4. QED BY <2>3, Sizes, InitTyped, <2>1, MaxDocsIsPositive DEF QuotaExcessBounded
  <1>2. TypeOK /\ TypeOK' /\ QuotaExcessBounded /\ [Next]_vars => QuotaExcessBounded'
    BY QuotaNext
  <1>3. QED BY <1>1, <1>2, Typing, PTL DEF Spec

(***************************************************************************)
(* Files that a row leads to                                               *)
(***************************************************************************)

\* There is a file of the document, or an upload will store one.
Kept(d) == d \in objects \/ Uploading(d)

\* Every document is uploaded once, and stored at the end of that.
UploadedOnce ==
  /\ \A r, q \in Requests :
         r # q /\ {requests[r].pc, requests[q].pc} \subseteq {"put", "abandon"} =>
             requests[q].doc # requests[r].doc
  /\ \A r \in Requests : requests[r].pc = "put" => requests[r].doc \notin objects

\* A file that is there, or will be, has a row.
KeptTracked == \A d \in Documents : Kept(d) => d \in docs \/ d \in exposed

\* The file is gone for good when an upload or a deletion takes the row away.
RowGoesLast ==
  \A r \in Requests : requests[r].pc \in {"abandon", "deleteRow"} =>
      ~Kept(requests[r].doc) \/ requests[r].doc \in exposed

\* So is every file when a cleanup run takes the session away.
SweepTracked ==
  \A s \in Sweepers :
      /\ sweepers[s].pc = "row" => ~sweepers[s].failed
      /\ Deleting(s) /\ ~sweepers[s].failed =>
             \A d \in Documents : Kept(d) =>
                 d \in exposed \/ (sweepers[s].pc = "objects" /\ d \in sweepers[s].todo)

TrackInv == UploadedOnce /\ KeptTracked /\ RowGoesLast /\ SweepTracked

\* A request that stores no document of its own, and takes no row from a file
\* without saying so, keeps the rows and the cleanup runs as they have to be.
LEMMA FilesKept ==
  ASSUME TrackInv, sweepers' = sweepers, exposed \subseteq exposed',
         \A d \in Documents : Kept(d)' => Kept(d),
         \A d \in Documents : d \in docs /\ d \notin docs' => ~Kept(d) \/ d \in exposed'
  PROVE  KeptTracked' /\ SweepTracked'
  <1>1. KeptTracked'
    BY DEF TrackInv, KeptTracked
  <1>2. SweepTracked'
    BY DEF TrackInv, SweepTracked, Deleting
  <1>3. QED BY <1>1, <1>2

\* A request that neither begins an upload nor ends a step of one.
LEMMA RequestQuiet ==
  ASSUME TypeOK, TrackInv, NEW r \in Requests,
         sweepers' = sweepers, objects' \subseteq objects, exposed \subseteq exposed',
         \A q \in Requests : q # r => requests'[q] = requests[q],
         requests'[r].pc \notin {"put", "abandon", "deleteRow"},
         \A d \in Documents : d \in docs /\ d \notin docs' => ~Kept(d) \/ d \in exposed'
  PROVE  TrackInv'
  <1>1. \A d : Kept(d)' => Kept(d)
    BY DEF Kept, Uploading
  <1>2. UploadedOnce'
    BY DEF TrackInv, UploadedOnce
  <1>3. RowGoesLast'
    BY <1>1 DEF TrackInv, RowGoesLast
  <1>4. QED BY <1>1, <1>2, <1>3, FilesKept DEF TrackInv

LEMMA RequestTracked ==
  ASSUME TypeOK, TrackInv, NEW r \in Requests, Request(r)
  PROVE  TrackInv'
  <1>1. /\ requests \in [Requests -> RequestRecord]
        /\ created \in Nat /\ created <= MaxDocuments
        /\ docs \subseteq 1 .. created /\ objects \subseteq 1 .. created
        /\ \A q \in Requests : HoldsCreated(q) /\ requests[q].doc \in Nat
        /\ UploadedOnce /\ KeptTracked /\ RowGoesLast /\ SweepTracked
    BY MaxDocumentsIsNat DEF TypeOK, RequestRecord, NoDocument, TrackInv
  <1>2. CASE GetSession(r)
    BY <1>1, <1>2, RequestQuiet DEF GetSession, tenant, RequestRecord
  <1>3. CASE CheckExpired(r)
    BY <1>1, <1>3, RequestQuiet DEF CheckExpired, Finish, IdleRequest, tenant, RequestRecord
  <1>4. CASE Touch(r)
    BY <1>1, <1>4, RequestQuiet DEF Touch, tenant, RequestRecord
  <1>5. CASE RequestEnds(r)
    BY <1>1, <1>5, RequestQuiet DEF RequestEnds, Finish, IdleRequest, tenant, RequestRecord
  <1>6. CASE CheckQuota(r)
    BY <1>1, <1>6, RequestQuiet DEF CheckQuota, Goto, tenant, RequestRecord
  <1>7. CASE DeleteBegin(r)
    BY <1>1, <1>7, RequestQuiet DEF DeleteBegin, tenant, RequestRecord
  <1>8. CASE CreateRow(r)
    <2>1. /\ \A q \in Requests : q # r => requests'[q] = requests[q]
          /\ UNCHANGED <<objects, sweepers>>
          /\ docs' = docs \cup {created + 1}
          /\ requests'[r].pc = "put"
          /\ requests'[r].doc = created + 1
          /\ exposed \subseteq exposed'
          /\ (\E s \in Sweepers : Deleting(s)) => created + 1 \in exposed'
      BY <1>1, <1>8 DEF CreateRow, RequestRecord
    <2>2. \A d : Kept(d)' => Kept(d) \/ d = created + 1
      BY <2>1 DEF Kept, Uploading
    <2>3. \A q \in Requests : requests[q].doc # created + 1
      BY <1>1 DEF HoldsCreated
    <2>4. UploadedOnce'
      BY <1>1, <2>1, <2>3 DEF UploadedOnce
    <2>5. KeptTracked'
      BY <1>1, <2>1, <2>2 DEF KeptTracked
    <2>6. RowGoesLast'
      BY <1>1, <2>1, <2>2, <2>3 DEF RowGoesLast
    <2>7. SweepTracked'
      BY <1>1, <2>1, <2>2 DEF SweepTracked, Deleting
    <2>8. QED BY <2>4, <2>5, <2>6, <2>7 DEF TrackInv
  <1>9. CASE Put(r)
    <2>1. /\ \A q \in Requests : q # r => requests'[q] = requests[q]
          /\ UNCHANGED <<docs, exposed, sweepers>>
          /\ requests[r].pc = "put"
          /\ objects' = objects \cup {requests[r].doc}
          /\ requests'[r].pc = "idle"
      BY <1>1, <1>9 DEF Put, Finish, IdleRequest, RequestRecord
    <2>2. \A d : Kept(d)' => Kept(d)
      BY <2>1 DEF Kept, Uploading
    <2>3. UploadedOnce'
      BY <1>1, <2>1 DEF UploadedOnce
    <2>4. RowGoesLast'
      BY <1>1, <2>1, <2>2 DEF RowGoesLast
    <2>5. QED BY <2>1, <2>2, <2>3, <2>4, FilesKept DEF TrackInv
  <1>10. CASE PutFails(r)
    <2>1. /\ \A q \in Requests : q # r => requests'[q] = requests[q]
          /\ UNCHANGED <<docs, sweepers>>
          /\ requests[r].pc = "put"
          /\ \/ UNCHANGED <<objects, exposed>>
             \/ /\ objects' = objects \cup {requests[r].doc}
                /\ exposed' = exposed \cup {requests[r].doc}
          /\ requests'[r].pc = "abandon"
          /\ requests'[r].doc = requests[r].doc
      BY <1>1, <1>10 DEF PutFails, Goto, RequestRecord
    <2>2. \A d : Kept(d)' => Kept(d)
      BY <2>1 DEF Kept, Uploading
    <2>3. UploadedOnce'
      BY <1>1, <2>1 DEF UploadedOnce
    <2>4. ~Kept(requests[r].doc)' \/ requests[r].doc \in exposed'
      BY <1>1, <2>1 DEF UploadedOnce, Kept, Uploading
    <2>5. RowGoesLast'
      BY <1>1, <2>1, <2>2, <2>4 DEF RowGoesLast
    <2>6. QED BY <2>1, <2>2, <2>3, <2>5, FilesKept DEF TrackInv
  <1>11. CASE AbandonUpload(r)
    <2>1. /\ requests[r].pc = "abandon" /\ requests'[r].pc = "idle"
          /\ docs' \in {docs, docs \ {requests[r].doc}}
      BY <1>1, <1>11 DEF AbandonUpload, Finish, IdleRequest
    <2>2. \A d \in docs : d \notin docs' => ~Kept(d) \/ d \in exposed'
      BY <1>1, <1>11, <2>1 DEF AbandonUpload, RowGoesLast
    <2>3. QED
      BY <1>1, <1>11, <2>1, <2>2, RequestQuiet DEF AbandonUpload, Finish
  <1>12. CASE DeleteObject(r)
    <2> DEFINE d0 == requests[r].doc
    <2>1. /\ \A q \in Requests : q # r => requests'[q] = requests[q]
          /\ UNCHANGED <<docs, sweepers>>
          /\ requests[r].pc = "deleteObject"
          /\ objects' = objects \ {d0}
          /\ exposed' = IF Uploading(d0) THEN exposed \cup {d0} ELSE exposed
          /\ requests'[r].pc = "deleteRow"
          /\ requests'[r].doc = d0
      BY <1>1, <1>12 DEF DeleteObject, Remove, Goto, RequestRecord
    <2>2. \A d : Uploading(d)' => Uploading(d)
      BY <2>1 DEF Uploading
    <2>3. \A d : Kept(d)' => Kept(d)
      BY <2>1, <2>2 DEF Kept
    <2>4. UploadedOnce'
      BY <1>1, <2>1 DEF UploadedOnce
    <2>5. ~Kept(d0)' \/ d0 \in exposed'
      BY <2>1, <2>2 DEF Kept
    <2>6. RowGoesLast'
      BY <1>1, <2>1, <2>3, <2>5 DEF RowGoesLast
    <2>7. QED BY <2>1, <2>3, <2>4, <2>6, FilesKept DEF TrackInv
  <1>13. CASE DeleteRow(r)
    <2>1. /\ requests[r].pc = "deleteRow" /\ requests'[r].pc = "idle"
          /\ docs' = docs \ {requests[r].doc}
      BY <1>1, <1>13 DEF DeleteRow, Finish, IdleRequest
    <2>2. \A d \in docs : d \notin docs' => ~Kept(d) \/ d \in exposed'
      BY <1>1, <1>13, <2>1 DEF DeleteRow, RowGoesLast
    <2>3. QED
      BY <1>1, <1>13, <2>1, <2>2, RequestQuiet DEF DeleteRow, Finish
  <1>14. CASE DeleteKB(r)
    <2>1. requests'[r].pc = "idle" /\ \A d \in docs : d \notin docs' => d \in exposed'
      BY <1>1, <1>14 DEF DeleteKB, Finish, IdleRequest
    <2>2. QED
      BY <1>1, <1>14, <2>1, RequestQuiet DEF DeleteKB, Finish
  <1>15. QED
    BY <1>2, <1>3, <1>4, <1>5, <1>6, <1>7, <1>8, <1>9, <1>10, <1>11, <1>12, <1>13, <1>14
    DEF Request

LEMMA CleanupTracked ==
  ASSUME TypeOK, TrackInv, NEW s \in Sweepers, Sweep(s) \/ SweepFails(s)
  PROVE  TrackInv'
  <1>1. /\ sweepers \in [Sweepers -> SweepRecord]
        /\ UploadedOnce /\ KeptTracked /\ RowGoesLast /\ SweepTracked
    BY DEF TypeOK, TrackInv
  <1>2. requests' = requests /\ exposed \subseteq exposed' /\ objects' \subseteq objects
    BY DEF Sweep, SweepFails, SweepSnapshot, SweepDecide, SweepWarn, SweepListDocs,
           SweepDeleteObject, Remove, SweepObjectFails, SweepObjectsDone, SweepDeleteRow,
           SweepLost, tenant
  <1>3. \A q \in Sweepers : q # s => sweepers'[q] = sweepers[q]
    BY <1>1 DEF Sweep, SweepFails, SweepSnapshot, SweepDecide, SweepWarn, SweepListDocs,
           SweepDeleteObject, SweepObjectFails, SweepObjectsDone, SweepDeleteRow, SweepLost,
           SweepGoto, SweepEnd
  <1>4. \A d : Kept(d)' => Kept(d)
    BY <1>2 DEF Kept, Uploading
  <1>5. UploadedOnce' /\ RowGoesLast'
    BY <1>1, <1>2, <1>4 DEF UploadedOnce, RowGoesLast
  \* The others are as before, so SweepTracked is about the run that steps.
  <1>6. ASSUME /\ sweepers'[s].pc = "row" => ~sweepers'[s].failed
               /\ Deleting(s)' /\ ~sweepers'[s].failed =>
                    \A d \in Documents : Kept(d)' =>
                        d \in exposed' \/ (sweepers'[s].pc = "objects" /\ d \in sweepers'[s].todo)
        PROVE  SweepTracked'
    BY <1>1, <1>2, <1>3, <1>4, <1>6 DEF SweepTracked, Deleting
  <1>7. ASSUME UNCHANGED docs PROVE KeptTracked'
    BY <1>1, <1>2, <1>4, <1>7 DEF KeptTracked
  <1>8. CASE SweepSnapshot(s) \/ SweepDecide(s) \/ SweepWarn(s) \/ SweepLost(s)
    <2>1. sweepers'[s].pc \notin {"objects", "row"} /\ UNCHANGED docs
      BY <1>1, <1>8 DEF SweepSnapshot, SweepDecide, SweepWarn, SweepLost, SweepEnd, SweepGoto,
                        IdleSweeper, SweepRecord, tenant
    <2>2. ~Deleting(s)' /\ sweepers'[s].pc # "row"
      BY <2>1 DEF Deleting
    <2>3. SweepTracked'
      BY <1>6, <2>2
    <2>4. QED BY <1>5, <1>7, <2>1, <2>3 DEF TrackInv
  <1>9. CASE SweepListDocs(s)
    <2>1. /\ sweepers'[s].pc = "objects" /\ sweepers'[s].todo = docs
          /\ UNCHANGED <<docs, exposed>>
      BY <1>1, <1>9 DEF SweepListDocs, SweepRecord, tenant
    <2>2. \A d \in Documents : Kept(d)' => d \in docs \/ d \in exposed
      BY <1>1, <1>4 DEF KeptTracked
    <2>3. SweepTracked'
      BY <1>6, <2>1, <2>2
    <2>4. QED BY <1>5, <1>7, <2>1, <2>3 DEF TrackInv
  <1>10. CASE SweepDeleteObject(s)
    <2>1. PICK d \in sweepers[s].todo :
            /\ Remove(d)
            /\ sweepers' = [sweepers EXCEPT ![s].todo = @ \ {d}]
      BY <1>10 DEF SweepDeleteObject
    <2>2. /\ sweepers'[s].pc = "objects" /\ sweepers[s].pc = "objects"
          /\ sweepers'[s].todo = sweepers[s].todo \ {d}
          /\ sweepers'[s].failed = sweepers[s].failed
          /\ UNCHANGED docs
      BY <1>1, <1>10, <2>1 DEF SweepDeleteObject, SweepRecord
    <2>3. ~Kept(d)' \/ d \in exposed'
      BY <1>2, <2>1 DEF Remove, Kept, Uploading
    <2>4. SweepTracked'
      BY <1>1, <1>2, <1>4, <1>6, <2>2, <2>3 DEF SweepTracked, Deleting
    <2>5. QED BY <1>5, <1>7, <2>2, <2>4 DEF TrackInv
  <1>11. CASE SweepObjectFails(s)
    <2>1. PICK d \in sweepers[s].todo :
            sweepers' = [sweepers EXCEPT ![s].todo = @ \ {d}, ![s].failed = TRUE]
      BY <1>11 DEF SweepObjectFails
    <2>2. sweepers[s] \in SweepRecord /\ s \in DOMAIN sweepers
      BY <1>1
    <2>3. sweepers'[s] = [sweepers[s] EXCEPT !.todo = @ \ {d}, !.failed = TRUE]
      BY <2>1, <2>2
    <2>4. sweepers'[s].pc = sweepers[s].pc /\ sweepers'[s].failed = TRUE
      BY <2>2, <2>3 DEF SweepRecord
    <2>5. sweepers[s].pc = "objects" /\ UNCHANGED docs
      BY <1>11 DEF SweepObjectFails, tenant
    <2>6. SweepTracked'
      BY <1>6, <2>4, <2>5
    <2>7. QED BY <1>5, <1>7, <2>5, <2>6 DEF TrackInv
  <1>12. CASE SweepObjectsDone(s)
    <2>1. /\ sweepers[s].pc = "objects" /\ sweepers[s].todo = {}
          /\ \/ sweepers'[s].pc = "idle"
             \/ ~sweepers[s].failed /\ sweepers'[s] = [sweepers[s] EXCEPT !.pc = "row"]
          /\ UNCHANGED <<docs, exposed>>
      BY <1>1, <1>12 DEF SweepObjectsDone, SweepGoto, SweepEnd, IdleSweeper, tenant
    <2>2. ASSUME ~sweepers[s].failed PROVE \A d \in Documents : Kept(d) => d \in exposed
      BY <1>1, <2>1, <2>2 DEF SweepTracked, Deleting
    <2>3. sweepers'[s].pc = "row" =>
            ~sweepers[s].failed /\ sweepers'[s].failed = sweepers[s].failed
      BY <1>1, <2>1 DEF SweepRecord
    <2>4. sweepers'[s].pc \in {"idle", "row"}
      BY <1>1, <2>1 DEF SweepRecord
    <2>5. SweepTracked'
      BY <1>2, <1>4, <1>6, <2>2, <2>3, <2>4 DEF Deleting
    <2>6. QED BY <1>5, <1>7, <2>1, <2>5 DEF TrackInv
  <1>13. CASE SweepDeleteRow(s)
    <2>1. /\ sweepers[s].pc = "row" /\ sweepers'[s].pc = "idle"
          /\ docs' = {} /\ exposed' = exposed
      BY <1>1, <1>13 DEF SweepDeleteRow, SweepEnd, IdleSweeper
    <2>2. SweepTracked'
      BY <1>6, <2>1 DEF Deleting
    <2>3. \A d \in Documents : Kept(d) => d \in exposed
      BY <1>1, <2>1 DEF SweepTracked, Deleting
    <2>4. KeptTracked'
      BY <1>4, <2>1, <2>3 DEF KeptTracked
    <2>5. QED BY <1>5, <2>2, <2>4 DEF TrackInv
  <1>14. QED
    BY <1>8, <1>9, <1>10, <1>11, <1>12, <1>13 DEF Sweep, SweepFails

\* A file has a row, unless its document was created behind the list of a
\* deletion of the session, lost its object before it was stored, went with
\* its knowledge base, or was stored by a Put that reported a failure.
THEOREM FilesTracked == Spec => []ObjectsTracked
  <1>1. Init => TrackInv
    BY DEF Init, IdleRequest, IdleSweeper, TrackInv, UploadedOnce, KeptTracked, Kept, Uploading,
           RowGoesLast, SweepTracked, Deleting
  <1>2. TypeOK /\ TrackInv /\ [Next]_vars => TrackInv'
    <2> SUFFICES ASSUME TypeOK, TrackInv, [Next]_vars PROVE TrackInv'
      OBVIOUS
    <2>1. ASSUME NEW r \in Requests, Request(r) PROVE TrackInv'
      BY <2>1, RequestTracked
    <2>2. ASSUME NEW s \in Sweepers, Sweep(s) \/ SweepFails(s) PROVE TrackInv'
      BY <2>2, CleanupTracked
    <2>3. CASE Tick \/ UNCHANGED vars
      <3>1. UNCHANGED <<docs, objects, requests, sweepers, exposed>>
        BY <2>3 DEF Tick, vars, tenant
      <3>2. QED
        BY <3>1 DEF TrackInv, UploadedOnce, KeptTracked, RowGoesLast, SweepTracked, Deleting,
                    Kept, Uploading
    <2>4. QED BY <2>1, <2>2, <2>3 DEF Next
  <1>3. TypeOK /\ TrackInv => ObjectsTracked
    BY MaxDocumentsIsNat DEF TypeOK, TrackInv, KeptTracked, Kept, ObjectsTracked, Documents
  <1>4. QED BY <1>1, <1>2, <1>3, Typing, PTL DEF Spec

(***************************************************************************)
(* Whom the sweep deletes                                                  *)
(***************************************************************************)

\* A cleanup run that deletes saw a session whose clocks had run out.
SweepDecided ==
  \A s \in Sweepers : sweepers[s].pc \in {"list", "objects", "row"} =>
      Expired(sweepers[s].lastActive, now)

\* Time makes nothing less expired.
LEMMA ExpiredStays ==
  ASSUME NEW last \in Times, NEW t \in Times, NEW u \in Times, t <= u, Expired(last, t)
  PROVE  Expired(last, u)
  BY ClocksAreTimes DEF Expired, Times

LEMMA DecidedNext ==
  ASSUME TypeOK, TypeOK', [Next]_vars, SweepDecided
  PROVE  SweepDecided'
  <1>1. /\ sweepers \in [Sweepers -> SweepRecord]
        /\ now \in Times /\ now' \in Times
    BY DEF TypeOK
  <1>2. ASSUME UNCHANGED sweepers, now <= now' PROVE SweepDecided'
    <2>1. SUFFICES ASSUME NEW s \in Sweepers, sweepers[s].pc \in {"list", "objects", "row"}
                   PROVE  Expired(sweepers[s].lastActive, now')
      BY <1>2 DEF SweepDecided
    <2>2. sweepers[s].lastActive \in Times /\ Expired(sweepers[s].lastActive, now)
      BY <1>1, <2>1 DEF SweepDecided, SweepRecord
    <2>3. QED BY <1>1, <1>2, <2>2, ExpiredStays
  <1>3. CASE Tick
    BY <1>1, <1>2, <1>3, ClocksAreTimes DEF Tick, Times
  <1>4. ASSUME NEW r \in Requests, Request(r) PROVE SweepDecided'
    <2>1. UNCHANGED <<now, sweepers>>
      BY <1>4 DEF Request, GetSession, CheckExpired, Touch, RequestEnds, CheckQuota, CreateRow,
                  Put, PutFails, AbandonUpload, DeleteBegin, DeleteObject, DeleteRow, DeleteKB
    <2>2. QED BY <2>1 DEF SweepDecided
  <1>5. ASSUME NEW s \in Sweepers, Sweep(s) \/ SweepFails(s) PROVE SweepDecided'
    <2>1. ASSUME now' = now, \A q \in Sweepers : q # s => sweepers'[q] = sweepers[q],
                 sweepers'[s].pc \in {"list", "objects", "row"} =>
                     Expired(sweepers'[s].lastActive, now)
          PROVE  SweepDecided'
      BY <2>1 DEF SweepDecided
    <2>2. CASE SweepSnapshot(s)
      BY <1>1, <2>1, <2>2 DEF SweepSnapshot, SweepRecord
    <2>3. CASE SweepDecide(s)
      <3>1. CASE Expired(sweepers[s].lastActive, now)
        BY <1>1, <2>1, <2>3, <3>1 DEF SweepDecide, SweepRecord
      <3>2. CASE ~Expired(sweepers[s].lastActive, now)
        BY <1>1, <2>1, <2>3, <3>2
        DEF SweepDecide, SweepGoto, SweepEnd, IdleSweeper, SweepRecord
      <3>3. QED BY <3>1, <3>2
    <2>4. CASE SweepWarn(s) \/ SweepDeleteRow(s) \/ SweepLost(s)
      <3>1. now' = now /\ SweepEnd(s)
        BY <2>4 DEF SweepWarn, SweepDeleteRow, SweepLost
      <3>2. QED BY <1>1, <2>1, <3>1 DEF SweepEnd, IdleSweeper
    <2>5. CASE SweepListDocs(s)
      BY <1>1, <2>1, <2>5 DEF SweepListDocs, SweepRecord, SweepDecided
    <2>6. CASE SweepDeleteObject(s)
      BY <1>1, <2>1, <2>6 DEF SweepDeleteObject, SweepRecord, SweepDecided
    <2>7. CASE SweepObjectFails(s)
      BY <1>1, <2>1, <2>7 DEF SweepObjectFails, SweepRecord, SweepDecided
    <2>8. CASE SweepObjectsDone(s)
      BY <1>1, <2>1, <2>8
      DEF SweepObjectsDone, SweepGoto, SweepEnd, IdleSweeper, SweepRecord, SweepDecided
    <2>9. QED
      BY <1>5, <2>2, <2>3, <2>4, <2>5, <2>6, <2>7, <2>8 DEF Sweep, SweepFails
  <1>6. CASE UNCHANGED vars
    BY <1>6 DEF vars, SweepDecided
  <1>7. QED BY <1>3, <1>4, <1>5, <1>6 DEF Next

\* A session is deleted only when its row shows it expired, or was touched
\* after the run that deletes it read the row.
THEOREM ActiveSpared == Spec => SparesActiveSession
  <1> DEFINE Spared ==
        session.exists /\ ~session'.exists =>
            \/ Expired(session.lastActive, now)
            \/ \E s \in Sweepers : /\ sweepers[s].pc = "row"
                                   /\ sweepers[s].lastActive # session.lastActive
  <1>1. Init => SweepDecided
    BY DEF Init, IdleSweeper, SweepDecided
  <1>2. TypeOK /\ SweepDecided /\ [Next]_vars => [Spared]_vars
    <2> SUFFICES ASSUME TypeOK, SweepDecided, Next, session.exists, ~session'.exists
                 PROVE  Spared
      BY DEF vars
    <2>1. session \in [exists : BOOLEAN, lastActive : Times, warned : BOOLEAN]
      BY DEF TypeOK
    <2>2. ASSUME NEW r \in Requests, Request(r) PROVE session'.exists = session.exists
      BY <2>1, <2>2 DEF Request, GetSession, CheckExpired, Touch, RequestEnds, CheckQuota,
         CreateRow, Put, PutFails, AbandonUpload, DeleteBegin, DeleteObject, DeleteRow, DeleteKB
    <2>3. PICK s \in Sweepers : Sweep(s) \/ SweepFails(s)
      BY <2>2 DEF Next, Tick
    <2>4. SweepDeleteRow(s)
      BY <2>1, <2>3 DEF Sweep, SweepFails, SweepSnapshot, SweepDecide, SweepWarn, SweepListDocs,
         SweepDeleteObject, SweepObjectFails, SweepObjectsDone, SweepLost
    <2>5. sweepers[s].pc = "row" /\ Expired(sweepers[s].lastActive, now)
      BY <2>4 DEF SweepDeleteRow, SweepDecided
    <2>6. QED BY <2>5
  <1>3. TypeOK /\ TypeOK' /\ SweepDecided /\ [Next]_vars => SweepDecided'
    BY DecidedNext
  <1>4. QED BY <1>1, <1>2, <1>3, Typing, PTL DEF Spec, SparesActiveSession
=============================================================================
