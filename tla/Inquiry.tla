------------------------------- MODULE Inquiry -------------------------------
(***************************************************************************)
(* The inquiry of one knowledge base: the turns a researcher's searches    *)
(* and re-evaluations append to it (server/searchhandler.go, inquiry).     *)
(*                                                                         *)
(* Every call to Postgres is a step, and AppendMessage's one statement is  *)
(* two: it reads the highest ordinal under its snapshot and inserts after, *)
(* where the unique index decides.  Retrieval and generation are one step. *)
(* Any call may fail; a client that went away is a request whose remaining *)
(* calls fail.                                                             *)
(***************************************************************************)
EXTENDS Integers, FiniteSets

CONSTANTS
    Requests,       \* requests handled at once; one follows another
    Queries,
    Docs,           \* documents ever uploaded; an id is never used again
    OldDoc,         \* the deleted document of a message in the old format
    NoMessage,      \* supersedes nothing
    NoQuery,
    MaxMessages     \* bound: no request begins when so many are stored

ASSUME OldDocIsGone == OldDoc \notin Docs
ASSUME NoMessageIsNoId == NoMessage \notin Nat     \* a null in the column
ASSUME MaxMessagesIsNat == MaxMessages \in Nat

VARIABLES
    kb,             \* does the knowledge base have a row?
    inquiry,        \* does its inquiry?
    docs,           \* "absent", "stored", "indexed" or "deleted"
    messages,       \* inquiry_messages
    requests

vars == <<kb, inquiry, docs, messages, requests>>

\* A user's message carries its query, an assistant's the query it answers
\* (the content is generated from it), the documents retrieved and cited, and
\* those whose names were stored with either.  `orderly` is history: the
\* search that asked stored its question, with no other request beside it.
Message(id, ordinal, role, query, retrieved, cited, named, supersedes, orderly) ==
    [id |-> id, ordinal |-> ordinal, role |-> role, query |-> query,
     retrieved |-> retrieved, retrievedNames |-> named \cap retrieved,
     cited |-> cited, citedNames |-> named \cap cited,
     supersedes |-> supersedes, orderly |-> orderly]

\* retrieved_documents was an array of ids before it carried names.
OldMessages(q) ==
    {Message(0, 0, "user", q, {}, {}, {}, NoMessage, TRUE),
     [Message(1, 1, "assistant", q, {OldDoc}, {OldDoc}, {OldDoc}, NoMessage, TRUE)
        EXCEPT !.retrievedNames = {}]}

IdleRequest ==
    [pc |-> "idle", kind |-> "search", query |-> NoQuery, target |-> NoMessage,
     names |-> {}, ordinal |-> 0, retrieved |-> {}, cited |-> {}, orderly |-> TRUE]

Steps == {"idle", "list", "names", "inquiry", "ask", "askInsert", "stream",
          "answer", "answerInsert"}

TypeOK ==
    /\ kb \in BOOLEAN /\ inquiry \in BOOLEAN
    /\ docs \in [Docs -> {"absent", "stored", "indexed", "deleted"}]
    /\ ~kb => ~inquiry /\ \A d \in Docs : docs[d] \in {"absent", "deleted"}
    /\ ~inquiry => messages = {}
    /\ \A m \in messages :
          /\ m.role \in {"user", "assistant"}
          /\ m.query \in Queries
          /\ m.cited \subseteq m.retrieved
          /\ m.role = "user" => m.retrieved = {} /\ m.supersedes = NoMessage
    /\ \A r \in Requests : requests[r].pc \in Steps

Init ==
    /\ kb = TRUE
    /\ docs \in [Docs -> {"absent", "indexed"}]
    /\ \/ inquiry = FALSE /\ messages = {}
       \/ inquiry = TRUE /\ \E q \in Queries : messages = OldMessages(q)
    /\ requests = [r \in Requests |-> IdleRequest]

-----------------------------------------------------------------------------
(* What a list of messages says                                            *)

\* ListMessages, ordered by ordinal.
Before(m) == {p \in messages : p.ordinal < m.ordinal}
ById(id) == {m \in messages : m.id = id}

\* Walk the supersedes chain to the original answer; a parent that is gone
\* ends it.
RootAmong(all, m) ==
    LET by(id) == {p \in all : p.id = id}
        root[n \in 0 .. Cardinality(all)] ==
            [id \in {p.id : p \in all} |->
                LET p == CHOOSE p \in by(id) : TRUE
                IN  IF n = 0 \/ by(p.supersedes) = {} THEN p ELSE root[n - 1][p.supersedes]]
    IN  root[Cardinality(all)][m.id]

RootOf(m) == RootAmong(messages, m)

\* Mutant: the latest question before the message re-evaluated.
QueryForNearest(m) ==
    LET users == {p \in Before(m) : p.role = "user"}
    IN  IF users = {} THEN NoQuery
        ELSE (CHOOSE p \in users : \A q \in users : q.ordinal <= p.ordinal).query

\* queryForReEvaluation: the question stored immediately before the root.
QueryFor(m) ==
    LET root == RootOf(m)
        prev == {p \in Before(root) : \A q \in Before(root) : q.ordinal <= p.ordinal}
    IN  IF m.role = "assistant" /\ \E p \in prev : p.role = "user"
        THEN (CHOOSE p \in prev : TRUE).query
        ELSE NoQuery

\* Mutant: names are looked up when the history is shown.
ShownLive(m) == [retrieved |-> {d \in m.retrieved \cap Docs : docs[d] # "deleted"},
                 cited |-> {d \in m.cited \cap Docs : docs[d] # "deleted"}]

\* Mutant: no fallback for messages in the old format.
ShownAsStored(m) == [retrieved |-> m.retrievedNames, cited |-> m.citedNames]

\* getInquiry, buildInquiryMessages: of each message the documents shown with
\* a name.  A citation's name
\* stands in for one that a retrieved document was stored without.
Shown(m) == [retrieved |-> m.retrievedNames \cup (m.retrieved \cap m.citedNames),
             cited |-> m.citedNames]

-----------------------------------------------------------------------------
(* Steps of a request                                                      *)

stored == <<kb, inquiry, docs, messages>>
At(r, pc) == requests[r].pc = pc
InProgress(r) == ~At(r, "idle")
Goto(r, pc) == requests' = [requests EXCEPT ![r].pc = pc]

\* Whatever the request ends with: a status, an error event, or an answer.
Finish(r) == requests' = [requests EXCEPT ![r] = IdleRequest]

\* A request begins; those in progress with it are no longer alone.
Begin(r, kind, pc, query) ==
    /\ ~InProgress(r)
    /\ kb
    /\ Cardinality(messages) < MaxMessages
    /\ LET others == {s \in Requests \ {r} : InProgress(s)}
           new == [IdleRequest EXCEPT !.pc = pc, !.kind = kind, !.query = query,
                                      !.orderly = (others = {})]
       IN  requests' = [s \in Requests |->
                           IF s = r THEN new
                           ELSE IF s \in others THEN [requests[s] EXCEPT !.orderly = FALSE]
                           ELSE requests[s]]
    /\ UNCHANGED stored

SearchBegin(r) == \E q \in Queries : Begin(r, "search", "names", q)

\* There is an inquiry to look in.
ReevaluateBegin(r) == inquiry /\ Begin(r, "reevaluate", "list", NoQuery)

\* ListMessages and queryForReEvaluation, of any message the client knows.
ReevaluateList(r) ==
    /\ At(r, "list")
    /\ \/ \E m \in messages :
             IF QueryFor(m) = NoQuery
             THEN Finish(r)
             ELSE requests' = [requests EXCEPT ![r].pc = "names", ![r].target = m.id,
                                               ![r].query = QueryFor(m)]
       \/ Finish(r)
    /\ UNCHANGED stored

\* Names are looked up once; without the lookup they stay blank.
FileNames(r) ==
    /\ At(r, "names")
    /\ \E names \in {{}, {d \in Docs : docs[d] \in {"stored", "indexed"}}} :
          requests' = [requests EXCEPT ![r].names = names,
              ![r].pc = IF requests[r].kind = "search" THEN "inquiry" ELSE "stream"]
    /\ UNCHANGED stored

\* Without an inquiry the search goes on, and stores nothing more.
GetOrCreate(r) ==
    /\ At(r, "inquiry")
    /\ \/ kb /\ inquiry' = TRUE /\ Goto(r, "ask")
       \/ Finish(r) /\ UNCHANGED inquiry
    /\ UNCHANGED <<kb, docs, messages>>

NextOrdinal == IF messages = {} THEN 0
               ELSE (CHOOSE m \in messages : \A p \in messages : p.ordinal <= m.ordinal).ordinal + 1

\* The question, or else the answer, is appended.
AppendRead(r) ==
    /\ requests[r].pc \in {"ask", "answer"}
    /\ requests' = [requests EXCEPT ![r].ordinal = NextOrdinal,
                                    ![r].pc = IF At(r, "ask") THEN "askInsert" ELSE "answerInsert"]
    /\ UNCHANGED stored

\* Mutant: no unique index.
InsertAnywhere(r, role) ==
    LET q == requests[r]
        id == Cardinality(messages)
    IN  /\ inquiry
        /\ messages' = messages \cup
              {IF role = "user"
               THEN Message(id, q.ordinal, role, q.query, {}, {}, {}, NoMessage, FALSE)
               ELSE Message(id, q.ordinal, role, q.query, q.retrieved, q.cited, q.names,
                            q.target, q.orderly)}

\* The unique index on the ordinal, and the foreign key.
Insert(r, role) ==
    LET q == requests[r]
        id == Cardinality(messages)
    IN  /\ inquiry
        /\ \A m \in messages : m.ordinal # q.ordinal
        /\ messages' = messages \cup
              {IF role = "user"
               THEN Message(id, q.ordinal, role, q.query, {}, {}, {}, NoMessage, FALSE)
               ELSE Message(id, q.ordinal, role, q.query, q.retrieved, q.cited, q.names,
                            q.target, q.orderly)}

AskInsert(r) ==
    /\ At(r, "askInsert")
    /\ Insert(r, "user")
    /\ requests' = [requests EXCEPT ![r].pc = "stream", ![r].ordinal = 0]
    /\ UNCHANGED <<kb, inquiry, docs>>

\* A question that cannot be stored is answered all the same.
AskFails(r) ==
    /\ At(r, "askInsert")
    /\ requests' = [requests EXCEPT ![r].pc = "stream", ![r].ordinal = 0, ![r].orderly = FALSE]
    /\ UNCHANGED stored

\* Retrieval and generation; nothing stored is read in between.  The answer
\* cites what was retrieved, if anything, and the names of other documents
\* are not used again.  The client has the answer before it is stored.
SearchStream(r) ==
    /\ At(r, "stream")
    /\ \/ \E S \in SUBSET {d \in Docs : docs[d] = "indexed"} : \E C \in SUBSET S :
             requests' = [requests EXCEPT ![r].retrieved = S, ![r].cited = C,
                                          ![r].names = @ \cap S, ![r].pc = "answer"]
       \/ Finish(r)
    /\ UNCHANGED stored

AnswerInsert(r) ==
    /\ At(r, "answerInsert")
    /\ Insert(r, "assistant")
    /\ Finish(r)
    /\ UNCHANGED <<kb, inquiry, docs>>

AnswerFails(r) ==
    /\ At(r, "answerInsert")
    /\ Finish(r)
    /\ UNCHANGED stored

Search(r) ==
    \/ SearchBegin(r) \/ FileNames(r) \/ GetOrCreate(r)
    \/ AppendRead(r) \/ AskInsert(r) \/ AskFails(r)
    \/ SearchStream(r) \/ AnswerInsert(r) \/ AnswerFails(r)

Reevaluate(r) == ReevaluateBegin(r) \/ ReevaluateList(r)

-----------------------------------------------------------------------------
(* The knowledge base and its documents                                    *)

Upload(d) ==
    /\ kb /\ docs[d] = "absent"
    /\ docs' = [docs EXCEPT ![d] = "stored"]
    /\ UNCHANGED <<kb, inquiry, messages, requests>>

Index(d) ==
    /\ docs[d] = "stored"
    /\ docs' = [docs EXCEPT ![d] = "indexed"]
    /\ UNCHANGED <<kb, inquiry, messages, requests>>

DeleteDocument(d) ==
    /\ docs[d] \in {"stored", "indexed"}
    /\ docs' = [docs EXCEPT ![d] = "deleted"]
    /\ UNCHANGED <<kb, inquiry, messages, requests>>

\* Everything that names the knowledge base goes with it.
DeleteKB ==
    /\ kb
    /\ kb' = FALSE /\ inquiry' = FALSE /\ messages' = {}
    /\ docs' = [d \in Docs |-> IF docs[d] = "absent" THEN "absent" ELSE "deleted"]
    /\ UNCHANGED requests

Next ==
    \/ \E r \in Requests : Search(r) \/ Reevaluate(r)
    \/ \E d \in Docs : Upload(d) \/ Index(d) \/ DeleteDocument(d)
    \/ DeleteKB

Spec == Init /\ [][Next]_vars

-----------------------------------------------------------------------------
(* Properties                                                              *)

\* The turns are numbered 0, 1, 2, ... whatever appends ran at once, so that
\* the order of a history is one order (AppendMessage and its unique index).
OrdinalsDense ==
    /\ TypeOK
    /\ {m.ordinal : m \in messages} = 0 .. Cardinality(messages) - 1

\* Re-evaluating an answer re-runs the question behind it, if the search that
\* gave it stored its question and was alone; otherwise the question stored
\* before an answer may be another request's.  All re-evaluations of one
\* answer answer one question, also when other requests' turns lie between
\* them (queryForReEvaluation's walk to the root).
ReevaluatesItsQuestion ==
    \A m \in messages : m.role = "assistant" =>
        /\ RootOf(m).orderly => QueryFor(m) = m.query
        /\ m.supersedes # NoMessage =>
              /\ \E p \in ById(m.supersedes) : p.role = "assistant" /\ p.ordinal < m.ordinal
              /\ QueryFor(m) = m.query

\* A document both retrieved and cited has a name in both places or in none,
\* in messages of either format (buildInquiryMessages).
NamesAgree ==
    \A m \in messages : Shown(m).retrieved \cap m.cited = Shown(m).cited

\* A stored turn stays as it is while the knowledge base exists: nothing
\* removes it, renames its documents after they are deleted, or changes what
\* re-evaluating it would ask.
HistoryKept ==
    [][kb' => \A m \in messages :
           m \in messages' /\ QueryFor(m)' = QueryFor(m) /\ Shown(m)' = Shown(m)]_vars
=============================================================================
