--------------------------- MODULE CanonicalCounts ---------------------------
(***************************************************************************)
(* The canonical entities of one knowledge base and the mentions linked to *)
(* them:                                                                   *)
(*                                                                         *)
(*  - canonicalization counts a document's unlinked mentions in one        *)
(*    transaction and links them in another (canonical.ResolveNew);        *)
(*  - alias resolution merges two canonical entities it read earlier;      *)
(*  - entity extraction's Plan and a document's deletion first reverse the *)
(*    document's contribution (DecrementForDocument), then remove its      *)
(*    mentions in another transaction; indexing removes them by replacing  *)
(*    their chunks.                                                        *)
(*                                                                         *)
(* A transaction whose statements lock what they read before they use it   *)
(* is one step (Postgres runs them at READ COMMITTED).  Two are not:       *)
(* DecrementForDocument's first statement reads the document's links       *)
(* before it waits for the rows it updates, and MergeInto locks the row it *)
(* deletes only in its last statement.  They are a step per statement,     *)
(* whose writes are seen when the transaction commits and whose locks the  *)
(* other transactions wait for.  A text stands for the normalized text and *)
(* type that identify a canonical entity.                                  *)
(***************************************************************************)
EXTENDS Integers, FiniteSets, Functions

CONSTANTS
    Docs,
    Texts,
    NoRow,          \* the canonical entity of an unlinked mention
    Resolvers,      \* concurrent canonicalization runs
    Aliasers,       \* concurrent alias resolution runs
    Reversers,      \* concurrent runs of Plan or delete
    Faults,         \* the kinds of fault that occur: "lost", "cascade"
    MaxBatches,     \* bound: batches of mentions extracted per document
    MaxRows,        \* bound: rows ever created per text
    MaxCount        \* bound: counts a canonicalization may raise a row to

ASSUME FaultsAreKnown == Faults \subseteq {"lost", "cascade"}
ASSUME DataIsFinite == IsFiniteSet(Docs) /\ IsFiniteSet(Texts)
ASSUME BoundsAreNat == {MaxBatches, MaxRows, MaxCount} \subseteq Nat

Mention == Docs \X Texts \X (1 .. MaxBatches)
RowId == Texts \X (1 .. MaxRows)
ASSUME NoRowIsNoRow == NoRow \notin RowId

VARIABLES
    rows,           \* canonical_entities: counts by id; its domain exists
    created,        \* created[t]: rows ever created for text t
    entities,       \* the mentions' canonical_entity_id; its domain exists
    extracted,      \* extracted[d]: batches of mentions stored for d
    resolvers, aliasers, reversers,
    overlapped      \* did two reversals of one document overlap?

vars == <<rows, created, entities, extracted, resolvers, aliasers, reversers, overlapped>>

Idle == [pc |-> "idle"]
EmptyFcn == [x \in {} |-> NoRow]

\* Every row has mentions left: one without is deleted in the transaction
\* that took its last.
TypeOK ==
    /\ DOMAIN rows \subseteq RowId
    /\ \A id \in DOMAIN rows : /\ rows[id].mentions \in Nat \ {0}
                               /\ rows[id].documents \in Int
    /\ \A id, other \in DOMAIN rows : id[1] = other[1] => id = other
    /\ created \in [Texts -> 0 .. MaxRows]
    /\ DOMAIN entities \subseteq Mention
    /\ Range(entities) \subseteq DOMAIN rows \cup {NoRow}
    /\ extracted \in [Docs -> 0 .. MaxBatches]
    /\ \A h \in Resolvers : resolvers[h].pc \in {"idle", "canonicalize", "link"}
    /\ \A j \in Aliasers : aliasers[j].pc \in {"idle", "merge", "count", "delete"}
    /\ \A r \in Reversers : reversers[r].pc \in {"idle", "apply", "clear"}
    /\ overlapped \in BOOLEAN

Init ==
    /\ rows = EmptyFcn
    /\ created = [t \in Texts |-> 0]
    /\ entities = EmptyFcn
    /\ extracted = [d \in Docs |-> 0]
    /\ resolvers = [h \in Resolvers |-> Idle]
    /\ aliasers = [j \in Aliasers |-> Idle]
    /\ reversers = [r \in Reversers |-> Idle]
    /\ overlapped = FALSE

MentionsOf(d) == {m \in DOMAIN entities : m[1] = d}
LinkedTo(id) == {m \in DOMAIN entities : entities[m] = id}
Without(f, S) == Restrict(f, DOMAIN f \ S)

\* The row a merge deletes, and the one that absorbs it.
From(a) == a.from[a.c]
To(a) == IF From(a) = a.ce THEN a.c ELSE a.ce

\* The mentions a merge has repointed and not committed: it locks them, and
\* their foreign key keeps the row they will be linked to.
Repointed(j) == IF aliasers[j].pc \in {"count", "delete"} THEN aliasers[j].moved ELSE {}
Locked == UNION {Repointed(j) : j \in Aliasers}
Referred(A) == {To(aliasers[j]) : j \in {i \in A : Repointed(i) # {}}}

-----------------------------------------------------------------------------
(* Mentions                                                                *)

\* PersistBatch stores a batch of new, unlinked mentions.
PersistBatch(d) ==
    LET g == extracted[d] + 1
    IN  /\ g <= MaxBatches
        /\ extracted' = [extracted EXCEPT ![d] = g]
        /\ \E T \in SUBSET Texts \ {{}} :
              entities' = [m \in DOMAIN entities \cup ({d} \X T \X {g}) |->
                              IF m[3] = g /\ m[1] = d THEN NoRow ELSE entities[m]]
        /\ UNCHANGED <<rows, created, resolvers, aliasers, reversers, overlapped>>

\* Indexing replaces the document's chunks, whose entities cascade.
ReplaceChunks(d) ==
    /\ "cascade" \in Faults
    /\ MentionsOf(d) # {}
    /\ MentionsOf(d) \cap Locked = {}
    /\ entities' = Without(entities, MentionsOf(d))
    /\ UNCHANGED <<rows, created, extracted, resolvers, aliasers, reversers, overlapped>>

-----------------------------------------------------------------------------
(* Canonicalization                                                        *)

\* The mentions are listed, and those without a link are pending.
ResolveList(h, d) ==
    LET pending == {m \in MentionsOf(d) : entities[m] = NoRow}
    IN  /\ resolvers[h].pc = "idle"
        /\ pending # {}
        /\ resolvers' = [resolvers EXCEPT ![h] = [pc |-> "canonicalize", pending |-> pending]]
        /\ UNCHANGED <<rows, created, entities, extracted, aliasers, reversers, overlapped>>

\* Canonicalize upserts the row of each text among the mentions: by the
\* number of its mentions, and one document.
Canonicalize(h) ==
    LET pending == resolvers[h].pending
        group(t) == {m \in pending : m[2] = t}
        touched == {m[2] : m \in pending}
        fresh == {t \in touched : \A id \in DOMAIN rows : id[1] # t}
        idOf == [t \in touched |->
                    IF t \in fresh THEN <<t, created[t] + 1>>
                    ELSE CHOOSE id \in DOMAIN rows : id[1] = t]
        old(id) == IF id \in DOMAIN rows THEN rows[id]
                   ELSE [mentions |-> 0, documents |-> 0]
    IN  /\ resolvers[h].pc = "canonicalize"
        /\ \A t \in fresh : created[t] < MaxRows
        /\ \A t \in touched \ fresh :
              /\ rows[idOf[t]].mentions + Cardinality(group(t)) <= MaxCount
              /\ rows[idOf[t]].documents < MaxCount
        /\ created' = [t \in Texts |-> IF t \in fresh THEN created[t] + 1 ELSE created[t]]
        /\ rows' = [id \in DOMAIN rows \cup Range(idOf) |->
                       IF id \in Range(idOf)
                       THEN [mentions  |-> old(id).mentions + Cardinality(group(id[1])),
                             documents |-> old(id).documents + 1]
                       ELSE rows[id]]
        /\ resolvers' = [resolvers EXCEPT ![h] =
                            [pc |-> "link", resolved |-> [m \in pending |-> idOf[m[2]]]]]
        /\ UNCHANGED <<entities, extracted, aliasers, reversers, overlapped>>

\* BulkSetCanonicalEntityID: mentions that are gone are skipped; a canonical
\* entity that is gone fails the whole transaction.
Link(h) ==
    LET resolved == resolvers[h].resolved
        live == DOMAIN resolved \cap DOMAIN entities
    IN  /\ resolvers[h].pc = "link"
        /\ live \cap Locked = {}
        /\ entities' = IF \A m \in live : resolved[m] \in DOMAIN rows
                       THEN [m \in DOMAIN entities |->
                                IF m \in live THEN resolved[m] ELSE entities[m]]
                       ELSE entities
        /\ resolvers' = [resolvers EXCEPT ![h] = Idle]
        /\ UNCHANGED <<rows, created, extracted, aliasers, reversers, overlapped>>

\* A call fails or the Lambda dies; the step, or the next attempt, begins
\* again with what is unlinked then.
ResolverLost(h) ==
    /\ "lost" \in Faults
    /\ resolvers[h].pc # "idle"
    /\ resolvers' = [resolvers EXCEPT ![h] = Idle]
    /\ UNCHANGED <<rows, created, entities, extracted, aliasers, reversers, overlapped>>

-----------------------------------------------------------------------------
(* Alias resolution                                                        *)

\* FuzzyCandidates: which texts are alike is not modelled, so any other row
\* may be among them.
AliasCandidates(ce) == DOMAIN rows \ {ce}

\* resolveAliasesFor reads one entity, then its candidates, and the judge
\* confirms some.  Each pair is to merge into the one with more mentions, or
\* the older; the two are read by different queries, so it may be either.
AliasRead(j) ==
    /\ aliasers[j].pc = "idle"
    /\ \E ce \in DOMAIN rows : \E C \in SUBSET AliasCandidates(ce) \ {{}} :
          \E from \in [C -> C \cup {ce}] :
             /\ \A c \in C : from[c] \in {c, ce}
             /\ aliasers' = [aliasers EXCEPT ![j] = [pc |-> "merge", ce |-> ce, from |-> from]]
    /\ UNCHANGED <<rows, created, entities, extracted, resolvers, reversers, overlapped>>

\* MergeInto's first statement repoints the mentions linked to the one row.
\* Repointing them onto a row that is gone fails it, and the run; without
\* any, the row is deleted all the same.
MergeRepoint(j) ==
    LET a == aliasers[j]
    IN  /\ a.pc = "merge"
        /\ \E c \in DOMAIN a.from :
              LET merge == [pc |-> "count", ce |-> a.ce, from |-> a.from, c |-> c,
                            moved |-> LinkedTo(a.from[c])]
                  fails == merge.moved # {} /\ To(merge) \notin DOMAIN rows
              IN  /\ merge.moved \cap Locked = {}
                  /\ aliasers' = [aliasers EXCEPT ![j] = IF fails THEN Idle ELSE merge]
        /\ UNCHANGED <<rows, created, entities, extracted, resolvers, reversers, overlapped>>

\* The second reads the counts that it adds to the other's.
MergeCount(j) ==
    LET a == aliasers[j]
        add == IF From(a) \in DOMAIN rows THEN rows[From(a)]
               ELSE [mentions |-> 0, documents |-> 0]
    IN  /\ a.pc = "count"
        /\ aliasers' = [aliasers EXCEPT ![j] =
              [pc |-> "delete", ce |-> a.ce, from |-> a.from, c |-> a.c,
               moved |-> a.moved, add |-> add]]
        /\ UNCHANGED <<rows, created, entities, extracted, resolvers, reversers, overlapped>>

Added(to, add) ==
    [id \in DOMAIN rows |->
        IF id = to THEN [mentions  |-> rows[id].mentions + add.mentions,
                         documents |-> rows[id].documents + add.documents]
        ELSE rows[id]]

\* With the next pair; not once the entity itself is merged away.
GoesOn(a) ==
    LET rest == DOMAIN a.from \ {a.c}
    IN  IF From(a) = a.ce \/ rest = {} THEN Idle
        ELSE [pc |-> "merge", ce |-> a.ce, from |-> Restrict(a.from, rest)]

\* Mutant: the row is deleted before its mentions are repointed.
MergeDeleteFirst(j) ==
    LET a == aliasers[j]
    IN  /\ a.pc = "delete"
        /\ From(a) \notin Referred(Aliasers \ {j})
        /\ \A i \in Aliasers \ {j} : LinkedTo(From(a)) \cap Repointed(i) = {}
        /\ entities' = [m \in DOMAIN entities |->
                           IF entities[m] = From(a) THEN NoRow ELSE entities[m]]
        /\ rows' = Without(Added(To(a), a.add), {From(a)})
        /\ aliasers' = [aliasers EXCEPT ![j] = GoesOn(a)]
        /\ UNCHANGED <<created, extracted, resolvers, reversers, overlapped>>

\* The last deletes the row, which unlinks whatever refers to it still: the
\* mentions linked to it since the first.  Then the transaction commits.
MergeDelete(j) ==
    LET a == aliasers[j]
    IN  /\ a.pc = "delete"
        /\ From(a) \notin Referred(Aliasers \ {j})
        /\ \A i \in Aliasers \ {j} : LinkedTo(From(a)) \cap Repointed(i) = {}
        /\ entities' = [m \in DOMAIN entities |->
                           IF m \in a.moved THEN To(a)
                           ELSE IF entities[m] = From(a) THEN NoRow ELSE entities[m]]
        /\ rows' = Without(Added(To(a), a.add), {From(a)})
        /\ aliasers' = [aliasers EXCEPT ![j] = GoesOn(a)]
        /\ UNCHANGED <<created, extracted, resolvers, reversers, overlapped>>

\* A merge fails, as Postgres fails one of transactions that wait for each
\* other, and the run with it.
MergeFails(j) ==
    /\ aliasers[j].pc # "idle"
    /\ aliasers' = [aliasers EXCEPT ![j] = Idle]
    /\ UNCHANGED <<rows, created, entities, extracted, resolvers, reversers, overlapped>>

-----------------------------------------------------------------------------
(* Reversal: DecrementForDocument, then the mentions' removal by Plan's    *)
(* DeleteByDocument or the deletion of their document.  (A deleted         *)
(* document is one for which no further batch is extracted.)               *)

\* The first statement counts the document's links to each row.
ReverseRead(r, d) ==
    /\ reversers[r].pc = "idle"
    /\ MentionsOf(d) # {}
    /\ reversers' = [reversers EXCEPT ![r] =
                       [pc |-> "apply", doc |-> d,
                        count |-> [id \in Range(Restrict(entities, MentionsOf(d))) \ {NoRow} |->
                                      Cardinality(LinkedTo(id) \cap MentionsOf(d))]]]
    /\ overlapped' = (overlapped \/ \E q \in Reversers :
                        reversers[q].pc = "apply" /\ reversers[q].doc = d)
    /\ UNCHANGED <<rows, created, entities, extracted, resolvers, aliasers>>

Decremented(count) ==
    [id \in DOMAIN rows |->
        IF id \in DOMAIN count
        THEN [mentions  |-> rows[id].mentions - count[id],
              documents |-> rows[id].documents - 1]
        ELSE rows[id]]

\* Mutant: the document's mentions stay linked until they are removed.
ReverseApplyKeepsLinks(r) ==
    LET d == reversers[r].doc
        counts == Decremented(reversers[r].count)
        empty == {id \in DOMAIN rows : counts[id].mentions <= 0}
    IN  /\ reversers[r].pc = "apply"
        /\ \A m \in Locked : m[1] # d /\ entities[m] \notin empty
        /\ empty \cap Referred(Aliasers) = {}
        /\ rows' = Without(counts, empty)
        /\ entities' = [m \in DOMAIN entities |->
                           IF entities[m] \in empty THEN NoRow ELSE entities[m]]
        /\ reversers' = [reversers EXCEPT ![r] = [pc |-> "clear", doc |-> d]]
        /\ UNCHANGED <<created, extracted, resolvers, aliasers, overlapped>>

\* Then the counts are subtracted, the document's mentions unlinked, and the
\* rows left without mentions deleted, which unlinks whatever refers to them.
ReverseApply(r) ==
    LET d == reversers[r].doc
        counts == Decremented(reversers[r].count)
        empty == {id \in DOMAIN rows : counts[id].mentions <= 0}
    IN  /\ reversers[r].pc = "apply"
        /\ \A m \in Locked : m[1] # d /\ entities[m] \notin empty
        /\ empty \cap Referred(Aliasers) = {}
        /\ rows' = Without(counts, empty)
        /\ entities' = [m \in DOMAIN entities |->
                           IF m[1] = d \/ entities[m] \in empty THEN NoRow ELSE entities[m]]
        /\ reversers' = [reversers EXCEPT ![r] = [pc |-> "clear", doc |-> d]]
        /\ UNCHANGED <<created, extracted, resolvers, aliasers, overlapped>>

ReverseClear(r) ==
    /\ reversers[r].pc = "clear"
    /\ MentionsOf(reversers[r].doc) \cap Locked = {}
    /\ entities' = Without(entities, MentionsOf(reversers[r].doc))
    /\ reversers' = [reversers EXCEPT ![r] = Idle]
    /\ UNCHANGED <<rows, created, extracted, resolvers, aliasers, overlapped>>

\* The step fails and is retried from its start, or the request is.
ReverserLost(r) ==
    /\ "lost" \in Faults
    /\ reversers[r].pc # "idle"
    /\ reversers' = [reversers EXCEPT ![r] = Idle]
    /\ UNCHANGED <<rows, created, entities, extracted, resolvers, aliasers, overlapped>>

-----------------------------------------------------------------------------
\* The worker's job, or the backfill of documents it did not reach.
Resolve(h) ==
    \/ \E d \in Docs : ResolveList(h, d)
    \/ Canonicalize(h) \/ Link(h) \/ ResolverLost(h)

Reverse(r) ==
    \/ \E d \in Docs : ReverseRead(r, d)
    \/ ReverseApply(r) \/ ReverseClear(r) \/ ReverserLost(r)

Alias(j) ==
    \/ AliasRead(j)
    \/ MergeRepoint(j) \/ MergeCount(j) \/ MergeDelete(j) \/ MergeFails(j)

Next ==
    \/ \E d \in Docs : PersistBatch(d) \/ ReplaceChunks(d)
    \/ \E h \in Resolvers : Resolve(h)
    \/ \E j \in Aliasers : Alias(j)
    \/ \E r \in Reversers : Reverse(r)

Spec == Init /\ [][Next]_vars

-----------------------------------------------------------------------------
(* Properties                                                              *)

\* The counts never fall below what is linked, whatever is lost, repeated or
\* stale between counting, linking, merging and reversing.  They may exceed
\* it (a run lost before Link leaves what it counted).  Two overlapping
\* reversals of one document do subtract its mentions twice.
CountsCoverLinks ==
    /\ TypeOK
    /\ ~overlapped =>
          \A id \in DOMAIN rows :
             /\ rows[id].mentions >= Cardinality(LinkedTo(id))
             /\ rows[id].documents >= Cardinality({m[1] : m \in LinkedTo(id)})

\* A mention that was linked stays linked, to its canonical entity or to the
\* one that absorbed it, until its own document is reversed: another
\* document's reversal never deletes the row under it, and a merge never
\* loses what it repointed.  A mention linked to the row a merge deletes after
\* the merge repointed that row's mentions is unlinked: MergeInto's first
\* statement, `repoints every entity currently linked to fromID', does not
\* lock the row.
LinksSurvive ==
    [][\A m \in DOMAIN entities \cap DOMAIN entities' :
          (entities[m] # NoRow /\ entities'[m] = NoRow) =>
             \/ \E r \in Reversers : /\ reversers[r].pc = "apply"
                                     /\ reversers'[r].pc = "clear"
                                     /\ reversers[r].doc = m[1]
             \/ \E j \in Aliasers : /\ aliasers[j].pc = "delete"
                                    /\ aliasers'[j].pc # "delete"
                                    /\ entities[m] = From(aliasers[j])
                                    /\ m \notin aliasers[j].moved
             \/ overlapped]_vars
=============================================================================
