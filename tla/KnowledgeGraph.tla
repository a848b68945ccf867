--------------------------- MODULE KnowledgeGraph ---------------------------
(***************************************************************************)
(* The edges of one document's entity mentions and the answers a model     *)
(* gives about them: the edge job (worker/edgehandler.go, graphedge), the  *)
(* review of pairs that share a chunk (relation, server/relationhandler.go)*)
(* and of identities three edges apart (crosslink, cmd/crosslink), while   *)
(* the document's chunks and mentions are replaced.                        *)
(*                                                                         *)
(* Rows are replaced under new ids: a mention's id is its chunk, its name  *)
(* and `gen`, an identity's its name and `ident`, a chunk's its name and   *)
(* `text`.  Each transaction is a step; the model is asked between two.    *)
(***************************************************************************)
EXTENDS GraphLegs

CONSTANTS
    Chunks,                 \* chunks of the document
    Found,                  \* bound: the sets of names extraction may find in each
    Shared,                 \* names whose identities other documents mention
    MaxEntitiesForEdges,    \* maxEntitiesForEdges
    Runs,                   \* edge jobs handled at once; one follows another
    Reviewers,              \* reviews at once; one follows another
    MaxRuns,                \* bound: edge jobs begun
    MaxReviews,             \* bound: reviews begun
    MaxReplacements         \* bound: generations of mentions

ASSUME GraphBounds ==
    /\ {MaxEntitiesForEdges, MaxRuns, MaxReviews, MaxReplacements} \subseteq Nat
    /\ Shared \subseteq Names
    /\ Found \in [Chunks -> SUBSET SUBSET Names]

VARIABLES
    capital,        \* names that are capitalized
    text,           \* generation of the chunks
    gen,            \* generation of the mentions
    mentions,       \* names mentioned by the chunks whose entities are saved
    linked,         \* are the mentions linked to identities?
    planning,       \* is Plan between its two transactions?
    ident,          \* generation of each name's identity
    edges,          \* entity_edges: the relation of pairs in chunks
    links,          \* cross_chunk_edges: the relation of pairs of identities
    published,      \* has an edge job been published?
    edgeRuns, begun,
    reviews, asked,
    settled         \* history: the run that last cleared the edges has ended,
                    \* and listed the mentions there still are

rows == <<capital, text, gen, mentions, linked, planning, ident, published>>
graphVars == <<rows, edges, links, edgeRuns, begun, reviews, asked, settled>>

NoEdges == <<>>

\* Rows deleted, and rows added where there are none yet.
Without(f, S) == [k \in DOMAIN f \ S |-> f[k]]
With(f, g) == [k \in DOMAIN f \cup DOMAIN g |-> IF k \in DOMAIN f THEN f[k] ELSE g[k]]

Pairs == kSubset(2, Names)
Answers == {"relation", "none"}

IdleRun == [pc |-> "idle", keys |-> {}, gen |-> 0, stale |-> FALSE, last |-> FALSE]
IdleReview == [of |-> "nothing", read |-> {}, gen |-> 0, text |-> 0,
               ident |-> [e \in Names |-> 0], alone |-> TRUE]

GraphTypeOK ==
    /\ DOMAIN mentions \subseteq Chunks
    /\ \A k \in DOMAIN edges : k[1] \in DOMAIN mentions /\ k[2] \subseteq mentions[k[1]]
    /\ \A k \in DOMAIN edges : edges[k].relation \in Answers \cup {"NULL"}
    /\ DOMAIN links \subseteq Pairs /\ \A p \in DOMAIN links : links[p] \in Answers
    /\ \A r \in Runs : edgeRuns[r].pc \in {"idle", "delete", "create"}
    /\ \A v \in Reviewers : reviews[v].of \in {"nothing", "edges", "links"}

\* A knowledge base may hold a link from before only capitalized names were
\* looked at.
GraphInit ==
    /\ \/ capital = Names /\ links = <<>>
       \/ \E e, f \in Names : /\ e < f /\ capital = Names \ {e}
                              /\ links = [p \in {{e, f}} |-> "relation"]
    /\ text = 1 /\ gen = 1
    /\ mentions = <<>> /\ linked = FALSE /\ planning = FALSE
    /\ ident = [e \in Names |-> 1]
    /\ edges = NoEdges
    /\ published = FALSE
    /\ edgeRuns = [r \in Runs |-> IdleRun] /\ begun = 0
    /\ reviews = [v \in Reviewers |-> IdleReview] /\ asked = 0
    /\ settled = FALSE

-----------------------------------------------------------------------------
(* Entity extraction of the document                                       *)

\* Other mentions than those listed: what edge jobs know is stale.
MentionsChange ==
    /\ edgeRuns' = [r \in Runs |-> [edgeRuns[r] EXCEPT !.stale = TRUE]]
    /\ settled' = FALSE

\* Plan reverses the document's counts: identities that no other document
\* mentions are deleted, and their links with them.
ReverseCounts ==
    /\ ~planning /\ gen < MaxReplacements
    /\ planning' = TRUE /\ linked' = FALSE
    /\ LET gone == IF linked THEN UNION {mentions[c] : c \in DOMAIN mentions} \ Shared ELSE {}
       IN  /\ ident' = [e \in Names |-> IF e \in gone THEN ident[e] + 1 ELSE ident[e]]
           /\ links' = Without(links, {p \in DOMAIN links : p \cap gone # {}})
    /\ UNCHANGED <<capital, text, gen, mentions, edges, published, edgeRuns, begun, reviews, asked, settled>>

\* Plan's DeleteByDocument: edges go with the mentions.
ClearEntities ==
    /\ planning
    /\ gen' = gen + 1 /\ mentions' = <<>> /\ linked' = FALSE /\ planning' = FALSE
    /\ edges' = NoEdges
    /\ MentionsChange
    /\ UNCHANGED <<capital, text, ident, links, published, begun, reviews, asked>>

\* Prepare replaces the chunks: mentions, edges and links read from them go.
ReplaceChunks ==
    /\ ~planning /\ gen < MaxReplacements
    /\ text' = text + 1 /\ gen' = gen + 1 /\ mentions' = <<>> /\ linked' = FALSE
    /\ edges' = NoEdges /\ links' = <<>>
    /\ MentionsChange
    /\ UNCHANGED <<capital, planning, ident, published, begun, reviews, asked>>

\* PersistBatch saves what was found in a chunk.
SaveEntities(c) ==
    /\ ~planning /\ c \notin DOMAIN mentions
    /\ \E S \in Found[c] : mentions' = With(mentions, [d \in {c} |-> S])
    /\ MentionsChange
    /\ UNCHANGED <<capital, text, gen, linked, planning, ident, edges, links, published, begun, reviews, asked>>

\* Finalize publishes the edge job, and that which links the mentions.
Finalize ==
    /\ DOMAIN mentions = Chunks /\ ~planning /\ ~published
    /\ published' = TRUE
    /\ UNCHANGED <<capital, text, gen, mentions, linked, planning, ident, edges, links, edgeRuns, begun, reviews, asked, settled>>

\* Canonicalize, also of a job that a later Plan overtook.
LinkMentions ==
    /\ published /\ ~linked /\ DOMAIN mentions = Chunks
    /\ linked' = TRUE
    /\ UNCHANGED <<capital, text, gen, mentions, planning, ident, edges, links, published, edgeRuns, begun, reviews, asked, settled>>

-----------------------------------------------------------------------------
(* The edge job                                                            *)

\* Mutant: the first entities of an oversized chunk are joined.
EdgeKeysTruncated ==
    UNION {{<<c, p>> : p \in kSubset(2, {e \in mentions[c] :
                Cardinality({f \in mentions[c] : f <= e}) <= MaxEntitiesForEdges})} :
           c \in DOMAIN mentions}

\* One edge per pair within a chunk; oversized chunks have none.
EdgeKeys ==
    UNION {{<<c, p>> : p \in kSubset(2, mentions[c])} :
           c \in {c \in DOMAIN mentions : Cardinality(mentions[c]) <= MaxEntitiesForEdges}}

\* Handle's reads.  A published job runs, again when it fails, and beside an
\* attempt that was given up on, or a job it superseded.
ListEntities(r) ==
    /\ published /\ begun < MaxRuns
    /\ edgeRuns[r].pc = "idle"
    /\ edgeRuns' = [edgeRuns EXCEPT ![r] = [IdleRun EXCEPT !.pc = "delete", !.keys = EdgeKeys, !.gen = gen]]
    /\ begun' = begun + 1
    /\ UNCHANGED <<rows, edges, links, reviews, asked, settled>>

\* DeleteByDocument, after which a run without edges is over.
DeleteEdges(r) ==
    LET run == edgeRuns[r] IN
    /\ run.pc = "delete"
    /\ edges' = NoEdges
    /\ edgeRuns' = [q \in Runs |->
           IF q # r THEN [edgeRuns[q] EXCEPT !.last = FALSE]
           ELSE IF run.keys = {} THEN IdleRun ELSE [run EXCEPT !.pc = "create", !.last = TRUE]]
    /\ settled' = (run.keys = {} /\ ~run.stale)
    /\ UNCHANGED <<rows, links, begun, reviews, asked>>

\* BulkCreate: a mention that is gone fails every row, a row there is stays.
CreateEdges(r) ==
    LET run == edgeRuns[r] IN
    /\ run.pc = "create" /\ run.gen = gen
    /\ edges' = With(edges, [k \in run.keys |-> [relation |-> "NULL", read |-> gen]])
    /\ edgeRuns' = [edgeRuns EXCEPT ![r] = IdleRun]
    /\ settled' = (settled \/ (run.last /\ ~run.stale))
    /\ UNCHANGED <<rows, links, begun, reviews, asked>>

RunFails(r) ==
    /\ edgeRuns[r].pc # "idle"
    /\ edgeRuns' = [edgeRuns EXCEPT ![r] = IdleRun]
    /\ UNCHANGED <<rows, edges, links, begun, reviews, asked, settled>>

-----------------------------------------------------------------------------
(* Reviews                                                                 *)

\* Reviews of one kind in progress together are not alone.
BeginReview(v, of, read) ==
    /\ asked < MaxReviews
    /\ reviews[v].of = "nothing" /\ read # {}
    /\ LET others == {w \in Reviewers : reviews[w].of = of}
           new == [of |-> of, read |-> read, gen |-> gen, text |-> text, ident |-> ident,
                   alone |-> others = {}]
       IN  reviews' = [w \in Reviewers |-> IF w = v THEN new
                       ELSE IF w \in others THEN [reviews[w] EXCEPT !.alone = FALSE] ELSE reviews[w]]
    /\ asked' = asked + 1
    /\ UNCHANGED <<rows, edges, links, edgeRuns, begun, settled>>

\* CandidateChunks: the pairs without an answer.
ReadEdges(v) ==
    BeginReview(v, "edges", {k \in DOMAIN edges : edges[k].relation = "NULL"})

\* CandidateChains looks at mentions linked to an identity.
ReadChains(v) ==
    BeginReview(v, "links",
        CandidateChains({k[2] : k \in (IF linked THEN DOMAIN edges ELSE {})}, capital, DOMAIN links))

EndReview(v) == reviews' = [reviews EXCEPT ![v] = IdleReview]

\* Mutant: an answer is stored with the pair of that name.
AnswerEdgesByName(v) ==
    /\ reviews[v].of = "edges"
    /\ \E A \in SUBSET reviews[v].read, answer \in Answers :
          edges' = [k \in DOMAIN edges |-> IF k \in A THEN [relation |-> answer, read |-> reviews[v].gen]
                                           ELSE edges[k]]
    /\ EndReview(v)
    /\ UNCHANGED <<rows, links, edgeRuns, begun, asked, settled>>

\* ApplyUpdates: some of the pairs are answered (bound: alike); those that
\* are gone match no row.
AnswerEdges(v) ==
    /\ reviews[v].of = "edges"
    /\ \E A \in SUBSET reviews[v].read, answer \in Answers :
          edges' = [k \in DOMAIN edges |->
                       IF k \in A /\ reviews[v].gen = gen THEN [relation |-> answer, read |-> gen]
                       ELSE edges[k]]
    /\ EndReview(v)
    /\ UNCHANGED <<rows, links, edgeRuns, begun, asked, settled>>

\* ApplyUpdates of crosslink, which a pair or a chunk that is gone fails.
AnswerLinks(v) ==
    LET q == reviews[v] IN
    /\ q.of = "links" /\ q.text = text
    /\ \E A \in SUBSET q.read, answer \in Answers :
          /\ \A p \in A : \A e \in p : q.ident[e] = ident[e]
          /\ links' = With([p \in A |-> answer], links)
    /\ EndReview(v)
    /\ UNCHANGED <<rows, edges, edgeRuns, begun, asked, settled>>

ReviewFails(v) ==
    /\ reviews[v].of # "nothing"
    /\ EndReview(v)
    /\ UNCHANGED <<rows, edges, links, edgeRuns, begun, asked, settled>>

\* PurgeLowQuality.
Purge ==
    /\ \E p \in DOMAIN links : ~(p \subseteq capital)
    /\ links' = Without(links, {p \in DOMAIN links : ~(p \subseteq capital)})
    /\ UNCHANGED <<rows, edges, edgeRuns, begun, reviews, asked, settled>>

GraphNext ==
    \/ ReverseCounts \/ ClearEntities \/ ReplaceChunks \/ Finalize \/ LinkMentions
    \/ \E c \in Chunks : SaveEntities(c)
    \/ \E r \in Runs : ListEntities(r) \/ DeleteEdges(r) \/ CreateEdges(r) \/ RunFails(r)
    \/ \E v \in Reviewers : ReadEdges(v) \/ ReadChains(v) \/ AnswerEdges(v) \/ AnswerLinks(v) \/ ReviewFails(v)
    \/ Purge

GraphSpec == GraphInit /\ [][GraphNext]_graphVars

-----------------------------------------------------------------------------
(* Properties                                                              *)

\* Edge jobs may overlap, and each clears the edges before it adds its own.
\* What counts is the run that cleared them last: once it has added its own,
\* and while the mentions it listed are there, every pair within a chunk that
\* is not oversized has its edge, whatever other jobs do (Handle, BulkCreate).
EdgesComplete ==
    /\ GraphTypeOK
    /\ settled => \A c \in Chunks, p \in Pairs :
          <<c, p>> \in DOMAIN edges <=> /\ c \in DOMAIN mentions /\ p \subseteq mentions[c]
                                      /\ Cardinality(mentions[c]) <= MaxEntitiesForEdges

\* An answer paid for is kept: it is replaced by another only if two reviews
\* overlapped, and goes only with what it is about, or with the edges a run
\* clears.  One given for mentions since replaced is stored with nothing
\* (ApplyUpdates of relation and of crosslink, CandidateChains).
AnswersKept ==
    [][/\ \A k \in DOMAIN edges \cap DOMAIN edges' :
             edges[k].relation \in Answers /\ edges'[k] # edges[k]
                 => \E v \in Reviewers : ~reviews[v].alone /\ reviews'[v] = IdleReview
       /\ \A p \in DOMAIN links \cap DOMAIN links' :
             links'[p] # links[p] => \E v \in Reviewers : ~reviews[v].alone /\ reviews'[v] = IdleReview
       /\ \A k \in DOMAIN edges' : edges'[k].read = gen']_graphVars
=============================================================================
