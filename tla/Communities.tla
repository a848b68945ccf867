---------------------------- MODULE Communities ----------------------------
(***************************************************************************)
(* The analyses of one knowledge base's entity graph: communities          *)
(* (server/communityhandler.go, community/pgstore), and the themes and     *)
(* intrusion tests made of them (themehandler.go, intrusionhandler.go),    *)
(* while indexing changes the graph.                                       *)
(*                                                                         *)
(* Each SELECT is a step, since a transaction reads committed rows.  Saved *)
(* communities take row locks and are one step; saved rows are a DELETE,   *)
(* which sees the rows committed when it starts, and the commit.           *)
(***************************************************************************)
EXTENDS Integers, FiniteSets

CONSTANTS
    Entities,           \* canonical entities ever created
    Analysts,           \* requests handled at once; one follows another
    MaxGraphEntities,   \* above which no graph is built
    MaxSaves,           \* bound: no request begins when so many are saved
    MaxChangingSaves    \* bound: the graph stays as it is when so many are

ASSUME EntitiesFinite == IsFiniteSet(Entities)
ASSUME CommunityBounds == {MaxGraphEntities, MaxSaves, MaxChangingSaves} \subseteq Nat

VARIABLES
    entities,           \* "absent", "present" or "gone"
    community,          \* the entities' community_id, with the run it is of
    edges,              \* pairs that co-occur: "none", "strong" or "confirmed"
    summary,            \* kb_community_runs
    rows,               \* kb_themes and kb_intrusion_tests
    saves,              \* results saved so far
    analysts

communityVars == <<entities, community, edges, summary, rows, saves, analysts>>
kb == <<entities, community, edges, summary, rows, saves>>

Pairs == {p \in SUBSET Entities : Cardinality(p) = 2}
Present == {e \in Entities : entities[e] = "present"}

None == [run |-> 0, id |-> 0]

\* What is shown before the first run.
NoSummary == [run |-> 0, communities |-> 0, nodes |-> 0, edges |-> 0,
              orderly |-> TRUE, grew |-> FALSE]

\* What a request has read, and history: whether another request of its kind
\* ran beside it, and whether entities appeared after its first read.
IdleAnalyst == [kind |-> "idle", pc |-> "idle", nodes |-> {}, edges |-> {},
                rows |-> {}, seen |-> {}, orderly |-> TRUE, grew |-> FALSE]

Kinds == {"themes", "tests"}

TypeOK ==
    /\ entities \in [Entities -> {"absent", "present", "gone"}]
    /\ \A e \in Entities : entities[e] # "present" => community[e] = None
    /\ edges \in [Pairs -> {"none", "strong", "confirmed"}]
    /\ \A p \in Pairs : edges[p] # "none" => p \subseteq Present
    /\ summary.communities <= summary.nodes
    /\ \A k \in Kinds : \A r \in rows[k] : r.save \in 1 .. saves
    /\ \A a \in Analysts : analysts[a].pc \in {"idle", "nodes", "edges", "save",
                                               "delete", "commit"}

Init ==
    /\ entities \in [Entities -> {"absent", "present"}]
    /\ community = [e \in Entities |-> None]
    /\ edges = [p \in Pairs |-> "none"]
    /\ summary = NoSummary
    /\ rows = [k \in Kinds |-> {}]
    /\ saves = 0
    /\ analysts = [a \in Analysts |-> IdleAnalyst]

-----------------------------------------------------------------------------
(* The graph                                                               *)

\* KBGraph's first query.
Nodes == Present

\* KBGraph's second query, weighted: an edge between entities whose counts
\* were read is kept by its co-occurrences, a confirmed relation always.
Edges(nodes) == {p \in Pairs : edges[p] = "confirmed" \/ (edges[p] = "strong" /\ p \subseteq nodes)}

\* Community ids that Louvain may give: dense, and nothing joins entities
\* that no edge connects.
Assignments(nodes, es) ==
    {f \in [nodes -> 0 .. Cardinality(nodes) - 1] :
        /\ \E k \in 0 .. Cardinality(nodes) : {f[e] : e \in nodes} = 0 .. k - 1
        /\ \A S \in SUBSET nodes :
              (\A p \in es : p \subseteq nodes => Cardinality(p \cap S) # 1) =>
                  \A u \in S, v \in nodes \ S : f[u] # f[v]}

\* CommunityMembers: the entities by community id.
Members == [i \in {community[e].id : e \in {e \in Entities : community[e].run # 0}} |->
               {e \in Entities : community[e].run # 0 /\ community[e].id = i}]

-----------------------------------------------------------------------------
(* Requests                                                                *)

At(a, pc) == analysts[a].pc = pc
Goto(a, pc) == analysts' = [analysts EXCEPT ![a].pc = pc]
Finish(a) == analysts' = [analysts EXCEPT ![a] = IdleAnalyst]

\* A request begins with its first query; those of one kind in progress
\* together are not alone.
Begin(a, read) ==
    /\ At(a, "idle")
    /\ saves < MaxSaves
    /\ LET others == {b \in Analysts : analysts[b].kind = read.kind}
           new == [IdleAnalyst EXCEPT !.kind = read.kind, !.pc = read.pc, !.rows = read.rows,
                                      !.orderly = (others = {})]
       IN  analysts' = [b \in Analysts |->
                           IF b = a THEN new
                           ELSE IF b \in others THEN [analysts[b] EXCEPT !.orderly = FALSE]
                           ELSE analysts[b]]
    /\ UNCHANGED kb

\* Any call may fail, an answer be unusable or a deadline pass.
Fails(a) ==
    /\ ~At(a, "idle")
    /\ Finish(a)
    /\ UNCHANGED kb

\* Mutant: the size is not looked at.
CountAny(a) == Begin(a, [kind |-> "communities", pc |-> "nodes", rows |-> {}])

\* The first query counts the entities.
CountEntities(a) ==
    /\ Cardinality(Present) <= MaxGraphEntities
    /\ Begin(a, [kind |-> "communities", pc |-> "nodes", rows |-> {}])

ReadNodes(a) ==
    /\ At(a, "nodes")
    /\ analysts' = [analysts EXCEPT ![a].nodes = Nodes, ![a].pc = "edges"]
    /\ UNCHANGED kb

ReadEdges(a) ==
    /\ At(a, "edges")
    /\ analysts' = [analysts EXCEPT ![a].edges = Edges(analysts[a].nodes), ![a].pc = "save"]
    /\ UNCHANGED kb

\* SaveResult: entities that are gone take no id, those that appeared since
\* keep none.
SaveCommunities(a) ==
    /\ At(a, "save")
    /\ LET q == analysts[a]
       IN  \E f \in Assignments(q.nodes, q.edges) :
              /\ community' = [e \in Entities |-> IF e \in Present \cap q.nodes
                                                  THEN [run |-> saves + 1, id |-> f[e]]
                                                  ELSE community[e]]
              /\ summary' = [run |-> saves + 1, communities |-> Cardinality({f[e] : e \in q.nodes}),
                             nodes |-> Cardinality(q.nodes), edges |-> Cardinality(q.edges),
                             orderly |-> q.orderly, grew |-> q.grew]
    /\ saves' = saves + 1
    /\ Finish(a)
    /\ UNCHANGED <<entities, edges, rows>>

Recompute(a) == CountEntities(a) \/ ReadNodes(a) \/ ReadEdges(a) \/ SaveCommunities(a)

-----------------------------------------------------------------------------
(* Themes and intrusion tests: of the communities read, some become rows.  *)

\* The largest communities are candidates; with so few, one of them.
Candidates(members) ==
    {i \in DOMAIN members : \A j \in DOMAIN members :
        Cardinality(members[j]) <= Cardinality(members[i])}

\* A row for the theme, if any, or for each community large enough to be
\* tested, if any.
Describe(a) ==
    /\ DOMAIN Members # {}
    /\ \/ \E I \in {{}} \cup {{i} : i \in Candidates(Members)} :
             Begin(a, [kind |-> "themes", pc |-> "delete", rows |-> I])
       \/ \E I \in {{}, DOMAIN Members} :
             Begin(a, [kind |-> "tests", pc |-> "delete", rows |-> I])

\* SaveResult's DELETE.
DeleteRows(a) ==
    /\ At(a, "delete")
    /\ analysts' = [analysts EXCEPT ![a].seen = rows[analysts[a].kind], ![a].pc = "commit"]
    /\ UNCHANGED kb

\* Mutant: only rows of the same communities are replaced.
InsertRowsMerge(a) ==
    /\ At(a, "commit")
    /\ LET q == analysts[a]
           replaced == {r \in q.seen : r.id \in q.rows}
       IN  rows' = [rows EXCEPT ![q.kind] =
              (@ \ replaced) \cup {[id |-> i, save |-> saves + 1, orderly |-> q.orderly] : i \in q.rows}]
    /\ saves' = saves + 1
    /\ Finish(a)
    /\ UNCHANGED <<entities, community, edges, summary>>

\* Its INSERTs and the commit.
InsertRows(a) ==
    /\ At(a, "commit")
    /\ LET q == analysts[a]
       IN  rows' = [rows EXCEPT ![q.kind] =
              (@ \ q.seen) \cup {[id |-> i, save |-> saves + 1, orderly |-> q.orderly] : i \in q.rows}]
    /\ saves' = saves + 1
    /\ Finish(a)
    /\ UNCHANGED <<entities, community, edges, summary>>

DescribeStep(a) == Describe(a) \/ DeleteRows(a) \/ InsertRows(a)

-----------------------------------------------------------------------------
(* Indexing                                                                *)

\* Canonicalize; a recompute past its first look does not know the entity.
EntityAppears(e) ==
    /\ saves < MaxChangingSaves
    /\ entities[e] = "absent"
    /\ entities' = [entities EXCEPT ![e] = "present"]
    /\ analysts' = [a \in Analysts |-> [analysts[a] EXCEPT
                        !.grew = @ \/ analysts[a].pc \in {"nodes", "edges"}]]
    /\ UNCHANGED <<community, edges, summary, rows, saves>>

\* Co-occurrences are counted, or a relation confirmed.
EdgeFound(p) ==
    /\ saves < MaxChangingSaves
    /\ p \subseteq Present
    /\ \E e \in {"strong", "confirmed"} :
          e # edges[p] /\ edges[p] # "confirmed" /\ edges' = [edges EXCEPT ![p] = e]
    /\ UNCHANGED <<entities, community, summary, rows, saves, analysts>>

\* MergeInto moves e's mentions to f, with the edges between mentions.
EntityMerged(e, f) ==
    /\ saves < MaxChangingSaves
    /\ {e, f} \subseteq Present /\ e # f
    /\ entities' = [entities EXCEPT ![e] = "gone"]
    /\ community' = [community EXCEPT ![e] = None]
    /\ edges' = [p \in Pairs |-> IF e \in p THEN "none"
                                 ELSE IF f \in p /\ edges[(p \ {f}) \cup {e}] # "none" /\ edges[p] # "confirmed"
                                 THEN edges[(p \ {f}) \cup {e}] ELSE edges[p]]
    /\ UNCHANGED <<summary, rows, saves, analysts>>

\* DecrementForDocument deletes an entity no document mentions.
EntityGone(e) ==
    /\ saves < MaxChangingSaves
    /\ entities[e] = "present"
    /\ entities' = [entities EXCEPT ![e] = "gone"]
    /\ community' = [community EXCEPT ![e] = None]
    /\ edges' = [p \in Pairs |-> IF e \in p THEN "none" ELSE edges[p]]
    /\ UNCHANGED <<summary, rows, saves, analysts>>

CommunityNext ==
    \/ \E a \in Analysts : Recompute(a) \/ DescribeStep(a) \/ Fails(a)
    \/ \E e \in Entities : EntityAppears(e) \/ EntityGone(e) \/ \E f \in Entities : EntityMerged(e, f)
    \/ \E p \in Pairs : EdgeFound(p)

CommunitySpec == Init /\ [][CommunityNext]_communityVars

-----------------------------------------------------------------------------
(* What is shown                                                           *)

\* GetResult of themes or of tests: the rows, in no order of their runs, and
\* the time of the last; there may be none.
Results(k) == {[computedAt |-> r.save, rows |-> rows[k]] : r \in rows[k]}

\* The answer to a GET; before a first run it is empty.
Response(k) == IF rows[k] = {} THEN {[computedAt |-> 0, rows |-> {}]} ELSE Results(k)

-----------------------------------------------------------------------------
(* Properties                                                              *)

\* What is shown together was saved together.  Community ids mean nothing
\* across runs: a run overwrites the id of every entity, connected or not
\* (KBGraph, SaveResult), unless two recomputes overlapped.  So do themes, or
\* tests, which are all of the time they are shown with, unless two of their
\* recomputes did (DELETE and INSERT take no lock that would order them).
OneResultShown ==
    /\ summary.orderly =>
          \A e \in Entities : community[e] # None => community[e].run = summary.run
    /\ \A k \in Kinds : \A result \in Response(k) : \A r \in result.rows :
          r.orderly => r.save = result.computedAt

\* A summary counts no more entities than may be analysed, and no more edges
\* than join them, unless entities appeared between its queries (recompute's
\* limit, KBGraph).
SummaryFitsGraph ==
    /\ TypeOK
    /\ ~summary.grew =>
          /\ 2 * summary.edges <= summary.nodes * (summary.nodes - 1)
          /\ summary.nodes <= MaxGraphEntities
=============================================================================
