------------------------------- MODULE Louvain -------------------------------
(***************************************************************************)
(* Community detection on the graph of canonical entities                  *)
(* (community/louvain.go): one visit of local moving per step, then the    *)
(* communities become the nodes of a smaller level, until nothing moves.   *)
(*                                                                         *)
(* Nodes are numbered from 1.  Weights are integers and arithmetic is      *)
(* exact: the code adds floating-point weights, and where gains are equal  *)
(* or nearly so its rounding may prefer another community than the model.  *)
(* A gain is taken times twice the total weight, and modularity times its  *)
(* square.                                                                 *)
(***************************************************************************)
EXTENDS Integers, Sequences, FiniteSets, SequencesExt, FiniteSetsExt, Functions, Ordering

CONSTANTS
    N,              \* entities
    MaxEdges,       \* bound: edges of a graph
    MaxWeight,      \* bound: weight of an edge
    MaxPasses       \* maxPasses, the cap on passes over one level

ASSUME LouvainBounds == /\ {N, MaxEdges, MaxWeight, MaxPasses} \subseteq Nat
                        /\ N > 0 /\ MaxPasses > 0

VARIABLES
    graph,          \* the edges of level 0, in the order they were read
    level,          \* the level worked on
    comm,           \* community of each of its nodes
    sigmaTot,       \* total degree of each community
    at,             \* the node visited next
    pass,           \* passes begun on this level
    moved,          \* did a node move in this pass, and in any pass of the level?
    finalComm,      \* node of the level that each entity has become part of
    pc              \* "moving", "done" or "cancelled"

louvainVars == <<graph, level, comm, sigmaTot, at, pass, moved, finalComm, pc>>

Edge(a, b, w) == [a |-> a, b |-> b, weight |-> w]

\* The graphs a knowledge base may have: no loops, no pair twice.  The order
\* in which edges are read decides between equal gains; bound: two orders.
EdgesOnce == {e \in [a : 1 .. N, b : 1 .. N, weight : 1 .. MaxWeight] : e.a < e.b}
Precedes(e, f) == e.a < f.a \/ (e.a = f.a /\ e.b < f.b)
Graphs ==
    {g \in UNION {[1 .. k -> EdgesOnce] : k \in 0 .. MaxEdges} :
        \/ \A i, j \in DOMAIN g : i < j => Precedes(g[i], g[j])
        \/ \A i, j \in DOMAIN g : i < j => Precedes(g[j], g[i])}

Sum(S, f) == SumFunctionOnSet(f, S)

Weights(edges) == [i \in DOMAIN edges |-> edges[i].weight]
TotalWeight(edges) == Sum(DOMAIN edges, Weights(edges))

\* The edges with an end in v.
Touching(edges, v) == {i \in DOMAIN edges : v \in {edges[i].a, edges[i].b}}

\* Mutant: a loop counts once.
LevelLoopsOnce(n, edges, selfLoop) ==
    [n |-> n, edges |-> edges, selfLoop |-> selfLoop,
     degree |-> [v \in 1 .. n |-> selfLoop[v] + Sum(Touching(edges, v), Weights(edges))]]

\* A level: loops are the weights folded into a node.
Level(n, edges, selfLoop) ==
    [n |-> n, edges |-> edges, selfLoop |-> selfLoop,
     degree |-> [v \in 1 .. n |-> 2 * selfLoop[v] + Sum(Touching(edges, v), Weights(edges))]]

Level0 == Level(N, graph, [v \in 1 .. N |-> 0])
M2 == 2 * TotalWeight(graph)
Singletons(n) == [v \in 1 .. n |-> v]

-----------------------------------------------------------------------------
(* Local moving                                                            *)

\* The community at the other end of an edge.
Across(e, v) == comm[IF e.a = v THEN e.b ELSE e.a]

\* The weight of v's edges into each community.
Joining(v) ==
    [c \in 1 .. level.n |->
        Sum({i \in Touching(level.edges, v) : Across(level.edges[i], v) = c}, Weights(level.edges))]

\* What joining each community would gain, once v has left its own.
Gains(v) ==
    LET joining == Joining(v)
        left == [sigmaTot EXCEPT ![comm[v]] = @ - level.degree[v]]
    IN  [c \in 1 .. level.n |-> joining[c] * M2 - left[c] * level.degree[v]]

\* Mutant: the last community with a gain, not the best.
BestCommLastGain(v) ==
    LET gain == Gains(v)
        better(best, e) ==
            IF v \in {e.a, e.b} /\ gain[Across(e, v)] > 0
            THEN [comm |-> Across(e, v), gain |-> gain[Across(e, v)]] ELSE best
    IN  FoldLeft(better, [comm |-> comm[v], gain |-> 0], level.edges).comm

\* Of the communities next to v, in the order its edges meet them, the first
\* whose gain is positive and the greatest; else its own.
BestComm(v) ==
    LET gain == Gains(v)
        better(best, e) ==
            IF v \in {e.a, e.b} /\ gain[Across(e, v)] > best.gain
            THEN [comm |-> Across(e, v), gain |-> gain[Across(e, v)]] ELSE best
    IN  FoldLeft(better, [comm |-> comm[v], gain |-> 0], level.edges).comm

Visit ==
    /\ pc = "moving" /\ at <= level.n
    /\ LET best == BestComm(at)
           k == level.degree[at]
       IN  /\ comm' = [comm EXCEPT ![at] = best]
           /\ sigmaTot' = [c \in DOMAIN sigmaTot |->
                  sigmaTot[c] + (IF c = best THEN k ELSE 0) - (IF c = comm[at] THEN k ELSE 0)]
           /\ moved' = IF best # comm[at] THEN [pass |-> TRUE, level |-> TRUE] ELSE moved
    /\ at' = at + 1
    /\ UNCHANGED <<graph, level, pass, finalComm, pc>>

NextPass ==
    /\ pc = "moving" /\ at > level.n
    /\ moved.pass /\ pass < MaxPasses
    /\ at' = 1 /\ pass' = pass + 1 /\ moved' = [moved EXCEPT !.pass = FALSE]
    /\ UNCHANGED <<graph, level, comm, sigmaTot, finalComm, pc>>

-----------------------------------------------------------------------------
(* Aggregation                                                             *)

\* Communities numbered in the order of their first nodes.
Compact(n, c) ==
    LET first == [v \in 1 .. n |-> Min({u \in 1 .. n : c[u] = c[v]})]
    IN  [v \in 1 .. n |-> Cardinality({first[u] : u \in 1 .. n} \cap 1 .. first[v])]

\* Edges between communities, summed, in the order their pairs are met.
Between(edges, c) ==
    LET ends(i) == {c[edges[i].a], c[edges[i].b]}
        crossing == {i \in DOMAIN edges : c[edges[i].a] # c[edges[i].b]}
        alike(i) == {j \in crossing : ends(j) = ends(i)}
        firsts == Ordered({i \in crossing : \A j \in alike(i) : i <= j}, <)
    IN  [k \in DOMAIN firsts |->
            Edge(Min(ends(firsts[k])), Max(ends(firsts[k])), Sum(alike(firsts[k]), Weights(edges)))]

\* aggregate: loops of the nodes joined and edges between them become loops.
Aggregated(c, n) ==
    LET inside(s) == {i \in DOMAIN level.edges : c[level.edges[i].a] = s /\ c[level.edges[i].b] = s}
    IN  Level(n, Between(level.edges, c),
              [s \in 1 .. n |-> Sum({v \in 1 .. level.n : c[v] = s}, level.selfLoop)
                                 + Sum(inside(s), Weights(level.edges))])

Compose(c) == [v \in 1 .. N |-> c[finalComm[v]]]

PassesOver == at > level.n /\ (~moved.pass \/ pass = MaxPasses)

\* The next level, which is the last if all have become one.
Aggregate ==
    /\ pc = "moving" /\ PassesOver /\ moved.level
    /\ LET c == Compact(level.n, comm)
           n == Max({c[v] : v \in 1 .. level.n})
       IN  /\ level' = Aggregated(c, n)
           /\ comm' = Singletons(n)
           /\ sigmaTot' = level'.degree
           /\ finalComm' = Compose(c)
           /\ pc' = IF n = 1 THEN "done" ELSE "moving"
    /\ at' = 1 /\ pass' = 1 /\ moved' = [pass |-> FALSE, level |-> FALSE]
    /\ UNCHANGED graph

NothingMoves ==
    /\ pc = "moving" /\ PassesOver /\ ~moved.level
    /\ pc' = "done"
    /\ UNCHANGED <<graph, level, comm, sigmaTot, at, pass, moved, finalComm>>

\* The deadline is looked at before each pass: no result.
Cancel ==
    /\ pc = "moving" /\ at = 1
    /\ pc' = "cancelled"
    /\ UNCHANGED <<graph, level, comm, sigmaTot, at, pass, moved, finalComm>>

\* Without edges every entity is alone at once.
LouvainStart(g) ==
    /\ graph = g
    /\ level = Level0
    /\ comm = Singletons(N)
    /\ sigmaTot = level.degree
    /\ at = 1 /\ pass = 1 /\ moved = [pass |-> FALSE, level |-> FALSE]
    /\ finalComm = Singletons(N)
    /\ pc = IF g = <<>> THEN "done" ELSE "moving"

LouvainInit == \E g \in Graphs : LouvainStart(g)

LouvainNext == Visit \/ NextPass \/ Aggregate \/ NothingMoves \/ Cancel

LouvainSpec == LouvainInit /\ [][LouvainNext]_louvainVars

\* The ids the entities are saved with.
Result == Compact(N, finalComm)

-----------------------------------------------------------------------------
(* Properties                                                              *)

\* The community of an entity, counting the moves on the level so far.
CommOf(v) == comm[finalComm[v]]

\* Newman's modularity of the communities so far (modularity).
Q == LET c == [v \in 1 .. N |-> CommOf(v)]
         inside(x) == Sum({i \in DOMAIN graph : c[graph[i].a] = x /\ c[graph[i].b] = x}, Weights(graph))
         degree(x) == Sum({v \in 1 .. N : c[v] = x}, Level0.degree)
         shares == [x \in 1 .. N |-> 2 * M2 * inside(x) - degree(x) * degree(x)]
     IN  Sum({c[v] : v \in 1 .. N}, shares)

ComponentsApart ==
    \A S \in SUBSET (1 .. N) :
        (\A i \in DOMAIN graph : graph[i].a \in S <=> graph[i].b \in S) =>
            \A u \in S, v \in (1 .. N) \ S : CommOf(u) # CommOf(v)

DegreesAdd ==
    /\ \A c \in 1 .. level.n :
          sigmaTot[c] = Sum({v \in 1 .. level.n : comm[v] = c}, level.degree)
    /\ \A s \in 1 .. level.n :
          level.degree[s] = Sum({v \in 1 .. N : finalComm[v] = s}, Level0.degree)

\* Every level stands for the graph.  Entities that nothing connects never
\* share a community: a set that no edge leaves is left by no community
\* either.  A node has the degree of the entities in it, and a community the
\* total of its nodes, whatever moved (localMoving, aggregate).
LevelsStandForGraph == graph # <<>> => ComponentsApart /\ DegreesAdd

\* No step lowers modularity, measured on the graph itself, and every level is
\* smaller than the one before: ties may move nodes without a gain, but never
\* so that a level repeats.
NoStepWorse == Q' >= Q /\ (level' # level => level'.n < level.n)

\* That, and passes end long before the cap that guards against ties
\* (localMoving).
ModularityNeverFalls == [][graph # <<>> => NoStepWorse /\ pass' <= N]_louvainVars
=============================================================================
