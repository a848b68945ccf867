------------------------------ MODULE GraphView ------------------------------
(***************************************************************************)
(* The pure parts of an entity graph: which edges weighting keeps          *)
(* (community/pmi.go, relationboost.go), which part of the graph is shown  *)
(* (server/communityhandler.go), and which communities are made into       *)
(* themes and tests (theme/select.go, theme/summarize.go,                  *)
(* intrusion/tester.go).                                                   *)
(***************************************************************************)
EXTENDS Integers, Sequences, FiniteSets, SequencesExt, FiniteSetsExt, Ordering

CONSTANTS
    ViewNodes,      \* bound: entities of a graph shown
    GroupCap,       \* graphFilterCap
    GroupShare,     \* of a larger group, one node in so many is shown
    MaxMentions     \* bound: mentions of an entity

VARIABLE
    input           \* the data one call is given, of one kind

ASSUME ViewBounds == /\ {ViewNodes, GroupCap, GroupShare, MaxMentions} \subseteq Nat
                     /\ GroupCap > 0 /\ GroupShare > 0

-----------------------------------------------------------------------------
(* Weights                                                                 *)

minCoOccurrenceForPMI == 2

\* Mutant: an association is compared with the frequency of one entity.
PMIKeepsOneSided(co, freqA, freqB, total) ==
    co >= minCoOccurrenceForPMI /\ freqA > 0 /\ freqB > 0 /\ co * total > freqA * freqA

\* ApplyPMIWeighting keeps the edges whose pmiWeight is positive: two entities
\* co-occur more often than by chance.
PMIKeeps(co, freqA, freqB, total) ==
    co >= minCoOccurrenceForPMI /\ freqA > 0 /\ freqB > 0 /\ co * total > freqA * freqB

\* Mutant: a relation found nowhere else is not rescued.
KeptNoRescue(p) == PMIKeeps(p.co, p.freqA, p.freqB, p.freqA + p.freqB + p.others)

\* ApplyRelationBoost: a confirmed relation is kept whatever its weight.
Kept(p) == PMIKeeps(p.co, p.freqA, p.freqB, p.freqA + p.freqB + p.others) \/ p.confirmed

-----------------------------------------------------------------------------
(* The graph shown                                                         *)

Degree(es, v) == Cardinality({e \in es : v \in e})

\* Mutant: small groups are trimmed too.
TopOfGroupAlways(g, es) ==
    LET n == Min({GroupCap, Cardinality(g) \div GroupShare + 1})
    IN  {S \in kSubset(n, g) : \A u \in S, v \in g \ S : Degree(es, u) >= Degree(es, v)}

\* keepTopByDegree: of a group larger than the cap, a share of the nodes.
\* 1 - 0.95 is a little more than a twentieth, so that a multiple of twenty
\* counts as more.  Nodes of equal degree come in any order.
TopOfGroup(g, es) ==
    LET n == Min({GroupCap, Cardinality(g) \div GroupShare + 1})
    IN  IF Cardinality(g) <= GroupCap THEN {g}
        ELSE {S \in kSubset(n, g) : \A u \in S, v \in g \ S : Degree(es, u) >= Degree(es, v)}

\* Mutant: nodes that lost their edges stay.
ShownWithOrphans(kept, es) == [nodes |-> kept, edges |-> {e \in es : e \subseteq kept}]

\* What is left of the nodes kept: edges between them, and their ends.
Shown(kept, es) ==
    LET between == {e \in es : e \subseteq kept}
    IN  [nodes |-> UNION between, edges |-> between]

\* filterGraphView, for the community of each node (0 is none): the views it
\* may return, one for each way to break ties.
FilterGraphView(of, es) ==
    LET groups == {{v \in DOMAIN of : of[v] = c} : c \in ToSet(of)}
        choices == {f \in [groups -> SUBSET DOMAIN of] : \A g \in groups : f[g] \in TopOfGroup(g, es)}
    IN  {Shown(UNION {f[g] : g \in groups}, es) : f \in choices}

-----------------------------------------------------------------------------
(* Communities described                                                   *)

\* The n largest sizes, five at most; which of two equals is first shows in
\* no size.
Largest(sizes, n) ==
    LET bySize == Ordered(DOMAIN sizes, LAMBDA c, d :
                      sizes[c] > sizes[d] \/ (sizes[c] = sizes[d] /\ c < d))
    IN  [i \in 1 .. Min({5, n}) |-> sizes[bySize[i]]]

\* Mutant: the twentieth is rounded down.
SelectTopCommunitiesFloor(sizes) == Largest(sizes, Len(sizes) \div 20)

\* The sizes of the communities selected: the largest twentieth, at least one
\* and at most five.
SelectTopCommunities(sizes) == Largest(sizes, (Len(sizes) + 19) \div 20)

minRealMembers == 3

\* Mutant: the intruder may come from the community tested.
IntruderFromOwn(i, offset, n) == (i + offset) % n

\* The community, numbered from 0, that set i takes its intruder from, for
\* an offset drawn below n - 1.
IntruderFrom(i, offset, n) == (i + 1 + offset) % n

\* buildSets: the communities tested, and for each its intruder's community.
Sets(sizes, draw) ==
    LET qualifying == Ordered({c \in DOMAIN sizes : sizes[c] >= minRealMembers}, <)
        n == Min({30, Len(qualifying)})
    IN  IF n < 2 THEN <<>>
        ELSE [i \in 1 .. n |->
                 [community |-> qualifying[i],
                  intruder |-> qualifying[IntruderFrom(i - 1, draw[i] % (n - 1), n) + 1]]]
-----------------------------------------------------------------------------
(* Inputs                                                                  *)

NoInput == [kind |-> "none"]

NodePairs == kSubset(2, 1 .. ViewNodes)

\* Pairs of entities with the mentions of each and of all others; graphs of
\* up to two communities and entities of none; communities to be described.
Inputs ==
    [kind : {"pair"}, co : 1 .. MaxMentions, freqA : 1 .. MaxMentions,
     freqB : 1 .. MaxMentions, others : 0 .. MaxMentions, confirmed : BOOLEAN]
    \cup [kind : {"view"}, of : [1 .. ViewNodes -> 0 .. 2], edges : SUBSET NodePairs]
    \cup {[kind |-> "sizes", sizes |-> [i \in 1 .. n |-> ((i * i) % 5) + s]] :
            n \in {1, 2, 19, 20, 21, 40, 41, 101}, s \in 1 .. 3}
    \cup [kind : {"draw"}, sizes : UNION {[1 .. n -> 1 .. 4] : n \in 1 .. 3},
          draw : [1 .. 3 -> 0 .. 3]]

-----------------------------------------------------------------------------
(* Properties                                                              *)

\* An entity mentioned more, without co-occurring more, gains no edge
\* (pmiWeight); a confirmed relation is an edge however often its ends are
\* mentioned (ApplyRelationBoost).
UbiquityNeverHelps ==
    input.kind = "pair" =>
        /\ Kept([input EXCEPT !.freqA = @ + 1]) => Kept(input)
        /\ Kept([input EXCEPT !.freqB = @ + 1]) => Kept(input)
        /\ input.confirmed => Kept(input)

\* Trimming large communities takes no small one apart: what an edge joins in
\* it stays whole.  Every node shown has an edge, and no node was left out of
\* a trimmed group for one of a lower degree (filterGraphView).
TrimmingSparesSmallGroups ==
    input.kind = "view" =>
        \A r \in FilterGraphView(input.of, input.edges) :
            LET group(v) == {u \in 1 .. ViewNodes : input.of[u] = input.of[v]}
                small == {v \in 1 .. ViewNodes : Cardinality(group(v)) <= GroupCap}
            IN  /\ {e \in input.edges : e \subseteq small} \subseteq r.edges
                /\ \A v \in r.nodes : Degree(r.edges, v) > 0
                /\ \A u \in r.nodes \ small : \A v \in group(u) \ r.nodes :
                      \/ Degree(input.edges, u) >= Degree(input.edges, v)
                      \/ \A w \in r.nodes : {v, w} \notin input.edges

\* There is something to describe whenever there are communities, and a test
\* never takes its intruder from the community tested (SelectTopCommunities,
\* buildSets).
DescribableAndFair ==
    /\ input.kind = "sizes" =>
          LET top == SelectTopCommunities(input.sizes)
          IN  /\ Len(top) \in 1 .. 5 /\ 20 * Len(top) < Len(input.sizes) + 20
              /\ top[1] = Max(ToSet(input.sizes))
    /\ input.kind = "draw" =>
          LET sets == Sets(input.sizes, input.draw)
          IN  /\ \A s \in ToSet(sets) :
                    /\ s.intruder # s.community
                    /\ input.sizes[s.intruder] >= minRealMembers
              /\ IsInjective([i \in DOMAIN sets |-> sets[i].community])

GraphShownIsFair == UbiquityNeverHelps /\ TrimmingSparesSmallGroups /\ DescribableAndFair
=============================================================================
