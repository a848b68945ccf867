------------------------------ MODULE GraphLegs ------------------------------
(***************************************************************************)
(* What is found by walking the graph of a knowledge base: the chunks a    *)
(* search reaches from the entities its query names                        *)
(* (graphrag/pgstore: AggregationLeg, TraversalLeg), and the pairs of      *)
(* entities too far apart for that, which are reviewed for a link of their *)
(* own (crosslink/pgstore: CandidateChains).                               *)
(*                                                                         *)
(* A chunk is the set of canonical entities it mentions, each once, and    *)
(* any two mentions of a chunk are joined by an edge.  The LIMITs of the   *)
(* queries are left out.                                                   *)
(***************************************************************************)
EXTENDS Integers, FiniteSets, FiniteSetsExt

CONSTANTS
    Names,          \* canonical entities, by their ids' order
    MaxChunks       \* bound: chunks of the knowledge base

ASSUME NamesAreOrdered == Names \subseteq Nat /\ IsFiniteSet(Names)
ASSUME LegBounds == MaxChunks \in Nat

VARIABLE
    walk            \* a knowledge base with what is asked of it

-----------------------------------------------------------------------------
(* Candidate chains                                                        *)

\* sym: entities that a chunk mentions together, both capitalized.
Sym(chunks, capital) ==
    {p \in capital \X capital : p[1] # p[2] /\ \E c \in chunks : {p[1], p[2]} \subseteq c}

TwoHop(sym) ==
    {p \in Names \X Names :
        \E m \in Names : p[1] # p[2] /\ {<<p[1], m>>, <<m, p[2]>>} \subseteq sym}

\* three_hop: walks that do not turn back.
ThreeHop(sym) ==
    {p \in Names \X Names :
        \E m \in Names, n \in Names :
            /\ {<<p[1], m>>, <<m, n>>, <<n, p[2]>>} \subseteq sym
            /\ p[1] # p[2] /\ p[1] # n /\ m # p[2]}

\* The pairs reviewed: three edges apart, and not recorded with an answer.
CandidateChains(chunks, capital, recorded) ==
    LET sym == Sym(chunks, capital)
        far == ThreeHop(sym) \ (sym \cup TwoHop(sym))
    IN  {{p[1], p[2]} : p \in far} \ recorded

-----------------------------------------------------------------------------
(* Legs                                                                    *)

\* seed_chunk_ids: an edge at a seed makes a chunk of it; so does it rank in
\* the aggregation leg.
SeedChunks(chunks, seeds) == {c \in chunks : c \cap seeds # {} /\ Cardinality(c) > 1}

\* Mutant: only the mentions of the seeds' own chunks are followed.
Hop2ChunksUnexpanded(chunks, seeds) == {}

\* hop2_chunk_ids: of the entities that share a chunk with a seed, every
\* chunk in which one has an edge.
Hop2Chunks(chunks, seeds) ==
    LET hop1 == {e \in Names : \E c \in SeedChunks(chunks, seeds), s \in seeds :
                                  {e, s} \subseteq c /\ e # s}
    IN  SeedChunks(chunks, hop1) \ SeedChunks(chunks, seeds)

\* cross_linked: the other end of a link confirmed; of two seeds the second,
\* which is taken for the greater of the pair.
CrossLinked(seeds, links) ==
    UNION {IF Cardinality(l \cap seeds) = 2 THEN {Max(l)} ELSE l \ seeds :
              l \in {l \in links : l \cap seeds # {}}}

CrossLinkedChunks(chunks, seeds, links) ==
    {c \in chunks : c \cap CrossLinked(seeds, links) # {}} \ SeedChunks(chunks, seeds)

TraversalLeg(chunks, seeds, links) ==
    Hop2Chunks(chunks, seeds) \cup CrossLinkedChunks(chunks, seeds, links)

-----------------------------------------------------------------------------
(* Walks                                                                   *)

NoWalk == [kind |-> "none"]

Walks ==
    [kind : {"walk"}, chunks : UNION {kSubset(k, SUBSET Names) : k \in 1 .. MaxChunks},
     capital : {Names, Names \ {Max(Names)}}, seeds : kSubset(1, Names) \cup kSubset(2, Names),
     link : kSubset(2, Names)]

-----------------------------------------------------------------------------
(* Properties                                                              *)

\* Entities at most one edge from those in S.
Reach(sym, S) == S \cup {p[2] : p \in {p \in sym : p[1] \in S}}
Reach2(sym, S) == Reach(sym, Reach(sym, S))

\* The two queries complement one another.  An entity at most two edges from
\* a seed is found in a chunk of one leg or the other, one that a confirmed
\* link leads to in each of its chunks; what is reviewed for a link is at
\* exactly three edges, and no such pair is missed (TraversalLeg's and
\* candidateChainsQuery's comments).
LegsAndLinksComplement ==
    walk.kind = "walk" =>
        LET all == Sym(walk.chunks, Names)
            sym == Sym(walk.chunks, walk.capital)
            found(links) == SeedChunks(walk.chunks, walk.seeds)
                            \cup TraversalLeg(walk.chunks, walk.seeds, links)
            near == Reach2(all, walk.seeds) \ walk.seeds
        IN  /\ near \subseteq UNION found({})
            /\ \A e \in walk.link \ walk.seeds : walk.link \cap walk.seeds # {} =>
                  {c \in walk.chunks : e \in c} \subseteq found({walk.link})
            /\ CandidateChains(walk.chunks, walk.capital, {walk.link}) =
                  {p \in kSubset(2, walk.capital) \ {walk.link} :
                      \A a \in p : p \ {a} \subseteq Reach(sym, Reach2(sym, {a})) \ Reach2(sym, {a})}
=============================================================================
