----------------------------- MODULE MCIngestion -----------------------------
(* The instances TLC checks.  Each initial state belongs to one part of    *)
(* what a document becomes: its chunks and vectors, its entities, its      *)
(* edges, one knowledge base that is walked, or one text that is split.    *)
EXTENDS MCChunkIndexing, MCEntityExtraction, KnowledgeGraph, Splitter

VARIABLE part       \* the part this behaviour belongs to

Parts == {"chunks", "entities", "edges", "graph", "split"}

\* A chain through three chunks; one of them may be oversized.
MCFound == [c1 |-> {{1, 2}, Names}, c2 |-> {{2, 3}}, c3 |-> {{3, 4}}]

\* The parts that stand still begin in one of their initial states.
MCInit ==
    /\ part \in Parts
    /\ IndexInit /\ (part = "chunks" \/ upload = File("text", 0, {}, {}))
    /\ Init
    /\ GraphInit /\ (part = "edges" \/ capital = Names)
    /\ IF part = "graph" THEN walk \in Walks ELSE walk = NoWalk
    /\ IF part = "split" THEN fed \in Fed ELSE fed = NothingFed

MCNext ==
    /\ UNCHANGED <<part, walk, fed>>
    /\ \/ part = "chunks" /\ IndexNext /\ UNCHANGED <<vars, graphVars>>
       \/ part = "entities" /\ Next /\ UNCHANGED <<indexVars, graphVars>>
       \/ part = "edges" /\ GraphNext /\ UNCHANGED <<indexVars, vars>>

MCSpec == MCInit /\ [][MCNext]_<<indexVars, vars, graphVars, walk, fed, part>>

\* No property names an edge job or a review.
Requests == Permutations(Runs) \cup Permutations(Reviewers)
=============================================================================
