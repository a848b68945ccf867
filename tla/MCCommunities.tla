---------------------------- MODULE MCCommunities ----------------------------
(* The instances TLC checks; entities and analysts are model values.  Each *)
(* initial state belongs to one part: the analyses of a knowledge base, one *)
(* run of Louvain on a graph, the data of one call of GraphView, or one     *)
(* response of a language model.                                            *)
EXTENDS Communities, Louvain, GraphView, ModelAnswers

NoLouvain == LouvainStart(<<>>)
NoAnalysis == Init /\ entities = [e \in Entities |-> "absent"]

MCInit ==
    \/ Init /\ NoLouvain /\ input = NoInput /\ response = NoResponse
    \/ /\ NoAnalysis /\ LouvainInit /\ graph # <<>>
       /\ input = [kind |-> "graph"] /\ response = NoResponse
    \/ NoAnalysis /\ NoLouvain /\ input \in Inputs /\ response = NoResponse
    \/ NoAnalysis /\ NoLouvain /\ input = [kind |-> "response"] /\ response \in Responses

MCNext ==
    /\ UNCHANGED <<input, response>>
    /\ \/ input = NoInput /\ CommunityNext /\ UNCHANGED louvainVars
       \/ LouvainNext /\ UNCHANGED communityVars

MCSpec == MCInit /\ [][MCNext]_<<communityVars, louvainVars, input, response>>

\* Bound: themes or tests, not both; their rows are in two tables, which
\* nothing reads together.
OneKind == \E k \in Kinds : rows[k] = {} /\ \A a \in Analysts : analysts[a].kind # k

\* No property names an entity or an analyst.
DataSymmetry == Permutations(Entities) \cup Permutations(Analysts)
=============================================================================
