------------------------- MODULE CommunitiesProofs -------------------------
(***************************************************************************)
(* What holds of Communities for every graph that entities, co-occurrences *)
(* and relations can form, every number of requests and every limit; of    *)
(* what GraphView keeps, shows and chooses of a graph; of what             *)
(* ModelAnswers reads of the response of a language model; and of Louvain  *)
(* for every graph and any weights.                                        *)
(***************************************************************************)
EXTENDS Communities, Louvain, GraphView, ModelAnswers, FiniteSetTheorems,
        SequenceTheorems, WellFoundedInduction, TLAPS

(***************************************************************************)
(* Induction                                                               *)
(***************************************************************************)
LEMMA Least ==
  ASSUME NEW T, T \subseteq Nat, T # {}
  PROVE  \E x \in T : \A y \in T : x <= y
  <1> DEFINE R == OpToRel(<, Nat)
  <1>1. IsWellFoundedOn(R, Nat)
    BY NatLessThanWellFounded
  <1>2. \A i, j \in Nat : i < j => <<i, j>> \in R
    BY DEF OpToRel
  <1> HIDE DEF R
  <1>3. PICK x \in T : \A y \in T : ~(<<y, x>> \in R)
    BY <1>1, WFMin
  <1>4. \A y \in T : ~(y < x)
    BY <1>2, <1>3
  <1>5. QED BY <1>3, <1>4

LEMMA Induction ==
  ASSUME NEW S, 0 \in S, \A n \in Nat : n \in S => n + 1 \in S
  PROVE  Nat \subseteq S
  <1>1. SUFFICES ASSUME Nat \ S # {} PROVE FALSE
    OBVIOUS
  <1>2. PICK n \in Nat \ S : \A m \in Nat \ S : n <= m
    BY <1>1, Least
  <1>3. n # 0 /\ n - 1 \in Nat /\ n - 1 \in S
    BY <1>2
  <1>4. QED BY <1>2, <1>3

(***************************************************************************)
(* How many pairs there are                                                *)
(***************************************************************************)
Twos(S) == {p \in SUBSET S : Cardinality(p) = 2}

LEMMA TwoOf ==
  ASSUME NEW S, IsFiniteSet(S), NEW p \in Twos(S), NEW x \in p
  PROVE  \E y \in S : y # x /\ p = {x, y}
  <1>1. IsFiniteSet(p) /\ Cardinality(p) = 2
    BY FS_Subset DEF Twos
  <1>2. IsFiniteSet(p \ {x}) /\ Cardinality(p \ {x}) = 1
    BY <1>1, FS_RemoveElement
  <1>3. PICK y : p \ {x} = {y}
    BY <1>2, FS_Singleton
  <1>4. y \in S /\ y # x /\ p = {x, y}
    BY <1>3 DEF Twos
  <1>5. QED BY <1>4

\* The pairs with x are no more than the other elements.
LEMMA PairsWith ==
  ASSUME NEW S, IsFiniteSet(S), NEW x \in S, NEW E, E \subseteq Twos(S), \A p \in E : x \in p
  PROVE  IsFiniteSet(E) /\ Cardinality(E) <= Cardinality(S) - 1
  <1> DEFINE T == S \ {x}
             other == [p \in E |-> CHOOSE y : y \in T /\ p = {x, y}]
  <1>1. IsFiniteSet(T) /\ Cardinality(T) = Cardinality(S) - 1
    BY FS_RemoveElement
  <1>2. ASSUME NEW p \in E PROVE other[p] \in T /\ p = {x, other[p]}
    <2>1. \E y : y \in T /\ p = {x, y}
      BY TwoOf
    <2>2. QED BY <2>1
  <1>3. other \in [E -> T]
    BY <1>2
  <1> HIDE DEF other, T
  <1>4. \A p, q \in E : other[p] = other[q] => p = q
    BY <1>2
  <1>5. other \in Injection(E, T)
    BY <1>3, <1>4 DEF Injection, IsInjective
  <1>6. QED BY <1>1, <1>5, FS_Injection

LEMMA PairsBound ==
  ASSUME NEW S, IsFiniteSet(S), NEW E, E \subseteq Twos(S)
  PROVE  2 * Cardinality(E) <= Cardinality(S) * (Cardinality(S) - 1)
  <1> DEFINE Bound(n) == \A U : IsFiniteSet(U) /\ Cardinality(U) = n =>
                            \A F \in SUBSET Twos(U) :
                               IsFiniteSet(F) /\ 2 * Cardinality(F) <= n * (n - 1)
             Good == {n \in Nat : Bound(n)}
  <1>1. 0 \in Good
    <2>1. ASSUME NEW U, IsFiniteSet(U), Cardinality(U) = 0, NEW F \in SUBSET Twos(U)
          PROVE  IsFiniteSet(F) /\ 2 * Cardinality(F) <= 0 * (0 - 1)
      <3>1. U = {}
        BY <2>1, FS_EmptySet
      <3>2. F = {}
        BY <3>1, FS_EmptySet DEF Twos
      <3>3. QED BY <3>2, FS_EmptySet
    <2>2. QED BY <2>1
  <1>2. ASSUME NEW n \in Nat, n \in Good PROVE n + 1 \in Good
    <2>1. ASSUME NEW U, IsFiniteSet(U), Cardinality(U) = n + 1, NEW F \in SUBSET Twos(U)
          PROVE  IsFiniteSet(F) /\ 2 * Cardinality(F) <= (n + 1) * (n + 1 - 1)
      <3>1. PICK x : x \in U
        BY <2>1, FS_EmptySet
      <3> DEFINE With == {p \in F : x \in p}
                 Rest == {p \in F : x \notin p}
                 T == U \ {x}
      <3>2. IsFiniteSet(T) /\ Cardinality(T) = n
        <4>1. IsFiniteSet(U \ {x}) /\ Cardinality(U \ {x}) = Cardinality(U) - 1
          BY <2>1, <3>1, FS_RemoveElement
        <4>2. Cardinality(U) - 1 = n
          BY <2>1
        <4>3. QED BY <4>1, <4>2
      <3>3. IsFiniteSet(With) /\ Cardinality(With) <= n
        <4>1. With \subseteq Twos(U) /\ \A p \in With : x \in p
          OBVIOUS
        <4> HIDE DEF With
        <4>2. QED BY <2>1, <3>1, <4>1, PairsWith
      <3>4. Rest \in SUBSET Twos(T)
        BY DEF Twos
      <3>5. IsFiniteSet(Rest) /\ 2 * Cardinality(Rest) <= n * (n - 1)
        <4> HIDE DEF Rest, T
        <4>1. Bound(n)
          BY <1>2
        <4>2. QED BY <3>2, <3>4, <4>1
      <3>6. F = With \cup Rest /\ With \cap Rest = {}
        OBVIOUS
      <3> HIDE DEF With, Rest
      <3>7. IsFiniteSet(F) /\ Cardinality(F) = Cardinality(With) + Cardinality(Rest)
        <4>1. Cardinality(With) \in Nat /\ Cardinality(Rest) \in Nat
          BY <3>3, <3>5, FS_CardinalityType
        <4>2. /\ IsFiniteSet(With \cup Rest)
              /\ Cardinality(With \cup Rest) =
                    Cardinality(With) + Cardinality(Rest) - Cardinality(With \cap Rest)
          BY <3>3, <3>5, FS_Union
        <4>3. Cardinality(With \cap Rest) = 0
          BY <3>6, FS_EmptySet
        <4>4. QED BY <3>6, <4>1, <4>2, <4>3
      <3>8. Cardinality(With) \in Nat /\ Cardinality(Rest) \in Nat
        BY <3>3, <3>5, FS_CardinalityType
      <3>9. 2 * Cardinality(F) <= n * (n - 1) + 2 * n
        BY <3>3, <3>5, <3>7, <3>8
      <3>10. (n + 1) * (n + 1 - 1) = n * (n - 1) + 2 * n
        OBVIOUS
      <3>11. QED BY <3>7, <3>9, <3>10
    <2> HIDE DEF Twos
    <2>2. Bound(n + 1)
      BY <2>1
    <2>3. QED BY <2>2
  <1>3. Nat \subseteq Good
    <2> HIDE DEF Good
    <2>1. QED BY <1>1, <1>2, Induction
  <1>4. Cardinality(S) \in Nat
    BY FS_CardinalityType
  <1>5. Bound(Cardinality(S))
    BY <1>3, <1>4
  <1>6. QED BY <1>5

(***************************************************************************)
(* The inductive invariant                                                 *)
(***************************************************************************)
Run == [run : Nat, id : Nat]
Row == [id : Nat, save : Nat, orderly : BOOLEAN]

Summaries ==
    [run : Nat, communities : Nat, nodes : Nat, edges : Nat, orderly : BOOLEAN, grew : BOOLEAN]

AnalystState ==
    [kind : {"idle", "communities"} \cup Kinds,
     pc : {"idle", "nodes", "edges", "save", "delete", "commit"},
     nodes : SUBSET Entities, edges : SUBSET Pairs, rows : SUBSET Nat, seen : SUBSET Row,
     orderly : BOOLEAN, grew : BOOLEAN]

Shape ==
    /\ TypeOK
    /\ community \in [Entities -> Run]
    /\ summary \in Summaries
    /\ rows \in [Kinds -> SUBSET Row]
    /\ saves \in Nat
    /\ analysts \in [Analysts -> AnalystState]

\* What a request is at says of which kind it is.
KindFits(q) ==
    /\ q.pc = "idle" <=> q.kind = "idle"
    /\ q.pc \in {"nodes", "edges", "save"} => q.kind = "communities"
    /\ q.pc \in {"delete", "commit"} => q.kind \in Kinds

\* While an orderly recompute runs, an entity with a community is one it read.
Overwrites(q) ==
    q.pc \in {"edges", "save"} /\ q.orderly =>
       \A e \in Entities : community[e] # None => e \in q.nodes

\* Unless the graph grew meanwhile, a recompute knows no more than it may.
SeesGraph(q) ==
    ~q.grew =>
       /\ q.pc = "nodes" => Cardinality(Present) <= MaxGraphEntities
       /\ q.pc \in {"edges", "save"} => Cardinality(q.nodes) <= MaxGraphEntities
       /\ q.pc = "edges" => Present \subseteq q.nodes
       /\ q.pc = "save" => q.edges \subseteq SUBSET q.nodes

\* What a save does not replace, others stored after they overlapped with it.
Replaces(q) ==
    q.pc = "commit" =>
       /\ \A r \in rows[q.kind] \ q.seen : ~r.orderly
       /\ q.orderly => rows[q.kind] \subseteq q.seen

Fits(q) == KindFits(q) /\ Overwrites(q) /\ SeesGraph(q) /\ Replaces(q)

Alone ==
    \A a, b \in Analysts :
       analysts[a].pc # "idle" /\ analysts[a].orderly /\ analysts[b].kind = analysts[a].kind => a = b

\* What a response shows of a kind is all its rows.
SavedTogether ==
    /\ summary.orderly =>
          \A e \in Entities : community[e] # None => community[e].run = summary.run
    /\ \A k \in Kinds : \A r, s \in rows[k] : r.orderly => r.save = s.save

IInv ==
    /\ Shape
    /\ SavedTogether
    /\ SummaryFitsGraph
    /\ \A a \in Analysts : Fits(analysts[a])
    /\ Alone

(***************************************************************************)
(* Requests                                                                *)
(***************************************************************************)
LEMMA IdleFits ==
  /\ IdleAnalyst \in AnalystState /\ IdleAnalyst.pc = "idle" /\ IdleAnalyst.kind = "idle"
  /\ Fits(IdleAnalyst)
  BY DEF IdleAnalyst, AnalystState, Fits, KindFits, Overwrites, SeesGraph, Replaces

LEMMA SameFits ==
  ASSUME entities' = entities, community' = community, rows' = rows
  PROVE  \A q : Fits(q) => Fits(q)'
  BY DEF Fits, KindFits, Overwrites, SeesGraph, Replaces, Present

\* One request changes, in its place or to idle.
LEMMA AloneKept ==
  ASSUME IInv, NEW a \in Analysts, NEW q \in AnalystState, analysts' = [analysts EXCEPT ![a] = q],
         KindFits(q), q.kind = analysts[a].kind \/ q.kind = "idle",
         q.pc # "idle" => q.orderly = analysts[a].orderly
  PROVE  /\ Alone'
         /\ analysts' \in [Analysts -> AnalystState]
         /\ analysts'[a] = q
         /\ \A b \in Analysts \ {a} : analysts'[b] = analysts[b]
  <1>1. /\ analysts' \in [Analysts -> AnalystState]
        /\ analysts'[a] = q
        /\ \A b \in Analysts \ {a} : analysts'[b] = analysts[b]
    BY DEF IInv, Shape
  <1>2. \A b \in Analysts : analysts[b].pc = "idle" <=> analysts[b].kind = "idle"
    BY DEF IInv, Fits, KindFits
  <1>3. q.pc = "idle" <=> q.kind = "idle"
    BY DEF KindFits
  <1>4. ASSUME NEW b \in Analysts, NEW c \in Analysts, analysts'[b].pc # "idle",
               analysts'[b].orderly, analysts'[c].kind = analysts'[b].kind
        PROVE  b = c
    <2>1. CASE b = a
      BY <1>1, <1>2, <1>3, <1>4, <2>1 DEF IInv, Alone
    <2>2. CASE b # a
      BY <1>1, <1>2, <1>3, <1>4, <2>2 DEF IInv, Alone
    <2>3. QED BY <2>1, <2>2
  <1>5. QED BY <1>1, <1>4 DEF Alone

LEMMA TypeKept ==
  ASSUME IInv, UNCHANGED kb, analysts' \in [Analysts -> AnalystState]
  PROVE  Shape' /\ SavedTogether' /\ SummaryFitsGraph'
  <1>1. /\ entities' = entities /\ community' = community /\ edges' = edges
        /\ summary' = summary /\ rows' = rows /\ saves' = saves
    BY DEF kb
  <1>2. TypeOK'
    BY <1>1 DEF IInv, Shape, TypeOK, Present, AnalystState
  <1>3. Shape'
    BY <1>1, <1>2 DEF IInv, Shape
  <1>4. SavedTogether'
    BY <1>1 DEF IInv, SavedTogether
  <1>5. SummaryFitsGraph'
    BY <1>1, <1>2 DEF IInv, SummaryFitsGraph
  <1>6. QED BY <1>3, <1>4, <1>5

\* A request takes a step that changes nothing else.
LEMMA StepOf ==
  ASSUME IInv, NEW a \in Analysts, NEW q \in AnalystState, analysts' = [analysts EXCEPT ![a] = q],
         UNCHANGED kb, Fits(q), q.kind = analysts[a].kind \/ q.kind = "idle",
         q.pc # "idle" => q.orderly = analysts[a].orderly
  PROVE  IInv'
  <1>1. KindFits(q)
    BY DEF Fits
  <1>2. /\ Alone'
        /\ analysts' \in [Analysts -> AnalystState]
        /\ analysts'[a] = q
        /\ \A b \in Analysts \ {a} : analysts'[b] = analysts[b]
    BY <1>1, AloneKept
  <1>3. Shape' /\ SavedTogether' /\ SummaryFitsGraph'
    BY <1>2, TypeKept
  <1>4. ASSUME NEW b \in Analysts PROVE Fits(analysts[b])'
    <2>1. PICK p : p = analysts'[b]
      OBVIOUS
    <2>2. Fits(p)
      BY <1>2, <2>1 DEF IInv
    <2>3. Fits(p)'
      BY <2>2, SameFits DEF kb
    <2>4. QED BY <2>1, <2>3 DEF Fits, KindFits, Overwrites, SeesGraph, Replaces
  <1>5. QED BY <1>2, <1>3, <1>4 DEF IInv

LEMMA FailsStep ==
  ASSUME IInv, NEW a \in Analysts, Fails(a)
  PROVE  IInv'
  <1>1. analysts' = [analysts EXCEPT ![a] = IdleAnalyst] /\ UNCHANGED kb
    BY DEF Fails, Finish
  <1>2. QED BY <1>1, IdleFits, StepOf

LEMMA NodesStep ==
  ASSUME IInv, NEW a \in Analysts, ReadNodes(a)
  PROVE  IInv'
  <1>1. analysts[a] \in AnalystState /\ Fits(analysts[a]) /\ analysts[a].pc = "nodes"
    BY DEF IInv, Shape, ReadNodes, At
  <1>2. PICK q : q = [analysts[a] EXCEPT !.nodes = Nodes, !.pc = "edges"]
    OBVIOUS
  <1>3. Nodes = Present /\ Nodes \in SUBSET Entities
    BY DEF Nodes, Present
  <1>4. q \in AnalystState /\ q.kind = analysts[a].kind /\ q.orderly = analysts[a].orderly
    BY <1>1, <1>2, <1>3 DEF AnalystState
  <1>5. /\ q.pc = "edges" /\ q.nodes = Present /\ q.kind = analysts[a].kind
        /\ q.grew = analysts[a].grew
    BY <1>1, <1>2, <1>3 DEF AnalystState
  <1>6. \A e \in Entities : community[e] # None => e \in Present
    BY DEF IInv, Shape, TypeOK, Present
  <1>7. Fits(q)
    BY <1>1, <1>5, <1>6 DEF Fits, KindFits, Overwrites, SeesGraph, Replaces
  <1>8. analysts' = [analysts EXCEPT ![a] = q] /\ UNCHANGED kb
    BY <1>1, <1>2 DEF IInv, Shape, AnalystState, ReadNodes
  <1>9. QED BY <1>4, <1>7, <1>8, StepOf

LEMMA EdgesStep ==
  ASSUME IInv, NEW a \in Analysts, ReadEdges(a)
  PROVE  IInv'
  <1>1. analysts[a] \in AnalystState /\ Fits(analysts[a]) /\ analysts[a].pc = "edges"
    BY DEF IInv, Shape, ReadEdges, At
  <1>2. PICK q : q = [analysts[a] EXCEPT !.edges = Edges(analysts[a].nodes), !.pc = "save"]
    OBVIOUS
  <1>3. Edges(analysts[a].nodes) \in SUBSET Pairs
    BY DEF Edges
  <1>4. q \in AnalystState /\ q.kind = analysts[a].kind /\ q.orderly = analysts[a].orderly
    BY <1>1, <1>2, <1>3 DEF AnalystState
  <1>5. /\ q.pc = "save" /\ q.nodes = analysts[a].nodes /\ q.edges = Edges(q.nodes)
        /\ q.grew = analysts[a].grew
    BY <1>1, <1>2 DEF AnalystState
  <1>6. Present \subseteq q.nodes => q.edges \subseteq SUBSET q.nodes
    BY <1>5 DEF IInv, Shape, TypeOK, Edges
  <1>7. Fits(q)
    BY <1>1, <1>4, <1>5, <1>6 DEF Fits, KindFits, Overwrites, SeesGraph, Replaces
  <1>8. analysts' = [analysts EXCEPT ![a] = q] /\ UNCHANGED kb
    BY <1>1, <1>2 DEF IInv, Shape, AnalystState, ReadEdges
  <1>9. QED BY <1>4, <1>7, <1>8, StepOf

LEMMA DeleteStep ==
  ASSUME IInv, NEW a \in Analysts, DeleteRows(a)
  PROVE  IInv'
  <1>1. analysts[a] \in AnalystState /\ Fits(analysts[a]) /\ analysts[a].pc = "delete"
    BY DEF IInv, Shape, DeleteRows, At
  <1>2. PICK q : q = [analysts[a] EXCEPT !.seen = rows[analysts[a].kind], !.pc = "commit"]
    OBVIOUS
  <1>3. rows[analysts[a].kind] \in SUBSET Row
    BY <1>1 DEF IInv, Shape, Fits, KindFits
  <1>4. q \in AnalystState /\ q.kind = analysts[a].kind /\ q.orderly = analysts[a].orderly
    BY <1>1, <1>2, <1>3 DEF AnalystState
  <1>5. q.pc = "commit" /\ q.seen = rows[q.kind]
    BY <1>1, <1>2 DEF AnalystState
  <1>6. Fits(q)
    BY <1>1, <1>4, <1>5 DEF Fits, KindFits, Overwrites, SeesGraph, Replaces
  <1>7. analysts' = [analysts EXCEPT ![a] = q] /\ UNCHANGED kb
    BY <1>1, <1>2 DEF IInv, Shape, AnalystState, DeleteRows
  <1>8. QED BY <1>4, <1>6, <1>7, StepOf

Beginnings == [kind : {"communities"} \cup Kinds, pc : {"nodes", "delete"}, rows : SUBSET Nat]

LEMMA BeginStep ==
  ASSUME IInv, NEW a \in Analysts, NEW read \in Beginnings, Begin(a, read),
         IF read.pc = "nodes" THEN /\ read.kind = "communities"
                                   /\ Cardinality(Present) <= MaxGraphEntities
                              ELSE read.kind \in Kinds
  PROVE  IInv'
  <1> DEFINE others == {b \in Analysts : analysts[b].kind = read.kind}
             new == [IdleAnalyst EXCEPT !.kind = read.kind, !.pc = read.pc, !.rows = read.rows,
                                        !.orderly = (others = {})]
  <1>1. /\ new \in AnalystState /\ new.kind = read.kind /\ new.pc = read.pc
        /\ new.orderly = (others = {})
    BY DEF IdleAnalyst, AnalystState, Beginnings
  <1>2. analysts' = [b \in Analysts |->
            IF b = a THEN new
            ELSE IF b \in others THEN [analysts[b] EXCEPT !.orderly = FALSE]
            ELSE analysts[b]]
    BY DEF Begin
  <1>3. Fits(new)
    <2>1. read.pc \in {"nodes", "delete"} /\ read.kind # "idle" /\ read.kind \in {"communities"} \cup Kinds
      BY DEF Beginnings, Kinds
    <2>2. KindFits(new)
      BY <1>1, <2>1 DEF KindFits
    <2>3. Overwrites(new) /\ SeesGraph(new) /\ Replaces(new)
      BY <1>1, <2>1 DEF Overwrites, SeesGraph, Replaces
    <2>4. QED BY <2>2, <2>3 DEF Fits
  <1>4. ASSUME NEW b \in Analysts, b # a
        PROVE  /\ analysts'[b] \in AnalystState
               /\ analysts'[b].pc = analysts[b].pc
               /\ analysts'[b].kind = analysts[b].kind
               /\ analysts'[b].orderly => b \notin others /\ analysts[b].orderly
               /\ Fits(analysts'[b])
    <2>1. analysts[b] \in AnalystState /\ Fits(analysts[b])
      BY DEF IInv, Shape
    <2>2. CASE b \in others
      <3>1. PICK p : p = [analysts[b] EXCEPT !.orderly = FALSE]
        OBVIOUS
      <3>2. analysts'[b] = p
        BY <1>2, <1>4, <2>2, <3>1
      <3>3. /\ p \in AnalystState /\ p.pc = analysts[b].pc /\ p.kind = analysts[b].kind
            /\ p.nodes = analysts[b].nodes /\ p.edges = analysts[b].edges
            /\ p.seen = analysts[b].seen /\ p.grew = analysts[b].grew /\ ~p.orderly
        BY <2>1, <3>1 DEF AnalystState
      <3>4. Fits(p)
        BY <2>1, <3>3 DEF Fits, KindFits, Overwrites, SeesGraph, Replaces
      <3>5. QED BY <3>2, <3>3, <3>4
    <2>3. CASE b \notin others
      BY <1>2, <1>4, <2>1, <2>3
    <2>4. QED BY <2>2, <2>3
  <1>5. analysts'[a] = new
    BY <1>2
  <1>6. UNCHANGED kb
    BY DEF Begin
  <1>7. analysts' \in [Analysts -> AnalystState]
    <2> HIDE DEF new, others
    <2>1. analysts' = [b \in Analysts |-> analysts'[b]]
      BY <1>2
    <2>2. \A b \in Analysts : analysts'[b] \in AnalystState
      BY <1>1, <1>4, <1>5
    <2>3. QED BY <2>1, <2>2
  <1>8. Shape' /\ SavedTogether' /\ SummaryFitsGraph'
    BY <1>6, <1>7, TypeKept
  <1>9. ASSUME NEW b \in Analysts PROVE Fits(analysts[b])'
    <2>1. PICK p : p = analysts'[b]
      OBVIOUS
    <2>2. Fits(p)
      <3>1. CASE b = a
        BY <1>3, <1>5, <2>1, <3>1 DEF Fits, KindFits, Overwrites, SeesGraph, Replaces
      <3>2. CASE b # a
        BY <1>4, <2>1, <3>2
      <3>3. QED BY <3>1, <3>2
    <2>3. Fits(p)'
      BY <1>6, <2>2, SameFits DEF kb
    <2>4. QED BY <2>1, <2>3 DEF Fits, KindFits, Overwrites, SeesGraph, Replaces
  <1>10. Alone'
    <2>1. ASSUME NEW b \in Analysts, NEW c \in Analysts, analysts'[b].pc # "idle",
                 analysts'[b].orderly, analysts'[c].kind = analysts'[b].kind
          PROVE  b = c
      <3>1. CASE b = a
        <4>1. others = {}
          BY <1>1, <1>5, <2>1, <3>1
        <4>2. analysts'[b].kind = read.kind
          BY <1>1, <1>5, <3>1
        <4> HIDE DEF new
        <4>3. QED BY <1>4, <2>1, <3>1, <4>1, <4>2
      <3>2. CASE b # a
        <4>1. b \notin others /\ analysts[b].orderly /\ analysts[b].pc # "idle"
          BY <1>4, <2>1, <3>2
        <4>2. c # a
          <5>1. analysts'[a].kind = read.kind /\ analysts'[b].kind = analysts[b].kind
            BY <1>1, <1>4, <1>5, <3>2
          <5>2. analysts[b].kind # read.kind
            BY <4>1
          <5>3. QED BY <2>1, <5>1, <5>2
        <4>3. analysts[c].kind = analysts[b].kind
          BY <1>4, <2>1, <3>2, <4>2
        <4>4. QED BY <4>1, <4>3 DEF IInv, Alone
      <3>3. QED BY <3>1, <3>2
    <2>2. QED BY <2>1 DEF Alone
  <1>11. QED BY <1>7, <1>8, <1>9, <1>10 DEF IInv

LEMMA CountStep ==
  ASSUME IInv, NEW a \in Analysts, CountEntities(a)
  PROVE  IInv'
  <1>1. PICK read : read = [kind |-> "communities", pc |-> "nodes", rows |-> {}]
    OBVIOUS
  <1>2. read \in Beginnings /\ Begin(a, read)
    BY <1>1 DEF Beginnings, CountEntities
  <1>3. read.pc = "nodes" /\ read.kind = "communities" /\ Cardinality(Present) <= MaxGraphEntities
    BY <1>1 DEF CountEntities
  <1>4. QED BY <1>2, <1>3, BeginStep

LEMMA DescribeBegins ==
  ASSUME IInv, NEW a \in Analysts, Describe(a)
  PROVE  IInv'
  <1>1. DOMAIN Members \subseteq Nat
    BY DEF Members, IInv, Shape, Run
  <1>2. Candidates(Members) \subseteq Nat
    BY <1>1 DEF Candidates
  <1>3. ASSUME NEW kind \in Kinds, NEW I \in SUBSET Nat,
               Begin(a, [kind |-> kind, pc |-> "delete", rows |-> I])
        PROVE  IInv'
    <2>1. PICK read : read = [kind |-> kind, pc |-> "delete", rows |-> I]
      OBVIOUS
    <2>2. read \in Beginnings /\ Begin(a, read) /\ read.pc = "delete" /\ read.kind \in Kinds
      BY <1>3, <2>1 DEF Beginnings
    <2>3. QED BY <2>2, BeginStep
  <1>4. CASE \E I \in {{}} \cup {{i} : i \in Candidates(Members)} :
                Begin(a, [kind |-> "themes", pc |-> "delete", rows |-> I])
    BY <1>2, <1>3, <1>4 DEF Kinds
  <1>5. CASE \E I \in {{}, DOMAIN Members} :
                Begin(a, [kind |-> "tests", pc |-> "delete", rows |-> I])
    BY <1>1, <1>3, <1>5 DEF Kinds
  <1>6. QED BY <1>4, <1>5 DEF Describe

(***************************************************************************)
(* What is saved                                                           *)
(***************************************************************************)
LEMMA FinishKeeps ==
  ASSUME IInv, NEW a \in Analysts, Finish(a)
  PROVE  /\ Alone'
         /\ analysts' \in [Analysts -> AnalystState]
         /\ analysts'[a] = IdleAnalyst
         /\ \A b \in Analysts \ {a} : analysts'[b] = analysts[b]
         /\ \A b \in Analysts : analysts'[b].pc \in {"idle", "nodes", "edges", "save",
                                                     "delete", "commit"}
  <1>1. analysts' = [analysts EXCEPT ![a] = IdleAnalyst]
    BY DEF Finish
  <1>2. KindFits(IdleAnalyst)
    BY IdleFits DEF Fits
  <1>3. /\ Alone'
        /\ analysts' \in [Analysts -> AnalystState]
        /\ analysts'[a] = IdleAnalyst
        /\ \A b \in Analysts \ {a} : analysts'[b] = analysts[b]
    BY <1>1, <1>2, IdleFits, AloneKept
  <1>4. QED BY <1>3 DEF AnalystState

LEMMA IdleFitsAfter ==
  ASSUME NEW q, q = IdleAnalyst
  PROVE  Fits(q)'
  BY DEF IdleAnalyst, Fits, KindFits, Overwrites, SeesGraph, Replaces

LEMMA Saved ==
  ASSUME NEW nodes, IsFiniteSet(nodes), NEW f \in [nodes -> Nat]
  PROVE  /\ Cardinality({f[e] : e \in nodes}) \in Nat
         /\ Cardinality({f[e] : e \in nodes}) <= Cardinality(nodes)
  <1> DEFINE T == {f[e] : e \in nodes}
  <1>1. f \in Surjection(nodes, T)
    BY DEF Surjection
  <1>2. QED BY <1>1, FS_Surjection, FS_CardinalityType

LEMMA SaveStep ==
  ASSUME IInv, NEW a \in Analysts, SaveCommunities(a)
  PROVE  IInv'
  <1>1. PICK q : q = analysts[a]
    OBVIOUS
  <1>2. q \in AnalystState /\ Fits(q) /\ q.pc = "save" /\ q.kind = "communities"
    BY <1>1 DEF IInv, Shape, SaveCommunities, At, Fits, KindFits
  <1>3. PICK f \in Assignments(q.nodes, q.edges) :
           /\ community' = [e \in Entities |-> IF e \in Present \cap q.nodes
                                               THEN [run |-> saves + 1, id |-> f[e]]
                                               ELSE community[e]]
           /\ summary' = [run |-> saves + 1, communities |-> Cardinality({f[e] : e \in q.nodes}),
                          nodes |-> Cardinality(q.nodes), edges |-> Cardinality(q.edges),
                          orderly |-> q.orderly, grew |-> q.grew]
    BY <1>1 DEF SaveCommunities
  <1>4. /\ saves' = saves + 1 /\ Finish(a)
        /\ entities' = entities /\ edges' = edges /\ rows' = rows
    BY DEF SaveCommunities
  <1>5. /\ Alone'
        /\ analysts' \in [Analysts -> AnalystState]
        /\ analysts'[a] = IdleAnalyst
        /\ \A b \in Analysts \ {a} : analysts'[b] = analysts[b]
        /\ \A b \in Analysts : analysts'[b].pc \in {"idle", "nodes", "edges", "save",
                                                    "delete", "commit"}
    BY <1>4, FinishKeeps
  <1>6. /\ IsFiniteSet(q.nodes) /\ Cardinality(q.nodes) \in Nat
        /\ q.nodes \subseteq Entities /\ q.edges \subseteq Pairs
        /\ q.orderly \in BOOLEAN /\ q.grew \in BOOLEAN
    <2>1. q.nodes \in SUBSET Entities /\ q.edges \subseteq Pairs
      BY <1>2 DEF AnalystState
    <2>2. QED BY <1>2, <2>1, EntitiesFinite, FS_Subset, FS_CardinalityType DEF AnalystState
  <1>7. f \in [q.nodes -> Nat]
    BY <1>6 DEF Assignments
  <1>8. Cardinality(q.edges) \in Nat
    <2>1. IsFiniteSet(SUBSET Entities)
      BY EntitiesFinite, FS_SUBSET
    <2>2. q.edges \in SUBSET SUBSET Entities
      BY <1>6 DEF Pairs
    <2>3. QED BY <2>1, <2>2, FS_Subset, FS_CardinalityType
  <1>9. saves \in Nat /\ TypeOK /\ community \in [Entities -> Run]
    BY DEF IInv, Shape
  <1>10. community' \in [Entities -> Run]
    BY <1>3, <1>7, <1>9 DEF Run
  <1>11. summary' \in Summaries /\ summary'.communities <= summary'.nodes
    <2>1. /\ Cardinality({f[e] : e \in q.nodes}) \in Nat
          /\ Cardinality({f[e] : e \in q.nodes}) <= Cardinality(q.nodes)
      BY <1>6, <1>7, Saved
    <2>2. QED BY <1>3, <1>6, <1>8, <1>9, <2>1 DEF Summaries
  <1>12. TypeOK'
    <2>1. \A e \in Entities : entities'[e] # "present" => community'[e] = None
      BY <1>3, <1>4, <1>9 DEF TypeOK, Present
    <2>2. \A p \in Pairs : edges'[p] # "none" => p \subseteq Present'
      BY <1>4, <1>9 DEF TypeOK, Present
    <2>3. \A k \in Kinds : \A r \in rows'[k] : r.save \in 1 .. saves'
      BY <1>4, <1>9 DEF TypeOK
    <2>4. QED BY <1>4, <1>5, <1>9, <1>11, <2>1, <2>2, <2>3 DEF TypeOK
  <1>13. Shape'
    BY <1>4, <1>5, <1>9, <1>10, <1>11, <1>12 DEF IInv, Shape
  <1>14. SavedTogether'
    <2>1. ASSUME summary'.orderly, NEW e \in Entities, community'[e] # None
          PROVE  community'[e].run = summary'.run
      <3>1. q.orderly
        BY <1>3, <2>1
      <3>2. e \in Present \cap q.nodes
        BY <1>2, <1>3, <1>9, <2>1, <3>1 DEF Fits, Overwrites, TypeOK, Present
      <3>3. QED BY <1>3, <3>2
    <2>2. QED BY <1>4, <2>1 DEF SavedTogether, IInv
  <1>15. SummaryFitsGraph'
    <2>1. ASSUME ~summary'.grew
          PROVE  /\ 2 * summary'.edges <= summary'.nodes * (summary'.nodes - 1)
                 /\ summary'.nodes <= MaxGraphEntities
      <3>1. ~q.grew
        BY <1>3, <2>1
      <3>2. Cardinality(q.nodes) <= MaxGraphEntities /\ q.edges \subseteq SUBSET q.nodes
        BY <1>2, <3>1 DEF Fits, SeesGraph
      <3>3. q.edges \subseteq Twos(q.nodes)
        BY <1>6, <3>2 DEF Pairs, Twos
      <3>4. 2 * Cardinality(q.edges) <= Cardinality(q.nodes) * (Cardinality(q.nodes) - 1)
        BY <1>6, <3>3, PairsBound
      <3>5. QED BY <1>3, <3>2, <3>4
    <2>2. QED BY <1>12, <2>1 DEF SummaryFitsGraph
  <1>16. ASSUME NEW b \in Analysts PROVE Fits(analysts[b])'
    <2>1. PICK p : p = analysts'[b]
      OBVIOUS
    <2>2. CASE b = a
      <3>1. Fits(p)'
        BY <1>5, <2>1, <2>2, IdleFitsAfter
      <3>2. QED BY <2>1, <3>1 DEF Fits, KindFits, Overwrites, SeesGraph, Replaces
    <2>3. CASE b # a
      <3>1. p = analysts[b] /\ Fits(p)
        BY <1>5, <2>1, <2>3 DEF IInv
      <3>2. p.pc \in {"edges", "save"} => ~p.orderly
        BY <1>1, <1>2, <2>3, <3>1 DEF Fits, KindFits, IInv, Alone
      <3>3. Fits(p)'
        BY <1>4, <3>1, <3>2 DEF Fits, KindFits, Overwrites, SeesGraph, Replaces, Present
      <3>4. QED BY <2>1, <3>3 DEF Fits, KindFits, Overwrites, SeesGraph, Replaces
    <2>4. QED BY <2>2, <2>3
  <1>17. QED BY <1>5, <1>13, <1>14, <1>15, <1>16 DEF IInv

LEMMA InsertStep ==
  ASSUME IInv, NEW a \in Analysts, InsertRows(a)
  PROVE  IInv'
  <1>1. PICK q : q = analysts[a]
    OBVIOUS
  <1>2. q \in AnalystState /\ Fits(q) /\ q.pc = "commit" /\ q.kind \in Kinds
    BY <1>1 DEF IInv, Shape, InsertRows, At, Fits, KindFits
  <1>3. PICK new : new = {[id |-> i, save |-> saves + 1, orderly |-> q.orderly] : i \in q.rows}
    OBVIOUS
  <1>4. rows' = [rows EXCEPT ![q.kind] = (rows[q.kind] \ q.seen) \cup new]
    BY <1>1, <1>3 DEF InsertRows
  <1>5. /\ saves' = saves + 1 /\ Finish(a)
        /\ entities' = entities /\ edges' = edges /\ community' = community /\ summary' = summary
    BY DEF InsertRows
  <1>6. /\ Alone'
        /\ analysts' \in [Analysts -> AnalystState]
        /\ analysts'[a] = IdleAnalyst
        /\ \A b \in Analysts \ {a} : analysts'[b] = analysts[b]
        /\ \A b \in Analysts : analysts'[b].pc \in {"idle", "nodes", "edges", "save",
                                                    "delete", "commit"}
    BY <1>5, FinishKeeps
  <1>7. saves \in Nat /\ TypeOK /\ rows \in [Kinds -> SUBSET Row]
    BY DEF IInv, Shape
  <1>8. \A r \in new : r \in Row /\ r.save = saves + 1 /\ r.orderly = q.orderly
    BY <1>2, <1>3, <1>7 DEF AnalystState, Row
  <1>9. /\ rows' \in [Kinds -> SUBSET Row]
        /\ rows'[q.kind] = (rows[q.kind] \ q.seen) \cup new
        /\ \A k \in Kinds \ {q.kind} : rows'[k] = rows[k]
    BY <1>2, <1>4, <1>7, <1>8
  <1>10. TypeOK'
    <2>1. ASSUME NEW k \in Kinds, NEW r \in rows'[k] PROVE r.save \in 1 .. saves'
      <3>1. \A s \in rows[k] : s.save \in 1 .. saves
        BY <1>7 DEF TypeOK
      <3>2. r \in rows[k] \/ r.save = saves + 1
        BY <1>8, <1>9, <2>1
      <3>3. QED BY <1>5, <1>7, <3>1, <3>2
    <2>2. /\ \A e \in Entities : entities'[e] # "present" => community'[e] = None
          /\ \A p \in Pairs : edges'[p] # "none" => p \subseteq Present'
      BY <1>5, <1>7 DEF TypeOK, Present
    <2>3. QED BY <1>5, <1>6, <1>7, <2>1, <2>2 DEF TypeOK
  <1>11. Shape'
    BY <1>5, <1>6, <1>7, <1>9, <1>10 DEF IInv, Shape
  <1>12. SummaryFitsGraph'
    BY <1>5, <1>10 DEF IInv, SummaryFitsGraph
  <1>13. SavedTogether'
    <2>1. ASSUME NEW k \in Kinds, NEW r \in rows'[k], NEW s \in rows'[k], r.orderly
          PROVE  r.save = s.save
      <3>1. CASE k # q.kind
        BY <1>9, <2>1, <3>1 DEF IInv, SavedTogether
      <3>2. CASE k = q.kind
        <4>1. r \in new
          BY <1>2, <1>9, <2>1, <3>2 DEF Fits, Replaces
        <4>2. q.orderly
          BY <1>8, <2>1, <4>1
        <4>3. s \in new
          BY <1>2, <1>9, <3>2, <4>2 DEF Fits, Replaces
        <4>4. QED BY <1>8, <4>1, <4>3
      <3>3. QED BY <3>1, <3>2
    <2>2. QED BY <1>5, <2>1 DEF IInv, SavedTogether
  <1>14. ASSUME NEW b \in Analysts PROVE Fits(analysts[b])'
    <2>1. PICK p : p = analysts'[b]
      OBVIOUS
    <2>2. CASE b = a
      <3>1. Fits(p)'
        BY <1>6, <2>1, <2>2, IdleFitsAfter
      <3>2. QED BY <2>1, <3>1 DEF Fits, KindFits, Overwrites, SeesGraph, Replaces
    <2>3. CASE b # a
      <3>1. p = analysts[b] /\ Fits(p)
        BY <1>6, <2>1, <2>3 DEF IInv
      <3>2. KindFits(p)' /\ Overwrites(p)' /\ SeesGraph(p)'
        BY <1>5, <3>1 DEF Fits, KindFits, Overwrites, SeesGraph, Present
      <3>3. Replaces(p)'
        <4>1. CASE p.pc = "commit" /\ p.kind = q.kind
          <5>1. ~p.orderly /\ ~q.orderly
            BY <1>1, <1>2, <2>3, <3>1, <4>1 DEF IInv, Alone
          <5>2. \A r \in rows[q.kind] \ p.seen : ~r.orderly
            BY <3>1, <4>1 DEF Fits, Replaces
          <5>3. \A r \in rows'[q.kind] \ p.seen : ~r.orderly
            BY <1>8, <1>9, <5>1, <5>2
          <5>4. QED BY <4>1, <5>1, <5>3 DEF Replaces
        <4>2. CASE p.pc = "commit" /\ p.kind # q.kind
          <5>1. p.kind \in Kinds /\ Replaces(p)
            BY <3>1, <4>2 DEF Fits, KindFits
          <5>2. rows'[p.kind] = rows[p.kind]
            BY <1>9, <4>2, <5>1
          <5>3. QED BY <5>1, <5>2 DEF Replaces
        <4>3. CASE p.pc # "commit"
          BY <4>3 DEF Replaces
        <4>4. QED BY <4>1, <4>2, <4>3
      <3>4. QED BY <2>1, <3>2, <3>3 DEF Fits, KindFits, Overwrites, SeesGraph, Replaces
    <2>4. QED BY <2>2, <2>3
  <1>15. QED BY <1>6, <1>11, <1>12, <1>13, <1>14 DEF IInv

(***************************************************************************)
(* The graph                                                               *)
(***************************************************************************)

\* The graph gains no entity: what a request read of it covers what there is.
LEMMA GraphShrinks ==
  ASSUME IInv, TypeOK', Present' \subseteq Present,
         \A e \in Entities : community'[e] = community[e] \/ community'[e] = None,
         community' \in [Entities -> Run], UNCHANGED <<summary, rows, saves, analysts>>
  PROVE  IInv'
  <1>1. summary' = summary /\ rows' = rows /\ saves' = saves /\ analysts' = analysts
    OBVIOUS
  <1>2. Shape' /\ SummaryFitsGraph' /\ Alone'
    BY <1>1 DEF IInv, Shape, SummaryFitsGraph, Alone
  <1>3. SavedTogether'
    BY <1>1 DEF IInv, SavedTogether
  <1>4. Cardinality(Present') <= Cardinality(Present) /\ Cardinality(Present) \in Nat
        /\ Cardinality(Present') \in Nat
    <2>1. Present \in SUBSET Entities
      BY DEF Present
    <2>2. IsFiniteSet(Present)
      BY <2>1, EntitiesFinite, FS_Subset
    <2>3. QED BY <2>2, FS_Subset, FS_CardinalityType
  <1>5. ASSUME NEW a \in Analysts PROVE Fits(analysts[a])'
    <2>1. PICK q : q = analysts[a]
      OBVIOUS
    <2>2. Fits(q)
      BY <2>1 DEF IInv
    <2>3. KindFits(q)' /\ Overwrites(q)' /\ Replaces(q)'
      BY <1>1, <2>2 DEF Fits, KindFits, Overwrites, Replaces
    <2>4. SeesGraph(q)'
      BY <1>4, <2>2, CommunityBounds DEF Fits, SeesGraph
    <2>5. QED BY <1>1, <2>1, <2>3, <2>4 DEF Fits, KindFits, Overwrites, SeesGraph, Replaces
  <1>6. QED BY <1>1, <1>2, <1>3, <1>5 DEF IInv

LEMMA AppearsStep ==
  ASSUME IInv, NEW e \in Entities, EntityAppears(e)
  PROVE  IInv'
  <1>1. /\ community' = community /\ edges' = edges /\ summary' = summary
        /\ rows' = rows /\ saves' = saves
        /\ entities' = [entities EXCEPT ![e] = "present"]
        /\ analysts' = [a \in Analysts |-> [analysts[a] EXCEPT
                            !.grew = @ \/ analysts[a].pc \in {"nodes", "edges"}]]
    BY DEF EntityAppears
  <1>2. ASSUME NEW a \in Analysts
        PROVE  /\ analysts'[a] \in AnalystState
               /\ analysts'[a].pc = analysts[a].pc
               /\ analysts'[a].kind = analysts[a].kind
               /\ analysts'[a].orderly = analysts[a].orderly
               /\ Fits(analysts[a])'
    <2>1. PICK q : q = analysts[a]
      OBVIOUS
    <2>2. q \in AnalystState /\ Fits(q)
      BY <2>1 DEF IInv, Shape
    <2>3. PICK p : p = analysts'[a]
      OBVIOUS
    <2>4. p = [q EXCEPT !.grew = q.grew \/ q.pc \in {"nodes", "edges"}]
      BY <1>1, <2>1, <2>3
    <2>5. /\ p.pc = q.pc /\ p.kind = q.kind /\ p.orderly = q.orderly /\ p.nodes = q.nodes
          /\ p.edges = q.edges /\ p.seen = q.seen /\ p \in AnalystState
      BY <2>2, <2>4 DEF AnalystState
    <2>6. ~p.grew => ~q.grew /\ q.pc \notin {"nodes", "edges"}
      BY <2>2, <2>4 DEF AnalystState
    <2>7. KindFits(p)' /\ Overwrites(p)' /\ Replaces(p)'
      BY <1>1, <2>2, <2>5 DEF Fits, KindFits, Overwrites, Replaces
    <2>8. SeesGraph(p)'
      BY <2>2, <2>5, <2>6 DEF Fits, SeesGraph
    <2>9. QED BY <2>1, <2>3, <2>5, <2>7, <2>8 DEF Fits, KindFits, Overwrites, SeesGraph, Replaces
  <1>3. analysts' \in [Analysts -> AnalystState]
    <2>1. analysts' = [a \in Analysts |-> analysts'[a]]
      BY <1>1
    <2>2. QED BY <1>2, <2>1
  <1>4. TypeOK'
    <2>1. TypeOK
      BY DEF IInv, Shape
    <2>2. /\ entities' \in [Entities -> {"absent", "present", "gone"}]
          /\ \A f \in Entities : entities'[f] # "present" => entities[f] # "present"
      BY <1>1, <2>1 DEF TypeOK
    <2>3. Present \subseteq Present'
      BY <2>2 DEF Present
    <2>4. \A a \in Analysts : analysts'[a].pc \in {"idle", "nodes", "edges", "save",
                                                   "delete", "commit"}
      BY <1>3 DEF AnalystState
    <2>5. QED BY <1>1, <2>1, <2>2, <2>3, <2>4 DEF TypeOK
  <1>5. Shape' /\ SummaryFitsGraph'
    BY <1>1, <1>3, <1>4 DEF IInv, Shape, SummaryFitsGraph
  <1>6. SavedTogether'
    BY <1>1 DEF IInv, SavedTogether
  <1>7. Alone'
    BY <1>2 DEF IInv, Alone
  <1>8. QED BY <1>2, <1>5, <1>6, <1>7 DEF IInv

LEMMA EdgeStep ==
  ASSUME IInv, NEW p \in Pairs, EdgeFound(p)
  PROVE  IInv'
  <1>1. /\ entities' = entities /\ community' = community /\ summary' = summary
        /\ rows' = rows /\ saves' = saves /\ analysts' = analysts /\ p \subseteq Present
    BY DEF EdgeFound
  <1>2. PICK e \in {"strong", "confirmed"} : edges' = [edges EXCEPT ![p] = e]
    BY DEF EdgeFound
  <1>3. TypeOK /\ community \in [Entities -> Run] /\ Present' = Present
    BY <1>1 DEF IInv, Shape, Present
  <1>4. /\ edges' \in [Pairs -> {"none", "strong", "confirmed"}]
        /\ \A s \in Pairs : edges'[s] # "none" => s \subseteq Present
    BY <1>1, <1>2, <1>3 DEF TypeOK
  <1>5. TypeOK'
    BY <1>1, <1>3, <1>4 DEF TypeOK
  <1>6. QED BY <1>1, <1>3, <1>5, GraphShrinks

\* An entity goes, and with it its community and its edges.
LEMMA EntityGoes ==
  ASSUME IInv, NEW e \in Entities, entities' = [entities EXCEPT ![e] = "gone"],
         community' = [community EXCEPT ![e] = None],
         edges' \in [Pairs -> {"none", "strong", "confirmed"}],
         \A p \in Pairs : edges'[p] # "none" => e \notin p /\ p \subseteq Present,
         UNCHANGED <<summary, rows, saves, analysts>>
  PROVE  IInv'
  <1>1. TypeOK /\ community \in [Entities -> Run]
    BY DEF IInv, Shape
  <1>2. /\ entities' \in [Entities -> {"absent", "present", "gone"}]
        /\ Present' = Present \ {e}
    BY <1>1 DEF TypeOK, Present
  <1>3. /\ community' \in [Entities -> Run]
        /\ \A f \in Entities : community'[f] = community[f] \/ community'[f] = None
    BY <1>1 DEF Run, None
  <1>4. TypeOK'
    <2>1. \A f \in Entities : entities'[f] # "present" => community'[f] = None
      BY <1>1 DEF TypeOK
    <2>2. \A p \in Pairs : edges'[p] # "none" => p \subseteq Present'
      BY <1>2
    <2>3. QED BY <1>1, <1>2, <2>1, <2>2 DEF TypeOK
  <1>5. QED BY <1>2, <1>3, <1>4, GraphShrinks

LEMMA GoneStep ==
  ASSUME IInv, NEW e \in Entities, EntityGone(e)
  PROVE  IInv'
  <1>1. TypeOK
    BY DEF IInv, Shape
  <1>2. edges' = [p \in Pairs |-> IF e \in p THEN "none" ELSE edges[p]]
    BY DEF EntityGone
  <1>3. /\ edges' \in [Pairs -> {"none", "strong", "confirmed"}]
        /\ \A p \in Pairs : edges'[p] # "none" => e \notin p /\ p \subseteq Present
    BY <1>1, <1>2 DEF TypeOK
  <1>4. /\ entities' = [entities EXCEPT ![e] = "gone"]
        /\ community' = [community EXCEPT ![e] = None]
        /\ UNCHANGED <<summary, rows, saves, analysts>>
    BY DEF EntityGone
  <1>5. QED BY <1>3, <1>4, EntityGoes

LEMMA MergeStep ==
  ASSUME IInv, NEW e \in Entities, NEW f \in Entities, EntityMerged(e, f)
  PROVE  IInv'
  <1>1. TypeOK /\ f \in Present /\ e # f
    BY DEF IInv, Shape, EntityMerged
  <1>2. edges' = [p \in Pairs |->
            IF e \in p THEN "none"
            ELSE IF f \in p /\ edges[(p \ {f}) \cup {e}] # "none" /\ edges[p] # "confirmed"
            THEN edges[(p \ {f}) \cup {e}] ELSE edges[p]]
    BY DEF EntityMerged
  <1>3. ASSUME NEW p \in Pairs, f \in p, e \notin p PROVE (p \ {f}) \cup {e} \in Pairs
    <2>1. p \in SUBSET Entities /\ Cardinality(p) = 2
      BY DEF Pairs
    <2>2. IsFiniteSet(p)
      BY <2>1, EntitiesFinite, FS_Subset
    <2>3. IsFiniteSet(p \ {f}) /\ Cardinality(p \ {f}) = 1
      BY <1>3, <2>1, <2>2, FS_RemoveElement
    <2>4. Cardinality((p \ {f}) \cup {e}) = 2
      <3>1. e \notin p \ {f}
        BY <1>3
      <3>2. Cardinality((p \ {f}) \cup {e}) = Cardinality(p \ {f}) + 1
        BY <2>3, <3>1, FS_AddElement
      <3>3. QED BY <2>3, <3>2
    <2>5. QED BY <2>1, <2>4 DEF Pairs
  <1>4. ASSUME NEW p \in Pairs
        PROVE  /\ edges'[p] \in {"none", "strong", "confirmed"}
               /\ edges'[p] # "none" => e \notin p /\ p \subseteq Present
    <2>1. CASE e \in p
      BY <1>2, <2>1
    <2>2. CASE e \notin p /\ f \in p /\ edges[(p \ {f}) \cup {e}] # "none" /\ edges[p] # "confirmed"
      <3>1. PICK s \in Pairs : s = (p \ {f}) \cup {e}
        BY <1>3, <2>2
      <3>2. edges[s] \in {"none", "strong", "confirmed"} /\ s \subseteq Present
        BY <1>1, <2>2, <3>1 DEF TypeOK
      <3>3. edges'[p] = edges[s]
        BY <1>2, <2>2, <3>1
      <3>4. QED BY <1>1, <2>2, <3>1, <3>2, <3>3
    <2>3. CASE e \notin p /\ ~(f \in p /\ edges[(p \ {f}) \cup {e}] # "none" /\ edges[p] # "confirmed")
      <3>1. edges'[p] = edges[p]
        BY <1>2, <2>3
      <3>2. QED BY <1>1, <2>3, <3>1 DEF TypeOK
    <2>4. QED BY <2>1, <2>2, <2>3
  <1>5. edges' \in [Pairs -> {"none", "strong", "confirmed"}]
    BY <1>2, <1>4
  <1>6. /\ entities' = [entities EXCEPT ![e] = "gone"]
        /\ community' = [community EXCEPT ![e] = None]
        /\ UNCHANGED <<summary, rows, saves, analysts>>
    BY DEF EntityMerged
  <1>7. QED BY <1>4, <1>5, <1>6, EntityGoes

(***************************************************************************)
(* What is proved                                                          *)
(***************************************************************************)
LEMMA InitInv ==
  ASSUME Init
  PROVE  IInv
  <1>1. analysts \in [Analysts -> AnalystState]
    BY IdleFits DEF Init
  <1>2. /\ community \in [Entities -> Run] /\ summary \in Summaries
        /\ rows \in [Kinds -> SUBSET Row] /\ saves \in Nat
    BY DEF Init, Run, None, Summaries, NoSummary
  <1>3. TypeOK
    <2>1. entities \in [Entities -> {"absent", "present", "gone"}]
      BY DEF Init
    <2>2. \A a \in Analysts : analysts[a].pc \in {"idle", "nodes", "edges", "save", "delete", "commit"}
      BY <1>1 DEF AnalystState
    <2>3. /\ \A e \in Entities : community[e] = None
          /\ edges \in [Pairs -> {"none", "strong", "confirmed"}]
          /\ \A p \in Pairs : edges[p] = "none"
          /\ summary.communities <= summary.nodes
          /\ \A k \in Kinds : rows[k] = {}
      BY DEF Init, NoSummary
    <2>4. QED BY <2>1, <2>2, <2>3 DEF TypeOK
  <1>4. SavedTogether
    BY DEF Init, SavedTogether
  <1>5. SummaryFitsGraph
    BY <1>3, CommunityBounds DEF Init, NoSummary, SummaryFitsGraph
  <1>6. \A a \in Analysts : Fits(analysts[a])
    BY IdleFits DEF Init
  <1>7. Alone
    BY IdleFits DEF Init, Alone
  <1>8. QED BY <1>1, <1>2, <1>3, <1>4, <1>5, <1>6, <1>7 DEF IInv, Shape

LEMMA NextInv ==
  ASSUME IInv, [CommunityNext]_communityVars
  PROVE  IInv'
  <1>1. CASE UNCHANGED communityVars
    <2>1. UNCHANGED kb /\ analysts' = analysts /\ entities' = entities
          /\ community' = community /\ rows' = rows
      BY <1>1 DEF communityVars, kb
    <2>2. Shape' /\ SavedTogether' /\ SummaryFitsGraph'
      BY <2>1, TypeKept DEF IInv, Shape
    <2>3. ASSUME NEW a \in Analysts PROVE Fits(analysts[a])'
      <3>1. PICK q : q = analysts[a]
        OBVIOUS
      <3>2. Fits(q)'
        BY <2>1, <3>1, SameFits DEF IInv
      <3>3. QED BY <2>1, <3>1, <3>2 DEF Fits, KindFits, Overwrites, SeesGraph, Replaces
    <2>4. QED BY <2>1, <2>2, <2>3 DEF IInv, Alone
  <1>2. CASE \E a \in Analysts : Recompute(a) \/ DescribeStep(a) \/ Fails(a)
    BY <1>2, CountStep, NodesStep, EdgesStep, SaveStep, DescribeBegins, DeleteStep, InsertStep,
       FailsStep DEF Recompute, DescribeStep
  <1>3. CASE \E e \in Entities : \/ EntityAppears(e) \/ EntityGone(e)
                                 \/ \E f \in Entities : EntityMerged(e, f)
    BY <1>3, AppearsStep, GoneStep, MergeStep
  <1>4. CASE \E p \in Pairs : EdgeFound(p)
    BY <1>4, EdgeStep
  <1>5. QED BY <1>1, <1>2, <1>3, <1>4 DEF CommunityNext

\* The inductive invariant of a knowledge base's analyses: a recompute that no
\* other overlaps has read every entity with a community, knows no more edges
\* than join what it read unless the graph grew meanwhile, and a save of themes
\* or tests leaves no rows of another that it did not overlap (SaveResult).
THEOREM Invariant == CommunitySpec => []IInv
  BY InitInv, NextInv, PTL DEF CommunitySpec

\* Communities shown together, themes shown together and tests shown together
\* were saved together, unless requests of the kind overlapped (SaveResult).
THEOREM ShownIsOneResult == CommunitySpec => []OneResultShown
  <1>1. ASSUME IInv, NEW k \in Kinds, NEW result \in Response(k), NEW r \in result.rows, r.orderly
        PROVE  r.save = result.computedAt
    <2>1. rows[k] # {}
      BY <1>1 DEF Response
    <2>2. PICK s \in rows[k] : result = [computedAt |-> s.save, rows |-> rows[k]]
      BY <1>1, <2>1 DEF Response, Results
    <2>3. QED BY <1>1, <2>2 DEF IInv, SavedTogether
  <1>2. IInv => OneResultShown
    BY <1>1 DEF IInv, SavedTogether, OneResultShown
  <1>3. QED BY <1>2, Invariant, PTL

\* A summary counts at most the entities that may be analysed and the edges
\* that can join them, unless entities appeared between its queries (KBGraph).
THEOREM SummaryWithinGraph == CommunitySpec => []SummaryFitsGraph
  <1>1. IInv => SummaryFitsGraph
    BY DEF IInv
  <1>2. QED BY <1>1, Invariant, PTL

(***************************************************************************)
(* The graph shown                                                         *)
(***************************************************************************)
\* With one more mention of a, chance explains more of what a and b share.
LEMMA MoreByChance ==
  ASSUME NEW co \in Nat, NEW a \in Nat, NEW b \in Nat, NEW t \in Nat \ {0}, a <= t,
         co * (t + 1) > (a + 1) * b
  PROVE  co * t > a * b
  <1>1. co * (t + 1) = co * t + co /\ (a + 1) * b = a * b + b
    OBVIOUS
  <1>2. co * t \in Nat /\ a * b \in Nat
    OBVIOUS
  <1>3. CASE co <= b
    BY <1>1, <1>2, <1>3
  <1>4. CASE co > b
    <2>1. co * t >= (b + 1) * t
      <3>1. \A i, j, k \in Nat : i >= j => i * k >= j * k
        OBVIOUS
      <3>2. co >= b + 1 /\ b + 1 \in Nat
        BY <1>4
      <3>3. QED BY <3>1, <3>2
    <2>2. (b + 1) * t = b * t + t
      OBVIOUS
    <2>3. b * t >= a * b
      OBVIOUS
    <2>4. QED BY <1>2, <2>1, <2>2, <2>3
  <1>5. QED BY <1>3, <1>4

\* An entity mentioned more gains no edge, and a confirmed relation is one.
LEMMA NeverHelped ==
  ASSUME input \in Inputs \cup {NoInput}
  PROVE  UbiquityNeverHelps
  <1>1. SUFFICES ASSUME input.kind = "pair" PROVE UbiquityNeverHelps
    BY DEF UbiquityNeverHelps
  <1>2. input \in [kind : {"pair"}, co : 1 .. MaxMentions, freqA : 1 .. MaxMentions,
                   freqB : 1 .. MaxMentions, others : 0 .. MaxMentions, confirmed : BOOLEAN]
    BY <1>1 DEF Inputs, NoInput
  <1> PICK co, a, b, o, c : /\ co = input.co /\ a = input.freqA /\ b = input.freqB
                            /\ o = input.others /\ c = input.confirmed
    OBVIOUS
  <1>3. co \in Nat /\ a \in Nat \ {0} /\ b \in Nat \ {0} /\ o \in Nat /\ c \in BOOLEAN
    <2>1. MaxMentions \in Nat
      BY ViewBounds
    <2>2. QED BY <1>2, <2>1
  <1>4. /\ [input EXCEPT !.freqA = @ + 1].co = co /\ [input EXCEPT !.freqA = @ + 1].freqA = a + 1
        /\ [input EXCEPT !.freqA = @ + 1].freqB = b /\ [input EXCEPT !.freqA = @ + 1].others = o
        /\ [input EXCEPT !.freqA = @ + 1].confirmed = c
    BY <1>2
  <1>5. /\ [input EXCEPT !.freqB = @ + 1].co = co /\ [input EXCEPT !.freqB = @ + 1].freqA = a
        /\ [input EXCEPT !.freqB = @ + 1].freqB = b + 1 /\ [input EXCEPT !.freqB = @ + 1].others = o
        /\ [input EXCEPT !.freqB = @ + 1].confirmed = c
    BY <1>2
  <1>6. Kept(input) <=> PMIKeeps(co, a, b, a + b + o) \/ c
    BY DEF Kept
  <1>7. Kept([input EXCEPT !.freqA = @ + 1]) <=> PMIKeeps(co, a + 1, b, (a + 1) + b + o) \/ c
    BY <1>4 DEF Kept
  <1>8. Kept([input EXCEPT !.freqB = @ + 1]) <=> PMIKeeps(co, a, b + 1, a + (b + 1) + o) \/ c
    BY <1>5 DEF Kept
  <1> PICK t : t = a + b + o
    OBVIOUS
  <1>9. t \in Nat \ {0} /\ a <= t /\ b <= t /\ (a + 1) + b + o = t + 1 /\ a + (b + 1) + o = t + 1
    BY <1>3
  <1>10. ASSUME PMIKeeps(co, a + 1, b, t + 1) PROVE PMIKeeps(co, a, b, t)
    <2>1. co >= minCoOccurrenceForPMI /\ co * (t + 1) > (a + 1) * b
      BY <1>10 DEF PMIKeeps
    <2>2. co * t > a * b
      BY <1>3, <1>9, <2>1, MoreByChance
    <2>3. a > 0 /\ b > 0
      BY <1>3
    <2>4. QED BY <2>1, <2>2, <2>3 DEF PMIKeeps
  <1>11. ASSUME PMIKeeps(co, a, b + 1, t + 1) PROVE PMIKeeps(co, a, b, t)
    <2>1. co >= minCoOccurrenceForPMI /\ co * (t + 1) > a * (b + 1)
      BY <1>11 DEF PMIKeeps
    <2>2. a * (b + 1) = (b + 1) * a /\ b * a = a * b
      BY <1>3
    <2>3. co * (t + 1) > (b + 1) * a
      BY <2>1, <2>2
    <2>4. co * t > b * a
      BY <1>3, <1>9, <2>3, MoreByChance
    <2>5. a > 0 /\ b > 0 /\ co * t > a * b
      BY <1>3, <2>2, <2>4
    <2>6. QED BY <2>1, <2>5 DEF PMIKeeps
  <1>12. QED BY <1>6, <1>7, <1>8, <1>9, <1>10, <1>11 DEF UbiquityNeverHelps

\* Trimming takes no small group apart, leaves no node without an edge and
\* none out for one of a lower degree.
LEMMA SmallSpared ==
  ASSUME input \in Inputs \cup {NoInput}
  PROVE  TrimmingSparesSmallGroups
  <1>1. SUFFICES ASSUME input.kind = "view" PROVE TrimmingSparesSmallGroups
    BY DEF TrimmingSparesSmallGroups
  <1>2. input \in [kind : {"view"}, of : [1 .. ViewNodes -> 0 .. 2], edges : SUBSET NodePairs]
    BY <1>1 DEF Inputs, NoInput
  <1> PICK of, es, V : of = input.of /\ es = input.edges /\ V = 1 .. ViewNodes
    OBVIOUS
  <1>3. of \in [V -> 0 .. 2] /\ \A e \in es : e \subseteq V
    BY <1>2 DEF NodePairs, kSubset
  <1>4. IsFiniteSet(V) /\ IsFiniteSet(es)
    <2>1. IsFiniteSet(V)
      BY FS_Interval, ViewBounds
    <2>2. IsFiniteSet(SUBSET V) /\ es \in SUBSET (SUBSET V)
      BY <1>3, <2>1, FS_SUBSET
    <2>3. QED BY <2>1, <2>2, FS_Subset
  <1> DEFINE group(v) == {u \in V : of[u] = of[v]}
             groups == {{v \in DOMAIN of : of[v] = c} : c \in ToSet(of)}
             small == {v \in V : Cardinality(group(v)) <= GroupCap}
  <1>5. ASSUME NEW v \in V PROVE group(v) \in groups /\ v \in group(v)
    <2>1. of[v] \in ToSet(of) /\ DOMAIN of = V
      BY <1>3 DEF ToSet
    <2>2. QED BY <2>1
  <1>6. ASSUME NEW g \in groups, NEW v \in g PROVE v \in V /\ g = group(v)
    BY <1>3
  <1>7. ASSUME NEW g, NEW S \in TopOfGroup(g, es)
        PROVE  /\ S \subseteq g
               /\ Cardinality(g) <= GroupCap => S = g
               /\ ~(Cardinality(g) <= GroupCap) =>
                     \A u \in S, v \in g \ S : Degree(es, u) >= Degree(es, v)
    <2>1. CASE Cardinality(g) <= GroupCap
      BY <2>1 DEF TopOfGroup
    <2>2. CASE ~(Cardinality(g) <= GroupCap)
      BY <2>2 DEF TopOfGroup, kSubset
    <2>3. QED BY <2>1, <2>2
  <1> HIDE DEF group, groups
  <1>8. ASSUME NEW r \in FilterGraphView(of, es)
        PROVE  /\ {e \in es : e \subseteq small} \subseteq r.edges
               /\ \A v \in r.nodes : Degree(r.edges, v) > 0
               /\ \A u \in r.nodes \ small : \A v \in group(u) \ r.nodes :
                     \/ Degree(es, u) >= Degree(es, v)
                     \/ \A w \in r.nodes : {v, w} \notin es
    <2>1. PICK f \in [groups -> SUBSET DOMAIN of] :
             /\ \A g \in groups : f[g] \in TopOfGroup(g, es)
             /\ r = Shown(UNION {f[g] : g \in groups}, es)
      BY DEF FilterGraphView, groups
    <2> PICK U : U = UNION {f[g] : g \in groups}
      OBVIOUS
    <2> DEFINE between == {e \in es : e \subseteq U}
    <2>2. r.edges = between /\ r.nodes = UNION between
      BY <2>1 DEF Shown
    <2>3. \A g \in groups : f[g] \subseteq U
      OBVIOUS
    <2>4. ASSUME NEW e \in es, e \subseteq small PROVE e \in r.edges
      <3>1. ASSUME NEW v \in e PROVE v \in U
        <4>1. v \in V /\ Cardinality(group(v)) <= GroupCap
          BY <2>4
        <4>2. group(v) \in groups /\ v \in group(v) /\ f[group(v)] \in TopOfGroup(group(v), es)
          BY <1>5, <2>1, <4>1
        <4>3. f[group(v)] = group(v)
          BY <1>7, <4>1, <4>2
        <4>4. QED BY <2>3, <4>2, <4>3
      <3>2. QED BY <2>2, <3>1
    <2>5. ASSUME NEW v \in r.nodes PROVE Degree(r.edges, v) > 0
      <3>1. PICK e \in r.edges : v \in e
        BY <2>2
      <3>2. IsFiniteSet(r.edges) /\ {d \in r.edges : v \in d} \subseteq r.edges
        BY <1>4, <2>2, FS_Subset
      <3>3. IsFiniteSet({d \in r.edges : v \in d}) /\ e \in {d \in r.edges : v \in d}
        BY <3>1, <3>2, FS_Subset
      <3>4. Cardinality({d \in r.edges : v \in d}) \in Nat /\ Cardinality({d \in r.edges : v \in d}) # 0
        BY <3>3, FS_CardinalityType, FS_EmptySet
      <3>5. QED BY <3>4 DEF Degree
    <2>6. ASSUME NEW u \in r.nodes \ small, NEW v \in group(u) \ r.nodes,
                 ~(\A w \in r.nodes : {v, w} \notin es)
          PROVE  Degree(es, u) >= Degree(es, v)
      <3>1. PICK w \in r.nodes : {v, w} \in es
        BY <2>6
      <3>2. r.nodes \subseteq U
        BY <2>2
      <3>3. v \notin U
        <4>1. SUFFICES ASSUME v \in U PROVE FALSE
          OBVIOUS
        <4>2. {v, w} \in r.edges
          BY <2>2, <3>1, <3>2, <4>1
        <4>3. QED BY <2>2, <4>2
      <3>4. PICK g \in groups : u \in f[g]
        BY <3>2
      <3>5. f[g] \in TopOfGroup(g, es)
        BY <2>1
      <3>6. u \in g
        BY <1>7, <3>4, <3>5
      <3>7. u \in V /\ g = group(u)
        BY <1>6, <3>6
      <3>8. ~(Cardinality(g) <= GroupCap)
        BY <3>7
      <3>9. v \in g \ f[g]
        BY <2>3, <3>3, <3>7
      <3>10. QED BY <1>7, <3>4, <3>5, <3>8, <3>9
    <2>7. QED BY <2>4, <2>5, <2>6
  <1>9. TrimmingSparesSmallGroups <=>
           \A r \in FilterGraphView(of, es) :
               /\ {e \in es : e \subseteq small} \subseteq r.edges
               /\ \A v \in r.nodes : Degree(r.edges, v) > 0
               /\ \A u \in r.nodes \ small : \A v \in group(u) \ r.nodes :
                     \/ Degree(es, u) >= Degree(es, v)
                     \/ \A w \in r.nodes : {v, w} \notin es
    BY <1>1 DEF TrimmingSparesSmallGroups, group
  <1>10. QED BY <1>8, <1>9

\* The members of S that R puts before x.
Before(S, R, x) == {y \in S : <<y, x>> \in R}

\* In a finite set in strict order, a member has each place.
LEMMA EachPlaceIsTaken ==
  ASSUME NEW S, IsFiniteSet(S), NEW R,
         \A x, y \in S : <<x, y>> \in R \/ x = y \/ <<y, x>> \in R,
         \A x \in S : <<x, x>> \notin R,
         \A x, y, z \in S : <<x, y>> \in R /\ <<y, z>> \in R => <<x, z>> \in R
  PROVE  \A k \in 1 .. Cardinality(S) : \E x \in S : Cardinality(Before(S, R, x)) = k - 1
  <1> DEFINE n == Cardinality(S)
             earlier(x) == Before(S, R, x)
             upTo(x) == earlier(x) \cup {x}
             place == [x \in S |-> Cardinality(upTo(x))]
  <1>1. n \in Nat
    BY FS_CardinalityType
  <1>2. ASSUME NEW x \in S
        PROVE  /\ IsFiniteSet(upTo(x)) /\ Cardinality(upTo(x)) \in 1 .. n
               /\ Cardinality(earlier(x)) = Cardinality(upTo(x)) - 1
    <2>1. earlier(x) \in SUBSET S /\ upTo(x) \in SUBSET S /\ x \notin earlier(x)
      BY DEF Before
    <2>2. /\ IsFiniteSet(earlier(x)) /\ Cardinality(earlier(x)) \in Nat
          /\ IsFiniteSet(upTo(x)) /\ Cardinality(upTo(x)) \in Nat /\ Cardinality(upTo(x)) <= n
      <3> HIDE DEF earlier, upTo
      <3>1. QED BY <2>1, FS_Subset, FS_CardinalityType
    <2>3. Cardinality(earlier(x) \cup {x}) = Cardinality(earlier(x)) + 1
      <3> HIDE DEF earlier
      <3>1. QED BY <2>1, <2>2, FS_AddElement
    <2>4. Cardinality(upTo(x)) = Cardinality(earlier(x)) + 1
      BY <2>3
    <2> HIDE DEF earlier, upTo, n
    <2>5. QED BY <1>1, <2>2, <2>4
  <1>3. ASSUME NEW x \in S, NEW y \in S, <<x, y>> \in R
        PROVE  Cardinality(upTo(x)) < Cardinality(upTo(y))
    <2>1. upTo(x) \in SUBSET upTo(y) /\ y \in upTo(y) /\ y \notin upTo(x)
      BY <1>3 DEF Before
    <2> HIDE DEF earlier, upTo, n
    <2>2. IsFiniteSet(upTo(y)) /\ Cardinality(upTo(x)) \in Nat /\ Cardinality(upTo(y)) \in Nat
      BY <1>1, <1>2
    <2>3. Cardinality(upTo(x)) <= Cardinality(upTo(y)) /\ Cardinality(upTo(x)) # Cardinality(upTo(y))
      BY <2>1, <2>2, FS_Subset
    <2>4. QED BY <2>2, <2>3
  <1> HIDE DEF earlier, upTo, n
  <1>4. ASSUME NEW x \in S, NEW y \in S, Cardinality(upTo(x)) = Cardinality(upTo(y)) PROVE x = y
    <2>1. Cardinality(upTo(x)) \in Nat
      BY <1>1, <1>2
    <2>2. ~(<<x, y>> \in R) /\ ~(<<y, x>> \in R)
      BY <1>3, <1>4, <2>1
    <2>3. QED BY <2>2
  <1>5. place \in Injection(S, 1 .. n)
    BY <1>2, <1>4 DEF Injection, IsInjective
  <1>6. IsFiniteSet(1 .. n) /\ Cardinality(1 .. n) = n /\ Cardinality(S) = n
    BY <1>1, FS_Interval DEF n
  <1>7. place \in Surjection(S, 1 .. n)
    BY <1>5, <1>6, FS_Injection
  <1>8. \A k \in 1 .. n : \E x \in S : Cardinality(upTo(x)) = k
    BY <1>7 DEF Surjection
  <1>9. \A k \in 1 .. n : \E x \in S : Cardinality(earlier(x)) = k - 1
    BY <1>2, <1>8
  <1>10. QED BY <1>9 DEF earlier, n

\* The largest size is the first one chosen.
LEMMA LargestIsFirst ==
  ASSUME NEW n \in Nat \ {0}, NEW sizes \in [1 .. n -> Nat]
  PROVE  LET bySize == Ordered(DOMAIN sizes, LAMBDA c, d :
                           sizes[c] > sizes[d] \/ (sizes[c] = sizes[d] /\ c < d))
         IN  sizes[bySize[1]] = Max(ToSet(sizes))
  <1> DEFINE S == DOMAIN sizes
             ahead(x) == {y \in S : sizes[y] > sizes[x] \/ (sizes[y] = sizes[x] /\ y < x)}
             R == {p \in S \X S : \/ sizes[p[1]] > sizes[p[2]]
                                  \/ sizes[p[1]] = sizes[p[2]] /\ p[1] < p[2]}
             nth(k) == CHOOSE x \in S : Cardinality(ahead(x)) = k - 1
             first == nth(1)
             bySize == Ordered(S, LAMBDA c, d : sizes[c] > sizes[d] \/ (sizes[c] = sizes[d] /\ c < d))
  <1> HIDE DEF bySize
  <1>1. S = 1 .. n /\ IsFiniteSet(S) /\ Cardinality(S) = n
    BY FS_Interval
  <1>2. \A x, y \in S : <<x, y>> \in R <=> sizes[x] > sizes[y] \/ (sizes[x] = sizes[y] /\ x < y)
    OBVIOUS
  <1>3. bySize = [k \in 1 .. Cardinality(S) |-> nth(k)]
    BY DEF Ordered, bySize
  <1> HIDE DEF R, S, nth, ahead
  <1>4. bySize[1] = first
    BY <1>1, <1>3
  <1>5. \A x \in S : x \in Nat /\ sizes[x] \in Nat
    BY <1>1
  <1>6. /\ \A x, y \in S : <<x, y>> \in R \/ x = y \/ <<y, x>> \in R
        /\ \A x \in S : <<x, x>> \notin R
        /\ \A x, y, z \in S : <<x, y>> \in R /\ <<y, z>> \in R => <<x, z>> \in R
    <2>1. ASSUME NEW x \in S, NEW y \in S PROVE <<x, y>> \in R \/ x = y \/ <<y, x>> \in R
      <3> PICK a, b : a = sizes[x] /\ b = sizes[y]
        OBVIOUS
      <3>1. a \in Nat /\ b \in Nat /\ x \in Nat /\ y \in Nat
        BY <1>5
      <3>2. a > b \/ b > a \/ (a = b /\ (x < y \/ x = y \/ y < x))
        BY <3>1
      <3>3. QED BY <1>2, <3>2
    <2>2. \A x \in S : <<x, x>> \notin R
      BY <1>2, <1>5
    <2>3. \A x, y, z \in S : <<x, y>> \in R /\ <<y, z>> \in R => <<x, z>> \in R
      BY <1>2, <1>5
    <2>4. QED BY <2>1, <2>2, <2>3
  <1>7. \E x \in S : Cardinality(Before(S, R, x)) = 1 - 1
    <2>1. 1 \in 1 .. Cardinality(S)
      BY <1>1
    <2>2. IsFiniteSet(S)
      BY <1>1
    <2>3. \A k \in 1 .. Cardinality(S) : \E x \in S : Cardinality(Before(S, R, x)) = k - 1
      BY <1>6, <2>2, EachPlaceIsTaken
    <2>4. QED BY <2>1, <2>3
  <1>8. \A x \in S : Before(S, R, x) = ahead(x)
    BY <1>2 DEF Before, ahead
  <1>9. first \in S /\ Cardinality(ahead(first)) = 1 - 1
    <2>1. \E x \in S : Cardinality(ahead(x)) = 1 - 1
      BY <1>7, <1>8
    <2>2. QED BY <2>1 DEF nth
  <1>10. ahead(first) = {}
    <2>1. ahead(first) \subseteq S
      BY DEF ahead
    <2>2. IsFiniteSet(ahead(first))
      BY <1>1, <2>1, FS_Subset
    <2>3. QED BY <1>9, <2>2, FS_EmptySet
  <1>11. \A x \in S : sizes[first] >= sizes[x]
    <2>1. ASSUME NEW x \in S, ~(sizes[first] >= sizes[x]) PROVE FALSE
      <3>1. x \in ahead(first)
        BY <1>5, <1>9, <2>1 DEF ahead
      <3>2. QED BY <1>10, <3>1
    <2>2. QED BY <2>1
  <1>12. ToSet(sizes) = {sizes[x] : x \in S}
    BY DEF ToSet, S
  <1>13. sizes[first] \in ToSet(sizes) /\ \A s \in ToSet(sizes) : sizes[first] >= s /\ s \in Nat
    BY <1>5, <1>9, <1>11, <1>12
  <1>14. Max(ToSet(sizes)) = sizes[first]
    BY <1>13 DEF Max
  <1>15. QED BY <1>4, <1>14 DEF bySize, S

\* The members that qualify, in order, each once.
LEMMA OrderedOnce ==
  ASSUME NEW S, S \subseteq Nat, IsFiniteSet(S)
  PROVE  LET q == Ordered(S, <)
         IN  /\ Cardinality(S) \in Nat
             /\ q \in [1 .. Cardinality(S) -> S]
             /\ \A k, l \in 1 .. Cardinality(S) : q[k] = q[l] => k = l
             /\ \A k \in 1 .. Cardinality(S) : Cardinality({y \in S : y < q[k]}) = k - 1
  <1> DEFINE n == Cardinality(S)
             R == {p \in S \X S : p[1] < p[2]}
             nth(k) == CHOOSE x \in S : Cardinality({y \in S : y < x}) = k - 1
             q == Ordered(S, <)
  <1>1. n \in Nat
    BY FS_CardinalityType
  <1>2. \A x, y \in S : <<x, y>> \in R <=> x < y
    OBVIOUS
  <1> HIDE DEF R
  <1>3. /\ \A x, y \in S : <<x, y>> \in R \/ x = y \/ <<y, x>> \in R
        /\ \A x \in S : <<x, x>> \notin R
        /\ \A x, y, z \in S : <<x, y>> \in R /\ <<y, z>> \in R => <<x, z>> \in R
    BY <1>2
  <1>4. \A x \in S : Before(S, R, x) = {y \in S : y < x}
    BY <1>2 DEF Before
  <1>5. ASSUME NEW k \in 1 .. n PROVE nth(k) \in S /\ Cardinality({y \in S : y < nth(k)}) = k - 1
    <2>1. PICK x \in S : Cardinality(Before(S, R, x)) = k - 1
      BY <1>3, EachPlaceIsTaken
    <2>2. Cardinality({y \in S : y < x}) = k - 1
      BY <1>4, <2>1
    <2>3. QED BY <2>2
  <1>6. q = [k \in 1 .. n |-> nth(k)]
    BY DEF Ordered
  <1> HIDE DEF nth, q
  <1>7. q \in [1 .. n -> S]
    BY <1>5, <1>6
  <1>8. ASSUME NEW k \in 1 .. n, NEW l \in 1 .. n, q[k] = q[l] PROVE k = l
    <2>1. nth(k) = nth(l)
      BY <1>6, <1>8
    <2>2. k - 1 = l - 1
      BY <1>5, <2>1
    <2>3. QED BY <1>1, <2>2
  <1>9. \A k \in 1 .. n : Cardinality({y \in S : y < q[k]}) = k - 1
    BY <1>5, <1>6
  <1>10. QED BY <1>1, <1>7, <1>8, <1>9 DEF q

\* Five communities at most, one at least, and less than one in twenty too many.
LEMMA TwentiethIsDescribed ==
  ASSUME NEW n \in Nat \ {0}, NEW sizes \in [1 .. n -> Nat]
  PROVE  LET top == SelectTopCommunities(sizes)
         IN  /\ Len(top) \in 1 .. 5 /\ 20 * Len(top) < Len(sizes) + 20
             /\ top[1] = Max(ToSet(sizes))
  <1> DEFINE bySize == Ordered(DOMAIN sizes, LAMBDA c, d :
                           sizes[c] > sizes[d] \/ (sizes[c] = sizes[d] /\ c < d))
             w == (n + 19) \div 20
             m == Min({5, w})
             top == SelectTopCommunities(sizes)
  <1>1. sizes[bySize[1]] = Max(ToSet(sizes))
    BY LargestIsFirst
  <1>2. Len(sizes) = n
    OBVIOUS
  <1>3. w \in Nat \ {0} /\ 20 * w < n + 20
    OBVIOUS
  <1>4. top = [i \in 1 .. m |-> sizes[bySize[i]]]
    BY <1>2 DEF SelectTopCommunities, Largest
  <1> HIDE DEF bySize, w
  <1>5. m \in 1 .. 5 /\ m <= w
    <2> DEFINE x == IF 5 <= w THEN 5 ELSE w
    <2>1. x \in {5, w} /\ \A y \in {5, w} : x <= y
      BY <1>3
    <2>2. ASSUME NEW z \in {5, w}, \A y \in {5, w} : z <= y PROVE z = x
      BY <1>3, <2>1, <2>2
    <2>3. m = CHOOSE z \in {5, w} : \A y \in {5, w} : z <= y
      BY DEF Min
    <2>4. m \in {5, w} /\ \A y \in {5, w} : m <= y
      <3> HIDE DEF m, x
      <3>1. QED BY <2>1, <2>3
    <2>5. QED BY <1>3, <2>4
  <1> HIDE DEF m, top
  <1>6. Len(top) = m /\ top[1] = sizes[bySize[1]]
    <2>1. 1 \in 1 .. m
      BY <1>5
    <2>2. QED BY <1>4, <1>5, <2>1
  <1>7. QED BY <1>1, <1>2, <1>3, <1>5, <1>6 DEF top

\* The intruder comes from another of the n communities.
LEMMA IntruderIsElsewhere ==
  ASSUME NEW n \in Nat, n >= 2, NEW i \in 1 .. n, NEW offset \in 0 .. n - 2
  PROVE  /\ IntruderFrom(i - 1, offset, n) + 1 \in 1 .. n
         /\ IntruderFrom(i - 1, offset, n) + 1 # i
  <1> PICK x : x = (i - 1) + 1 + offset
    OBVIOUS
  <1>1. x = i + offset /\ x \in Nat /\ x < 2 * n
    OBVIOUS
  <1>2. IntruderFrom(i - 1, offset, n) = x % n
    BY DEF IntruderFrom
  <1>3. \A r \in 0 .. n - 1 : r % n = r /\ (r + n) % n = r
    OBVIOUS
  <1>4. CASE x < n
    <2>1. x % n = x
      BY <1>1, <1>3, <1>4
    <2>2. QED BY <1>1, <1>2, <1>4, <2>1
  <1>5. CASE x >= n
    <2>1. x - n \in 0 .. n - 1 /\ (x - n) + n = x
      BY <1>1, <1>5
    <2>2. x % n = x - n
      BY <1>3, <2>1
    <2>3. QED BY <1>1, <1>2, <1>5, <2>2
  <1>6. QED BY <1>1, <1>4, <1>5

\* A test's intruder is from another community than the one tested, of those
\* that qualify, and no community is tested twice, whatever the draws.
LEMMA IntrudersQualify ==
  ASSUME NEW l \in Nat, NEW sizes \in [1 .. l -> Nat],
         NEW tests \in Nat, NEW draw \in [1 .. tests -> Nat], l <= tests \/ 30 <= tests
  PROVE  LET sets == Sets(sizes, draw)
         IN  /\ \A s \in ToSet(sets) :
                   /\ s.intruder # s.community
                   /\ sizes[s.intruder] >= minRealMembers
             /\ IsInjective([i \in DOMAIN sets |-> sets[i].community])
  <1> DEFINE S == {c \in DOMAIN sizes : sizes[c] >= minRealMembers}
             q == Ordered(S, <)
             m == Cardinality(S)
             n == Min({30, Len(q)})
             other(i) == IntruderFrom(i - 1, draw[i] % (n - 1), n) + 1
             sets == Sets(sizes, draw)
  <1>1. sets = IF n < 2 THEN <<>>
               ELSE [i \in 1 .. n |-> [community |-> q[i], intruder |-> q[other(i)]]]
    BY DEF Sets
  <1> HIDE DEF q, sets
  <1>2. S \subseteq Nat /\ IsFiniteSet(S) /\ m \in Nat /\ m <= l
    <2>1. S \in SUBSET (1 .. l) /\ S \subseteq Nat
      OBVIOUS
    <2>2. IsFiniteSet(1 .. l) /\ Cardinality(1 .. l) = l
      BY FS_Interval
    <2> HIDE DEF S, other, n
    <2>3. IsFiniteSet(S) /\ Cardinality(S) <= Cardinality(1 .. l)
      BY <2>1, <2>2, FS_Subset
    <2>4. Cardinality(S) \in Nat
      BY <2>3, FS_CardinalityType
    <2>5. QED BY <2>1, <2>2, <2>3, <2>4
  <1>3. \A c \in S : sizes[c] >= minRealMembers
    OBVIOUS
  <1> HIDE DEF S
  <1>4. q \in [1 .. m -> S] /\ \A i, j \in 1 .. m : q[i] = q[j] => i = j
    BY <1>2, OrderedOnce DEF q
  <1>5. Len(q) = m
    BY <1>2, <1>4
  <1> HIDE DEF m
  <1>6. n \in Nat /\ n <= m /\ n <= tests
    <2> DEFINE x == IF 30 <= m THEN 30 ELSE m
    <2>1. x \in {30, m} /\ \A y \in {30, m} : x <= y
      BY <1>2
    <2>2. ASSUME NEW z \in {30, m}, \A y \in {30, m} : z <= y PROVE z = x
      BY <1>2, <2>1, <2>2
    <2>3. n = CHOOSE z \in {30, m} : \A y \in {30, m} : z <= y
      BY <1>5 DEF Min
    <2>4. n = x
      <3> HIDE DEF n, x
      <3>1. QED BY <2>1, <2>2, <2>3
    <2>5. x \in Nat /\ x <= m /\ x <= tests
      BY <1>2
    <2>6. QED BY <2>4, <2>5
  <1> HIDE DEF n
  <1>7. CASE n < 2
    <2>1. sets = <<>>
      BY <1>1, <1>7
    <2>2. QED BY <2>1 DEF ToSet, IsInjective, sets
  <1>8. CASE n >= 2
    <2>1. sets = [i \in 1 .. n |-> [community |-> q[i], intruder |-> q[other(i)]]]
      BY <1>1, <1>6, <1>8
    <2>2. ASSUME NEW i \in 1 .. n PROVE other(i) \in 1 .. n /\ other(i) # i
      <3>1. draw[i] \in Nat
        BY <1>6
      <3>2. n - 1 \in Nat \ {0}
        BY <1>6, <1>8
      <3>3. draw[i] % (n - 1) \in 0 .. n - 2
        <4>1. \A d \in Nat, k \in Nat \ {0} : d % k \in 0 .. k - 1
          OBVIOUS
        <4>2. draw[i] % (n - 1) \in 0 .. (n - 1) - 1
          BY <3>1, <3>2, <4>1
        <4>3. QED BY <1>6, <4>2
      <3>4. QED BY <1>6, <1>8, <3>3, IntruderIsElsewhere DEF other
    <2> HIDE DEF other
    <2>3. \A i \in 1 .. n : sets[i].community = q[i] /\ sets[i].intruder = q[other(i)]
      BY <2>1
    <2>4. DOMAIN sets = 1 .. n
      BY <2>1
    <2>5. \A i \in 1 .. n : i \in 1 .. m
      BY <1>2, <1>6
    <2>6. ASSUME NEW s \in ToSet(sets)
          PROVE  s.intruder # s.community /\ sizes[s.intruder] >= minRealMembers
      <3>1. PICK i \in 1 .. n : s = sets[i]
        BY <2>4 DEF ToSet
      <3>2. s.community = q[i] /\ s.intruder = q[other(i)]
        BY <2>3, <3>1
      <3>3. q[i] # q[other(i)] /\ q[other(i)] \in S
        BY <1>4, <2>2, <2>5
      <3>4. QED BY <1>3, <3>2, <3>3
    <2>7. IsInjective([i \in DOMAIN sets |-> sets[i].community])
      BY <1>4, <2>3, <2>4, <2>5 DEF IsInjective
    <2>8. QED BY <2>6, <2>7 DEF sets
  <1>9. QED BY <1>6, <1>7, <1>8

\* Something is described wherever there are communities, and a test's
\* intruder is from another community, of those that qualify.
LEMMA AlwaysDescribable ==
  ASSUME input \in Inputs \cup {NoInput}
  PROVE  DescribableAndFair
  <1>1. ASSUME input.kind = "sizes"
        PROVE  LET top == SelectTopCommunities(input.sizes)
               IN  /\ Len(top) \in 1 .. 5 /\ 20 * Len(top) < Len(input.sizes) + 20
                   /\ top[1] = Max(ToSet(input.sizes))
    <2>1. PICK n \in {1, 2, 19, 20, 21, 40, 41, 101}, s \in 1 .. 3 :
             input = [kind |-> "sizes", sizes |-> [i \in 1 .. n |-> ((i * i) % 5) + s]]
      BY <1>1 DEF Inputs, NoInput
    <2>2. n \in Nat \ {0} /\ input.sizes = [i \in 1 .. n |-> ((i * i) % 5) + s]
      BY <2>1
    <2>3. \A i \in 1 .. n : ((i * i) % 5) + s \in Nat
      <3>1. ASSUME NEW i \in 1 .. n PROVE ((i * i) % 5) + s \in Nat
        <4>1. i * i \in Nat
          BY <2>2
        <4>2. QED BY <4>1
      <3>2. QED BY <3>1
    <2>4. input.sizes \in [1 .. n -> Nat]
      BY <2>2, <2>3
    <2>5. QED BY <2>2, <2>4, TwentiethIsDescribed
  <1>2. ASSUME input.kind = "draw"
        PROVE  LET sets == Sets(input.sizes, input.draw)
               IN  /\ \A s \in ToSet(sets) :
                         /\ s.intruder # s.community
                         /\ input.sizes[s.intruder] >= minRealMembers
                   /\ IsInjective([i \in DOMAIN sets |-> sets[i].community])
    <2>1. input \in [kind : {"draw"}, sizes : UNION {[1 .. n -> 1 .. 4] : n \in 1 .. 3},
                     draw : [1 .. 3 -> 0 .. 3]]
      BY <1>2 DEF Inputs, NoInput
    <2> PICK sizes, draw : sizes = input.sizes /\ draw = input.draw
      OBVIOUS
    <2>2. PICK l \in 1 .. 3 : sizes \in [1 .. l -> 1 .. 4]
      BY <2>1
    <2>3. draw \in [1 .. 3 -> 0 .. 3]
      BY <2>1
    <2>4. sizes \in [1 .. l -> Nat] /\ draw \in [1 .. 3 -> Nat] /\ l \in Nat /\ l <= 3
      BY <2>2, <2>3
    <2>5. LET sets == Sets(sizes, draw)
          IN  /\ \A s \in ToSet(sets) :
                    /\ s.intruder # s.community
                    /\ sizes[s.intruder] >= minRealMembers
              /\ IsInjective([i \in DOMAIN sets |-> sets[i].community])
      BY <2>4, IntrudersQualify
    <2>6. QED BY <2>5
  <1>3. QED BY <1>1, <1>2 DEF DescribableAndFair

\* What PMI weighting and relation boosts keep, filterGraphView shows and
\* SelectTopCommunities and buildSets choose is fair for every number of
\* mentions, every graph, whatever its communities, and every cap.
THEOREM GraphIsShownFairly ==
  ASSUME input \in Inputs \cup {NoInput}
  PROVE  GraphShownIsFair
  BY NeverHelped, SmallSpared, AlwaysDescribable DEF GraphShownIsFair

(***************************************************************************)
(* The answers of a model                                                  *)
(***************************************************************************)
\* The greatest of a set of numbers that are bounded.
LEMMA GreatestOf ==
  ASSUME NEW n \in Nat, NEW S \in SUBSET (0 .. n), S # {}
  PROVE  Max(S) \in S /\ \A y \in S : y <= Max(S)
  <1> DEFINE back == {n - y : y \in S}
  <1>1. back # {} /\ back \subseteq Nat
    <2>1. \A y \in S : y \in Int /\ n - y \in Nat
      <3>1. \A y \in 0 .. n : y \in Int /\ n - y \in Nat
        OBVIOUS
      <3>2. QED BY <3>1
    <2>2. QED BY <2>1
  <1>2. PICK k \in back : \A j \in back : k <= j
    BY <1>1, Least
  <1>3. PICK x \in S : k = n - x
    OBVIOUS
  <1>4. ASSUME NEW y \in S PROVE x >= y
    <2>1. n - x <= n - y
      BY <1>2, <1>3
    <2>2. x \in 0 .. n /\ y \in 0 .. n
      OBVIOUS
    <2>3. QED BY <2>1, <2>2
  <1>5. Max(S) \in S /\ \A y \in S : Max(S) >= y
    BY <1>4 DEF Max
  <1>6. \A y \in S : y \in Int
    OBVIOUS
  <1>7. QED BY <1>5, <1>6

\* If there is a greatest element, that is Max.
LEMMA MaxIs ==
  ASSUME NEW S, S \subseteq Int, NEW x \in S, \A y \in S : y <= x
  PROVE  Max(S) = x
  <1>1. \A y \in S : x >= y
    OBVIOUS
  <1>2. Max(S) \in S /\ \A y \in S : Max(S) >= y
    BY <1>1 DEF Max
  <1> PICK y : y = Max(S)
    OBVIOUS
  <1>3. y \in Int /\ x \in Int /\ y >= x /\ y <= x
    BY <1>2
  <1>4. QED BY <1>3

\* The lines of s up to i, and the last line of s with one of the prefixes.
UpTo(s, i) == {j \in s : j <= i}
Latest(s, lines, prefixes) == Max({0} \cup {j \in s : lines[j].prefix \in prefixes})

\* Without its last line m, s is t.
IsLast(n, s, m, t) ==
    /\ n \in Nat /\ s \in SUBSET (1 .. n) /\ m \in s
    /\ \A j \in s : j <= m
    /\ t = s \ {m}

LEMMA LastIsMax ==
  ASSUME NEW n \in Nat, NEW s \in SUBSET (1 .. n), s # {}
  PROVE  IsLast(n, s, Max(s), s \ {Max(s)})
  <1>1. s \in SUBSET (0 .. n)
    OBVIOUS
  <1>2. Max(s) \in s /\ \A y \in s : y <= Max(s)
    BY <1>1, GreatestOf
  <1>3. QED BY <1>2 DEF IsLast

LEMMA UpToIs ==
  ASSUME NEW n, NEW s, NEW m, NEW t, IsLast(n, s, m, t)
  PROVE  /\ m \in 1 .. n /\ t \in SUBSET (1 .. n)
         /\ UpTo(s, m) = s
         /\ \A i \in t : i < m /\ UpTo(s, i) = UpTo(t, i) /\ UpTo(t, i) \in SUBSET (1 .. n)
  <1>1. /\ n \in Nat /\ s \in SUBSET (1 .. n) /\ m \in s /\ t = s \ {m}
        /\ \A j \in s : j <= m /\ j \in Int
    BY DEF IsLast
  <1>2. m \in 1 .. n /\ t \in SUBSET (1 .. n)
    BY <1>1
  <1>3. UpTo(s, m) = s
    BY <1>1 DEF UpTo
  <1>4. ASSUME NEW i \in t PROVE i < m /\ UpTo(s, i) = UpTo(t, i) /\ UpTo(t, i) \in SUBSET (1 .. n)
    <2>1. i \in s /\ i # m /\ i <= m /\ i \in Int /\ m \in Int
      BY <1>1
    <2>2. i < m /\ ~(m <= i)
      BY <2>1
    <2>3. QED BY <1>1, <1>2, <2>2 DEF UpTo
  <1>5. QED BY <1>2, <1>3, <1>4

LEMMA LatestIs ==
  ASSUME NEW n \in Nat, NEW s \in SUBSET (1 .. n), NEW lines, NEW prefixes
  PROVE  LET l == Latest(s, lines, prefixes)
         IN  /\ l \in 0 .. n
             /\ l # 0 => l \in s /\ lines[l].prefix \in prefixes
             /\ \A j \in s : lines[j].prefix \in prefixes => j <= l
  <1> DEFINE S == {0} \cup {j \in s : lines[j].prefix \in prefixes}
  <1>1. S \in SUBSET (0 .. n) /\ S # {}
    <2>1. 0 \in 0 .. n /\ \A j \in s : j \in 0 .. n
      OBVIOUS
    <2>2. QED BY <2>1
  <1>2. Max(S) \in S /\ \A y \in S : y <= Max(S)
    <2> HIDE DEF S
    <2>1. QED BY <1>1, GreatestOf
  <1>3. Latest(s, lines, prefixes) = Max(S)
    BY DEF Latest
  <1>4. \A j \in s : lines[j].prefix \in prefixes => j \in S
    OBVIOUS
  <1>5. \A l \in S : l \in 0 .. n /\ (l # 0 => l \in s /\ lines[l].prefix \in prefixes)
    BY <1>1
  <1> HIDE DEF S
  <1>6. QED BY <1>2, <1>3, <1>4, <1>5

LEMMA LatestGrows ==
  ASSUME NEW n, NEW s, NEW m, NEW t, IsLast(n, s, m, t), NEW lines, NEW prefixes
  PROVE  Latest(s, lines, prefixes) =
            IF lines[m].prefix \in prefixes THEN m ELSE Latest(t, lines, prefixes)
  <1> DEFINE S == {0} \cup {j \in s : lines[j].prefix \in prefixes}
             T == {0} \cup {j \in t : lines[j].prefix \in prefixes}
  <1>1. CASE lines[m].prefix \in prefixes
    <2>1. m \in S /\ S \subseteq Int /\ \A y \in S : y <= m
      <3>1. m \in s /\ \A j \in s : j \in Int /\ j <= m /\ 0 <= j
        BY DEF IsLast
      <3>2. QED BY <1>1, <3>1
    <2> HIDE DEF S
    <2>2. Max(S) = m
      BY <2>1, MaxIs
    <2>3. QED BY <1>1, <2>2 DEF Latest, S
  <1>2. CASE lines[m].prefix \notin prefixes
    <2>1. S = T
      BY <1>2 DEF IsLast
    <2>2. QED BY <1>2, <2>1 DEF Latest
  <1>3. QED BY <1>1, <1>2

\* The answers among the lines of s, key[u] the key an answer has after the
\* lines u: none counts under the keys in none.
Given(s, lines, key, none) ==
    {i \in s : lines[i].prefix = "answer" /\ key[UpTo(s, i)] \notin none}
AnswersOf(s, lines, key, none) ==
    [k \in {key[UpTo(s, i)] : i \in Given(s, lines, key, none)} |->
        lines[Max({i \in Given(s, lines, key, none) : key[UpTo(s, i)] = k})].text]

\* With one more line they are the same, or a new one is put among them.
LEMMA AnswersGrow ==
  ASSUME NEW n, NEW s, NEW m, NEW t, IsLast(n, s, m, t), NEW lines, NEW key, NEW none
  PROVE  AnswersOf(s, lines, key, none) =
            IF lines[m].prefix = "answer" /\ key[s] \notin none
            THEN Put(AnswersOf(t, lines, key, none), key[s], lines[m].text)
            ELSE AnswersOf(t, lines, key, none)
  <1> DEFINE G == Given(s, lines, key, none)
             H == Given(t, lines, key, none)
             under(k) == {i \in G : key[UpTo(s, i)] = k}
             before(k) == {i \in H : key[UpTo(t, i)] = k}
  <1>1. /\ m \in 1 .. n /\ t \in SUBSET (1 .. n) /\ UpTo(s, m) = s
        /\ \A i \in t : i < m /\ UpTo(s, i) = UpTo(t, i)
    BY UpToIs
  <1>2. s = t \cup {m} /\ m \notin t /\ n \in Nat
    BY <1>1 DEF IsLast
  <1>3. H \subseteq t /\ \A i \in H : UpTo(s, i) = UpTo(t, i)
    BY <1>1 DEF Given
  <1>4. CASE lines[m].prefix = "answer" /\ key[s] \notin none
    <2>1. G = H \cup {m}
      BY <1>1, <1>2, <1>4 DEF Given
    <2> HIDE DEF G, H
    <2>2. {key[UpTo(s, i)] : i \in G} = {key[UpTo(t, i)] : i \in H} \cup {key[s]}
      BY <1>1, <1>3, <2>1
    <2>3. Max(under(key[s])) = m
      <3>1. m \in under(key[s])
        BY <1>1, <2>1
      <3>2. \A i \in under(key[s]) : i \in Int /\ i <= m
        BY <1>1, <1>3, <2>1
      <3> HIDE DEF under
      <3>3. QED BY <3>1, <3>2, MaxIs
    <2>4. \A k : k # key[s] => under(k) = before(k)
      BY <1>1, <1>3, <2>1
    <2> HIDE DEF under, before
    <2>5. AnswersOf(s, lines, key, none) =
             [k \in {key[UpTo(t, i)] : i \in H} \cup {key[s]} |-> lines[Max(under(k))].text]
      BY <2>2 DEF AnswersOf, under, G
    <2>6. AnswersOf(t, lines, key, none) =
             [k \in {key[UpTo(t, i)] : i \in H} |-> lines[Max(before(k))].text]
      BY DEF AnswersOf, before, H
    <2> PICK K : K = {key[UpTo(t, i)] : i \in H}
      OBVIOUS
    <2>7. AnswersOf(s, lines, key, none) =
             [k \in K \cup {key[s]} |-> IF k = key[s] THEN lines[m].text ELSE lines[Max(before(k))].text]
      BY <2>3, <2>4, <2>5
    <2>8. AnswersOf(t, lines, key, none) = [k \in K |-> lines[Max(before(k))].text]
      BY <2>6
    <2>9. QED BY <1>4, <2>7, <2>8 DEF Put
  <1>5. CASE ~(lines[m].prefix = "answer" /\ key[s] \notin none)
    <2>1. G = H
      BY <1>1, <1>2, <1>5 DEF Given
    <2> HIDE DEF G, H
    <2>2. {key[UpTo(s, i)] : i \in G} = {key[UpTo(t, i)] : i \in H}
      BY <1>3, <2>1
    <2>3. \A k : under(k) = before(k)
      BY <1>3, <2>1
    <2> HIDE DEF under, before
    <2>4. AnswersOf(s, lines, key, none) =
             [k \in {key[UpTo(s, i)] : i \in G} |-> lines[Max(under(k))].text]
      BY DEF AnswersOf, under, G
    <2>5. AnswersOf(t, lines, key, none) =
             [k \in {key[UpTo(t, i)] : i \in H} |-> lines[Max(before(k))].text]
      BY DEF AnswersOf, before, H
    <2>6. QED BY <1>5, <2>2, <2>3, <2>4, <2>5
  <1>6. QED BY <1>4, <1>5

\* Two readings that begin and go on alike end alike.
LEMMA AlikeInTheEnd ==
  ASSUME NEW n \in Nat, NEW f, NEW g, f[{}] = g[{}],
         \A k \in 1 .. n : f[1 .. (k - 1)] = g[1 .. (k - 1)] => f[1 .. k] = g[1 .. k]
  PROVE  f[1 .. n] = g[1 .. n]
  <1> DEFINE Good == {k \in Nat : k <= n => f[1 .. k] = g[1 .. k]}
  <1>1. 0 \in Good
    <2>1. 1 .. 0 = {}
      OBVIOUS
    <2>2. QED BY <2>1
  <1>2. ASSUME NEW k \in Nat, k \in Good PROVE k + 1 \in Good
    <2>1. SUFFICES ASSUME k + 1 <= n PROVE f[1 .. (k + 1)] = g[1 .. (k + 1)]
      OBVIOUS
    <2>2. k + 1 \in 1 .. n /\ (k + 1) - 1 = k /\ f[1 .. k] = g[1 .. k]
      BY <1>2, <2>1
    <2> HIDE DEF Good
    <2>3. QED BY <2>2
  <1>3. n \in Good
    <2> HIDE DEF Good
    <2>1. QED BY <1>1, <1>2, Induction
  <1>4. QED BY <1>3

LEMMA FirstLines ==
  ASSUME NEW n \in Nat, NEW k \in 1 .. n
  PROVE  /\ 1 .. k \in SUBSET (1 .. n) /\ 1 .. k # {}
         /\ Max(1 .. k) = k /\ (1 .. k) \ {Max(1 .. k)} = 1 .. (k - 1)
  <1>1. 1 .. k \in SUBSET (1 .. n) /\ k \in 1 .. k /\ 1 .. k \subseteq Int /\ \A y \in 1 .. k : y <= k
    OBVIOUS
  <1>2. Max(1 .. k) = k
    BY <1>1, MaxIs
  <1>3. (1 .. k) \ {k} = 1 .. (k - 1)
    OBVIOUS
  <1>4. QED BY <1>1, <1>2, <1>3

LEMMA ResponseHasLines ==
  ASSUME response \in Responses \cup {NoResponse}, response.kind # "none"
  PROVE  /\ response.kind \in {"numbered", "pairs", "themes"}
         /\ \E n \in Nat : response.lines \in [1 .. n -> Lines(response.kind)]
  <1>1. PICK kind \in {"numbered", "pairs", "themes"} :
           response \in [kind : {kind}, lines : SeqOf(Lines(kind), MaxLines)]
    BY DEF Responses, NoResponse
  <1>2. response.kind = kind /\ response.lines \in SeqOf(Lines(kind), MaxLines)
    BY <1>1
  <1>3. PICK n \in 0 .. MaxLines : response.lines \in [1 .. n -> Lines(kind)]
    BY <1>2 DEF SeqOf
  <1>4. n \in Nat
    BY AnswerBounds
  <1>5. QED BY <1>2, <1>3, <1>4

\* What a line with each prefix carries.
LEMMA LineCarries ==
  ASSUME NEW kind \in {"numbered", "pairs", "themes"}, NEW l \in Lines(kind)
  PROVE  /\ l.prefix \in {"item", "answer", "chunk", "summary", "note"}
         /\ l.prefix \in {"item", "chunk"} => l.number \in Numbers
         /\ l.prefix = "answer" => l.text \in {"x", "", "SAME"}
  <1> DEFINE numbered(prefix) == [prefix : {prefix}, number : Numbers]
             texts(prefix) == [prefix : {prefix}, text : {"x", ""}]
  <1>1. Lines(kind) = numbered("item") \cup texts("answer")
          \cup CASE kind = "numbered" -> [prefix : {"answer"}, text : {"SAME"}]
                 [] kind = "pairs" -> numbered("chunk")
                 [] kind = "themes" -> [prefix : {"summary", "note"}, text : {"y"}]
    BY DEF Lines
  <1>2. CASE l \in numbered("item") \/ l \in texts("answer")
    BY <1>2
  <1>3. CASE kind = "numbered" /\ l \in [prefix : {"answer"}, text : {"SAME"}]
    BY <1>3
  <1>4. CASE kind = "pairs" /\ l \in numbered("chunk")
    BY <1>4
  <1>5. CASE kind = "themes" /\ l \in [prefix : {"summary", "note"}, text : {"y"}]
    BY <1>5
  <1> HIDE DEF numbered, texts
  <1>6. CASE kind = "numbered"
    BY <1>1, <1>2, <1>3, <1>6
  <1>7. CASE kind = "pairs"
    BY <1>1, <1>2, <1>4, <1>7
  <1>8. CASE kind = "themes"
    BY <1>1, <1>2, <1>5, <1>8
  <1>9. QED BY <1>6, <1>7, <1>8

\* What LastLine finds is the latest of the lines before.
LEMMA LastLineIs ==
  ASSUME NEW n \in Nat, NEW lines, NEW prefixes, NEW i \in 1 .. n
  PROVE  /\ UpTo(1 .. n, i) \in SUBSET (1 .. n)
         /\ LastLine(lines, prefixes, i) = Latest(UpTo(1 .. n, i), lines, prefixes)
  <1>1. 1 .. i = UpTo(1 .. n, i) /\ 1 .. i \in SUBSET (1 .. n)
    BY DEF UpTo
  <1>2. LastLine(lines, prefixes, i) = Latest(1 .. i, lines, prefixes)
    BY DEF LastLine, Latest
  <1>3. QED BY <1>1, <1>2

(***************************************************************************)
(* Answers by number                                                       *)
(***************************************************************************)
ReadNumbered(s, l) ==
    CASE l.prefix = "item" -> [s EXCEPT !.cur = l.number]
      [] l.prefix = "answer" /\ s.cur # 0 -> [s EXCEPT !.answers = Put(@, s.cur, l.text)]
      [] OTHER -> s

\* f reads the lines one after the other.
ReadsNumbered(f, n, lines) ==
    f = [s \in SUBSET (1 .. n) |->
            IF s = {} THEN [cur |-> 0, answers |-> NoAnswers]
            ELSE ReadNumbered(f[s \ {Max(s)}], lines[Max(s)])]

\* The item the lines s end in, 0 if in none.
ItemAfter(s, lines) == NumberAt(lines, Latest(s, lines, {"item"}))

LEMMA ReadNumberedIs ==
  ASSUME NEW S, NEW T, NEW r \in [cur : S, answers : T], NEW q \in [cur : S, answers : T], NEW l,
         q.cur = IF l.prefix = "item" THEN l.number ELSE r.cur,
         q.answers = IF l.prefix = "answer" /\ r.cur # 0 THEN Put(r.answers, r.cur, l.text)
                     ELSE r.answers
  PROVE  ReadNumbered(r, l) = q
  <1>1. CASE l.prefix = "item"
    BY <1>1 DEF ReadNumbered
  <1>2. CASE l.prefix = "answer" /\ r.cur # 0
    BY <1>2 DEF ReadNumbered
  <1>3. CASE l.prefix # "item" /\ ~(l.prefix = "answer" /\ r.cur # 0)
    BY <1>3 DEF ReadNumbered
  <1>4. QED BY <1>1, <1>2, <1>3

NoItem == {0}

\* What is read of s: the item it ends in, and its answers.
LEMMA NumberedIs ==
  ASSUME NEW n \in Nat, NEW lines, DOMAIN lines = 1 .. n,
         NEW key, \A s \in SUBSET (1 .. n) : key[s] = ItemAfter(s, lines)
  PROVE  NumberedAnswers(lines) = AnswersOf(1 .. n, lines, key, NoItem)
  <1> DEFINE D == 1 .. n
             all == CHOOSE f : ReadsNumbered(f, n, lines)
             W == [s \in SUBSET D |-> [cur |-> key[s], answers |-> AnswersOf(s, lines, key, NoItem)]]
  <1>1. NumberedAnswers(lines) = all[D].answers
    BY DEF NumberedAnswers, FoldLeft, MapThenFoldSet, ReadNumbered, ReadsNumbered
  <1>2. W[{}] = [cur |-> 0, answers |-> NoAnswers]
    <2>1. Latest({}, lines, {"item"}) = 0
      <3>1. {} \in SUBSET D
        OBVIOUS
      <3>2. QED BY <3>1, LatestIs
    <2>2. key[{}] = 0
      BY <2>1 DEF ItemAfter, NumberAt
    <2>3. Given({}, lines, key, NoItem) = {}
      BY DEF Given
    <2>4. AnswersOf({}, lines, key, NoItem) = NoAnswers
      BY <2>3 DEF AnswersOf, NoAnswers
    <2>5. QED BY <2>2, <2>4
  <1>3. ASSUME NEW s \in SUBSET D, NEW m, NEW t, IsLast(n, s, m, t)
        PROVE  W[s] = ReadNumbered(W[t], lines[m])
    <2>1. IsLast(n, s, m, t)
      BY <1>3
    <2>2. m \in 1 .. n /\ t \in SUBSET D
      BY <2>1, UpToIs
    <2>3. key[s] = IF lines[m].prefix = "item" THEN lines[m].number ELSE key[t]
      <3>1. Latest(s, lines, {"item"}) = IF lines[m].prefix = "item" THEN m ELSE Latest(t, lines, {"item"})
        BY <2>1, LatestGrows
      <3>2. m # 0
        BY <2>2
      <3>3. QED BY <2>2, <3>1, <3>2 DEF ItemAfter, NumberAt
    <2> PICK A, B : A = AnswersOf(s, lines, key, NoItem) /\ B = AnswersOf(t, lines, key, NoItem)
      OBVIOUS
    <2>4. A = IF lines[m].prefix = "answer" /\ key[s] # 0 THEN Put(B, key[s], lines[m].text) ELSE B
      <3>1. AnswersOf(s, lines, key, NoItem) =
              IF lines[m].prefix = "answer" /\ key[s] \notin NoItem
              THEN Put(AnswersOf(t, lines, key, NoItem), key[s], lines[m].text)
              ELSE AnswersOf(t, lines, key, NoItem)
        BY <2>1, AnswersGrow
      <3>2. QED BY <3>1 DEF NoItem
    <2>5. W[s] = [cur |-> key[s], answers |-> A]
      OBVIOUS
    <2>6. W[t] = [cur |-> key[t], answers |-> B]
      BY <2>2
    <2> HIDE DEF W
    <2> PICK S, T : key[s] \in S /\ key[t] \in S /\ A \in T /\ B \in T
      <3>1. key[s] \in {key[s], key[t]} /\ key[t] \in {key[s], key[t]} /\ A \in {A, B} /\ B \in {A, B}
        OBVIOUS
      <3>2. QED BY <3>1
    <2> PICK r, q, l : r = W[t] /\ q = W[s] /\ l = lines[m]
      OBVIOUS
    <2>7. r \in [cur : S, answers : T] /\ q \in [cur : S, answers : T]
      BY <2>5, <2>6
    <2>8. /\ q.cur = IF l.prefix = "item" THEN l.number ELSE r.cur
          /\ q.answers = IF l.prefix = "answer" /\ r.cur # 0 THEN Put(r.answers, r.cur, l.text)
                         ELSE r.answers
      BY <2>3, <2>4, <2>5, <2>6
    <2>9. ReadNumbered(r, l) = q
      BY <2>7, <2>8, ReadNumberedIs
    <2>10. QED BY <2>9
  <1>4. W = [s \in SUBSET D |-> W[s]]
    OBVIOUS
  <1> HIDE DEF W
  <1>5. ReadsNumbered(W, n, lines)
    <2>1. ASSUME NEW s \in SUBSET D, s # {}
          PROVE  W[s] = ReadNumbered(W[s \ {Max(s)}], lines[Max(s)])
      BY <1>3, <2>1, LastIsMax
    <2>2. W = [s \in SUBSET D |-> IF s = {} THEN [cur |-> 0, answers |-> NoAnswers]
                                  ELSE ReadNumbered(W[s \ {Max(s)}], lines[Max(s)])]
      BY <1>2, <1>4, <2>1
    <2>3. QED BY <2>2 DEF ReadsNumbered
  <1>6. ReadsNumbered(all, n, lines)
    BY <1>5
  <1> HIDE DEF all
  <1>7. all[{}] = W[{}]
    BY <1>5, <1>6 DEF ReadsNumbered
  <1>8. ASSUME NEW k \in 1 .. n, all[1 .. (k - 1)] = W[1 .. (k - 1)] PROVE all[1 .. k] = W[1 .. k]
    <2>1. /\ 1 .. k \in SUBSET (1 .. n) /\ 1 .. k # {}
          /\ Max(1 .. k) = k /\ (1 .. k) \ {Max(1 .. k)} = 1 .. (k - 1)
      BY FirstLines
    <2>2. all[1 .. k] = ReadNumbered(all[(1 .. k) \ {Max(1 .. k)}], lines[Max(1 .. k)])
      BY <1>6, <2>1 DEF ReadsNumbered
    <2>3. W[1 .. k] = ReadNumbered(W[(1 .. k) \ {Max(1 .. k)}], lines[Max(1 .. k)])
      BY <1>5, <2>1 DEF ReadsNumbered
    <2>4. QED BY <1>8, <2>1, <2>2, <2>3
  <1>9. all[D] = W[D]
    BY <1>7, <1>8, AlikeInTheEnd
  <1>10. W[D].answers = AnswersOf(D, lines, key, NoItem)
    BY DEF W
  <1>11. QED BY <1>1, <1>9, <1>10

\* The answers that count, key by key, keyOf[i] the key answer i has.
Counted(n, lines, keyOf, none) == {i \in 1 .. n : lines[i].prefix = "answer" /\ keyOf[i] \notin none}
CountedFor(n, lines, keyOf, none, k) == {i \in Counted(n, lines, keyOf, none) : keyOf[i] = k}

\* Each key has the last of its answers.
HasLast(answers, n, lines, keyOf, none) ==
    /\ \A k : k \in DOMAIN answers <=> \E i \in Counted(n, lines, keyOf, none) : keyOf[i] = k
    /\ \A k \in DOMAIN answers :
          /\ Max(CountedFor(n, lines, keyOf, none, k)) \in Counted(n, lines, keyOf, none)
          /\ answers[k] = lines[Max(CountedFor(n, lines, keyOf, none, k))].text

\* Answers that are those of all lines find the last one given under each key.
LEMMA LastIsGiven ==
  ASSUME NEW n \in Nat, NEW lines, NEW key, NEW none,
         NEW keyOf, \A i \in 1 .. n : keyOf[i] = key[UpTo(1 .. n, i)]
  PROVE  HasLast(AnswersOf(1 .. n, lines, key, none), n, lines, keyOf, none)
  <1> DEFINE answers == AnswersOf(1 .. n, lines, key, none)
             given == Given(1 .. n, lines, key, none)
             for(k) == {i \in given : key[UpTo(1 .. n, i)] = k}
  <1>1. answers = [k \in {key[UpTo(1 .. n, i)] : i \in given} |-> lines[Max(for(k))].text]
    BY DEF AnswersOf
  <1>2. given = Counted(n, lines, keyOf, none) /\ given \subseteq 1 .. n
    BY DEF Given, Counted
  <1> HIDE DEF answers, given
  <1>3. \A k : for(k) = CountedFor(n, lines, keyOf, none, k)
    BY <1>2 DEF CountedFor
  <1>4. ASSUME NEW k, NEW i \in given, keyOf[i] = k PROVE Max(for(k)) \in given
    <2>1. for(k) \in SUBSET (0 .. n) /\ i \in for(k) /\ for(k) \subseteq given
      <3>1. \A j \in given : j \in 0 .. n
        BY <1>2
      <3>2. i \in 1 .. n
        BY <1>2
      <3>3. QED BY <1>4, <3>1, <3>2
    <2> HIDE DEF for
    <2>2. Max(for(k)) \in for(k)
      BY <2>1, GreatestOf
    <2>3. QED BY <2>1, <2>2
  <1> HIDE DEF for
  <1>5. DOMAIN answers = {key[UpTo(1 .. n, i)] : i \in given}
    BY <1>1
  <1>6. \A k : k \in DOMAIN answers <=> \E i \in given : keyOf[i] = k
    BY <1>2, <1>5
  <1>7. \A k \in DOMAIN answers : answers[k] = lines[Max(for(k))].text
    BY <1>1
  <1>8. \A k \in DOMAIN answers : Max(for(k)) \in given
    BY <1>4, <1>6
  <1>9. HasLast(answers, n, lines, keyOf, none)
    BY <1>2, <1>3, <1>6, <1>7, <1>8 DEF HasLast
  <1>10. QED BY <1>9 DEF answers

\* The same answers in the words of AnswersFindTheirItems.
LEMMA NumberedFind ==
  ASSUME NEW n \in Nat, NEW lines \in [1 .. n -> Lines("numbered")]
  PROVE  LET answers == NumberedAnswers(lines)
             item(i) == NumberAt(lines, LastLine(lines, {"item"}, i))
         IN  /\ LastGiven(answers, lines, item, {0})
             /\ \A k \in DOMAIN answers : answers[k] \in {"x", "", "SAME"}
  <1> DEFINE answers == NumberedAnswers(lines)
             item(i) == NumberAt(lines, LastLine(lines, {"item"}, i))
             key == [s \in SUBSET (1 .. n) |-> ItemAfter(s, lines)]
             keyOf == [i \in 1 .. n |-> item(i)]
             counted == Counted(n, lines, keyOf, NoItem)
             for(k) == CountedFor(n, lines, keyOf, NoItem, k)
             given == {i \in DOMAIN lines : lines[i].prefix = "answer" /\ item(i) \notin {0}}
  <1>1. answers = AnswersOf(1 .. n, lines, key, NoItem)
    <2> HIDE DEF key
    <2>1. \A s \in SUBSET (1 .. n) : key[s] = ItemAfter(s, lines)
      BY DEF key
    <2>2. QED BY <2>1, NumberedIs
  <1>2. \A i \in 1 .. n : keyOf[i] = key[UpTo(1 .. n, i)]
    BY LastLineIs DEF ItemAfter
  <1>3. \A i \in 1 .. n : keyOf[i] = item(i)
    OBVIOUS
  <1> HIDE DEF answers, key, keyOf, item
  <1>4. \A k : /\ k \in DOMAIN answers <=> \E i \in counted : keyOf[i] = k
               /\ k \in DOMAIN answers =>
                     Max(for(k)) \in counted /\ answers[k] = lines[Max(for(k))].text
    <2>1. HasLast(answers, n, lines, keyOf, NoItem)
      BY <1>1, <1>2, LastIsGiven
    <2>2. QED BY <2>1 DEF HasLast
  <1>5. given = counted
    BY <1>3 DEF Counted, NoItem
  <1> HIDE DEF given
  <1>6. \A k : for(k) = {i \in given : item(i) = k}
    <2>1. counted \subseteq 1 .. n
      BY DEF Counted
    <2>2. QED BY <1>3, <1>5, <2>1 DEF CountedFor
  <1>7. DOMAIN answers = {item(i) : i \in given}
    <2>1. given \subseteq 1 .. n
      BY DEF given
    <2>2. \A i \in given : keyOf[i] = item(i)
      BY <1>3, <2>1
    <2>3. \A k : k \in DOMAIN answers <=> \E i \in given : item(i) = k
      BY <1>4, <1>5, <2>2
    <2> HIDE DEF counted, for
    <2>4. QED BY <2>3
  <1>8. \A i \in counted : lines[i].text \in {"x", "", "SAME"}
    <2>1. \A i \in counted : lines[i] \in Lines("numbered") /\ lines[i].prefix = "answer"
      BY DEF Counted
    <2>2. QED BY <2>1, LineCarries
  <1> HIDE DEF counted, for
  <1>9. \A k \in DOMAIN answers : answers[k] \in {"x", "", "SAME"}
    BY <1>4, <1>8
  <1>10. \A k \in DOMAIN answers : answers[k] = lines[Max({i \in given : item(i) = k})].text
    BY <1>4, <1>6
  <1>11. LastGiven(answers, lines, item, {0})
    BY <1>7, <1>10 DEF LastGiven, given
  <1>12. QED BY <1>9, <1>11 DEF answers, item

\* Who was judged the same, labelled or found by its number.
LEMMA FoundByNumber ==
  ASSUME NEW n \in Nat, NEW lines \in [1 .. n -> Lines("numbered")]
  PROVE  LET answers == NumberedAnswers(lines)
             said(k, text) == k \in DOMAIN answers /\ answers[k] = text
         IN  /\ SameEntityBatch(lines) = [k \in 1 .. Items |-> said(k, "SAME")]
             /\ Correct(lines) = {k \in 1 .. Items : said(k, "x")}
             /\ DOMAIN Extract(lines) = {k \in 1 .. Items : \E text \in {"x", "", "SAME"} : said(k, text)}
  <1>1. \A k \in DOMAIN NumberedAnswers(lines) : NumberedAnswers(lines)[k] \in {"x", "", "SAME"}
    BY NumberedFind
  <1>2. DOMAIN Extract(lines) = DOMAIN NumberedAnswers(lines) \cap 1 .. Items
    BY DEF Extract
  <1>3. Correct(lines) = {k \in DOMAIN NumberedAnswers(lines) \cap 1 .. Items : NumberedAnswers(lines)[k] = "x"}
    BY DEF Correct, Intruders
  <1>4. QED BY <1>1, <1>2, <1>3 DEF SameEntityBatch

(***************************************************************************)
(* Answers by chunk and pair                                               *)
(***************************************************************************)
ReadPairs(s, l) ==
    CASE l.prefix = "chunk" -> [s EXCEPT !.chunk = l.number, !.pair = 0]
      [] l.prefix = "item" -> [s EXCEPT !.pair = l.number]
      [] l.prefix = "answer" /\ s.chunk # 0 /\ s.pair # 0 ->
            [s EXCEPT !.answers = Put(@, <<s.chunk, s.pair>>, l.text)]
      [] OTHER -> s

\* f reads the lines one after the other.
ReadsPairs(f, n, lines) ==
    f = [s \in SUBSET (1 .. n) |->
            IF s = {} THEN [chunk |-> 0, pair |-> 0, answers |-> NoAnswers]
            ELSE ReadPairs(f[s \ {Max(s)}], lines[Max(s)])]

KeyOf(chunk, pair) == <<chunk, pair>>

LEMMA ReadPairsIs ==
  ASSUME NEW S, NEW T, NEW r \in [chunk : S, pair : S, answers : T],
         NEW q \in [chunk : S, pair : S, answers : T], NEW l,
         q.chunk = IF l.prefix = "chunk" THEN l.number ELSE r.chunk,
         q.pair = IF l.prefix = "chunk" THEN 0 ELSE IF l.prefix = "item" THEN l.number ELSE r.pair,
         q.answers = IF l.prefix = "answer" /\ r.chunk # 0 /\ r.pair # 0
                     THEN Put(r.answers, KeyOf(r.chunk, r.pair), l.text) ELSE r.answers
  PROVE  ReadPairs(r, l) = q
  <1>1. CASE l.prefix = "chunk"
    BY <1>1 DEF ReadPairs
  <1>2. CASE l.prefix = "item"
    BY <1>2 DEF ReadPairs
  <1>3. CASE l.prefix = "answer" /\ r.chunk # 0 /\ r.pair # 0
    BY <1>3 DEF ReadPairs, KeyOf
  <1>4. CASE /\ l.prefix \notin {"chunk", "item"}
             /\ ~(l.prefix = "answer" /\ r.chunk # 0 /\ r.pair # 0)
    BY <1>4 DEF ReadPairs
  <1>5. QED BY <1>1, <1>2, <1>3, <1>4

\* The chunk and the pair the lines s end in, 0 if in none.
ChunkAfter(s, lines) == NumberAt(lines, Latest(s, lines, {"chunk"}))
PairAfter(s, lines) ==
    LET last == Latest(s, lines, {"item", "chunk"})
    IN  IF last = 0 \/ lines[last].prefix = "chunk" THEN 0 ELSE lines[last].number

NoPair == ({0} \X Numbers) \cup (Numbers \X {0})

LEMMA KeysAfter ==
  ASSUME NEW n \in Nat, NEW lines \in [1 .. n -> Lines("pairs")], NEW s \in SUBSET (1 .. n)
  PROVE  /\ ChunkAfter(s, lines) \in Numbers /\ PairAfter(s, lines) \in Numbers
         /\ <<ChunkAfter(s, lines), PairAfter(s, lines)>> \in NoPair <=>
               ChunkAfter(s, lines) = 0 \/ PairAfter(s, lines) = 0
  <1> PICK c, p : c = Latest(s, lines, {"chunk"}) /\ p = Latest(s, lines, {"item", "chunk"})
    OBVIOUS
  <1>1. /\ c # 0 => c \in s /\ lines[c].prefix = "chunk"
        /\ p # 0 => p \in s /\ lines[p].prefix \in {"item", "chunk"}
    <2>1. c # 0 => c \in s /\ lines[c].prefix \in {"chunk"}
      BY LatestIs
    <2>2. p # 0 => p \in s /\ lines[p].prefix \in {"item", "chunk"}
      BY LatestIs
    <2>3. QED BY <2>1, <2>2
  <1>2. \A i \in s : lines[i] \in Lines("pairs")
    OBVIOUS
  <1>3. /\ c # 0 => lines[c].number \in Numbers
        /\ p # 0 => lines[p].number \in Numbers
    BY <1>1, <1>2, LineCarries
  <1>4. 0 \in Numbers
    BY AnswerBounds DEF Numbers
  <1>5. ChunkAfter(s, lines) \in Numbers /\ PairAfter(s, lines) \in Numbers
    BY <1>3, <1>4 DEF ChunkAfter, PairAfter, NumberAt
  <1>6. QED BY <1>4, <1>5 DEF NoPair

\* What is read of s: the chunk and the pair it ends in, and its answers.
LEMMA PairsAre ==
  ASSUME NEW n \in Nat, NEW lines, DOMAIN lines = 1 .. n,
         NEW key, \A s \in SUBSET (1 .. n) : key[s] = <<ChunkAfter(s, lines), PairAfter(s, lines)>>,
         \A s \in SUBSET (1 .. n) : key[s] \in NoPair <=>
             ChunkAfter(s, lines) = 0 \/ PairAfter(s, lines) = 0
  PROVE  PairAnswers(lines) = AnswersOf(1 .. n, lines, key, NoPair)
  <1> DEFINE D == 1 .. n
             chunk(s) == ChunkAfter(s, lines)
             pair(s) == PairAfter(s, lines)
             all == CHOOSE f : ReadsPairs(f, n, lines)
             W == [s \in SUBSET D |-> [chunk |-> chunk(s), pair |-> pair(s),
                                       answers |-> AnswersOf(s, lines, key, NoPair)]]
  <1>1. PairAnswers(lines) = all[D].answers
    BY DEF PairAnswers, FoldLeft, MapThenFoldSet, ReadPairs, ReadsPairs
  <1>2. W[{}] = [chunk |-> 0, pair |-> 0, answers |-> NoAnswers]
    <2>1. Latest({}, lines, {"chunk"}) = 0 /\ Latest({}, lines, {"item", "chunk"}) = 0
      <3>1. {} \in SUBSET D
        OBVIOUS
      <3>2. QED BY <3>1, LatestIs
    <2>2. chunk({}) = 0 /\ pair({}) = 0
      BY <2>1 DEF ChunkAfter, PairAfter, NumberAt
    <2>3. Given({}, lines, key, NoPair) = {}
      BY DEF Given
    <2>4. AnswersOf({}, lines, key, NoPair) = NoAnswers
      BY <2>3 DEF AnswersOf, NoAnswers
    <2> HIDE DEF chunk, pair
    <2>5. QED BY <2>2, <2>4
  <1>3. ASSUME NEW s \in SUBSET D, NEW m, NEW t, IsLast(n, s, m, t)
        PROVE  W[s] = ReadPairs(W[t], lines[m])
    <2>1. IsLast(n, s, m, t)
      BY <1>3
    <2>2. m \in 1 .. n /\ t \in SUBSET D
      BY <2>1, UpToIs
    <2>3. /\ chunk(s) = IF lines[m].prefix = "chunk" THEN lines[m].number ELSE chunk(t)
          /\ pair(s) = IF lines[m].prefix = "chunk" THEN 0
                       ELSE IF lines[m].prefix = "item" THEN lines[m].number ELSE pair(t)
      <3>1. Latest(s, lines, {"chunk"}) = IF lines[m].prefix = "chunk" THEN m ELSE Latest(t, lines, {"chunk"})
        BY <2>1, LatestGrows
      <3>2. Latest(s, lines, {"item", "chunk"}) =
               IF lines[m].prefix \in {"item", "chunk"} THEN m ELSE Latest(t, lines, {"item", "chunk"})
        BY <2>1, LatestGrows
      <3>3. m # 0
        BY <2>2
      <3>4. QED BY <3>1, <3>2, <3>3 DEF ChunkAfter, PairAfter, NumberAt
    <2>4. key[s] = <<chunk(s), pair(s)>> /\ (key[s] \in NoPair <=> chunk(s) = 0 \/ pair(s) = 0)
      OBVIOUS
    <2> PICK A, B : A = AnswersOf(s, lines, key, NoPair) /\ B = AnswersOf(t, lines, key, NoPair)
      OBVIOUS
    <2>5. A = IF lines[m].prefix = "answer" /\ key[s] \notin NoPair
              THEN Put(B, key[s], lines[m].text) ELSE B
      <3> HIDE DEF chunk, pair, W, all
      <3>1. AnswersOf(s, lines, key, NoPair) =
              IF lines[m].prefix = "answer" /\ key[s] \notin NoPair
              THEN Put(AnswersOf(t, lines, key, NoPair), key[s], lines[m].text)
              ELSE AnswersOf(t, lines, key, NoPair)
        BY <2>1, AnswersGrow
      <3>2. QED BY <3>1
    <2>6. W[s] = [chunk |-> chunk(s), pair |-> pair(s), answers |-> A]
      OBVIOUS
    <2>7. W[t] = [chunk |-> chunk(t), pair |-> pair(t), answers |-> B]
      BY <2>2
    <2> HIDE DEF W, chunk, pair
    <2> PICK S, T : /\ chunk(s) \in S /\ chunk(t) \in S /\ pair(s) \in S /\ pair(t) \in S
                    /\ A \in T /\ B \in T
      <3> DEFINE U == {chunk(s), chunk(t), pair(s), pair(t)}
                 V == {A, B}
      <3>1. /\ chunk(s) \in U /\ chunk(t) \in U /\ pair(s) \in U /\ pair(t) \in U
            /\ A \in V /\ B \in V
        OBVIOUS
      <3> HIDE DEF U, V
      <3>2. QED BY <3>1
    <2> PICK r, q, l : r = W[t] /\ q = W[s] /\ l = lines[m]
      OBVIOUS
    <2>8. /\ r \in [chunk : S, pair : S, answers : T] /\ q \in [chunk : S, pair : S, answers : T]
          /\ r.chunk = chunk(t) /\ r.pair = pair(t) /\ r.answers = B
          /\ q.chunk = chunk(s) /\ q.pair = pair(s) /\ q.answers = A
      BY <2>6, <2>7
    <2>9. /\ q.chunk = IF l.prefix = "chunk" THEN l.number ELSE r.chunk
          /\ q.pair = IF l.prefix = "chunk" THEN 0 ELSE IF l.prefix = "item" THEN l.number ELSE r.pair
      BY <2>3, <2>8
    <2>10. q.answers = IF l.prefix = "answer" /\ r.chunk # 0 /\ r.pair # 0
                       THEN Put(r.answers, KeyOf(r.chunk, r.pair), l.text) ELSE r.answers
      <3>1. CASE l.prefix = "answer"
        <4>1. chunk(s) = chunk(t) /\ pair(s) = pair(t)
          BY <2>3, <3>1
        <4>2. QED BY <2>4, <2>5, <2>8, <3>1, <4>1 DEF KeyOf
      <3>2. CASE l.prefix # "answer"
        BY <2>5, <2>8, <3>2
      <3>3. QED BY <3>1, <3>2
    <2>11. r \in [chunk : S, pair : S, answers : T] /\ q \in [chunk : S, pair : S, answers : T]
      BY <2>8
    <2>12. ReadPairs(r, l) = q
      BY <2>9, <2>10, <2>11, ReadPairsIs
    <2>13. QED BY <2>12
  <1>4. W = [s \in SUBSET D |-> W[s]]
    OBVIOUS
  <1> HIDE DEF W
  <1>5. ReadsPairs(W, n, lines)
    <2>1. ASSUME NEW s \in SUBSET D, s # {}
          PROVE  W[s] = ReadPairs(W[s \ {Max(s)}], lines[Max(s)])
      BY <1>3, <2>1, LastIsMax
    <2>2. W = [s \in SUBSET D |-> IF s = {} THEN [chunk |-> 0, pair |-> 0, answers |-> NoAnswers]
                                  ELSE ReadPairs(W[s \ {Max(s)}], lines[Max(s)])]
      BY <1>2, <1>4, <2>1
    <2>3. QED BY <2>2 DEF ReadsPairs
  <1>6. ReadsPairs(all, n, lines)
    BY <1>5
  <1> HIDE DEF all
  <1>7. all[{}] = W[{}]
    BY <1>5, <1>6 DEF ReadsPairs
  <1>8. ASSUME NEW k \in 1 .. n, all[1 .. (k - 1)] = W[1 .. (k - 1)] PROVE all[1 .. k] = W[1 .. k]
    <2>1. /\ 1 .. k \in SUBSET (1 .. n) /\ 1 .. k # {}
          /\ Max(1 .. k) = k /\ (1 .. k) \ {Max(1 .. k)} = 1 .. (k - 1)
      BY FirstLines
    <2>2. all[1 .. k] = ReadPairs(all[(1 .. k) \ {Max(1 .. k)}], lines[Max(1 .. k)])
      BY <1>6, <2>1 DEF ReadsPairs
    <2>3. W[1 .. k] = ReadPairs(W[(1 .. k) \ {Max(1 .. k)}], lines[Max(1 .. k)])
      BY <1>5, <2>1 DEF ReadsPairs
    <2>4. QED BY <1>8, <2>1, <2>2, <2>3
  <1>9. all[D] = W[D]
    BY <1>7, <1>8, AlikeInTheEnd
  <1>10. W[D].answers = AnswersOf(D, lines, key, NoPair)
    BY DEF W
  <1>11. QED BY <1>1, <1>9, <1>10

\* The same answers in the words of AnswersFindTheirItems.
LEMMA PairsFind ==
  ASSUME NEW n \in Nat, NEW lines \in [1 .. n -> Lines("pairs")]
  PROVE  LET pair(i) ==
                 LET last == LastLine(lines, {"item", "chunk"}, i) IN
                 <<NumberAt(lines, LastLine(lines, {"chunk"}, i)),
                   IF last = 0 \/ lines[last].prefix = "chunk" THEN 0 ELSE lines[last].number>>
         IN  LastGiven(PairAnswers(lines), lines, pair, ({0} \X Numbers) \cup (Numbers \X {0}))
  <1> DEFINE answers == PairAnswers(lines)
             pair(i) ==
                 LET last == LastLine(lines, {"item", "chunk"}, i) IN
                 <<NumberAt(lines, LastLine(lines, {"chunk"}, i)),
                   IF last = 0 \/ lines[last].prefix = "chunk" THEN 0 ELSE lines[last].number>>
             key == [s \in SUBSET (1 .. n) |-> <<ChunkAfter(s, lines), PairAfter(s, lines)>>]
             keyOf == [i \in 1 .. n |-> pair(i)]
             counted == Counted(n, lines, keyOf, NoPair)
             for(k) == CountedFor(n, lines, keyOf, NoPair, k)
             given == {i \in DOMAIN lines : lines[i].prefix = "answer"
                                              /\ pair(i) \notin ({0} \X Numbers) \cup (Numbers \X {0})}
  <1>1. answers = AnswersOf(1 .. n, lines, key, NoPair)
    <2>1. \A s \in SUBSET (1 .. n) : key[s] = <<ChunkAfter(s, lines), PairAfter(s, lines)>>
      OBVIOUS
    <2> HIDE DEF key
    <2>2. \A s \in SUBSET (1 .. n) : key[s] \in NoPair <=>
             ChunkAfter(s, lines) = 0 \/ PairAfter(s, lines) = 0
      <3>1. ASSUME NEW s \in SUBSET (1 .. n)
            PROVE  key[s] \in NoPair <=> ChunkAfter(s, lines) = 0 \/ PairAfter(s, lines) = 0
        <4>1. key[s] = <<ChunkAfter(s, lines), PairAfter(s, lines)>>
          BY <2>1
        <4>2. <<ChunkAfter(s, lines), PairAfter(s, lines)>> \in NoPair <=>
                 ChunkAfter(s, lines) = 0 \/ PairAfter(s, lines) = 0
          BY KeysAfter
        <4>3. QED BY <4>1, <4>2
      <3>2. QED BY <3>1
    <2>3. DOMAIN lines = 1 .. n
      OBVIOUS
    <2>4. QED BY <2>1, <2>2, <2>3, PairsAre
  <1>2. \A i \in 1 .. n : pair(i) = key[UpTo(1 .. n, i)]
    <2>1. ASSUME NEW i \in 1 .. n PROVE pair(i) = key[UpTo(1 .. n, i)]
      <3>1. /\ UpTo(1 .. n, i) \in SUBSET (1 .. n)
            /\ LastLine(lines, {"chunk"}, i) = Latest(UpTo(1 .. n, i), lines, {"chunk"})
            /\ LastLine(lines, {"item", "chunk"}, i) = Latest(UpTo(1 .. n, i), lines, {"item", "chunk"})
        BY LastLineIs
      <3>2. key[UpTo(1 .. n, i)] =
               <<ChunkAfter(UpTo(1 .. n, i), lines), PairAfter(UpTo(1 .. n, i), lines)>>
        BY <3>1
      <3> HIDE DEF key
      <3>3. QED BY <3>1, <3>2 DEF ChunkAfter, PairAfter
    <2>2. QED BY <2>1
  <1> HIDE DEF answers, key, pair
  <1>3. \A i \in 1 .. n : keyOf[i] = pair(i)
    OBVIOUS
  <1> HIDE DEF keyOf
  <1>4. /\ \A k : k \in DOMAIN answers <=> \E i \in counted : keyOf[i] = k
        /\ \A k \in DOMAIN answers : answers[k] = lines[Max(for(k))].text
    <2>1. \A i \in 1 .. n : keyOf[i] = key[UpTo(1 .. n, i)]
      BY <1>2, <1>3
    <2>2. HasLast(answers, n, lines, keyOf, NoPair)
      BY <1>1, <2>1, LastIsGiven
    <2>3. QED BY <2>2 DEF HasLast
  <1>5. given = counted
    BY <1>3 DEF Counted, NoPair
  <1> HIDE DEF given
  <1>6. \A k : for(k) = {i \in given : pair(i) = k}
    <2>1. counted \subseteq 1 .. n
      BY DEF Counted
    <2>2. QED BY <1>3, <1>5, <2>1 DEF CountedFor
  <1>7. DOMAIN answers = {pair(i) : i \in given}
    <2>1. given \subseteq 1 .. n
      BY DEF given
    <2>2. \A i \in given : keyOf[i] = pair(i)
      BY <1>3, <2>1
    <2>3. \A k : k \in DOMAIN answers <=> \E i \in given : pair(i) = k
      BY <1>4, <1>5, <2>2
    <2> HIDE DEF counted, for
    <2>4. QED BY <2>3
  <1> HIDE DEF counted, for
  <1>8. \A k \in DOMAIN answers : answers[k] = lines[Max({i \in given : pair(i) = k})].text
    BY <1>4, <1>6
  <1>9. LastGiven(answers, lines, pair, ({0} \X Numbers) \cup (Numbers \X {0}))
    BY <1>7, <1>8 DEF LastGiven, given
  <1>10. QED BY <1>9 DEF answers, pair

(***************************************************************************)
(* Themes                                                                  *)
(***************************************************************************)
LEMMA AppendIs ==
  ASSUME NEW S, NEW n \in Nat, NEW f \in [1 .. n -> S], NEW e \in S
  PROVE  Append(f, e) = [k \in 1 .. n + 1 |-> IF k = n + 1 THEN e ELSE f[k]]
  <1>1. f \in Seq(S) /\ Len(f) = n
    OBVIOUS
  <1> PICK g : g = Append(f, e)
    OBVIOUS
  <1>2. /\ g \in Seq(S) /\ Len(g) = n + 1
        /\ \A i \in 1 .. n : g[i] = f[i]
        /\ g[n + 1] = e
    BY <1>1, AppendProperties
  <1>3. g \in [1 .. n + 1 -> S]
    BY <1>2, LenProperties
  <1>4. \A k \in 1 .. n + 1 : g[k] = IF k = n + 1 THEN e ELSE f[k]
    BY <1>2
  <1>5. QED BY <1>3, <1>4

Lower(S, x) == {y \in S : y < x}

\* Two members of a set of numbers are in different places.
LEMMA PlacesDiffer ==
  ASSUME NEW S, S \subseteq Nat, IsFiniteSet(S), NEW x \in S, NEW y \in S,
         Cardinality(Lower(S, x)) = Cardinality(Lower(S, y))
  PROVE  x = y
  <1>1. ASSUME NEW a \in S, NEW b \in S, a < b
        PROVE  Cardinality(Lower(S, a)) # Cardinality(Lower(S, b))
    <2> DEFINE A == Lower(S, a)
               B == Lower(S, b)
    <2>1. A \in SUBSET B /\ B \in SUBSET S /\ a \in B /\ a \notin A
      <3>1. \A z \in S : z < a => z < b
        BY <1>1
      <3>2. ~(a < a)
        OBVIOUS
      <3>3. QED BY <1>1, <3>1, <3>2 DEF Lower
    <2> HIDE DEF A, B
    <2>2. IsFiniteSet(B)
      BY <2>1, FS_Subset
    <2>3. A # B
      BY <2>1
    <2>4. Cardinality(A) # Cardinality(B)
      BY <2>1, <2>2, <2>3, FS_Subset
    <2>5. QED BY <2>4 DEF A, B
  <1>2. ~(x < y) /\ ~(y < x)
    BY <1>1
  <1>3. x \in Nat /\ y \in Nat
    OBVIOUS
  <1>4. QED BY <1>2, <1>3

\* A member greater than all of a set comes after them.
LEMMA OrderedGrows ==
  ASSUME NEW S, S \subseteq Nat, IsFiniteSet(S), NEW g \in Nat, \A x \in S : x < g
  PROVE  /\ Cardinality(S \cup {g}) = Cardinality(S) + 1 /\ IsFiniteSet(S \cup {g})
         /\ Cardinality(S) \in Nat
         /\ \A k \in 1 .. Cardinality(S) : Ordered(S \cup {g}, <)[k] = Ordered(S, <)[k]
         /\ Ordered(S \cup {g}, <)[Cardinality(S) + 1] = g
  <1> DEFINE T == S \cup {g}
             n == Cardinality(S)
             p == Ordered(S, <)
             q == Ordered(T, <)
  <1>1. g \notin S /\ T \subseteq Nat /\ n \in Nat
    BY FS_CardinalityType
  <1>2. IsFiniteSet(T) /\ Cardinality(T) = n + 1
    BY <1>1, FS_AddElement
  <1>3. /\ p \in [1 .. n -> S]
        /\ \A k \in 1 .. n : Cardinality(Lower(S, p[k])) = k - 1
    BY OrderedOnce DEF Lower
  <1> HIDE DEF p
  <1>4. /\ q \in [1 .. Cardinality(T) -> T]
        /\ \A k \in 1 .. Cardinality(T) : Cardinality(Lower(T, q[k])) = k - 1
    <2> HIDE DEF T
    <2>1. QED BY <1>1, <1>2, OrderedOnce DEF Lower
  <1> HIDE DEF q
  <1>5. \A x \in S : Lower(T, x) = Lower(S, x)
    BY <1>1 DEF Lower
  <1>6. Lower(T, g) = S
    <2>1. ~(g < g)
      OBVIOUS
    <2>2. QED BY <2>1 DEF Lower
  <1>7. ASSUME NEW k \in 1 .. n PROVE q[k] = p[k]
    <2>1. p[k] \in T /\ Cardinality(Lower(T, p[k])) = k - 1
      BY <1>3, <1>5
    <2>2. k \in 1 .. Cardinality(T)
      BY <1>1, <1>2
    <2>3. q[k] \in T /\ Cardinality(Lower(T, q[k])) = k - 1
      BY <1>4, <2>2
    <2> HIDE DEF T, n
    <2>4. QED BY <1>1, <1>2, <2>1, <2>3, PlacesDiffer
  <1>8. q[n + 1] = g
    <2>1. n + 1 \in 1 .. Cardinality(T) /\ (n + 1) - 1 = n
      BY <1>1, <1>2
    <2>2. q[n + 1] \in T /\ Cardinality(Lower(T, q[n + 1])) = n
      BY <1>4, <2>1
    <2>3. g \in T /\ Cardinality(Lower(T, g)) = n
      BY <1>6
    <2> HIDE DEF T
    <2>4. QED BY <1>1, <1>2, <2>2, <2>3, PlacesDiffer
  <1>9. QED BY <1>1, <1>2, <1>7, <1>8 DEF p, q

\* The line that began what the lines s end in; the lines of s that follow
\* line h with a prefix; and the text of the last one.
HeadAfter(s, lines) == Latest(s, lines, {"item", "note"})
Under(s, lines, h, prefix) ==
    {i \in s : lines[i].prefix = prefix /\ HeadAfter(UpTo(s, i), lines) = h}
TextUnder(s, lines, h, prefix) ==
    IF Under(s, lines, h, prefix) = {} THEN "" ELSE lines[Max(Under(s, lines, h, prefix))].text

\* With one more line, only a text under the line s ends in is another.
LEMMA TextGrows ==
  ASSUME NEW n, NEW s, NEW m, NEW t, IsLast(n, s, m, t), NEW lines, NEW h,
         NEW prefix \in {"answer", "summary"}
  PROVE  TextUnder(s, lines, h, prefix) =
            IF lines[m].prefix = prefix /\ HeadAfter(s, lines) = h THEN lines[m].text
            ELSE TextUnder(t, lines, h, prefix)
  <1> DEFINE U == Under(s, lines, h, prefix)
             V == Under(t, lines, h, prefix)
  <1>1. /\ m \in 1 .. n /\ t \in SUBSET (1 .. n) /\ UpTo(s, m) = s
        /\ \A i \in t : i < m /\ UpTo(s, i) = UpTo(t, i)
    BY UpToIs
  <1>2. s = t \cup {m} /\ m \notin t /\ n \in Nat
    BY <1>1 DEF IsLast
  <1>3. CASE lines[m].prefix = prefix /\ HeadAfter(s, lines) = h
    <2>1. m \in U /\ U \subseteq Int /\ \A i \in U : i <= m
      <3>1. m \in s /\ \A i \in s : i \in Int /\ i <= m
        BY DEF IsLast
      <3>2. U \subseteq s
        BY DEF Under
      <3>3. lines[m].prefix = prefix /\ HeadAfter(UpTo(s, m), lines) = h
        BY <1>1, <1>3
      <3>4. m \in U
        BY <3>1, <3>3 DEF Under
      <3> HIDE DEF U
      <3>5. QED BY <3>1, <3>2, <3>4
    <2> HIDE DEF U
    <2>2. Max(U) = m /\ U # {}
      BY <2>1, MaxIs
    <2>3. QED BY <1>3, <2>2 DEF TextUnder, U
  <1>4. CASE ~(lines[m].prefix = prefix /\ HeadAfter(s, lines) = h)
    <2>1. U = V
      BY <1>1, <1>2, <1>4 DEF Under
    <2>2. QED BY <1>4, <2>1 DEF TextUnder
  <1>5. QED BY <1>3, <1>4

\* Nothing follows a line that is not there yet.
LEMMA NothingUnder ==
  ASSUME NEW n \in Nat, NEW s \in SUBSET (1 .. n), NEW lines, NEW h, h # 0, h \notin s, NEW prefix
  PROVE  TextUnder(s, lines, h, prefix) = ""
  <1>1. ASSUME NEW i \in s PROVE HeadAfter(UpTo(s, i), lines) # h
    <2>1. UpTo(s, i) \in SUBSET (1 .. n) /\ UpTo(s, i) \subseteq s
      BY DEF UpTo
    <2>2. HeadAfter(UpTo(s, i), lines) # 0 => HeadAfter(UpTo(s, i), lines) \in UpTo(s, i)
      BY <2>1, LatestIs DEF HeadAfter
    <2>3. QED BY <2>1, <2>2
  <1>2. Under(s, lines, h, prefix) = {}
    BY <1>1 DEF Under
  <1>3. QED BY <1>2 DEF TextUnder

\* The lines of s that begin a theme of a candidate, the theme each begins,
\* and the themes that some of them begin, in order.
Heads(s, lines) == {h \in s : lines[h].prefix = "item" /\ lines[h].number \in 1 .. Items}
Named(label) == IF label = "" THEN "Untitled" ELSE label
ThemeOf(s, lines, h) == [community |-> lines[h].number,
                         label |-> Named(TextUnder(s, lines, h, "answer")),
                         summary |-> TextUnder(s, lines, h, "summary")]
ThemesOf(s, lines, H) == [k \in 1 .. Cardinality(H) |-> ThemeOf(s, lines, Ordered(H, <)[k])]

\* The community of the theme that s ends in, 0 if in none; a text of that
\* theme, as it is read so far; the theme; and the note.
CommunityAfter(s, lines) ==
    LET h == HeadAfter(s, lines)
    IN  IF h = 0 \/ lines[h].prefix = "note" THEN 0 ELSE lines[h].number
PartAfter(s, lines, prefix) ==
    IF CommunityAfter(s, lines) = 0 THEN "" ELSE TextUnder(s, lines, HeadAfter(s, lines), prefix)
CurrentAfter(s, lines) == [community |-> CommunityAfter(s, lines),
                           label |-> PartAfter(s, lines, "answer"),
                           summary |-> PartAfter(s, lines, "summary")]
NoteAfter(s, lines) ==
    LET last == Latest(s, lines, {"note"})
    IN  IF last = 0 THEN "" ELSE lines[last].text

\* The themes that s has ended.
EndedAfter(s, lines) == ThemesOf(s, lines, Heads(s, lines) \ {HeadAfter(s, lines)})

LEMMA ThemesAlike ==
  ASSUME NEW H, H \subseteq Nat, IsFiniteSet(H), NEW s, NEW t, NEW lines,
         \A h \in H : \A prefix \in {"answer", "summary"} :
             TextUnder(s, lines, h, prefix) = TextUnder(t, lines, h, prefix)
  PROVE  ThemesOf(s, lines, H) = ThemesOf(t, lines, H)
  <1>1. \A k \in 1 .. Cardinality(H) : Ordered(H, <)[k] \in H
    BY OrderedOnce
  <1>2. \A h \in H : ThemeOf(s, lines, h) = ThemeOf(t, lines, h)
    BY DEF ThemeOf
  <1>3. QED BY <1>1, <1>2 DEF ThemesOf

LEMMA HeadsAreLines ==
  ASSUME NEW n \in Nat, NEW s \in SUBSET (1 .. n), NEW lines
  PROVE  /\ Heads(s, lines) \subseteq s /\ Heads(s, lines) \subseteq Nat
         /\ IsFiniteSet(Heads(s, lines)) /\ IsFiniteSet(s)
         /\ \A h \in Heads(s, lines) : h <= HeadAfter(s, lines)
  <1>1. Heads(s, lines) \subseteq s /\ Heads(s, lines) \subseteq Nat
    <2>1. Heads(s, lines) \subseteq s
      BY DEF Heads
    <2>2. s \subseteq Nat
      OBVIOUS
    <2>3. QED BY <2>1, <2>2
  <1>2. IsFiniteSet(1 .. n)
    BY FS_Interval
  <1>3. IsFiniteSet(s) /\ IsFiniteSet(Heads(s, lines))
    BY <1>1, <1>2, FS_Subset
  <1>4. \A h \in s : lines[h].prefix \in {"item", "note"} => h <= HeadAfter(s, lines)
    BY LatestIs DEF HeadAfter
  <1>5. QED BY <1>1, <1>3, <1>4 DEF Heads

\* One more line changes the theme that is being read as it is read.
LEMMA CommunityGrows ==
  ASSUME NEW n, NEW s, NEW m, NEW t, IsLast(n, s, m, t), NEW lines
  PROVE  CommunityAfter(s, lines) =
            IF lines[m].prefix = "item" THEN lines[m].number
            ELSE IF lines[m].prefix = "note" THEN 0 ELSE CommunityAfter(t, lines)
  <1>1. m # 0
    <2>1. m \in 1 .. n /\ n \in Nat
      BY UpToIs DEF IsLast
    <2>2. QED BY <2>1
  <1>2. HeadAfter(s, lines) = IF lines[m].prefix \in {"item", "note"} THEN m ELSE HeadAfter(t, lines)
    BY LatestGrows DEF HeadAfter
  <1>3. QED BY <1>1, <1>2 DEF CommunityAfter

\* With line m after the lines t, the part is what it was, or is read anew.
PartIs(s, m, t, lines, prefix) ==
    PartAfter(s, lines, prefix) =
       IF lines[m].prefix \in {"item", "note"} THEN ""
       ELSE IF lines[m].prefix = prefix /\ CommunityAfter(t, lines) # 0
       THEN lines[m].text
       ELSE PartAfter(t, lines, prefix)

LEMMA PartGrows ==
  ASSUME NEW n, NEW s, NEW m, NEW t, IsLast(n, s, m, t), NEW lines,
         NEW prefix \in {"answer", "summary"}
  PROVE  PartIs(s, m, t, lines, prefix)
  <1>1. m \in 1 .. n /\ t \in SUBSET (1 .. n) /\ m \notin t /\ n \in Nat /\ m # 0
    <2>1. m \in 1 .. n /\ t \in SUBSET (1 .. n)
      BY UpToIs
    <2>2. n \in Nat /\ m \notin t
      BY DEF IsLast
    <2>3. QED BY <2>1, <2>2
  <1>2. HeadAfter(s, lines) = IF lines[m].prefix \in {"item", "note"} THEN m ELSE HeadAfter(t, lines)
    BY LatestGrows DEF HeadAfter
  <1>3. CommunityAfter(s, lines) =
            IF lines[m].prefix = "item" THEN lines[m].number
            ELSE IF lines[m].prefix = "note" THEN 0 ELSE CommunityAfter(t, lines)
    BY CommunityGrows
  <1>4. \A h : TextUnder(s, lines, h, prefix) =
                  IF lines[m].prefix = prefix /\ HeadAfter(s, lines) = h THEN lines[m].text
                  ELSE TextUnder(t, lines, h, prefix)
    BY TextGrows
  <1>5. CASE lines[m].prefix \in {"item", "note"}
    <2>1. TextUnder(t, lines, m, prefix) = ""
      BY <1>1, NothingUnder
    <2>2. TextUnder(s, lines, m, prefix) = ""
      BY <1>4, <1>5, <2>1
    <2>3. QED BY <1>2, <1>5, <2>2 DEF PartIs, PartAfter
  <1>6. CASE lines[m].prefix \notin {"item", "note"}
    <2>1. HeadAfter(s, lines) = HeadAfter(t, lines) /\ CommunityAfter(s, lines) = CommunityAfter(t, lines)
      BY <1>2, <1>3, <1>6
    <2>2. QED BY <1>4, <1>6, <2>1 DEF PartIs, PartAfter
  <1>7. QED BY <1>5, <1>6

\* The themes of s that have ended: a line that begins another ends the last.
LEMMA EndedGrows ==
  ASSUME NEW n, NEW s, NEW m, NEW t, IsLast(n, s, m, t), NEW lines
  PROVE  EndedAfter(s, lines) =
            IF lines[m].prefix \in {"item", "note"} THEN ThemesOf(t, lines, Heads(t, lines))
            ELSE EndedAfter(t, lines)
  <1>1. /\ m \in 1 .. n /\ t \in SUBSET (1 .. n) /\ m \notin t /\ n \in Nat /\ s = t \cup {m}
    <2>1. m \in 1 .. n /\ t \in SUBSET (1 .. n)
      BY UpToIs
    <2>2. n \in Nat /\ m \notin t /\ s = t \cup {m}
      BY DEF IsLast
    <2>3. QED BY <2>1, <2>2
  <1>2. HeadAfter(s, lines) = IF lines[m].prefix \in {"item", "note"} THEN m ELSE HeadAfter(t, lines)
    BY LatestGrows DEF HeadAfter
  <1>3. \A h : \A prefix \in {"answer", "summary"} :
           lines[m].prefix # prefix \/ HeadAfter(s, lines) # h =>
              TextUnder(s, lines, h, prefix) = TextUnder(t, lines, h, prefix)
    BY TextGrows
  <1>4. Heads(t, lines) \subseteq Nat /\ IsFiniteSet(Heads(t, lines))
    BY <1>1, HeadsAreLines
  <1>5. CASE lines[m].prefix \in {"item", "note"}
    <2>1. Heads(s, lines) \ {m} = Heads(t, lines)
      BY <1>1 DEF Heads
    <2>2. \A h \in Heads(t, lines) : \A prefix \in {"answer", "summary"} :
             TextUnder(s, lines, h, prefix) = TextUnder(t, lines, h, prefix)
      BY <1>3, <1>5
    <2>3. ThemesOf(s, lines, Heads(t, lines)) = ThemesOf(t, lines, Heads(t, lines))
      BY <1>4, <2>2, ThemesAlike
    <2>4. QED BY <1>2, <1>5, <2>1, <2>3 DEF EndedAfter
  <1>6. CASE lines[m].prefix \notin {"item", "note"}
    <2> DEFINE H == Heads(t, lines) \ {HeadAfter(t, lines)}
    <2>1. Heads(s, lines) \ {HeadAfter(s, lines)} = H
      BY <1>1, <1>2, <1>6 DEF Heads
    <2>2. H \subseteq Nat /\ IsFiniteSet(H)
      BY <1>4, FS_Subset
    <2>3. \A h \in H : \A prefix \in {"answer", "summary"} :
             TextUnder(s, lines, h, prefix) = TextUnder(t, lines, h, prefix)
      BY <1>2, <1>3, <1>6
    <2> HIDE DEF H
    <2>4. ThemesOf(s, lines, H) = ThemesOf(t, lines, H)
      BY <2>2, <2>3, ThemesAlike
    <2>5. QED BY <1>6, <2>1, <2>4 DEF EndedAfter, H
  <1>7. QED BY <1>5, <1>6

\* The themes when the one that is read is ended too.
Flushed(r) == IF r.cur.community \in 1 .. Items
              THEN Append(r.themes, [r.cur EXCEPT !.label = Named(@)]) ELSE r.themes

LEMMA FlushedIs ==
  ASSUME NEW n \in Nat, NEW s \in SUBSET (1 .. n), NEW lines, NEW r,
         r.cur = CurrentAfter(s, lines), r.themes = EndedAfter(s, lines)
  PROVE  Flushed(r) = ThemesOf(s, lines, Heads(s, lines))
  <1> DEFINE g == HeadAfter(s, lines)
             H == Heads(s, lines)
             E == H \ {g}
  <1>1. /\ H \subseteq s /\ H \subseteq Nat /\ IsFiniteSet(H)
        /\ \A h \in H : h <= g
    BY HeadsAreLines
  <1>2. g \in 0 .. n /\ (g # 0 => g \in s /\ lines[g].prefix \in {"item", "note"})
    BY LatestIs DEF HeadAfter
  <1>3. 0 \notin 1 .. Items /\ 0 \notin s
    BY AnswerBounds
  <1>4. CommunityAfter(s, lines) \in 1 .. Items <=> g \in H
    BY <1>2, <1>3 DEF CommunityAfter, Heads
  <1>5. r.cur.community = CommunityAfter(s, lines) /\ r.themes = ThemesOf(s, lines, E)
    BY DEF CurrentAfter, EndedAfter
  <1>6. CASE g \notin H
    <2>1. E = H
      BY <1>6
    <2>2. QED BY <1>4, <1>5, <1>6, <2>1 DEF Flushed
  <1>7. CASE g \in H
    <2>1. H = E \cup {g} /\ E \subseteq Nat /\ IsFiniteSet(E) /\ g \in Nat
      <3>1. IsFiniteSet(E)
        BY <1>1, FS_Subset
      <3>2. QED BY <1>1, <1>7, <3>1
    <2>2. \A h \in E : h < g
      <3>1. \A h \in E : h \in Nat /\ h <= g /\ h # g
        BY <1>1
      <3>2. QED BY <2>1, <3>1
    <2>3. [r.cur EXCEPT !.label = Named(@)] = ThemeOf(s, lines, g)
      <3>1. CommunityAfter(s, lines) # 0 /\ CommunityAfter(s, lines) = lines[g].number
        BY <1>3, <1>4, <1>7 DEF CommunityAfter
      <3>2. /\ PartAfter(s, lines, "answer") = TextUnder(s, lines, g, "answer")
            /\ PartAfter(s, lines, "summary") = TextUnder(s, lines, g, "summary")
        BY <3>1 DEF PartAfter
      <3>3. r.cur = [community |-> lines[g].number,
                     label |-> TextUnder(s, lines, g, "answer"),
                     summary |-> TextUnder(s, lines, g, "summary")]
        BY <3>1, <3>2 DEF CurrentAfter
      <3>4. QED BY <3>3 DEF ThemeOf
    <2> HIDE DEF g, E, H
    <2>4. /\ Cardinality(H) = Cardinality(E) + 1 /\ Cardinality(E) \in Nat
          /\ \A k \in 1 .. Cardinality(E) : Ordered(H, <)[k] = Ordered(E, <)[k]
          /\ Ordered(H, <)[Cardinality(E) + 1] = g
      BY <2>1, <2>2, OrderedGrows
    <2>5. \A j \in Nat : \A k \in 1 .. j + 1 : k = j + 1 \/ k \in 1 .. j
      OBVIOUS
    <2> PICK c : c = Cardinality(E)
      OBVIOUS
    <2> DEFINE f == [k \in 1 .. c |-> ThemeOf(s, lines, Ordered(E, <)[k])]
               e == ThemeOf(s, lines, g)
               S == {f[k] : k \in 1 .. c} \cup {e}
    <2>6. c \in Nat /\ f \in [1 .. c -> S] /\ e \in S /\ f = ThemesOf(s, lines, E)
      BY <2>4 DEF ThemesOf
    <2>7. ThemesOf(s, lines, H) = [k \in 1 .. c + 1 |-> IF k = c + 1 THEN e ELSE f[k]]
      <3>1. \A k \in 1 .. c + 1 : ThemeOf(s, lines, Ordered(H, <)[k]) = IF k = c + 1 THEN e ELSE f[k]
        <4>1. e = ThemeOf(s, lines, Ordered(H, <)[c + 1])
          BY <2>4
        <4>2. \A k \in 1 .. c : f[k] = ThemeOf(s, lines, Ordered(H, <)[k])
          BY <2>4
        <4>3. \A k \in 1 .. c + 1 : k = c + 1 \/ k \in 1 .. c
          BY <2>5, <2>6
        <4> HIDE DEF f, e
        <4>4. QED BY <4>1, <4>2, <4>3
      <3> HIDE DEF f, e
      <3>2. QED BY <2>4, <3>1 DEF ThemesOf
    <2> HIDE DEF f, e, S
    <2>8. Append(f, e) = [k \in 1 .. c + 1 |-> IF k = c + 1 THEN e ELSE f[k]]
      BY <2>6, AppendIs
    <2>9. Flushed(r) = Append(r.themes, [r.cur EXCEPT !.label = Named(@)])
      BY <1>4, <1>5, <1>7 DEF Flushed, g, H
    <2>10. r.themes = f
      BY <1>5, <2>6
    <2>11. QED BY <2>3, <2>7, <2>8, <2>9, <2>10 DEF e, H
  <1>8. QED BY <1>6, <1>7

(***************************************************************************)
(* Reading themes                                                          *)
(***************************************************************************)
ReadTheme(s, l) ==
    CASE l.prefix = "item" -> [Flush(s) EXCEPT !.cur.community = l.number]
      [] l.prefix = "note" -> [Flush(s) EXCEPT !.note = l.text]
      [] l.prefix = "answer" /\ s.cur.community # 0 -> [s EXCEPT !.cur.label = l.text]
      [] l.prefix = "summary" /\ s.cur.community # 0 -> [s EXCEPT !.cur.summary = l.text]
      [] OTHER -> s

\* f reads the lines one after the other.
ReadsThemes(f, n, lines) ==
    f = [s \in SUBSET (1 .. n) |->
            IF s = {} THEN [cur |-> NoTheme, themes |-> <<>>, note |-> ""]
            ELSE ReadTheme(f[s \ {Max(s)}], lines[Max(s)])]

Readings(A, T) == [cur : [community : A, label : A, summary : A], themes : T, note : A]

LEMMA FlushIs ==
  ASSUME NEW A, NEW T,
         NEW r \in Readings(A, T),
         0 \in A, "" \in A, Flushed(r) \in T
  PROVE  /\ Flush(r) \in Readings(A, T)
         /\ Flush(r).cur = NoTheme /\ Flush(r).themes = Flushed(r) /\ Flush(r).note = r.note
  <1>1. Flush(r) = [r EXCEPT !.cur = NoTheme, !.themes = Flushed(r)]
    <2>1. Named(r.cur.label) = IF r.cur.label = "" THEN "Untitled" ELSE r.cur.label
      BY DEF Named
    <2>2. QED BY <2>1, Zenon DEF Flush, Flushed
  <1>2. NoTheme \in [community : A, label : A, summary : A]
    BY DEF NoTheme
  <1> DEFINE C == [community : A, label : A, summary : A]
  <1>3. ASSUME NEW c \in C, NEW f \in T, NEW q \in [cur : C, themes : T, note : A],
               q.cur = c, q.themes = f, q.note = r.note
        PROVE  [r EXCEPT !.cur = c, !.themes = f] = q
    BY <1>3 DEF Readings
  <1> PICK q : q = [cur |-> NoTheme, themes |-> Flushed(r), note |-> r.note]
    OBVIOUS
  <1>4. /\ q \in [cur : C, themes : T, note : A]
        /\ q.cur = NoTheme /\ q.themes = Flushed(r) /\ q.note = r.note
    BY <1>2 DEF Readings
  <1>5. [r EXCEPT !.cur = NoTheme, !.themes = Flushed(r)] = q
    BY <1>2, <1>3, <1>4
  <1>6. QED BY <1>1, <1>4, <1>5 DEF Readings

\* A part of the theme that is read, when line l was read.
PartRead(r, l, prefix, part) ==
    IF l.prefix \in {"item", "note"} THEN ""
    ELSE IF l.prefix = prefix /\ r.cur.community # 0 THEN l.text ELSE part

\* q is r with line l read.
IsRead(r, l, q) ==
    /\ q.cur.community = IF l.prefix = "item" THEN l.number
                         ELSE IF l.prefix = "note" THEN 0 ELSE r.cur.community
    /\ q.cur.label = PartRead(r, l, "answer", r.cur.label)
    /\ q.cur.summary = PartRead(r, l, "summary", r.cur.summary)
    /\ q.themes = IF l.prefix \in {"item", "note"} THEN Flushed(r) ELSE r.themes
    /\ q.note = IF l.prefix = "note" THEN l.text ELSE r.note

LEMMA ReadThemeIs ==
  ASSUME NEW A, NEW T,
         NEW r \in Readings(A, T),
         NEW q \in Readings(A, T),
         NEW l, 0 \in A, "" \in A, Flushed(r) \in T, IsRead(r, l, q)
  PROVE  ReadTheme(r, l) = q
  <1>1. r \in [cur : [community : A, label : A, summary : A], themes : T, note : A]
        /\ q \in [cur : [community : A, label : A, summary : A], themes : T, note : A]
    BY DEF Readings
  <1>2. /\ Flush(r) \in [cur : [community : A, label : A, summary : A], themes : T, note : A]
        /\ Flush(r).cur = NoTheme /\ Flush(r).themes = Flushed(r) /\ Flush(r).note = r.note
        /\ NoTheme \in [community : A, label : A, summary : A]
    <2>1. NoTheme \in [community : A, label : A, summary : A]
      BY DEF NoTheme
    <2>2. /\ Flush(r) \in Readings(A, T)
          /\ Flush(r).cur = NoTheme /\ Flush(r).themes = Flushed(r) /\ Flush(r).note = r.note
      BY FlushIs
    <2>3. QED BY <2>1, <2>2 DEF Readings
  <1>3. CASE l.prefix = "item"
    <2>1. q.cur = [NoTheme EXCEPT !.community = l.number]
      <3>1. q.cur.community = l.number /\ q.cur.label = "" /\ q.cur.summary = ""
        BY <1>3 DEF IsRead, PartRead
      <3>2. q.cur \in [community : A, label : A, summary : A]
        BY <1>1
      <3>3. NoTheme.label = "" /\ NoTheme.summary = ""
        BY DEF NoTheme
      <3>4. ASSUME NEW e \in [community : A, label : A, summary : A], e.label = "", e.summary = "",
                   NEW c \in [community : A, label : A, summary : A], c.label = "", c.summary = ""
            PROVE  c = [e EXCEPT !.community = c.community]
        BY <3>4
      <3>5. QED BY <1>2, <3>1, <3>2, <3>3, <3>4
    <2>2. ReadTheme(r, l) = [Flush(r) EXCEPT !.cur.community = l.number]
      BY <1>3 DEF ReadTheme
    <2>3. [Flush(r) EXCEPT !.cur.community = l.number] = [Flush(r) EXCEPT !.cur = q.cur]
      <3>1. [Flush(r) EXCEPT !.cur.community = l.number] =
               [Flush(r) EXCEPT !.cur = [Flush(r).cur EXCEPT !.community = l.number]]
        BY <1>2
      <3>2. QED BY <1>2, <2>1, <3>1
    <2>4. /\ q.themes = Flush(r).themes /\ q.note = Flush(r).note
      BY <1>2, <1>3 DEF IsRead
    <2>5. ASSUME NEW C, NEW p \in [cur : C, themes : T, note : A], NEW o \in [cur : C, themes : T, note : A],
                 p.themes = o.themes, p.note = o.note
          PROVE  p = [o EXCEPT !.cur = p.cur]
      BY <2>5
    <2>6. q = [Flush(r) EXCEPT !.cur = q.cur]
      BY <1>1, <1>2, <2>4, <2>5
    <2>7. QED BY <2>2, <2>3, <2>6
  <1>4. CASE l.prefix = "note"
    <2>1. q.cur = NoTheme
      <3>1. q.cur.community = 0 /\ q.cur.label = "" /\ q.cur.summary = ""
        BY <1>4 DEF IsRead, PartRead
      <3>2. q.cur \in [community : A, label : A, summary : A]
        BY <1>1
      <3>3. QED BY <3>1, <3>2 DEF NoTheme
    <2>2. ReadTheme(r, l) = [Flush(r) EXCEPT !.note = l.text]
      BY <1>4 DEF ReadTheme
    <2>3. /\ q.themes = Flush(r).themes /\ q.cur = Flush(r).cur /\ q.note = l.text
      BY <1>2, <1>4, <2>1 DEF IsRead
    <2>4. ASSUME NEW C, NEW p \in [cur : C, themes : T, note : A], NEW o \in [cur : C, themes : T, note : A],
                 p.themes = o.themes, p.cur = o.cur
          PROVE  p = [o EXCEPT !.note = p.note]
      BY <2>4
    <2>5. q = [Flush(r) EXCEPT !.note = q.note]
      BY <1>1, <1>2, <2>3, <2>4
    <2>6. QED BY <2>2, <2>3, <2>5
  <1>5. CASE l.prefix = "answer" /\ r.cur.community # 0
    <2>1. /\ q.cur.community = r.cur.community /\ q.cur.summary = r.cur.summary
          /\ q.themes = r.themes /\ q.note = r.note
      BY <1>5 DEF IsRead, PartRead
    <2>2. q.cur.label = l.text
      BY <1>5 DEF IsRead, PartRead
    <2>3. ReadTheme(r, l) = [r EXCEPT !.cur.label = l.text]
      BY <1>5 DEF ReadTheme
    <2>4. q = [r EXCEPT !.cur.label = q.cur.label]
      BY <1>1, <2>1
    <2>5. QED BY <2>2, <2>3, <2>4
  <1>6. CASE l.prefix = "summary" /\ r.cur.community # 0
    <2>1. /\ q.cur.community = r.cur.community /\ q.cur.label = r.cur.label
          /\ q.themes = r.themes /\ q.note = r.note
      BY <1>6 DEF IsRead, PartRead
    <2>2. q.cur.summary = l.text
      BY <1>6 DEF IsRead, PartRead
    <2>3. ReadTheme(r, l) = [r EXCEPT !.cur.summary = l.text]
      BY <1>6 DEF ReadTheme
    <2>4. q = [r EXCEPT !.cur.summary = q.cur.summary]
      BY <1>1, <2>1
    <2>5. QED BY <2>2, <2>3, <2>4
  <1>7. CASE l.prefix \notin {"item", "note"} /\ ~(l.prefix \in {"answer", "summary"} /\ r.cur.community # 0)
    <2>1. ReadTheme(r, l) = r
      BY <1>7 DEF ReadTheme
    <2>2. /\ q.cur.community = r.cur.community /\ q.cur.label = r.cur.label
          /\ q.cur.summary = r.cur.summary /\ q.themes = r.themes /\ q.note = r.note
      BY <1>7 DEF IsRead, PartRead
    <2>3. q.cur = r.cur
      <3>1. /\ r.cur \in [community : A, label : A, summary : A]
            /\ q.cur \in [community : A, label : A, summary : A]
        BY <1>1
      <3>2. ASSUME NEW c \in [community : A, label : A, summary : A],
                   NEW e \in [community : A, label : A, summary : A],
                   c.community = e.community, c.label = e.label, c.summary = e.summary
            PROVE  c = e
        <4>1. c = [e EXCEPT !.community = c.community]
          BY <3>2
        <4>2. [e EXCEPT !.community = e.community] = e
          OBVIOUS
        <4>3. QED BY <3>2, <4>1, <4>2
      <3>3. QED BY <2>2, <3>1, <3>2
    <2>4. q = r
      <3>1. ASSUME NEW C, NEW p \in [cur : C, themes : T, note : A],
                   NEW o \in [cur : C, themes : T, note : A],
                   p.cur = o.cur, p.themes = o.themes, p.note = o.note
            PROVE  p = o
        <4>1. p = [o EXCEPT !.cur = p.cur]
          BY <3>1
        <4>2. [o EXCEPT !.cur = o.cur] = o
          OBVIOUS
        <4>3. QED BY <3>1, <4>1, <4>2
      <3>2. QED BY <1>1, <2>2, <2>3, <3>1
    <2>5. QED BY <2>1, <2>4
  <1>8. QED BY <1>3, <1>4, <1>5, <1>6, <1>7

\* What is read of s: the theme it ends in, those it has ended, and its note.
LEMMA ThemesAre ==
  ASSUME NEW n \in Nat, NEW lines, DOMAIN lines = 1 .. n
  PROVE  LET all == ThemesOf(1 .. n, lines, Heads(1 .. n, lines))
         IN  Themes(lines).themes = SubSeq(all, 1, Min({MaxThemes, Len(all)}))
  <1> DEFINE D == 1 .. n
             all == CHOOSE f : ReadsThemes(f, n, lines)
             W == [s \in SUBSET D |-> [cur |-> CurrentAfter(s, lines),
                                       themes |-> EndedAfter(s, lines),
                                       note |-> NoteAfter(s, lines)]]
  <1>1. Themes(lines).themes =
           SubSeq(Flush(all[D]).themes, 1, Min({MaxThemes, Len(Flush(all[D]).themes)}))
    BY DEF Themes, FoldLeft, MapThenFoldSet, ReadTheme, ReadsThemes
  <1>2. W[{}] = [cur |-> NoTheme, themes |-> <<>>, note |-> ""]
    <2>1. {} \in SUBSET D
      OBVIOUS
    <2>2. HeadAfter({}, lines) = 0 /\ Latest({}, lines, {"note"}) = 0
      <3>1. \A prefixes : Latest({}, lines, prefixes) = 0
        BY <2>1, LatestIs
      <3>2. QED BY <3>1 DEF HeadAfter
    <2>3. CommunityAfter({}, lines) = 0
      BY <2>2 DEF CommunityAfter
    <2>4. CurrentAfter({}, lines) = NoTheme
      BY <2>3 DEF CurrentAfter, PartAfter, NoTheme
    <2>5. NoteAfter({}, lines) = ""
      BY <2>2 DEF NoteAfter
    <2>6. EndedAfter({}, lines) = <<>>
      <3>1. Heads({}, lines) \ {HeadAfter({}, lines)} = {} /\ Cardinality({}) = 0
        BY FS_EmptySet DEF Heads
      <3>2. 1 .. 0 = {}
        OBVIOUS
      <3>3. EndedAfter({}, lines) = [k \in {} |-> ThemeOf({}, lines, Ordered({}, <)[k])]
        BY <3>1, <3>2 DEF EndedAfter, ThemesOf
      <3>4. \A f : [k \in {} |-> f[k]] = <<>>
        OBVIOUS
      <3> DEFINE f == [k \in {} |-> ThemeOf({}, lines, Ordered({}, <)[k])]
      <3>5. f = [k \in {} |-> f[k]]
        OBVIOUS
      <3>6. QED BY <3>3, <3>4, <3>5
    <2>7. QED BY <2>1, <2>4, <2>5, <2>6
  <1>3. ASSUME NEW s \in SUBSET D, NEW m, NEW t, IsLast(n, s, m, t)
        PROVE  W[s] = ReadTheme(W[t], lines[m])
    <2>1. IsLast(n, s, m, t)
      BY <1>3
    <2>2. m \in 1 .. n /\ t \in SUBSET D
      BY <2>1, UpToIs
    <2>3. PartIs(s, m, t, lines, "answer") /\ PartIs(s, m, t, lines, "summary")
      BY <2>1, PartGrows
    <2> PICK r, q, l : r = W[t] /\ q = W[s] /\ l = lines[m]
      OBVIOUS
    <2>4. /\ r = [cur |-> CurrentAfter(t, lines), themes |-> EndedAfter(t, lines), note |-> NoteAfter(t, lines)]
          /\ q = [cur |-> CurrentAfter(s, lines), themes |-> EndedAfter(s, lines), note |-> NoteAfter(s, lines)]
      BY <2>2
    <2> HIDE DEF W
    <2>5. Flushed(r) = ThemesOf(t, lines, Heads(t, lines))
      <3>1. r.cur = CurrentAfter(t, lines) /\ r.themes = EndedAfter(t, lines)
        BY <2>4
      <3>2. QED BY <2>2, <3>1, FlushedIs
    <2>6. q.themes = IF l.prefix \in {"item", "note"} THEN Flushed(r) ELSE r.themes
      BY <2>1, <2>4, <2>5, EndedGrows
    <2>7. q.note = IF l.prefix = "note" THEN l.text ELSE r.note
      <3>1. Latest(s, lines, {"note"}) = IF lines[m].prefix = "note" THEN m ELSE Latest(t, lines, {"note"})
        BY <2>1, LatestGrows
      <3>2. m # 0
        BY <2>2
      <3>3. NoteAfter(s, lines) = IF lines[m].prefix = "note" THEN lines[m].text ELSE NoteAfter(t, lines)
        BY <3>1, <3>2 DEF NoteAfter
      <3>4. QED BY <2>4, <3>3
    <2>8. /\ r.cur.community = CommunityAfter(t, lines)
          /\ r.cur.label = PartAfter(t, lines, "answer")
          /\ r.cur.summary = PartAfter(t, lines, "summary")
          /\ q.cur.community = CommunityAfter(s, lines)
          /\ q.cur.label = PartAfter(s, lines, "answer")
          /\ q.cur.summary = PartAfter(s, lines, "summary")
      BY <2>4 DEF CurrentAfter
    <2>9. q.cur.community = IF l.prefix = "item" THEN l.number
                            ELSE IF l.prefix = "note" THEN 0 ELSE r.cur.community
      <3>1. CommunityAfter(s, lines) =
               IF lines[m].prefix = "item" THEN lines[m].number
               ELSE IF lines[m].prefix = "note" THEN 0 ELSE CommunityAfter(t, lines)
        BY <2>1, CommunityGrows
      <3>2. QED BY <2>8, <3>1
    <2>10. /\ q.cur.label = PartRead(r, l, "answer", r.cur.label)
          /\ q.cur.summary = PartRead(r, l, "summary", r.cur.summary)
      BY <2>8, <2>3 DEF PartIs, PartRead
    <2>11. PICK A, T : r \in Readings(A, T) /\ q \in Readings(A, T) /\ 0 \in A /\ "" \in A /\ Flushed(r) \in T
      <3> DEFINE A == {0, "", r.note, q.note, r.cur.community, r.cur.label, r.cur.summary,
                       q.cur.community, q.cur.label, q.cur.summary}
                 T == {Flushed(r), r.themes, q.themes}
      <3>1. /\ r.cur \in [community : A, label : A, summary : A]
            /\ q.cur \in [community : A, label : A, summary : A]
        <4>1. \A x, y, z \in A : [community |-> x, label |-> y, summary |-> z] \in
                                    [community : A, label : A, summary : A]
          OBVIOUS
        <4>2. /\ r.cur.community \in A /\ r.cur.label \in A /\ r.cur.summary \in A
              /\ q.cur.community \in A /\ q.cur.label \in A /\ q.cur.summary \in A
          OBVIOUS
        <4> HIDE DEF A
        <4>3. /\ r.cur = [community |-> r.cur.community, label |-> r.cur.label, summary |-> r.cur.summary]
              /\ q.cur = [community |-> q.cur.community, label |-> q.cur.label, summary |-> q.cur.summary]
          BY <2>4 DEF CurrentAfter
        <4>4. QED BY <4>1, <4>2, <4>3
      <3>2. /\ r.note \in A /\ q.note \in A /\ r.themes \in T /\ q.themes \in T
            /\ Flushed(r) \in T /\ 0 \in A /\ "" \in A
        OBVIOUS
      <3> HIDE DEF A, T
      <3>3. r \in Readings(A, T) /\ q \in Readings(A, T)
        BY <2>4, <3>1, <3>2 DEF Readings
      <3>4. QED BY <3>2, <3>3
    <2>12. ReadTheme(r, l) = q
      <3>1. IsRead(r, l, q)
        BY <2>6, <2>7, <2>9, <2>10 DEF IsRead
      <3>2. QED BY <2>11, <3>1, ReadThemeIs
    <2>13. QED BY <2>12
  <1>4. W = [s \in SUBSET D |-> W[s]]
    OBVIOUS
  <1>5. Flush(W[D]).themes = ThemesOf(D, lines, Heads(D, lines))
    <2> PICK r : r = W[D]
      OBVIOUS
    <2>1. r.cur = CurrentAfter(D, lines) /\ r.themes = EndedAfter(D, lines)
      OBVIOUS
    <2> HIDE DEF W
    <2>2. Flushed(r) = ThemesOf(D, lines, Heads(D, lines))
      BY <2>1, FlushedIs
    <2>3. Flush(r).themes = Flushed(r)
      BY DEF Flush, Flushed, Named
    <2>4. QED BY <2>2, <2>3
  <1> HIDE DEF W
  <1>6. ReadsThemes(W, n, lines)
    <2>1. ASSUME NEW s \in SUBSET D, s # {}
          PROVE  W[s] = ReadTheme(W[s \ {Max(s)}], lines[Max(s)])
      BY <1>3, <2>1, LastIsMax
    <2>2. W = [s \in SUBSET D |-> IF s = {} THEN [cur |-> NoTheme, themes |-> <<>>, note |-> ""]
                                  ELSE ReadTheme(W[s \ {Max(s)}], lines[Max(s)])]
      BY <1>2, <1>4, <2>1
    <2>3. QED BY <2>2 DEF ReadsThemes
  <1>7. ReadsThemes(all, n, lines)
    BY <1>6
  <1> HIDE DEF all
  <1>8. all[{}] = W[{}]
    BY <1>6, <1>7 DEF ReadsThemes
  <1>9. ASSUME NEW k \in 1 .. n, all[1 .. (k - 1)] = W[1 .. (k - 1)] PROVE all[1 .. k] = W[1 .. k]
    <2>1. /\ 1 .. k \in SUBSET (1 .. n) /\ 1 .. k # {}
          /\ Max(1 .. k) = k /\ (1 .. k) \ {Max(1 .. k)} = 1 .. (k - 1)
      BY FirstLines
    <2>2. all[1 .. k] = ReadTheme(all[(1 .. k) \ {Max(1 .. k)}], lines[Max(1 .. k)])
      BY <1>7, <2>1 DEF ReadsThemes
    <2>3. W[1 .. k] = ReadTheme(W[(1 .. k) \ {Max(1 .. k)}], lines[Max(1 .. k)])
      BY <1>6, <2>1 DEF ReadsThemes
    <2>4. QED BY <1>9, <2>1, <2>2, <2>3
  <1>10. all[D] = W[D]
    BY <1>8, <1>9, AlikeInTheEnd
  <1>11. QED BY <1>1, <1>5, <1>10

LEMMA LeastOfTwo ==
  ASSUME NEW a \in Nat, NEW b \in Nat
  PROVE  Min({a, b}) \in Nat /\ Min({a, b}) <= a /\ Min({a, b}) <= b
  <1>1. \E x \in {a, b} : \A y \in {a, b} : x <= y
    <2>1. a <= b \/ b <= a
      OBVIOUS
    <2>2. QED BY <2>1
  <1>2. Min({a, b}) \in {a, b} /\ \A y \in {a, b} : Min({a, b}) <= y
    BY <1>1 DEF Min
  <1>3. QED BY <1>2

LEMMA LengthIs ==
  ASSUME NEW S, NEW n \in Nat, NEW f \in [1 .. n -> S]
  PROVE  f \in Seq(S) /\ Len(f) = n
  OBVIOUS

\* The themes in the words of AnswersFindTheirItems.
LEMMA ThemesFind ==
  ASSUME NEW n \in Nat, NEW lines, DOMAIN lines = 1 .. n
  PROVE  LET read == Themes(lines)
             heads == Ordered({i \in DOMAIN lines : lines[i].prefix = "item"
                                                      /\ lines[i].number \in 1 .. Items}, <)
             labels(h) == {i \in DOMAIN lines : lines[i].prefix = "answer"
                                                  /\ LastLine(lines, {"item", "note"}, i) = h}
             label(h) == IF labels(h) = {} THEN "" ELSE lines[Max(labels(h))].text
         IN  /\ Len(read.themes) = Min({MaxThemes, Len(heads)})
             /\ \A t \in DOMAIN read.themes :
                   /\ read.themes[t].community = lines[heads[t]].number
                   /\ read.themes[t].label =
                         IF label(heads[t]) = "" THEN "Untitled" ELSE label(heads[t])
             /\ read.note # "" => read.themes # <<>>
  <1> DEFINE D == 1 .. n
             H == Heads(D, lines)
             c == Cardinality(H)
             heads == Ordered(H, <)
             all == ThemesOf(D, lines, H)
             read == Themes(lines)
             labels(h) == {i \in DOMAIN lines : lines[i].prefix = "answer"
                                                  /\ LastLine(lines, {"item", "note"}, i) = h}
             label(h) == IF labels(h) = {} THEN "" ELSE lines[Max(labels(h))].text
  <1>1. {i \in DOMAIN lines : lines[i].prefix = "item" /\ lines[i].number \in 1 .. Items} = H
    BY DEF Heads
  <1>2. \A h : label(h) = TextUnder(D, lines, h, "answer")
    <2>1. \A h : labels(h) = Under(D, lines, h, "answer")
      <3>1. \A i \in D : LastLine(lines, {"item", "note"}, i) = HeadAfter(UpTo(D, i), lines)
        <4>1. \A i \in 1 .. n : LastLine(lines, {"item", "note"}, i) =
                                   Latest(UpTo(1 .. n, i), lines, {"item", "note"})
          <5> HIDE DEF labels, label, read, all, heads, c, H
          <5>1. QED BY LastLineIs
        <4>2. QED BY <4>1 DEF HeadAfter
      <3>2. QED BY <3>1 DEF Under
    <2> HIDE DEF labels
    <2>2. QED BY <2>1 DEF TextUnder
  <1> HIDE DEF label
  <1>3. c \in Nat /\ heads \in [1 .. c -> H]
    <2>1. H \subseteq Nat /\ IsFiniteSet(H)
      BY HeadsAreLines
    <2> HIDE DEF H
    <2>2. QED BY <2>1, OrderedOnce
  <1>4. Len(heads) = c
    <2> HIDE DEF heads, H
    <2>1. QED BY <1>3, LengthIs
  <1> DEFINE theme(k) == ThemeOf(D, lines, heads[k])
             S == {theme(k) : k \in 1 .. c}
             m == Min({MaxThemes, c})
  <1>5. all \in [1 .. c -> S] /\ \A k \in 1 .. c : all[k] = theme(k)
    BY DEF ThemesOf
  <1>6. \A k : /\ theme(k).community = lines[heads[k]].number
               /\ theme(k).label = IF label(heads[k]) = "" THEN "Untitled" ELSE label(heads[k])
    BY <1>2 DEF ThemeOf, Named
  <1> HIDE DEF all, theme, S
  <1>7. all \in Seq(S) /\ Len(all) = c
    <2> HIDE DEF c, H, heads, m, read
    <2>1. c \in Nat /\ all \in [1 .. c -> S]
      BY <1>3, <1>5
    <2>2. QED BY <2>1, LengthIs
  <1>8. m \in Nat /\ m <= c
    BY <1>3, LeastOfTwo, AnswerBounds
  <1>9. read.themes = SubSeq(all, 1, m)
    BY <1>7, ThemesAre DEF all
  <1>10. read.note # "" => read.themes # <<>>
    BY DEF Themes
  <1> HIDE DEF m, read, heads, c, H
  <1> PICK q : q = read.themes
    OBVIOUS
  <1>11. Len(q) = m /\ DOMAIN q = 1 .. m /\ \A k \in 1 .. m : q[k] = all[k]
    <2>1. /\ SubSeq(all, 1, m) \in Seq(S) /\ Len(SubSeq(all, 1, m)) = m
          /\ \A k \in 1 .. m : SubSeq(all, 1, m)[k] = all[k]
      <3>1. \A i \in 1 .. m : all[i] \in S
        BY <1>3, <1>5, <1>8
      <3>2. /\ SubSeq(all, 1, m) \in Seq(S)
            /\ Len(SubSeq(all, 1, m)) = IF 1 <= m THEN m - 1 + 1 ELSE 0
            /\ \A i \in 1 .. m - 1 + 1 : SubSeq(all, 1, m)[i] = all[1 + i - 1]
        BY <1>8, <3>1, SubSeqProperties
      <3>3. QED BY <1>8, <3>2
    <2>2. QED BY <1>9, <2>1, LenProperties
  <1>12. \A t \in DOMAIN q : q[t] = theme(t)
    BY <1>3, <1>5, <1>8, <1>11
  <1>13. /\ Len(q) = Min({MaxThemes, Len(heads)})
         /\ \A t \in DOMAIN q :
               /\ q[t].community = lines[heads[t]].number
               /\ q[t].label = IF label(heads[t]) = "" THEN "Untitled" ELSE label(heads[t])
    BY <1>4, <1>6, <1>11, <1>12 DEF m
  <1>14. QED BY <1>1, <1>10, <1>13 DEF read, heads, label

\* Whatever lines a response has, and in whatever order, every answer that is
\* read of it is that of the item its block names, the last given, and none is
\* read for an item without one (parseAliasBatchVerdicts, parseResponse of
\* crosslink, relation, intrusion and theme).
THEOREM AnswersFindItems ==
  ASSUME response \in Responses \cup {NoResponse}
  PROVE  AnswersFindTheirItems
  <1> DEFINE lines == response.lines
  <1>1. CASE response.kind = "numbered"
    <2>1. PICK n \in Nat : lines \in [1 .. n -> Lines("numbered")]
      BY <1>1, ResponseHasLines
    <2> HIDE DEF lines
    <2>2. LET answers == NumberedAnswers(lines)
              item(i) == NumberAt(lines, LastLine(lines, {"item"}, i))
          IN  LastGiven(answers, lines, item, {0})
      BY <2>1, NumberedFind
    <2>3. LET answers == NumberedAnswers(lines)
              said(k, text) == k \in DOMAIN answers /\ answers[k] = text
          IN  /\ SameEntityBatch(lines) = [k \in 1 .. Items |-> said(k, "SAME")]
              /\ Correct(lines) = {k \in 1 .. Items : said(k, "x")}
              /\ DOMAIN Extract(lines) = {k \in 1 .. Items : \E text \in {"x", "", "SAME"} : said(k, text)}
      BY <2>1, FoundByNumber
    <2>4. QED BY <1>1, <2>2, <2>3, Zenon DEF AnswersFindTheirItems, lines
  <1>2. CASE response.kind = "pairs"
    <2>1. PICK n \in Nat : lines \in [1 .. n -> Lines("pairs")]
      BY <1>2, ResponseHasLines
    <2> HIDE DEF lines
    <2>2. LET pair(i) == LET last == LastLine(lines, {"item", "chunk"}, i) IN
                   <<NumberAt(lines, LastLine(lines, {"chunk"}, i)),
                     IF last = 0 \/ lines[last].prefix = "chunk" THEN 0 ELSE lines[last].number>>
          IN  LastGiven(PairAnswers(lines), lines, pair, ({0} \X Numbers) \cup (Numbers \X {0}))
      BY <2>1, PairsFind
    <2>3. QED BY <1>2, <2>2, Zenon DEF AnswersFindTheirItems, lines
  <1>3. CASE response.kind = "themes"
    <2>1. PICK n \in Nat : lines \in [1 .. n -> Lines("themes")]
      BY <1>3, ResponseHasLines
    <2>2. DOMAIN lines = 1 .. n
      BY <2>1
    <2> HIDE DEF lines
    <2>3. LET read == Themes(lines)
              heads == Ordered({i \in DOMAIN lines : lines[i].prefix = "item"
                                                       /\ lines[i].number \in 1 .. Items}, <)
              labels(h) == {i \in DOMAIN lines : lines[i].prefix = "answer"
                                                   /\ LastLine(lines, {"item", "note"}, i) = h}
              label(h) == IF labels(h) = {} THEN "" ELSE lines[Max(labels(h))].text
          IN  /\ Len(read.themes) = Min({MaxThemes, Len(heads)})
              /\ \A t \in DOMAIN read.themes :
                    /\ read.themes[t].community = lines[heads[t]].number
                    /\ read.themes[t].label =
                          IF label(heads[t]) = "" THEN "Untitled" ELSE label(heads[t])
              /\ read.note # "" => read.themes # <<>>
      BY <2>2, ThemesFind
    <2>4. QED BY <1>3, <2>3, Zenon DEF AnswersFindTheirItems, lines
  <1>4. CASE response.kind \notin {"numbered", "pairs", "themes"}
    BY <1>4 DEF AnswersFindTheirItems
  <1>5. QED BY <1>1, <1>2, <1>3, <1>4

(***************************************************************************)
(* Sums                                                                    *)
(***************************************************************************)
LEMMA FiniteInduction ==
  ASSUME NEW S, IsFiniteSet(S), NEW P, {} \in P,
         \A T \in SUBSET S, x \in S : T \in P /\ x \notin T => T \cup {x} \in P
  PROVE  S \in P
  <1> DEFINE Good == {k \in Nat : \A T \in SUBSET S : Cardinality(T) = k => T \in P}
  <1>1. \A T \in SUBSET S : IsFiniteSet(T) /\ Cardinality(T) \in Nat
    BY FS_Subset, FS_CardinalityType
  <1>2. 0 \in Good
    BY <1>1, FS_EmptySet
  <1>3. ASSUME NEW k \in Nat, k \in Good PROVE k + 1 \in Good
    <2>1. SUFFICES ASSUME NEW T \in SUBSET S, Cardinality(T) = k + 1 PROVE T \in P
      OBVIOUS
    <2>2. T # {} /\ IsFiniteSet(T)
      <3>1. IsFiniteSet(T) /\ k + 1 # 0
        BY <1>1
      <3>2. QED BY <2>1, <3>1, FS_EmptySet
    <2>3. PICK x \in T : TRUE
      BY <2>2
    <2>4. T \ {x} \in SUBSET S /\ Cardinality(T \ {x}) = k
      <3>1. Cardinality(T \ {x}) = Cardinality(T) - 1
        BY <2>2, FS_RemoveElement
      <3>2. QED BY <2>1, <3>1
    <2>5. T \ {x} \in P
      BY <1>3, <2>4
    <2>6. (T \ {x}) \cup {x} = T /\ x \in S /\ x \notin T \ {x}
      OBVIOUS
    <2>7. QED BY <2>4, <2>5, <2>6
  <1>4. Nat \subseteq Good
    <2> HIDE DEF Good
    <2>1. QED BY <1>2, <1>3, Induction
  <1>5. QED BY <1>1, <1>4

\* G sums up f over each subset of S.
SumsUp(G, S, f) ==
    G = [s \in SUBSET S |-> IF s = {} THEN 0
                            ELSE f[CHOOSE x \in s : TRUE] + G[s \ {CHOOSE x \in s : TRUE}]]

LEMMA SumsAgree ==
  ASSUME NEW S, IsFiniteSet(S), NEW f, NEW A, NEW B, S \subseteq A, S \subseteq B,
         NEW G, NEW H, SumsUp(G, A, f), SumsUp(H, B, f)
  PROVE  G[S] = H[S]
  <1> DEFINE Good == {k \in Nat : \A T \in SUBSET S : Cardinality(T) = k => G[T] = H[T]}
  <1>1. \A T \in SUBSET S : IsFiniteSet(T) /\ Cardinality(T) \in Nat /\ (Cardinality(T) = 0 <=> T = {})
    BY FS_Subset, FS_CardinalityType, FS_EmptySet
  <1>2. \A T \in SUBSET S : T \in SUBSET A /\ T \in SUBSET B
    OBVIOUS
  <1>3. G[{}] = 0 /\ H[{}] = 0
    BY DEF SumsUp
  <1>4. 0 \in Good
    BY <1>1, <1>3
  <1>5. ASSUME NEW k \in Nat, k \in Good PROVE k + 1 \in Good
    <2>1. SUFFICES ASSUME NEW T \in SUBSET S, Cardinality(T) = k + 1 PROVE G[T] = H[T]
      OBVIOUS
    <2> DEFINE c == CHOOSE x \in T : TRUE
    <2>2. T # {}
      BY <1>1, <2>1
    <2>3. c \in T
      BY <2>2
    <2>4. G[T] = f[c] + G[T \ {c}] /\ H[T] = f[c] + H[T \ {c}]
      BY <1>2, <2>2 DEF SumsUp
    <2> HIDE DEF c
    <2>5. T \ {c} \in SUBSET S /\ Cardinality(T \ {c}) = k
      <3>1. Cardinality(T \ {c}) = Cardinality(T) - 1
        BY <1>1, <2>3, FS_RemoveElement
      <3>2. QED BY <2>1, <3>1
    <2>6. G[T \ {c}] = H[T \ {c}]
      BY <1>5, <2>5
    <2>7. QED BY <2>4, <2>6
  <1>6. Nat \subseteq Good
    <2> HIDE DEF Good
    <2>1. QED BY <1>4, <1>5, Induction
  <1>7. QED BY <1>1, <1>6

SumOf(S, f) == CHOOSE v : \E G : SumsUp(G, S, f) /\ v = G[S]

LEMMA SumsAre ==
  ASSUME NEW S, IsFiniteSet(S), NEW f, NEW A, S \subseteq A, NEW G, SumsUp(G, A, f)
  PROVE  SumOf(S, f) = G[S]
  <1> DEFINE H == [s \in SUBSET S |-> G[s]]
  <1>1. SumsUp(H, S, f)
    <2>1. ASSUME NEW s \in SUBSET S
          PROVE  H[s] = IF s = {} THEN 0
                        ELSE f[CHOOSE x \in s : TRUE] + H[s \ {CHOOSE x \in s : TRUE}]
      <3> DEFINE c == CHOOSE x \in s : TRUE
      <3>1. s \in SUBSET A /\ s \ {c} \in SUBSET S
        OBVIOUS
      <3>2. G[s] = IF s = {} THEN 0 ELSE f[c] + G[s \ {c}]
        BY <3>1 DEF SumsUp
      <3> HIDE DEF c
      <3>3. H[s] = IF s = {} THEN 0 ELSE f[c] + H[s \ {c}]
        BY <3>1, <3>2
      <3>4. QED BY <3>3 DEF c
    <2>2. H = [s \in SUBSET S |-> H[s]]
      OBVIOUS
    <2> HIDE DEF H
    <2>3. QED BY <2>1, <2>2, Zenon DEF SumsUp
  <1>2. H[S] = G[S]
    OBVIOUS
  <1> HIDE DEF H
  <1>3. \A K : SumsUp(K, S, f) => K[S] = G[S]
    BY <1>2, SumsAgree
  <1>4. \E v : \E K : SumsUp(K, S, f) /\ v = K[S]
    BY <1>1
  <1>5. \E K : SumsUp(K, S, f) /\ SumOf(S, f) = K[S]
    BY <1>4 DEF SumOf
  <1>6. QED BY <1>3, <1>5

LEMMA SumsExist ==
  ASSUME NEW S, IsFiniteSet(S), NEW f
  PROVE  \E G : SumsUp(G, S, f)
  <1> DEFINE Good == {k \in Nat : \A T \in SUBSET S : Cardinality(T) = k => \E G : SumsUp(G, T, f)}
  <1>1. \A T \in SUBSET S : IsFiniteSet(T) /\ Cardinality(T) \in Nat /\ (Cardinality(T) = 0 <=> T = {})
    BY FS_Subset, FS_CardinalityType, FS_EmptySet
  <1>2. 0 \in Good
    <2>1. \E G : SumsUp(G, {}, f)
      <3>1. SumsUp([s \in SUBSET {} |-> 0], {}, f)
        BY DEF SumsUp
      <3>2. QED BY <3>1
    <2>2. QED BY <1>1, <2>1
  <1>3. ASSUME NEW k \in Nat, k \in Good PROVE k + 1 \in Good
    <2>1. SUFFICES ASSUME NEW T \in SUBSET S, Cardinality(T) = k + 1 PROVE \E G : SumsUp(G, T, f)
      OBVIOUS
    <2> DEFINE c(s) == CHOOSE x \in s : TRUE
               H == [s \in SUBSET T |-> IF s = T THEN f[c(T)] + SumOf(T \ {c(T)}, f) ELSE SumOf(s, f)]
    <2>2. T # {} /\ c(T) \in T
      BY <1>1, <2>1
    <2>3. ASSUME NEW s \in SUBSET T, s # T
          PROVE  SumOf(s, f) = IF s = {} THEN 0 ELSE f[c(s)] + SumOf(s \ {c(s)}, f)
      <3>1. PICK x \in T : x \notin s
        BY <2>3
      <3>2. /\ T \ {x} \in SUBSET S /\ IsFiniteSet(T \ {x}) /\ Cardinality(T \ {x}) = k
            /\ s \subseteq T \ {x} /\ IsFiniteSet(s)
        <4>1. s \in SUBSET S /\ s \subseteq T \ {x}
          BY <3>1
        <4>2. IsFiniteSet(s) /\ IsFiniteSet(T)
          BY <1>1, <4>1
        <4>3. T \ {x} \in SUBSET S /\ IsFiniteSet(T \ {x}) /\ Cardinality(T \ {x}) = Cardinality(T) - 1
          BY <4>2, FS_RemoveElement
        <4> HIDE DEF H, c, Good
        <4>4. QED BY <2>1, <4>1, <4>2, <4>3
      <3>3. PICK G : SumsUp(G, T \ {x}, f)
        BY <1>3, <3>2
      <3>4. SumOf(s, f) = G[s]
        BY <3>2, <3>3, SumsAre
      <3>5. G[s] = IF s = {} THEN 0 ELSE f[c(s)] + G[s \ {c(s)}]
        BY <3>2, <3>3 DEF SumsUp
      <3> HIDE DEF c
      <3>6. SumOf(s \ {c(s)}, f) = G[s \ {c(s)}]
        <4>1. s \ {c(s)} \in SUBSET S /\ s \ {c(s)} \subseteq T \ {x}
          BY <3>2
        <4>2. QED BY <1>1, <3>3, <4>1, SumsAre
      <3>7. QED BY <3>4, <3>5, <3>6
    <2>4. ASSUME NEW s \in SUBSET T
          PROVE  H[s] = IF s = {} THEN 0 ELSE f[c(s)] + H[s \ {c(s)}]
      <3>1. s \ {c(s)} \in SUBSET T
        OBVIOUS
      <3>2. CASE s = T
        <4>1. T \ {c(T)} # T /\ T # {}
          BY <2>2
        <4> HIDE DEF c
        <4>2. QED BY <3>1, <3>2, <4>1
      <3>3. CASE s # T
        <4>1. s \ {c(s)} # T
          BY <3>3
        <4> HIDE DEF c
        <4>2. QED BY <2>3, <3>1, <3>3, <4>1
      <3>4. QED BY <3>2, <3>3
    <2>5. H = [s \in SUBSET T |-> H[s]]
      OBVIOUS
    <2> HIDE DEF H
    <2>6. SumsUp(H, T, f)
      BY <2>4, <2>5, Zenon DEF SumsUp
    <2>7. QED BY <2>6
  <1>4. Nat \subseteq Good
    <2> HIDE DEF Good
    <2>1. QED BY <1>2, <1>3, Induction
  <1>5. QED BY <1>1, <1>4

\* The sum of the library takes one element after the other.
LEMMA SumTakes ==
  ASSUME NEW S, IsFiniteSet(S), NEW f
  PROVE  /\ S = {} => Sum(S, f) = 0
         /\ S # {} => \E x \in S : Sum(S, f) = f[x] + Sum(S \ {x}, f)
  <1>1. ASSUME NEW T, IsFiniteSet(T) PROVE Sum(T, f) = SumOf(T, f)
    <2>1. Sum(T, f) = (CHOOSE G : SumsUp(G, T, f))[T]
      BY DEF Sum, SumFunctionOnSet, FoldFunctionOnSet, MapThenFoldSet, SumsUp
    <2>2. SumsUp(CHOOSE G : SumsUp(G, T, f), T, f)
      BY <1>1, SumsExist
    <2> DEFINE G == CHOOSE G : SumsUp(G, T, f)
    <2> HIDE DEF G
    <2>3. SumOf(T, f) = G[T]
      BY <1>1, <2>2, SumsAre DEF G
    <2>4. QED BY <2>1, <2>3 DEF G
  <1>2. PICK G : SumsUp(G, S, f)
    BY SumsExist
  <1>3. Sum(S, f) = G[S]
    BY <1>1, <1>2, SumsAre
  <1>4. S = {} => G[S] = 0
    BY <1>2 DEF SumsUp
  <1>5. ASSUME S # {} PROVE \E x \in S : G[S] = f[x] + Sum(S \ {x}, f)
    <2> DEFINE c == CHOOSE x \in S : TRUE
    <2>1. c \in S
      BY <1>5
    <2>2. G[S] = f[c] + G[S \ {c}]
      BY <1>2, <1>5 DEF SumsUp
    <2> HIDE DEF c
    <2>3. IsFiniteSet(S \ {c}) /\ S \ {c} \subseteq S
      BY FS_Subset
    <2>4. Sum(S \ {c}, f) = G[S \ {c}]
      BY <1>1, <1>2, <2>3, SumsAre
    <2>5. QED BY <2>1, <2>2, <2>4
  <1>6. QED BY <1>3, <1>4, <1>5


LEMMA SumInt ==
  ASSUME NEW S, IsFiniteSet(S), NEW f, \A x \in S : f[x] \in Int
  PROVE  Sum(S, f) \in Int
  <1> DEFINE Good == {k \in Nat : \A T \in SUBSET S : Cardinality(T) = k => Sum(T, f) \in Int}
  <1>1. \A T \in SUBSET S : IsFiniteSet(T) /\ Cardinality(T) \in Nat /\ (Cardinality(T) = 0 <=> T = {})
    BY FS_Subset, FS_CardinalityType, FS_EmptySet
  <1>2. 0 \in Good
    <2>1. Sum({}, f) = 0
      BY FS_EmptySet, SumTakes
    <2>2. QED BY <1>1, <2>1
  <1>3. ASSUME NEW k \in Nat, k \in Good PROVE k + 1 \in Good
    <2>1. SUFFICES ASSUME NEW T \in SUBSET S, Cardinality(T) = k + 1 PROVE Sum(T, f) \in Int
      OBVIOUS
    <2>2. T # {} /\ IsFiniteSet(T)
      BY <1>1, <2>1
    <2>3. PICK c \in T : Sum(T, f) = f[c] + Sum(T \ {c}, f)
      BY <2>2, SumTakes
    <2>4. Cardinality(T \ {c}) = Cardinality(T) - 1
      BY <2>2, FS_RemoveElement
    <2>5. Sum(T \ {c}, f) \in Int
      BY <1>3, <2>1, <2>4
    <2>6. QED BY <2>3, <2>5
  <1>4. Nat \subseteq Good
    <2> HIDE DEF Good
    <2>1. QED BY <1>2, <1>3, Induction
  <1>5. QED BY <1>1, <1>4

\* A sum of integers does not depend on the order.
LEMMA SumWith ==
  ASSUME NEW S, IsFiniteSet(S), NEW f, \A x \in S : f[x] \in Int
  PROVE  \A x \in S : Sum(S, f) = f[x] + Sum(S \ {x}, f)
  <1> DEFINE Fine(T) == \A x \in T : Sum(T, f) = f[x] + Sum(T \ {x}, f)
             Good == {k \in Nat : \A T \in SUBSET S : Cardinality(T) = k => Fine(T)}
  <1>1. \A T \in SUBSET S : IsFiniteSet(T) /\ Cardinality(T) \in Nat /\ (Cardinality(T) = 0 <=> T = {})
    BY FS_Subset, FS_CardinalityType, FS_EmptySet
  <1>2. \A T \in SUBSET S : Sum(T, f) \in Int
    BY <1>1, SumInt
  <1>3. 0 \in Good
    BY <1>1
  <1>4. ASSUME NEW k \in Nat, k \in Good PROVE k + 1 \in Good
    <2>1. SUFFICES ASSUME NEW T \in SUBSET S, Cardinality(T) = k + 1 PROVE Fine(T)
      OBVIOUS
    <2>2. T # {} /\ IsFiniteSet(T)
      BY <1>1, <2>1
    <2>3. PICK c \in T : Sum(T, f) = f[c] + Sum(T \ {c}, f)
      BY <2>2, SumTakes
    <2>4. ASSUME NEW x \in T PROVE T \ {x} \in SUBSET S /\ Fine(T \ {x}) /\ f[x] \in Int
      <3>1. Cardinality(T \ {x}) = Cardinality(T) - 1
        BY <2>2, FS_RemoveElement
      <3> HIDE DEF Fine
      <3>2. QED BY <1>4, <2>1, <3>1
    <2>5. ASSUME NEW x \in T, x # c PROVE Sum(T, f) = f[x] + Sum(T \ {x}, f)
      <3>1. /\ Sum(T \ {c}, f) = f[x] + Sum((T \ {c}) \ {x}, f)
            /\ Sum(T \ {x}, f) = f[c] + Sum((T \ {x}) \ {c}, f)
        BY <2>4, <2>5
      <3>2. (T \ {c}) \ {x} = (T \ {x}) \ {c} /\ (T \ {c}) \ {x} \in SUBSET S
        OBVIOUS
      <3>3. /\ f[c] \in Int /\ f[x] \in Int /\ Sum(T \ {c}, f) \in Int /\ Sum(T \ {x}, f) \in Int
            /\ Sum((T \ {c}) \ {x}, f) \in Int
        BY <1>2, <2>4, <3>2
      <3>4. QED BY <2>3, <3>1, <3>2, <3>3
    <2>6. QED BY <2>3, <2>5
  <1>5. Nat \subseteq Good
    <2> HIDE DEF Good
    <2>1. QED BY <1>3, <1>4, Induction
  <1>6. QED BY <1>1, <1>5

\* One element more.
LEMMA SumAdds ==
  ASSUME NEW S, IsFiniteSet(S), NEW x, x \notin S, NEW f, f[x] \in Int, \A y \in S : f[y] \in Int
  PROVE  Sum(S \cup {x}, f) = f[x] + Sum(S, f)
  <1>1. IsFiniteSet(S \cup {x}) /\ (S \cup {x}) \ {x} = S
    BY FS_AddElement
  <1>2. QED BY <1>1, SumWith

LEMMA SumEmpty ==
  ASSUME NEW f
  PROVE  Sum({}, f) = 0
  BY FS_EmptySet, SumTakes

LEMMA SumOne ==
  ASSUME NEW f, NEW x, f[x] \in Int
  PROVE  Sum({x}, f) = f[x]
  <1>1. {} \cup {x} = {x} /\ x \notin {}
    OBVIOUS
  <1>2. Sum({x}, f) = f[x] + Sum({}, f)
    BY <1>1, FS_EmptySet, SumAdds
  <1>3. QED BY <1>2, SumEmpty

LEMMA SumSame ==
  ASSUME NEW S, IsFiniteSet(S), NEW f, NEW g, \A x \in S : f[x] \in Int /\ g[x] = f[x]
  PROVE  Sum(S, g) = Sum(S, f)
  <1> DEFINE P == {T \in SUBSET S : Sum(T, g) = Sum(T, f)}
  <1>1. {} \in P
    BY SumEmpty
  <1>2. ASSUME NEW T \in SUBSET S, NEW x \in S, T \in P, x \notin T PROVE T \cup {x} \in P
    <2>1. IsFiniteSet(T) /\ \A y \in T \cup {x} : f[y] \in Int /\ g[y] \in Int
      BY FS_Subset
    <2>2. Sum(T \cup {x}, f) = f[x] + Sum(T, f) /\ Sum(T \cup {x}, g) = g[x] + Sum(T, g)
      BY <1>2, <2>1, SumAdds
    <2>3. QED BY <1>2, <2>2
  <1> HIDE DEF P
  <1>3. S \in P
    BY <1>1, <1>2, FiniteInduction
  <1>4. QED BY <1>3 DEF P

LEMMA SumPlus ==
  ASSUME NEW S, IsFiniteSet(S), NEW f, NEW g, NEW h,
         \A x \in S : f[x] \in Int /\ g[x] \in Int /\ h[x] = f[x] + g[x]
  PROVE  Sum(S, h) = Sum(S, f) + Sum(S, g)
  <1> DEFINE P == {T \in SUBSET S : Sum(T, h) = Sum(T, f) + Sum(T, g)}
  <1>1. {} \in P
    BY SumEmpty
  <1>2. ASSUME NEW T \in SUBSET S, NEW x \in S, T \in P, x \notin T PROVE T \cup {x} \in P
    <2>1. IsFiniteSet(T) /\ \A y \in T \cup {x} : f[y] \in Int /\ g[y] \in Int /\ h[y] \in Int
      BY FS_Subset
    <2>2. /\ Sum(T \cup {x}, f) = f[x] + Sum(T, f) /\ Sum(T \cup {x}, g) = g[x] + Sum(T, g)
          /\ Sum(T \cup {x}, h) = h[x] + Sum(T, h)
      <3>1. Sum(T \cup {x}, f) = f[x] + Sum(T, f)
        BY <1>2, <2>1, SumAdds
      <3>2. Sum(T \cup {x}, g) = g[x] + Sum(T, g)
        BY <1>2, <2>1, SumAdds
      <3>3. Sum(T \cup {x}, h) = h[x] + Sum(T, h)
        BY <1>2, <2>1, SumAdds
      <3>4. QED BY <3>1, <3>2, <3>3
    <2>3. Sum(T, f) \in Int /\ Sum(T, g) \in Int
      BY <2>1, SumInt
    <2>4. QED BY <1>2, <2>1, <2>2, <2>3
  <1> HIDE DEF P
  <1>3. S \in P
    BY <1>1, <1>2, FiniteInduction
  <1>4. QED BY <1>3 DEF P

LEMMA SumUnion ==
  ASSUME NEW S, IsFiniteSet(S), NEW R, IsFiniteSet(R), R \cap S = {},
         NEW f, \A x \in S \cup R : f[x] \in Int
  PROVE  Sum(S \cup R, f) = Sum(S, f) + Sum(R, f)
  <1> DEFINE P == {T \in SUBSET S : Sum(T \cup R, f) = Sum(T, f) + Sum(R, f)}
  <1>0. Sum(R, f) \in Int
    BY SumInt
  <1>1. {} \in P
    <2>1. {} \cup R = R
      OBVIOUS
    <2>2. QED BY <1>0, <2>1, SumEmpty
  <1>2. ASSUME NEW T \in SUBSET S, NEW x \in S, T \in P, x \notin T PROVE T \cup {x} \in P
    <2>1. IsFiniteSet(T) /\ IsFiniteSet(T \cup R) /\ x \notin T \cup R
      BY <1>2, FS_Subset, FS_Union
    <2>2. (T \cup {x}) \cup R = (T \cup R) \cup {x}
      OBVIOUS
    <2>3. Sum(T \cup {x}, f) = f[x] + Sum(T, f)
      BY <1>2, <2>1, SumAdds
    <2>4. Sum((T \cup R) \cup {x}, f) = f[x] + Sum(T \cup R, f)
      BY <2>1, SumAdds
    <2>5. Sum(T, f) \in Int
      BY <2>1, SumInt
    <2>6. f[x] \in Int /\ Sum(T \cup R, f) = Sum(T, f) + Sum(R, f)
      BY <1>2
    <2>7. Sum((T \cup R) \cup {x}, f) = Sum(T \cup {x}, f) + Sum(R, f)
      BY <1>0, <2>3, <2>4, <2>5, <2>6
    <2>8. QED BY <2>2, <2>7
  <1> HIDE DEF P
  <1>3. S \in P
    BY <1>1, <1>2, FiniteInduction
  <1>4. QED BY <1>3 DEF P

\* Zeros may be left out.
LEMMA SumZeros ==
  ASSUME NEW S, IsFiniteSet(S), NEW R \in SUBSET S, NEW f, \A x \in R : f[x] \in Int,
         \A x \in S \ R : f[x] = 0
  PROVE  Sum(S, f) = Sum(R, f)
  <1> DEFINE T == S \ R
  <1>1. IsFiniteSet(T) /\ IsFiniteSet(R) /\ T \cup R = S /\ R \cap T = {}
    BY FS_Subset
  <1>2. Sum(S, f) = Sum(T, f) + Sum(R, f)
    <2>1. \A x \in T \cup R : f[x] \in Int
      OBVIOUS
    <2> HIDE DEF T
    <2>2. QED BY <1>1, <2>1, SumUnion
  <1>3. Sum(R, f) \in Int
    BY <1>1, SumInt
  <1>4. Sum(T, f) = Sum(T, f) + Sum(T, f) /\ Sum(T, f) \in Int
    <2>1. \A x \in T : f[x] \in Int /\ f[x] = f[x] + f[x]
      OBVIOUS
    <2> HIDE DEF T
    <2>2. Sum(T, f) \in Int
      BY <1>1, <2>1, SumInt
    <2>3. Sum(T, f) = Sum(T, f) + Sum(T, f)
      BY <1>1, <2>1, SumPlus
    <2>4. QED BY <2>2, <2>3
  <1> PICK s, t, r : s = Sum(S, f) /\ t = Sum(T, f) /\ r = Sum(R, f)
    OBVIOUS
  <1>5. s = r
    <2> HIDE DEF T
    <2>1. s = t + r /\ r \in Int /\ t = t + t /\ t \in Int
      BY <1>2, <1>3, <1>4
    <2>2. QED BY ONLY <2>1
  <1>6. QED BY <1>5

LEMMA SumNat ==
  ASSUME NEW S, IsFiniteSet(S), NEW f, \A x \in S : f[x] \in Nat
  PROVE  Sum(S, f) \in Nat
  <1> DEFINE P == {T \in SUBSET S : Sum(T, f) \in Nat}
  <1>1. {} \in P
    BY SumEmpty
  <1>2. ASSUME NEW T \in SUBSET S, NEW x \in S, T \in P, x \notin T PROVE T \cup {x} \in P
    <2>1. IsFiniteSet(T) /\ \A y \in T \cup {x} : f[y] \in Int
      BY FS_Subset
    <2>2. Sum(T \cup {x}, f) = f[x] + Sum(T, f)
      BY <1>2, <2>1, SumAdds
    <2>3. QED BY <1>2, <2>2
  <1> HIDE DEF P
  <1>3. S \in P
    BY <1>1, <1>2, FiniteInduction
  <1>4. QED BY <1>3 DEF P

\* The part of S that c sends to k.
Part(S, c, k) == {x \in S : c[x] = k}

\* c divides S into one part for each of K, and g has the sums of f over them.
Divided(S, K, c, f, g) ==
    /\ IsFiniteSet(S) /\ IsFiniteSet(K)
    /\ \A x \in S : c[x] \in K /\ f[x] \in Int
    /\ \A k \in K : g[k] = Sum(Part(S, c, k), f)

\* The sums of the parts that c divides S into add up to the sum of S.
LEMMA SumOfParts ==
  ASSUME NEW S, NEW K, NEW c, NEW f, NEW g, Divided(S, K, c, f, g)
  PROVE  Sum(K, g) = Sum(S, f)
  <1>1. Divided(S, K, c, f, g)
    OBVIOUS
  <1> USE DEF Divided
  <1> DEFINE Upto(T) == {x \in S : c[x] \in T}
             P == {T \in SUBSET K : Sum(T, g) = Sum(Upto(T), f)}
  <1>2. IsFiniteSet(K) /\ IsFiniteSet(S)
    BY <1>1
  <1>3. {} \in P
    <2>1. Upto({}) = {}
      OBVIOUS
    <2>2. QED BY <2>1, SumEmpty
  <1>4. ASSUME NEW k \in K PROVE IsFiniteSet(Part(S, c, k)) /\ g[k] \in Int /\ g[k] = Sum(Part(S, c, k), f)
    <2>1. IsFiniteSet(Part(S, c, k))
      BY FS_Subset DEF Part
    <2>2. \A x \in Part(S, c, k) : f[x] \in Int
      BY DEF Part
    <2>3. g[k] = Sum(Part(S, c, k), f)
      OBVIOUS
    <2>4. QED BY <2>1, <2>2, <2>3, SumInt
  <1>5. ASSUME NEW T \in SUBSET K, NEW k \in K, T \in P, k \notin T PROVE T \cup {k} \in P
    <2>1. Upto(T \cup {k}) = Part(S, c, k) \cup Upto(T) /\ Upto(T) \cap Part(S, c, k) = {}
      BY <1>5 DEF Part
    <2>2. IsFiniteSet(Upto(T)) /\ \A x \in Part(S, c, k) \cup Upto(T) : f[x] \in Int
      BY FS_Subset DEF Part
    <2>3. Sum(T, g) = Sum(Upto(T), f)
      BY <1>5
    <2>4. Sum(T \cup {k}, g) = g[k] + Sum(T, g)
      <3>1. IsFiniteSet(T) /\ \A l \in T : g[l] \in Int
        BY <1>4, FS_Subset
      <3>2. QED BY <1>4, <1>5, <3>1, SumAdds
    <2> HIDE DEF Upto
    <2>5. Sum(Part(S, c, k) \cup Upto(T), f) = Sum(Part(S, c, k), f) + Sum(Upto(T), f)
      BY <1>4, <2>1, <2>2, SumUnion
    <2>6. QED BY <1>4, <2>1, <2>3, <2>4, <2>5
  <1>6. K \in P
    <2> HIDE DEF P
    <2>1. QED BY <1>3, <1>5, FiniteInduction
  <1>7. Upto(K) = S
    OBVIOUS
  <1>8. QED BY <1>6, <1>7

\* b gives the elements of S their names in K, under which g is what f is.
Renamed(S, K, b, f, g) ==
    /\ IsFiniteSet(S) /\ IsFiniteSet(K)
    /\ \A x \in S : b[x] \in K /\ f[x] = g[b[x]]
    /\ \A x, y \in S : b[x] = b[y] => x = y
    /\ \A k \in K : g[k] \in Int /\ \E x \in S : b[x] = k

\* The same sum over other names.
LEMMA SumRenamed ==
  ASSUME NEW S, NEW K, NEW b, NEW f, NEW g, Renamed(S, K, b, f, g)
  PROVE  Sum(K, g) = Sum(S, f)
  <1>1. ASSUME NEW k \in K PROVE g[k] = Sum(Part(S, b, k), f)
    <2>1. PICK x \in S : b[x] = k
      BY DEF Renamed
    <2>2. Part(S, b, k) = {x} /\ f[x] = g[k] /\ g[k] \in Int
      BY <2>1 DEF Part, Renamed
    <2>3. QED BY <2>2, SumOne
  <1>2. \A x \in S : f[x] \in Int
    BY DEF Renamed
  <1>3. Divided(S, K, b, f, g)
    BY <1>1, <1>2 DEF Divided, Renamed
  <1>4. QED BY <1>3, SumOfParts

\* Of the terms over S two change.
Changed(S, x, y, f, g) ==
    /\ IsFiniteSet(S) /\ x \in S /\ y \in S /\ x # y
    /\ \A z \in S : f[z] \in Int /\ g[z] \in Int
    /\ \A z \in S \ {x, y} : g[z] = f[z]

LEMMA SumChanges ==
  ASSUME NEW S, NEW x, NEW y, NEW f, NEW g, Changed(S, x, y, f, g)
  PROVE  Sum(S, g) = Sum(S, f) + (g[x] - f[x]) + (g[y] - f[y])
  <1>0. Changed(S, x, y, f, g)
    OBVIOUS
  <1> USE DEF Changed
  <1> DEFINE R == (S \ {x}) \ {y}
  <1>1. IsFiniteSet(R) /\ IsFiniteSet(S \ {x}) /\ y \in S \ {x} /\ R \subseteq S
    BY FS_Subset
  <1>2. \A z \in R : f[z] \in Int /\ g[z] = f[z]
    OBVIOUS
  <1>3. Sum(S, f) = f[x] + Sum(S \ {x}, f) /\ Sum(S, g) = g[x] + Sum(S \ {x}, g)
    BY SumWith
  <1>4. Sum(S \ {x}, f) = f[y] + Sum(R, f) /\ Sum(S \ {x}, g) = g[y] + Sum(R, g)
    BY <1>1, SumWith
  <1>5. Sum(R, g) = Sum(R, f) /\ Sum(R, f) \in Int
    <2> HIDE DEF R
    <2>1. QED BY <1>1, <1>2, SumSame, SumInt
  <1>6. f[x] \in Int /\ g[x] \in Int /\ f[y] \in Int /\ g[y] \in Int
    OBVIOUS
  <1> HIDE DEF R
  <1>7. QED BY <1>3, <1>4, <1>5, <1>6


(***************************************************************************)
(* Levels                                                                  *)
(***************************************************************************)
EdgesAmong(n) == {e \in [a : 1 .. n, b : 1 .. n, weight : Nat] : e.a # e.b}
Proper(es, n) == n \in Nat /\ \E k \in Nat : es \in [1 .. k -> EdgesAmong(n)]

\* Relations between different nodes, without direction.
Links(n) == {R \in SUBSET ((1 .. n) \X (1 .. n)) : \A p \in R : <<p[2], p[1]>> \in R /\ p[1] # p[2]}

\* The edges that f sends to one node, and those it sends to a pair of R.
Within(es, f, x) == {i \in DOMAIN es : f[es[i].a] = x /\ f[es[i].b] = x}
Joined(es, f, R) == {i \in DOMAIN es : <<f[es[i].a], f[es[i].b]>> \in R}
Among(es, R) == {i \in DOMAIN es : <<es[i].a, es[i].b>> \in R}

LEMMA EdgesAre ==
  ASSUME NEW n, NEW es, Proper(es, n)
  PROVE  /\ n \in Nat /\ IsFiniteSet(DOMAIN es)
         /\ \A i \in DOMAIN es : /\ es[i].a \in 1 .. n /\ es[i].b \in 1 .. n /\ es[i].a # es[i].b
                                 /\ Weights(es)[i] = es[i].weight /\ es[i].weight \in Nat
         /\ \A I \in SUBSET DOMAIN es :
               /\ IsFiniteSet(I) /\ Sum(I, Weights(es)) \in Nat
               /\ \A i \in I : Weights(es)[i] \in Int /\ Weights(es)[i] \in Nat
  <1>1. PICK k \in Nat : es \in [1 .. k -> EdgesAmong(n)]
    BY DEF Proper
  <1>2. DOMAIN es = 1 .. k /\ IsFiniteSet(1 .. k)
    BY <1>1, FS_Interval
  <1>3. ASSUME NEW i \in DOMAIN es
        PROVE  /\ es[i].a \in 1 .. n /\ es[i].b \in 1 .. n /\ es[i].a # es[i].b
               /\ Weights(es)[i] = es[i].weight /\ es[i].weight \in Nat
    BY <1>1 DEF EdgesAmong, Weights
  <1>4. ASSUME NEW I \in SUBSET DOMAIN es
        PROVE  /\ IsFiniteSet(I) /\ Sum(I, Weights(es)) \in Nat
               /\ \A i \in I : Weights(es)[i] \in Int /\ Weights(es)[i] \in Nat
    <2>1. IsFiniteSet(I)
      BY <1>2, FS_Subset
    <2>2. \A i \in I : Weights(es)[i] \in Nat
      BY <1>3
    <2>3. QED BY <2>1, <2>2, SumNat
  <1>5. QED BY <1>2, <1>3, <1>4 DEF Proper

\* Two disjoint sets of edges.
LEMMA TwoSums ==
  ASSUME NEW n, NEW es, Proper(es, n), NEW I \in SUBSET DOMAIN es, NEW J \in SUBSET DOMAIN es,
         I \cap J = {}, NEW K, K = I \cup J
  PROVE  Sum(K, Weights(es)) = Sum(I, Weights(es)) + Sum(J, Weights(es))
  <1>1. IsFiniteSet(I) /\ IsFiniteSet(J) /\ J \cap I = {} /\ \A i \in I \cup J : Weights(es)[i] \in Int
    BY EdgesAre
  <1>2. Sum(I \cup J, Weights(es)) = Sum(I, Weights(es)) + Sum(J, Weights(es))
    BY <1>1, SumUnion
  <1>3. QED BY <1>2

\* Entities and the nodes they are part of.
DegreeIs(es, f, L, n) ==
    \A s \in 1 .. L.n : L.degree[s] = Sum({v \in 1 .. n : f[v] = s}, Level(n, es, [v \in 1 .. n |-> 0]).degree)
LoopsFit(es, f, L) == \A s \in 1 .. L.n : L.selfLoop[s] = Sum(Within(es, f, s), Weights(es))
LinksFit(es, f, L) ==
    \A R \in Links(L.n) : Sum(Among(L.edges, R), Weights(L.edges)) = Sum(Joined(es, f, R), Weights(es))
\* Every edge of the level is there because of one of the graph.
EdgesMet(es, f, L) ==
    \A j \in DOMAIN L.edges : \E i \in DOMAIN es :
        \/ f[es[i].a] = L.edges[j].a /\ f[es[i].b] = L.edges[j].b
        \/ f[es[i].a] = L.edges[j].b /\ f[es[i].b] = L.edges[j].a

IsLevel(L) == /\ L = Level(L.n, L.edges, L.selfLoop)
              /\ Proper(L.edges, L.n) /\ L.n > 0
              /\ L.selfLoop \in [1 .. L.n -> Nat]

LEMMA LevelIs ==
  ASSUME NEW n, NEW es, Proper(es, n), NEW loops \in [1 .. n -> Nat]
  PROVE  LET L == Level(n, es, loops)
         IN  /\ L.n = n /\ L.edges = es /\ L.selfLoop = loops
             /\ L.degree \in [1 .. n -> Nat]
             /\ \A v \in 1 .. n : L.degree[v] = 2 * loops[v] + Sum(Touching(es, v), Weights(es))
  <1> DEFINE L == Level(n, es, loops)
  <1>1. /\ L.n = n /\ L.edges = es /\ L.selfLoop = loops
        /\ L.degree = [v \in 1 .. n |-> 2 * loops[v] + Sum(Touching(es, v), Weights(es))]
    BY DEF Level
  <1>2. ASSUME NEW v \in 1 .. n PROVE 2 * loops[v] + Sum(Touching(es, v), Weights(es)) \in Nat
    <2>1. Touching(es, v) \in SUBSET DOMAIN es
      BY DEF Touching
    <2>2. Sum(Touching(es, v), Weights(es)) \in Nat
      BY <2>1, EdgesAre
    <2>3. loops[v] \in Nat
      OBVIOUS
    <2>4. QED BY <2>2, <2>3
  <1>3. L.degree \in [1 .. n -> Nat]
    BY <1>1, <1>2
  <1>4. \A v \in 1 .. n : L.degree[v] = 2 * loops[v] + Sum(Touching(es, v), Weights(es))
    BY <1>1
  <1> HIDE DEF L
  <1>5. QED BY <1>1, <1>3, <1>4 DEF L

\* The degrees of a set of entities count each edge once for each end.
LEMMA DegreesCount ==
  ASSUME NEW n, NEW es, Proper(es, n), NEW C \in SUBSET (1 .. n)
  PROVE  Sum(C, Level(n, es, [v \in 1 .. n |-> 0]).degree) =
           Sum({i \in DOMAIN es : es[i].a \in C}, Weights(es)) + Sum({i \in DOMAIN es : es[i].b \in C}, Weights(es))
  <1> DEFINE loops == [v \in 1 .. n |-> 0]
             D == Level(n, es, loops).degree
             w == Weights(es)
             IA == {i \in DOMAIN es : es[i].a \in C}
             IB == {i \in DOMAIN es : es[i].b \in C}
             ma == [i \in IA |-> es[i].a]
             mb == [i \in IB |-> es[i].b]
             ga == [v \in C |-> Sum(Part(IA, ma, v), w)]
             gb == [v \in C |-> Sum(Part(IB, mb, v), w)]
  <1>1. n \in Nat /\ IsFiniteSet(C)
    <2>1. n \in Nat
      BY EdgesAre
    <2>2. IsFiniteSet(1 .. n)
      BY <2>1, FS_Interval
    <2>3. QED BY <2>1, <2>2, FS_Subset
  <1>2. ASSUME NEW v \in C PROVE ga[v] \in Int /\ gb[v] \in Int /\ D[v] = ga[v] + gb[v]
    <2>1. /\ Part(IA, ma, v) = {i \in DOMAIN es : es[i].a = v}
          /\ Part(IB, mb, v) = {i \in DOMAIN es : es[i].b = v}
      BY DEF Part
    <2>2. D[v] = Sum(Touching(es, v), w)
      <3>1. v \in 1 .. n /\ loops[v] = 0
        OBVIOUS
      <3>2. Touching(es, v) \in SUBSET DOMAIN es
        BY DEF Touching
      <3>3. Sum(Touching(es, v), w) \in Nat
        BY <3>2, EdgesAre
      <3> HIDE DEF loops, IA, IB, ma, mb, ga, gb
      <3>4. D[v] = 2 * loops[v] + Sum(Touching(es, v), w)
        BY <3>1 DEF Level
      <3> HIDE DEF D
      <3>5. QED BY <3>1, <3>3, <3>4
    <2>3. Touching(es, v) = Part(IA, ma, v) \cup Part(IB, mb, v)
      BY <2>1 DEF Touching
    <2>4. Part(IA, ma, v) \cap Part(IB, mb, v) = {}
      BY <2>1, EdgesAre
    <2>5. Part(IA, ma, v) \in SUBSET DOMAIN es /\ Part(IB, mb, v) \in SUBSET DOMAIN es
      BY <2>1
    <2>6. ga[v] = Sum(Part(IA, ma, v), w) /\ gb[v] = Sum(Part(IB, mb, v), w)
      OBVIOUS
    <2> HIDE DEF IA, IB, ma, mb, ga, gb, D
    <2>7. Sum(Touching(es, v), w) = Sum(Part(IA, ma, v), w) + Sum(Part(IB, mb, v), w)
      BY <2>3, <2>4, <2>5, TwoSums
    <2>8. Sum(Part(IA, ma, v), w) \in Int /\ Sum(Part(IB, mb, v), w) \in Int
      <3>1. Sum(Part(IA, ma, v), w) \in Nat /\ Sum(Part(IB, mb, v), w) \in Nat
        BY <2>5, EdgesAre
      <3>2. QED BY <3>1
    <2>9. QED BY <2>2, <2>6, <2>7, <2>8
  <1>3. IA \in SUBSET DOMAIN es /\ IB \in SUBSET DOMAIN es
    OBVIOUS
  <1>4. (\A i \in IA : ma[i] \in C) /\ (\A i \in IB : mb[i] \in C)
    OBVIOUS
  <1>5. /\ \A v \in C : ga[v] = Sum(Part(IA, ma, v), w)
        /\ \A v \in C : gb[v] = Sum(Part(IB, mb, v), w)
    OBVIOUS
  <1> HIDE DEF IA, IB, ma, mb, ga, gb, D
  <1>6. Sum(C, D) = Sum(C, ga) + Sum(C, gb)
    BY <1>1, <1>2, SumPlus
  <1>7. /\ IsFiniteSet(IA) /\ \A i \in IA : w[i] \in Int
        /\ IsFiniteSet(IB) /\ \A i \in IB : w[i] \in Int
    <2>1. \A I \in SUBSET DOMAIN es : IsFiniteSet(I) /\ \A i \in I : Weights(es)[i] \in Int
      BY EdgesAre
    <2>2. QED BY <1>3, <2>1
  <1>8. Sum(C, ga) = Sum(IA, w)
    <2>1. Divided(IA, C, ma, w, ga)
      BY <1>1, <1>4, <1>5, <1>7 DEF Divided
    <2>2. QED BY <2>1, SumOfParts
  <1>9. Sum(C, gb) = Sum(IB, w)
    <2>1. Divided(IB, C, mb, w, gb)
      BY <1>1, <1>4, <1>5, <1>7 DEF Divided
    <2>2. QED BY <2>1, SumOfParts
  <1>10. QED BY <1>6, <1>8, <1>9 DEF D, IA, IB

\* A node has the degree of the entities in it.
LEMMA DegreesFit ==
  ASSUME NEW n, NEW es, Proper(es, n), NEW L, IsLevel(L), NEW f \in [1 .. n -> 1 .. L.n],
         LoopsFit(es, f, L), LinksFit(es, f, L)
  PROVE  DegreeIs(es, f, L, n)
  <1> DEFINE w == Weights(es)
  <1>1. SUFFICES ASSUME NEW s \in 1 .. L.n
                 PROVE  L.degree[s] = Sum({v \in 1 .. n : f[v] = s}, Level(n, es, [v \in 1 .. n |-> 0]).degree)
    BY DEF DegreeIs
  <1> DEFINE C == {v \in 1 .. n : f[v] = s}
             R == {p \in (1 .. L.n) \X (1 .. L.n) : p[1] # p[2] /\ (p[1] = s \/ p[2] = s)}
             IA == {i \in DOMAIN es : f[es[i].a] = s}
             IB == {i \in DOMAIN es : f[es[i].b] = s}
             OA == {i \in DOMAIN es : f[es[i].a] = s /\ f[es[i].b] # s}
             OB == {i \in DOMAIN es : f[es[i].b] = s /\ f[es[i].a] # s}
             loop == Within(es, f, s)
             link == Joined(es, f, R)
  <1>2. Sum(C, Level(n, es, [v \in 1 .. n |-> 0]).degree) = Sum(IA, w) + Sum(IB, w)
    <2>1. \A i \in DOMAIN es : (es[i].a \in C <=> f[es[i].a] = s) /\ (es[i].b \in C <=> f[es[i].b] = s)
      BY EdgesAre
    <2>2. {i \in DOMAIN es : es[i].a \in C} = IA /\ {i \in DOMAIN es : es[i].b \in C} = IB
      BY <2>1
    <2>3. C \in SUBSET (1 .. n)
      OBVIOUS
    <2> HIDE DEF C, IA, IB
    <2>4. QED BY <2>2, <2>3, DegreesCount
  <1>3. /\ IA = loop \cup OA /\ loop \cap OA = {} /\ loop \in SUBSET DOMAIN es /\ OA \in SUBSET DOMAIN es
        /\ IB = loop \cup OB /\ loop \cap OB = {} /\ OB \in SUBSET DOMAIN es
    BY DEF Within
  <1>4. link = OA \cup OB /\ OA \cap OB = {}
    <2>1. \A i \in DOMAIN es : es[i].a \in 1 .. n /\ es[i].b \in 1 .. n
      BY EdgesAre
    <2>2. \A i \in DOMAIN es : <<f[es[i].a], f[es[i].b]>> \in R <=> i \in OA \/ i \in OB
      BY <2>1
    <2> HIDE DEF R
    <2>3. QED BY <2>2 DEF Joined
  <1>5. R \in Links(L.n)
    <2>1. \A p \in R : <<p[2], p[1]>> \in R /\ p[1] # p[2]
      OBVIOUS
    <2>2. R \in SUBSET ((1 .. L.n) \X (1 .. L.n))
      OBVIOUS
    <2> HIDE DEF R
    <2>3. QED BY <2>1, <2>2 DEF Links
  <1>6. Touching(L.edges, s) = Among(L.edges, R)
    <2>1. \A j \in DOMAIN L.edges : /\ L.edges[j].a \in 1 .. L.n /\ L.edges[j].b \in 1 .. L.n
                                     /\ L.edges[j].a # L.edges[j].b
      BY EdgesAre DEF IsLevel
    <2>2. \A j \in DOMAIN L.edges : <<L.edges[j].a, L.edges[j].b>> \in R <=> s \in {L.edges[j].a, L.edges[j].b}
      BY <2>1
    <2> HIDE DEF R
    <2>3. QED BY <2>2 DEF Touching, Among
  <1> HIDE DEF C, R, IA, IB, OA, OB, loop, link
  <1>7. Sum(IA, w) = Sum(loop, w) + Sum(OA, w) /\ Sum(IB, w) = Sum(loop, w) + Sum(OB, w)
    BY <1>3, TwoSums
  <1>8. Sum(link, w) = Sum(OA, w) + Sum(OB, w)
    BY <1>3, <1>4, TwoSums
  <1>9. Sum(loop, w) \in Nat /\ Sum(OA, w) \in Nat /\ Sum(OB, w) \in Nat
    BY <1>3, EdgesAre
  <1>10. L.selfLoop[s] = Sum(loop, w)
    BY DEF LoopsFit, loop
  <1>11. Sum(Touching(L.edges, s), Weights(L.edges)) = Sum(link, w)
    BY <1>5, <1>6 DEF LinksFit, link
  <1>12. L.degree[s] = 2 * L.selfLoop[s] + Sum(Touching(L.edges, s), Weights(L.edges))
    BY LevelIs DEF IsLevel
  <1>13. L.degree[s] = Sum(IA, w) + Sum(IB, w)
    BY <1>7, <1>8, <1>9, <1>10, <1>11, <1>12
  <1>14. QED BY <1>2, <1>13 DEF C


LEMMA MinOf ==
  ASSUME NEW S, S \subseteq Nat, S # {}
  PROVE  Min(S) \in S /\ \A y \in S : Min(S) <= y
  <1>1. PICK x \in S : \A y \in S : x <= y
    BY Least
  <1>2. QED BY <1>1 DEF Min

\* Two ends, sorted.
LEMMA EndsSorted ==
  ASSUME NEW x \in Int, NEW y \in Int, x # y
  PROVE  \/ Min({x, y}) = x /\ Max({x, y}) = y
         \/ Min({x, y}) = y /\ Max({x, y}) = x
  <1> DEFINE S == {x, y}
  <1>1. CASE x < y
    <2>1. x \in S /\ \A z \in S : z >= x
      BY <1>1
    <2>2. \A z \in S : x <= z
      BY <2>1
    <2>3. Max(S) = y
      <3>1. S \subseteq Int /\ y \in S /\ \A z \in S : z <= y
        BY <1>1
      <3> HIDE DEF S
      <3>2. QED BY <3>1, MaxIs
    <2>4. Min(S) \in S /\ \A z \in S : Min(S) <= z
      BY <2>1, <2>2 DEF Min
    <2> PICK m : m = Min(S)
      OBVIOUS
    <2>5. m = x
      <3>1. m \in Int /\ m <= x /\ x <= m
        BY <2>1, <2>2, <2>4
      <3>2. QED BY <3>1
    <2>6. QED BY <2>3, <2>5
  <1>2. CASE y < x
    <2>1. y \in S /\ \A z \in S : y <= z
      BY <1>2
    <2>2. Max(S) = x
      <3>1. S \subseteq Int /\ x \in S /\ \A z \in S : z <= x
        BY <1>2
      <3> HIDE DEF S
      <3>2. QED BY <3>1, MaxIs
    <2>3. Min(S) \in S /\ \A z \in S : Min(S) <= z
      BY <2>1 DEF Min
    <2> PICK m : m = Min(S)
      OBVIOUS
    <2>4. m = y
      <3>1. m \in Int /\ m <= y /\ y <= m
        BY <2>1, <2>3
      <3>2. QED BY <3>1
    <2>5. QED BY <2>2, <2>4
  <1>3. QED BY <1>1, <1>2

LEMMA UpToGrows ==
  ASSUME NEW X, NEW a \in Nat, NEW b \in Nat, a < b
  PROVE  X \cap (1 .. a) \subseteq X \cap (1 .. b) /\ b \notin X \cap (1 .. a)
  OBVIOUS

\* Communities are numbered from 1, apart as they were, and there are fewer
\* than nodes once one is empty.
LEMMA CompactIs ==
  ASSUME NEW n \in Nat \ {0}, NEW c \in [1 .. n -> 1 .. n]
  PROVE  LET r == Compact(n, c)
             m == Max({r[v] : v \in 1 .. n})
         IN  /\ m \in 1 .. n /\ r \in [1 .. n -> 1 .. m]
             /\ \A u, v \in 1 .. n : r[u] = r[v] <=> c[u] = c[v]
             /\ (\E x \in 1 .. n : \A v \in 1 .. n : c[v] # x) => m < n
  <1> DEFINE same(v) == {u \in 1 .. n : c[u] = c[v]}
             first == [v \in 1 .. n |-> Min(same(v))]
             X == {first[u] : u \in 1 .. n}
             upTo(v) == X \cap (1 .. first[v])
             r == [v \in 1 .. n |-> Cardinality(upTo(v))]
             I == {r[v] : v \in 1 .. n}
             m == Max(I)
  <1>1. r = Compact(n, c)
    BY DEF Compact
  <1>2. ASSUME NEW v \in 1 .. n
        PROVE  /\ first[v] \in 1 .. n /\ c[first[v]] = c[v]
               /\ \A u \in 1 .. n : c[u] = c[v] => first[v] <= u
    <2>1. same(v) \subseteq Nat /\ v \in same(v)
      OBVIOUS
    <2>2. Min(same(v)) \in same(v) /\ \A y \in same(v) : Min(same(v)) <= y
      <3> HIDE DEF same
      <3>1. QED BY <2>1, MinOf
    <2>3. QED BY <2>2
  <1>3. ASSUME NEW u \in 1 .. n, NEW v \in 1 .. n, c[u] = c[v] PROVE first[u] = first[v]
    <2>1. same(u) = same(v)
      BY <1>3
    <2>2. QED BY <2>1
  <1>4. r = [v \in 1 .. n |-> r[v]] /\ \A v \in 1 .. n : r[v] = Cardinality(upTo(v)) /\ r[v] \in I
    OBVIOUS
  <1> HIDE DEF same, first, X, upTo, r, I, m
  <1>5. n \in Nat /\ 1 \in 1 .. n /\ \A x \in 1 .. n : x \in Nat
    OBVIOUS
  <1>6. IsFiniteSet(1 .. n) /\ Cardinality(1 .. n) = n
    BY <1>5, FS_Interval
  <1>7. X \in SUBSET (1 .. n)
    BY <1>2 DEF X
  <1>8. IsFiniteSet(X) /\ Cardinality(X) \in Nat /\ Cardinality(X) <= n
    <2>1. IsFiniteSet(X) /\ Cardinality(X) <= Cardinality(1 .. n)
      BY <1>6, <1>7, FS_Subset
    <2>2. QED BY <1>6, <2>1, FS_CardinalityType
  <1>9. ASSUME NEW v \in 1 .. n
        PROVE  /\ IsFiniteSet(upTo(v)) /\ Cardinality(upTo(v)) \in Nat /\ Cardinality(upTo(v)) <= Cardinality(X)
               /\ first[v] \in upTo(v) /\ Cardinality(upTo(v)) > 0
    <2>1. upTo(v) \in SUBSET X
      BY DEF upTo
    <2>2. first[v] \in X /\ first[v] \in 1 .. first[v]
      BY <1>2, <1>5 DEF X
    <2>3. first[v] \in upTo(v)
      BY <2>2 DEF upTo
    <2>4. IsFiniteSet(upTo(v)) /\ Cardinality(upTo(v)) \in Nat /\ Cardinality(upTo(v)) <= Cardinality(X)
      BY <1>8, <2>1, FS_Subset, FS_CardinalityType
    <2>5. Cardinality(upTo(v)) # 0
      BY <2>3, <2>4, FS_EmptySet
    <2>6. QED BY <2>3, <2>4, <2>5
  <1>10. ASSUME NEW u \in 1 .. n, NEW v \in 1 .. n, first[u] < first[v]
         PROVE  Cardinality(upTo(u)) # Cardinality(upTo(v))
    <2>1. first[u] \in Nat /\ first[v] \in Nat
      BY <1>2, <1>5
    <2>2. upTo(u) \in SUBSET upTo(v) /\ first[v] \notin upTo(u)
      <3> PICK a, b : a = first[u] /\ b = first[v]
        OBVIOUS
      <3>1. a \in Nat /\ b \in Nat /\ a < b
        BY <1>10, <2>1
      <3>2. X \cap (1 .. a) \subseteq X \cap (1 .. b) /\ b \notin X \cap (1 .. a)
        BY ONLY <3>1, UpToGrows
      <3>3. QED BY <3>2 DEF upTo
    <2>3. Cardinality(upTo(v)) = Cardinality(upTo(u)) => upTo(v) = upTo(u)
      BY <1>9, <2>2, FS_Subset
    <2>4. QED BY <1>9, <2>2, <2>3
  <1>11. ASSUME NEW u \in 1 .. n, NEW v \in 1 .. n
         PROVE  r[u] = r[v] <=> c[u] = c[v]
    <2>1. first[u] \in Nat /\ first[v] \in Nat
      BY <1>2, <1>5
    <2>2. first[u] = first[v] => r[u] = r[v]
      BY <1>4 DEF upTo
    <2>3. r[u] = r[v] => first[u] = first[v]
      BY <1>4, <1>10, <2>1
    <2>4. first[u] = first[v] => c[u] = c[v]
      BY <1>2
    <2>5. QED BY <1>3, <2>2, <2>3, <2>4
  <1>12. m \in I /\ \A y \in I : y <= m
    <2>1. ASSUME NEW v \in 1 .. n PROVE r[v] \in 0 .. n
      BY <1>4, <1>5, <1>8, <1>9
    <2>2. I \in SUBSET (0 .. n) /\ I # {}
      BY <1>5, <2>1 DEF I
    <2>3. QED BY <1>5, <2>2, GreatestOf DEF m
  <1>13. PICK x \in 1 .. n : m = r[x]
    BY <1>12 DEF I
  <1>14. m \in Nat /\ m <= Cardinality(X) /\ m >= 1
    <2>1. m = Cardinality(upTo(x))
      BY <1>4, <1>13
    <2>2. QED BY <1>8, <1>9, <2>1
  <1>15. r \in [1 .. n -> 1 .. m]
    <2>1. ASSUME NEW v \in 1 .. n PROVE r[v] \in 1 .. m
      <3>1. r[v] = Cardinality(upTo(v)) /\ r[v] \in I
        BY <1>4
      <3>2. r[v] \in Nat /\ r[v] > 0
        BY <1>9, <3>1
      <3>3. r[v] <= m
        BY <1>12, <3>1
      <3>4. QED BY <1>14, <3>2, <3>3
    <2>2. QED BY <1>4, <2>1
  <1>16. ASSUME NEW y \in 1 .. n, \A v \in 1 .. n : c[v] # y PROVE Cardinality(X) < n
    <2>1. \E u, w \in 1 .. n : u < w /\ c[u] = c[w]
      <3>1. SUFFICES ASSUME \A u, w \in 1 .. n : ~(u < w /\ c[u] = c[w]) PROVE FALSE
        OBVIOUS
      <3>2. \A u, w \in 1 .. n : c[u] = c[w] => u = w
        BY <1>5, <3>1
      <3>3. c \in Injection(1 .. n, 1 .. n)
        BY <3>2 DEF Injection, IsInjective
      <3>4. c \in Surjection(1 .. n, 1 .. n)
        BY <1>6, <3>3, FS_Injection
      <3>5. QED BY <1>16, <3>4 DEF Surjection
    <2>2. PICK u \in 1 .. n, w \in 1 .. n : u < w /\ c[u] = c[w]
      BY <2>1
    <2>3. ASSUME NEW v \in 1 .. n, first[v] = w PROVE FALSE
      <3>1. c[w] = c[v] /\ w <= u
        BY <1>2, <2>2, <2>3
      <3>2. QED BY <1>5, <2>2, <3>1
    <2>4. w \notin X
      BY <2>3 DEF X
    <2>5. Cardinality(X) # n
      BY <1>6, <1>7, <2>4, FS_Subset
    <2>6. QED BY <1>5, <1>8, <2>5
  <1>17. /\ m \in 1 .. n
         /\ (\E y \in 1 .. n : \A v \in 1 .. n : c[v] # y) => m < n
    <2>1. m \in 1 .. n
      BY <1>5, <1>8, <1>14
    <2>2. ASSUME \E y \in 1 .. n : \A v \in 1 .. n : c[v] # y PROVE m < n
      <3>1. Cardinality(X) < n
        BY <1>16, <2>2
      <3>2. QED BY <1>5, <1>8, <1>14, <3>1
    <2>3. QED BY <2>1, <2>2
  <1>18. m = Max({Compact(n, c)[v] : v \in 1 .. n})
    BY <1>1 DEF m, I
  <1>19. QED BY <1>1, <1>11, <1>15, <1>17, <1>18, Zenon


\* Edges between communities.
Crossing(es, c) == {i \in DOMAIN es : c[es[i].a] # c[es[i].b]}
Ends(es, c, i) == {c[es[i].a], c[es[i].b]}
Alike(es, c, i) == {j \in Crossing(es, c) : Ends(es, c, j) = Ends(es, c, i)}
Firsts(es, c) == {i \in Crossing(es, c) : \A j \in Alike(es, c, i) : i <= j}

\* Of the edges of a pair of communities one is the first.
LEMMA FirstOfPair ==
  ASSUME NEW n, NEW es, Proper(es, n), NEW c
  PROVE  /\ Firsts(es, c) \subseteq Nat /\ IsFiniteSet(Firsts(es, c))
         /\ \A j \in Crossing(es, c) : \E i \in Firsts(es, c) : Ends(es, c, i) = Ends(es, c, j)
         /\ \A i, j \in Firsts(es, c) : Ends(es, c, i) = Ends(es, c, j) => i = j
  <1>1. DOMAIN es \subseteq Nat /\ IsFiniteSet(DOMAIN es)
    <2>1. PICK k \in Nat : es \in [1 .. k -> EdgesAmong(n)]
      BY DEF Proper
    <2>2. DOMAIN es = 1 .. k
      BY <2>1
    <2>3. QED BY <2>2, EdgesAre
  <1>2. Firsts(es, c) \in SUBSET DOMAIN es /\ Crossing(es, c) \subseteq DOMAIN es
    BY DEF Firsts, Crossing
  <1>3. ASSUME NEW j \in Crossing(es, c)
        PROVE  \E i \in Firsts(es, c) : Ends(es, c, i) = Ends(es, c, j)
    <2>1. j \in Alike(es, c, j) /\ Alike(es, c, j) \subseteq Nat
      BY <1>1, <1>2 DEF Alike
    <2>2. PICK i \in Alike(es, c, j) : \A k \in Alike(es, c, j) : i <= k
      BY <2>1, Least
    <2>3. i \in Crossing(es, c) /\ Ends(es, c, i) = Ends(es, c, j)
      BY DEF Alike
    <2>4. Alike(es, c, i) = Alike(es, c, j)
      BY <2>3 DEF Alike
    <2>5. i \in Firsts(es, c)
      BY <2>2, <2>3, <2>4 DEF Firsts
    <2>6. QED BY <2>3, <2>5
  <1>4. ASSUME NEW i \in Firsts(es, c), NEW j \in Firsts(es, c), Ends(es, c, i) = Ends(es, c, j)
        PROVE  i = j
    <2>1. i \in Nat /\ j \in Nat
      BY <1>1, <1>2
    <2>2. j \in Alike(es, c, i) /\ i \in Alike(es, c, j)
      BY <1>4 DEF Firsts, Alike
    <2>3. i <= j /\ j <= i
      BY <2>2 DEF Firsts
    <2>4. QED BY <2>1, <2>3
  <1>5. QED BY <1>1, <1>2, <1>3, <1>4, FS_Subset

\* Edge k of B is that of the pair of communities which edge q[k] is the first of.
OnePerPair(es, c, B, cnt, q) ==
    /\ q \in [1 .. cnt -> Firsts(es, c)]
    /\ \A i \in Firsts(es, c) : \E k \in 1 .. cnt : q[k] = i
    /\ \A k, l \in 1 .. cnt : q[k] = q[l] => k = l
    /\ DOMAIN B = 1 .. cnt
    /\ \A k \in 1 .. cnt :
          /\ B[k] = Edge(B[k].a, B[k].b, B[k].weight)
          /\ B[k].weight = Sum(Alike(es, c, q[k]), Weights(es))
          /\ \/ B[k].a = c[es[q[k]].a] /\ B[k].b = c[es[q[k]].b]
             \/ B[k].a = c[es[q[k]].b] /\ B[k].b = c[es[q[k]].a]

LEMMA BetweenAre ==
  ASSUME NEW n, NEW es, Proper(es, n), NEW m \in Nat, NEW c \in [1 .. n -> 1 .. m]
  PROVE  \E cnt \in Nat : \E q : OnePerPair(es, c, Between(es, c), cnt, q)
  <1> DEFINE F == Firsts(es, c)
             cnt == Cardinality(F)
             q == Ordered(F, <)
             B == Between(es, c)
  <1>1. F \subseteq Nat /\ IsFiniteSet(F)
    BY FirstOfPair
  <1>2. /\ cnt \in Nat /\ q \in [1 .. cnt -> F]
        /\ \A k, l \in 1 .. cnt : q[k] = q[l] => k = l
    <2> HIDE DEF F
    <2>1. QED BY <1>1, OrderedOnce
  <1>3. \A i \in F : \E k \in 1 .. cnt : q[k] = i
    <2> HIDE DEF F, q
    <2>1. q \in Injection(1 .. cnt, F)
      BY <1>2 DEF Injection, IsInjective
    <2>2. Cardinality(1 .. cnt) = cnt
      BY <1>2, FS_Interval
    <2>3. q \in Surjection(1 .. cnt, F)
      BY <1>1, <2>1, <2>2, FS_Injection
    <2>4. QED BY <2>3 DEF Surjection
  <1>4. B = [k \in DOMAIN q |-> Edge(Min(Ends(es, c, q[k])), Max(Ends(es, c, q[k])),
                                      Sum(Alike(es, c, q[k]), Weights(es)))]
    BY DEF Between, Firsts, Alike, Ends, Crossing
  <1> HIDE DEF q, B, cnt, F
  <1>5. DOMAIN B = 1 .. cnt
    BY <1>2, <1>4
  <1>6. ASSUME NEW k \in 1 .. cnt
        PROVE  /\ B[k] = Edge(B[k].a, B[k].b, B[k].weight)
               /\ B[k].weight = Sum(Alike(es, c, q[k]), Weights(es))
               /\ \/ B[k].a = c[es[q[k]].a] /\ B[k].b = c[es[q[k]].b]
                  \/ B[k].a = c[es[q[k]].b] /\ B[k].b = c[es[q[k]].a]
    <2>1. B[k] = Edge(Min(Ends(es, c, q[k])), Max(Ends(es, c, q[k])), Sum(Alike(es, c, q[k]), Weights(es)))
      BY <1>2, <1>4
    <2>2. /\ B[k] = Edge(B[k].a, B[k].b, B[k].weight)
          /\ B[k].weight = Sum(Alike(es, c, q[k]), Weights(es))
          /\ B[k].a = Min(Ends(es, c, q[k])) /\ B[k].b = Max(Ends(es, c, q[k]))
      BY <2>1 DEF Edge
    <2>3. q[k] \in DOMAIN es /\ c[es[q[k]].a] # c[es[q[k]].b]
      BY <1>2 DEF F, Firsts, Crossing
    <2>4. c[es[q[k]].a] \in Int /\ c[es[q[k]].b] \in Int
      <3>1. es[q[k]].a \in 1 .. n /\ es[q[k]].b \in 1 .. n
        BY <2>3, EdgesAre
      <3>2. c[es[q[k]].a] \in 1 .. m /\ c[es[q[k]].b] \in 1 .. m
        BY <3>1
      <3>3. QED BY <3>2
    <2> PICK x, y : x = c[es[q[k]].a] /\ y = c[es[q[k]].b]
      OBVIOUS
    <2>5. Ends(es, c, q[k]) = {x, y}
      BY DEF Ends
    <2>6. \/ Min({x, y}) = x /\ Max({x, y}) = y
          \/ Min({x, y}) = y /\ Max({x, y}) = x
      BY <2>3, <2>4, EndsSorted
    <2>7. QED BY <2>2, <2>5, <2>6
  <1>7. OnePerPair(es, c, B, cnt, q)
    BY <1>2, <1>3, <1>5, <1>6 DEF OnePerPair, F
  <1>8. QED BY <1>2, <1>7 DEF B


LEMMA BetweenProper ==
  ASSUME NEW n, NEW es, Proper(es, n), NEW m \in Nat, NEW c \in [1 .. n -> 1 .. m]
  PROVE  /\ Proper(Between(es, c), m)
         /\ \A k \in DOMAIN Between(es, c) : \E i \in DOMAIN es :
               \/ c[es[i].a] = Between(es, c)[k].a /\ c[es[i].b] = Between(es, c)[k].b
               \/ c[es[i].a] = Between(es, c)[k].b /\ c[es[i].b] = Between(es, c)[k].a
  <1> DEFINE B == Between(es, c)
  <1>1. PICK cnt \in Nat : \E q : OnePerPair(es, c, B, cnt, q)
    BY BetweenAre
  <1>2. PICK q : OnePerPair(es, c, B, cnt, q)
    BY <1>1
  <1>3. B = [k \in 1 .. cnt |-> B[k]]
    <2>1. B = [k \in DOMAIN B |-> B[k]]
      BY DEF Between
    <2>2. QED BY <1>2, <2>1 DEF OnePerPair
  <1> HIDE DEF B
  <1>4. ASSUME NEW k \in 1 .. cnt
        PROVE  B[k] \in EdgesAmong(m) /\ q[k] \in DOMAIN es
    <2>1. q[k] \in DOMAIN es /\ c[es[q[k]].a] # c[es[q[k]].b]
      BY <1>2 DEF OnePerPair, Firsts, Crossing
    <2>2. c[es[q[k]].a] \in 1 .. m /\ c[es[q[k]].b] \in 1 .. m
      <3>1. es[q[k]].a \in 1 .. n /\ es[q[k]].b \in 1 .. n
        BY <2>1, EdgesAre
      <3>2. QED BY <3>1
    <2>3. Alike(es, c, q[k]) \in SUBSET DOMAIN es
      BY DEF Alike, Crossing
    <2>4. Sum(Alike(es, c, q[k]), Weights(es)) \in Nat
      BY <2>3, EdgesAre
    <2> PICK x, y, z : x = B[k].a /\ y = B[k].b /\ z = B[k].weight
      OBVIOUS
    <2>5. x \in 1 .. m /\ y \in 1 .. m /\ x # y /\ z \in Nat
      BY <1>2, <2>1, <2>2, <2>4 DEF OnePerPair
    <2>6. B[k] = [a |-> x, b |-> y, weight |-> z]
      BY <1>2 DEF OnePerPair, Edge
    <2>7. QED BY <2>1, <2>5, <2>6 DEF EdgesAmong
  <1>5. B \in [1 .. cnt -> EdgesAmong(m)]
    BY <1>3, <1>4
  <1>6. Proper(B, m)
    BY <1>5 DEF Proper
  <1>7. ASSUME NEW k \in 1 .. cnt
        PROVE  \E i \in DOMAIN es : \/ c[es[i].a] = B[k].a /\ c[es[i].b] = B[k].b
                                    \/ c[es[i].a] = B[k].b /\ c[es[i].b] = B[k].a
    <2>1. \/ B[k].a = c[es[q[k]].a] /\ B[k].b = c[es[q[k]].b]
          \/ B[k].a = c[es[q[k]].b] /\ B[k].b = c[es[q[k]].a]
      BY <1>2 DEF OnePerPair
    <2>2. q[k] \in DOMAIN es
      BY <1>4
    <2>3. QED BY <2>1, <2>2
  <1>8. QED BY <1>2, <1>6, <1>7 DEF OnePerPair, B

LEMMA BetweenSums ==
  ASSUME NEW n, NEW es, Proper(es, n), NEW m \in Nat, NEW c \in [1 .. n -> 1 .. m],
         NEW R \in Links(m)
  PROVE  Sum(Among(Between(es, c), R), Weights(Between(es, c))) = Sum(Joined(es, c, R), Weights(es))
  <1> DEFINE B == Between(es, c)
             w == Weights(es)
  <1>1. PICK cnt \in Nat : \E q : OnePerPair(es, c, B, cnt, q)
    BY BetweenAre
  <1>2. PICK q : OnePerPair(es, c, B, cnt, q)
    BY <1>1
  <1> HIDE DEF B
  <1> DEFINE S == Joined(es, c, R)
             K == Among(B, R)
             to(j) == CHOOSE k \in 1 .. cnt : Ends(es, c, q[k]) = Ends(es, c, j)
             r == [j \in S |-> to(j)]
  <1>3. \A x, y : <<x, y>> \in R => <<y, x>> \in R /\ x # y
    BY DEF Links
  <1>4. S \subseteq Crossing(es, c) /\ Crossing(es, c) \subseteq DOMAIN es
    BY <1>3 DEF Joined, Crossing
  <1>5. ASSUME NEW j \in Crossing(es, c)
        PROVE  /\ to(j) \in 1 .. cnt /\ Ends(es, c, q[to(j)]) = Ends(es, c, j)
               /\ \A k \in 1 .. cnt : Ends(es, c, q[k]) = Ends(es, c, j) => k = to(j)
    <2>1. PICK i \in Firsts(es, c) : Ends(es, c, i) = Ends(es, c, j)
      BY FirstOfPair
    <2>2. PICK k \in 1 .. cnt : q[k] = i
      BY <1>2 DEF OnePerPair
    <2>3. to(j) \in 1 .. cnt /\ Ends(es, c, q[to(j)]) = Ends(es, c, j)
      BY <2>1, <2>2
    <2> HIDE DEF to
    <2>4. ASSUME NEW l \in 1 .. cnt, Ends(es, c, q[l]) = Ends(es, c, j) PROVE l = to(j)
      <3>1. q[l] \in Firsts(es, c) /\ q[to(j)] \in Firsts(es, c) /\ Ends(es, c, q[l]) = Ends(es, c, q[to(j)])
        BY <1>2, <2>3, <2>4 DEF OnePerPair
      <3>2. q[l] = q[to(j)]
        BY <3>1, FirstOfPair
      <3>3. QED BY <1>2, <2>3, <3>2 DEF OnePerPair
    <2>5. QED BY <2>3, <2>4
  <1>6. \A j \in S : r[j] = to(j)
    OBVIOUS
  <1> HIDE DEF to, r
  <1>7. ASSUME NEW k \in 1 .. cnt, NEW j \in DOMAIN es, Ends(es, c, q[k]) = Ends(es, c, j)
        PROVE  <<B[k].a, B[k].b>> \in R <=> <<c[es[j].a], c[es[j].b]>> \in R
    <2> PICK x, y, u, v : x = c[es[q[k]].a] /\ y = c[es[q[k]].b] /\ u = c[es[j].a] /\ v = c[es[j].b]
      OBVIOUS
    <2>1. {x, y} = {u, v}
      <3>1. Ends(es, c, q[k]) = {x, y} /\ Ends(es, c, j) = {u, v}
        BY DEF Ends
      <3>2. QED BY <1>7, <3>1
    <2>2. (x = u /\ y = v) \/ (x = v /\ y = u)
      <3>1. x \in {u, v} /\ y \in {u, v} /\ u \in {x, y} /\ v \in {x, y}
        BY <2>1
      <3>2. QED BY <3>1
    <2>3. (B[k].a = x /\ B[k].b = y) \/ (B[k].a = y /\ B[k].b = x)
      BY <1>2 DEF OnePerPair
    <2>4. (B[k].a = u /\ B[k].b = v) \/ (B[k].a = v /\ B[k].b = u)
      BY <2>2, <2>3
    <2>5. QED BY <1>3, <2>4
  <1>8. ASSUME NEW j \in S PROVE r[j] \in K
    <2>1. j \in Crossing(es, c) /\ j \in DOMAIN es /\ <<c[es[j].a], c[es[j].b]>> \in R
      BY <1>4 DEF Joined
    <2>2. r[j] \in 1 .. cnt /\ Ends(es, c, q[r[j]]) = Ends(es, c, j)
      BY <1>5, <1>6, <2>1
    <2>3. <<B[r[j]].a, B[r[j]].b>> \in R
      BY <1>7, <2>1, <2>2
    <2>4. QED BY <1>2, <2>2, <2>3 DEF OnePerPair, Among
  <1>9. ASSUME NEW k \in K PROVE Part(S, r, k) = Alike(es, c, q[k])
    <2>1. k \in 1 .. cnt /\ <<B[k].a, B[k].b>> \in R
      BY <1>2 DEF OnePerPair, Among
    <2>2. ASSUME NEW j \in Part(S, r, k) PROVE j \in Alike(es, c, q[k])
      <3>1. j \in S /\ r[j] = k
        BY DEF Part
      <3>2. j \in Crossing(es, c) /\ to(j) = k
        BY <1>4, <1>6, <3>1
      <3>3. Ends(es, c, q[k]) = Ends(es, c, j)
        BY <1>5, <3>2
      <3>4. QED BY <3>2, <3>3 DEF Alike
    <2>3. ASSUME NEW j \in Alike(es, c, q[k]) PROVE j \in Part(S, r, k)
      <3>1. j \in Crossing(es, c) /\ j \in DOMAIN es /\ Ends(es, c, q[k]) = Ends(es, c, j)
        BY <1>4 DEF Alike
      <3>2. k = to(j)
        BY <1>5, <2>1, <3>1
      <3>3. <<c[es[j].a], c[es[j].b]>> \in R
        BY <1>7, <2>1, <3>1
      <3>4. j \in S
        BY <3>1, <3>3 DEF Joined
      <3>5. QED BY <1>6, <3>2, <3>4 DEF Part
    <2>4. QED BY <2>2, <2>3
  <1>10. Proper(B, m)
    BY BetweenProper DEF B
  <1>11. K \in SUBSET DOMAIN B /\ S \in SUBSET DOMAIN es
    BY DEF Among, Joined
  <1>12. IsFiniteSet(K) /\ IsFiniteSet(S)
    BY <1>10, <1>11, EdgesAre
  <1>13. \A j \in S : w[j] \in Int
    BY <1>11, EdgesAre
  <1>14. \A k \in K : Weights(B)[k] = Sum(Alike(es, c, q[k]), w)
    BY <1>2, <1>11 DEF OnePerPair, Weights
  <1> HIDE DEF S, K, w
  <1>15. Divided(S, K, r, w, Weights(B))
    BY <1>8, <1>9, <1>12, <1>13, <1>14 DEF Divided
  <1>16. Sum(K, Weights(B)) = Sum(S, w)
    BY <1>15, SumOfParts
  <1>17. QED BY <1>16 DEF K, S, w, B


\* L stands for the graph of the edges es between n entities, f being the node
\* each is part of.
Stands(es, n, f, L) ==
    /\ Proper(es, n) /\ IsLevel(L) /\ f \in [1 .. n -> 1 .. L.n]
    /\ LoopsFit(es, f, L) /\ LinksFit(es, f, L) /\ EdgesMet(es, f, L)

\* h is c after f.
Composed(h, c, f, n) == \A v \in 1 .. n : h[v] = c[f[v]]

\* What is folded into a community comes from the entities in it.
LEMMA LoopsAre ==
  ASSUME NEW n, NEW es, NEW f, Stands(es, n, f, level), NEW c, NEW h, Composed(h, c, f, n), NEW s
  PROVE  Sum(Within(es, h, s), Weights(es)) =
           Sum(Part(1 .. level.n, c, s), level.selfLoop) + Sum(Within(level.edges, c, s), Weights(level.edges))
  <1> DEFINE w == Weights(es)
             le == level.edges
             C == Part(1 .. level.n, c, s)
             I == {i \in Within(es, h, s) : f[es[i].a] = f[es[i].b]}
             R == {p \in (1 .. level.n) \X (1 .. level.n) : p[1] # p[2] /\ c[p[1]] = s /\ c[p[2]] = s}
             J == Joined(es, f, R)
             node == [i \in I |-> f[es[i].a]]
  <1>0. /\ Proper(es, n) /\ IsLevel(level) /\ f \in [1 .. n -> 1 .. level.n] /\ \A v \in 1 .. n : h[v] = c[f[v]]
        /\ LoopsFit(es, f, level) /\ LinksFit(es, f, level) /\ EdgesMet(es, f, level)
    BY DEF Stands, Composed
  <1>1. \A i \in DOMAIN es : /\ es[i].a \in 1 .. n /\ es[i].b \in 1 .. n
                             /\ f[es[i].a] \in 1 .. level.n /\ f[es[i].b] \in 1 .. level.n
    <2>1. \A i \in DOMAIN es : es[i].a \in 1 .. n /\ es[i].b \in 1 .. n
      BY <1>0, EdgesAre
    <2>2. QED BY <1>0, <2>1
  <1>2. Within(es, h, s) = I \cup J /\ I \cap J = {} /\ I \in SUBSET DOMAIN es /\ J \in SUBSET DOMAIN es
    <2>1. ASSUME NEW i \in DOMAIN es
          PROVE  /\ i \in Within(es, h, s) <=> c[f[es[i].a]] = s /\ c[f[es[i].b]] = s
                 /\ i \in J <=> c[f[es[i].a]] = s /\ c[f[es[i].b]] = s /\ f[es[i].a] # f[es[i].b]
      BY <1>0, <1>1 DEF Within, Joined
    <2>2. Within(es, h, s) \subseteq DOMAIN es /\ J \subseteq DOMAIN es
      BY DEF Within, Joined
    <2> HIDE DEF J
    <2>3. QED BY <2>1, <2>2
  <1>3. IsFiniteSet(C) /\ level.n \in Nat
    <2>1. level.n \in Nat
      BY <1>0, EdgesAre DEF IsLevel
    <2>2. IsFiniteSet(1 .. level.n) /\ C \in SUBSET (1 .. level.n)
      BY <2>1, FS_Interval DEF Part
    <2> HIDE DEF C
    <2>3. QED BY <2>1, <2>2, FS_Subset
  <1>4. ASSUME NEW v \in C PROVE level.selfLoop[v] = Sum(Part(I, node, v), w)
    <2>1. v \in 1 .. level.n /\ c[v] = s
      BY DEF Part
    <2>2. Part(I, node, v) = Within(es, f, v)
      BY <1>0, <1>1, <2>1 DEF Part, Within
    <2>3. QED BY <1>0, <2>1, <2>2 DEF LoopsFit
  <1>5. ASSUME NEW i \in I PROVE node[i] \in C
    BY <1>0, <1>1 DEF Within, Part
  <1>6. R \in Links(level.n)
    <2>1. \A p \in R : <<p[2], p[1]>> \in R /\ p[1] # p[2]
      OBVIOUS
    <2>2. R \in SUBSET ((1 .. level.n) \X (1 .. level.n))
      OBVIOUS
    <2> HIDE DEF R
    <2>3. QED BY <2>1, <2>2 DEF Links
  <1>7. Within(le, c, s) = Among(le, R)
    <2>1. \A j \in DOMAIN le : le[j].a \in 1 .. level.n /\ le[j].b \in 1 .. level.n /\ le[j].a # le[j].b
      BY <1>0, EdgesAre DEF IsLevel
    <2>2. \A j \in DOMAIN le : <<le[j].a, le[j].b>> \in R <=> c[le[j].a] = s /\ c[le[j].b] = s
      BY <2>1
    <2> HIDE DEF R
    <2>3. QED BY <2>2 DEF Within, Among
  <1> HIDE DEF C, I, J, R, node, w, le
  <1>8. Sum(Within(es, h, s), w) = Sum(I, w) + Sum(J, w)
    BY <1>0, <1>2, TwoSums DEF w
  <1>9. IsFiniteSet(I) /\ \A i \in I : w[i] \in Int
    BY <1>0, <1>2, EdgesAre DEF w
  <1>10. Divided(I, C, node, w, level.selfLoop)
    BY <1>3, <1>4, <1>5, <1>9 DEF Divided
  <1>11. Sum(C, level.selfLoop) = Sum(I, w)
    BY <1>10, SumOfParts
  <1>12. Sum(J, w) = Sum(Within(le, c, s), Weights(le))
    BY <1>0, <1>6, <1>7 DEF LinksFit, J, w, le
  <1>13. QED BY <1>8, <1>11, <1>12 DEF w, C, le

LEMMA LinksAre ==
  ASSUME NEW n, NEW es, NEW f, Stands(es, n, f, level),
         NEW m \in Nat, NEW c \in [1 .. level.n -> 1 .. m], NEW h, Composed(h, c, f, n), NEW R \in Links(m)
  PROVE  Sum(Joined(level.edges, c, R), Weights(level.edges)) = Sum(Joined(es, h, R), Weights(es))
  <1> DEFINE T == {p \in (1 .. level.n) \X (1 .. level.n) : <<c[p[1]], c[p[2]]>> \in R}
  <1>0. /\ Proper(es, n) /\ IsLevel(level) /\ f \in [1 .. n -> 1 .. level.n] /\ \A v \in 1 .. n : h[v] = c[f[v]]
        /\ LoopsFit(es, f, level) /\ LinksFit(es, f, level) /\ EdgesMet(es, f, level)
    BY DEF Stands, Composed
  <1>1. \A x, y : <<x, y>> \in R => <<y, x>> \in R /\ x # y
    BY DEF Links
  <1>2. T \in Links(level.n)
    <2>1. \A p \in T : <<p[2], p[1]>> \in T /\ p[1] # p[2]
      BY <1>1
    <2>2. T \in SUBSET ((1 .. level.n) \X (1 .. level.n))
      OBVIOUS
    <2> HIDE DEF T
    <2>3. QED BY <2>1, <2>2 DEF Links
  <1>3. Joined(level.edges, c, R) = Among(level.edges, T)
    <2>1. \A j \in DOMAIN level.edges : level.edges[j].a \in 1 .. level.n /\ level.edges[j].b \in 1 .. level.n
      BY <1>0, EdgesAre DEF IsLevel
    <2>2. \A j \in DOMAIN level.edges :
             <<level.edges[j].a, level.edges[j].b>> \in T <=> <<c[level.edges[j].a], c[level.edges[j].b]>> \in R
      BY <2>1
    <2> HIDE DEF T
    <2>3. QED BY <2>2 DEF Joined, Among
  <1>4. Joined(es, h, R) = Joined(es, f, T)
    <2>1. \A i \in DOMAIN es : es[i].a \in 1 .. n /\ es[i].b \in 1 .. n
      BY <1>0, EdgesAre
    <2>2. \A i \in DOMAIN es : f[es[i].a] \in 1 .. level.n /\ f[es[i].b] \in 1 .. level.n
      BY <1>0, <2>1
    <2>3. \A i \in DOMAIN es : <<f[es[i].a], f[es[i].b]>> \in T <=> <<h[es[i].a], h[es[i].b]>> \in R
      BY <1>0, <2>1, <2>2
    <2> HIDE DEF T
    <2>4. QED BY <2>3 DEF Joined
  <1> HIDE DEF T
  <1>5. QED BY <1>0, <1>2, <1>3, <1>4 DEF LinksFit

\* The next level stands for the graph as this one does.
LEMMA AggregatedFits ==
  ASSUME NEW n, NEW es, NEW f, Stands(es, n, f, level),
         NEW m \in Nat \ {0}, NEW c \in [1 .. level.n -> 1 .. m], NEW h \in [1 .. n -> 1 .. m], Composed(h, c, f, n)
  PROVE  Stands(es, n, h, Aggregated(c, m)) /\ Aggregated(c, m).n = m
  <1> DEFINE le == level.edges
             B == Between(le, c)
             loops == [s \in 1 .. m |-> Sum({v \in 1 .. level.n : c[v] = s}, level.selfLoop)
                                        + Sum(Within(le, c, s), Weights(le))]
             A == Aggregated(c, m)
  <1>0. /\ Proper(es, n) /\ IsLevel(level) /\ f \in [1 .. n -> 1 .. level.n] /\ \A v \in 1 .. n : h[v] = c[f[v]]
        /\ LoopsFit(es, f, level) /\ LinksFit(es, f, level) /\ EdgesMet(es, f, level)
    BY DEF Stands, Composed
  <1>1. A = Level(m, B, loops)
    BY DEF Aggregated, Within
  <1> HIDE DEF A, B, le
  <1>2. Proper(le, level.n) /\ level.n \in Nat
    BY <1>0, EdgesAre DEF IsLevel, le
  <1>3. /\ Proper(B, m)
        /\ \A k \in DOMAIN B : \E j \in DOMAIN le :
               \/ c[le[j].a] = B[k].a /\ c[le[j].b] = B[k].b
               \/ c[le[j].a] = B[k].b /\ c[le[j].b] = B[k].a
    <2>1. m \in Nat /\ c \in [1 .. level.n -> 1 .. m]
      OBVIOUS
    <2>2. /\ Proper(Between(le, c), m)
          /\ \A k \in DOMAIN Between(le, c) : \E j \in DOMAIN le :
                 \/ c[le[j].a] = Between(le, c)[k].a /\ c[le[j].b] = Between(le, c)[k].b
                 \/ c[le[j].a] = Between(le, c)[k].b /\ c[le[j].b] = Between(le, c)[k].a
      BY ONLY <1>2, <2>1, BetweenProper
    <2>3. QED BY <2>2 DEF B
  <1>4. ASSUME NEW s \in 1 .. m
        PROVE  loops[s] = Sum(Within(es, h, s), Weights(es)) /\ loops[s] \in Nat
    <2>0. loops[s] = Sum(Part(1 .. level.n, c, s), level.selfLoop) + Sum(Within(le, c, s), Weights(le))
      BY DEF Part
    <2> HIDE DEF loops
    <2>1. loops[s] = Sum(Within(es, h, s), Weights(es))
      <3>1. Sum(Within(es, h, s), Weights(es)) =
              Sum(Part(1 .. level.n, c, s), level.selfLoop)
                + Sum(Within(level.edges, c, s), Weights(level.edges))
        BY LoopsAre
      <3>2. QED BY <2>0, <3>1 DEF le
    <2>2. Within(es, h, s) \in SUBSET DOMAIN es
      BY DEF Within
    <2>3. Sum(Within(es, h, s), Weights(es)) \in Nat
      BY <1>0, <2>2, EdgesAre
    <2>4. QED BY <2>1, <2>3
  <1>5. loops = [s \in 1 .. m |-> loops[s]]
    OBVIOUS
  <1> HIDE DEF loops
  <1>6. loops \in [1 .. m -> Nat]
    BY <1>4, <1>5
  <1>7. A.n = m /\ A.edges = B /\ A.selfLoop = loops
    BY <1>1 DEF Level
  <1>8. IsLevel(A)
    BY <1>1, <1>3, <1>6, <1>7 DEF IsLevel
  <1>9. LoopsFit(es, h, A)
    BY <1>4, <1>7 DEF LoopsFit
  <1>10. LinksFit(es, h, A)
    <2>1. SUFFICES ASSUME NEW R \in Links(m)
                   PROVE  Sum(Among(B, R), Weights(B)) = Sum(Joined(es, h, R), Weights(es))
      BY <1>7 DEF LinksFit
    <2>2. Sum(Among(Between(le, c), R), Weights(Between(le, c))) = Sum(Joined(le, c, R), Weights(le))
      <3>1. c \in [1 .. level.n -> 1 .. m] /\ m \in Nat
        OBVIOUS
      <3>2. QED BY ONLY <1>2, <2>1, <3>1, BetweenSums
    <2>3. Sum(Joined(le, c, R), Weights(le)) = Sum(Joined(es, h, R), Weights(es))
      BY LinksAre DEF le
    <2>4. QED BY <2>2, <2>3 DEF B
  <1>11. EdgesMet(es, h, A)
    <2>1. SUFFICES ASSUME NEW k \in DOMAIN B
                   PROVE  \E i \in DOMAIN es :
                             \/ h[es[i].a] = B[k].a /\ h[es[i].b] = B[k].b
                             \/ h[es[i].a] = B[k].b /\ h[es[i].b] = B[k].a
      BY <1>7 DEF EdgesMet
    <2>2. PICK j \in DOMAIN le : \/ c[le[j].a] = B[k].a /\ c[le[j].b] = B[k].b
                                 \/ c[le[j].a] = B[k].b /\ c[le[j].b] = B[k].a
      BY <1>3
    <2>3. PICK i \in DOMAIN es : \/ f[es[i].a] = le[j].a /\ f[es[i].b] = le[j].b
                                 \/ f[es[i].a] = le[j].b /\ f[es[i].b] = le[j].a
      BY <1>0 DEF EdgesMet, le
    <2>4. es[i].a \in 1 .. n /\ es[i].b \in 1 .. n
      BY <1>0, EdgesAre
    <2>5. h[es[i].a] = c[f[es[i].a]] /\ h[es[i].b] = c[f[es[i].b]]
      BY <1>0, <2>4
    <2>6. QED BY <2>2, <2>3, <2>5
  <1>12. QED BY <1>0, <1>7, <1>8, <1>9, <1>10, <1>11 DEF A, Stands


(***************************************************************************)
(* Local moving                                                            *)
(***************************************************************************)
\* The better of two: r, and what edge e of node v offers.
Better(r, e, v) ==
    IF v \in {e.a, e.b} /\ Gains(v)[Across(e, v)] > r.gain
    THEN [comm |-> Across(e, v), gain |-> Gains(v)[Across(e, v)]] ELSE r

\* f looks at the edges up to k one after the other.
Looks(f, v, k) ==
    f = [s \in SUBSET (1 .. k) |->
            IF s = {} THEN [comm |-> comm[v], gain |-> 0]
            ELSE Better(f[s \ {Max(s)}], level.edges[Max(s)], v)]

LEMMA LooksExist ==
  ASSUME NEW v, NEW n \in Nat
  PROVE  \E f : Looks(f, v, n)
  <1> DEFINE Good == {k \in Nat : \E f : Looks(f, v, k)}
             none == [comm |-> comm[v], gain |-> 0]
  <1>1. 0 \in Good
    <2> DEFINE f == [s \in {{}} |-> none]
    <2>1. SUBSET (1 .. 0) = {{}}
      OBVIOUS
    <2>2. f = [s \in {{}} |-> IF s = {} THEN none ELSE Better(f[s \ {Max(s)}], level.edges[Max(s)], v)]
      OBVIOUS
    <2> HIDE DEF f
    <2>3. Looks(f, v, 0)
      BY <2>1, <2>2 DEF Looks
    <2>4. QED BY <2>3
  <1>2. ASSUME NEW k \in Nat, k \in Good PROVE k + 1 \in Good
    <2>1. PICK g : Looks(g, v, k)
      BY <1>2
    <2> DEFINE f == [s \in SUBSET (1 .. (k + 1)) |->
                        IF k + 1 \in s THEN Better(g[s \ {k + 1}], level.edges[k + 1], v) ELSE g[s]]
    <2>2. ASSUME NEW s \in SUBSET (1 .. (k + 1))
          PROVE  f[s] = IF s = {} THEN none ELSE Better(f[s \ {Max(s)}], level.edges[Max(s)], v)
      <3>1. CASE k + 1 \in s
        <4>1. Max(s) = k + 1
          <5>1. s \subseteq Int /\ \A y \in s : y <= k + 1
            OBVIOUS
          <5>2. QED BY <3>1, <5>1, MaxIs
        <4>2. s \ {k + 1} \in SUBSET (1 .. (k + 1)) /\ k + 1 \notin s \ {k + 1} /\ s # {}
          BY <3>1
        <4>3. f[s \ {k + 1}] = g[s \ {k + 1}] /\ f[s] = Better(g[s \ {k + 1}], level.edges[k + 1], v)
          BY <3>1, <4>2
        <4> HIDE DEF f
        <4>4. QED BY <4>1, <4>2, <4>3
      <3>2. CASE k + 1 \notin s
        <4>1. \A y \in s : y \in 1 .. k
          <5>1. \A y \in 1 .. (k + 1) : y # k + 1 => y \in 1 .. k
            OBVIOUS
          <5>2. QED BY <3>2, <5>1
        <4>2. s \in SUBSET (1 .. k)
          BY <4>1
        <4>3. g[s] = IF s = {} THEN none ELSE Better(g[s \ {Max(s)}], level.edges[Max(s)], v)
          BY <2>1, <4>2 DEF Looks
        <4>4. k + 1 \notin s \ {Max(s)} /\ s \ {Max(s)} \in SUBSET (1 .. (k + 1))
          BY <3>2
        <4>5. f[s] = g[s] /\ f[s \ {Max(s)}] = g[s \ {Max(s)}]
          BY <3>2, <4>4
        <4> HIDE DEF f
        <4>6. QED BY <4>3, <4>5
      <3>3. QED BY <3>1, <3>2
    <2>3. f = [s \in SUBSET (1 .. (k + 1)) |-> f[s]]
      OBVIOUS
    <2> HIDE DEF f
    <2>4. f = [s \in SUBSET (1 .. (k + 1)) |->
                  IF s = {} THEN none ELSE Better(f[s \ {Max(s)}], level.edges[Max(s)], v)]
      BY <2>2, <2>3, Zenon
    <2>5. Looks(f, v, k + 1)
      BY <2>4 DEF Looks
    <2>6. QED BY <2>5
  <1>3. Nat \subseteq Good
    <2> HIDE DEF Good
    <2>1. QED BY <1>1, <1>2, Induction
  <1>4. QED BY <1>3

\* What the edges up to k offer at best.
BestOf(r, v, k) ==
    /\ r.gain \in Int /\ r.gain >= 0
    /\ \/ r.comm = comm[v]
       \/ \E i \in Touching(level.edges, v) :
             r.comm = Across(level.edges[i], v) /\ Gains(v)[r.comm] = r.gain
    /\ \A i \in Touching(level.edges, v) : i <= k => Gains(v)[Across(level.edges[i], v)] <= r.gain

LEMMA BestCommIs ==
  ASSUME NEW n, Proper(level.edges, n), NEW v,
         \A i \in Touching(level.edges, v) : Gains(v)[Across(level.edges[i], v)] \in Int
  PROVE  \E g \in Int :
            /\ g >= 0
            /\ \/ BestComm(v) = comm[v]
               \/ \E i \in Touching(level.edges, v) :
                     BestComm(v) = Across(level.edges[i], v) /\ Gains(v)[BestComm(v)] = g
            /\ \A i \in Touching(level.edges, v) : Gains(v)[Across(level.edges[i], v)] <= g
  <1>1. PICK k \in Nat : level.edges \in [1 .. k -> EdgesAmong(n)]
    BY DEF Proper
  <1> DEFINE D == 1 .. k
             f == CHOOSE h : Looks(h, v, k)
  <1>2. DOMAIN level.edges = D
    BY <1>1
  <1>3. BestComm(v) = f[D].comm
    BY <1>2 DEF BestComm, FoldLeft, MapThenFoldSet, Better, Looks
  <1>4. Looks(f, v, k)
    BY LooksExist
  <1> HIDE DEF f
  <1> DEFINE Good == {j \in Nat : j <= k => BestOf(f[1 .. j], v, j)}
  <1>5. 0 \in Good
    <2>1. 1 .. 0 = {} /\ {} \in SUBSET (1 .. k)
      OBVIOUS
    <2>2. f[{}] = [comm |-> comm[v], gain |-> 0]
      BY <1>4, <2>1 DEF Looks
    <2> PICK r : r = f[{}]
      OBVIOUS
    <2>3. r.comm = comm[v] /\ r.gain = 0
      BY <2>2
    <2>4. \A i \in Touching(level.edges, v) : ~(i <= 0)
      BY <1>2 DEF Touching
    <2>5. BestOf(r, v, 0)
      BY <2>3, <2>4 DEF BestOf
    <2>6. QED BY <2>1, <2>5
  <1>6. ASSUME NEW j \in Nat, j \in Good PROVE j + 1 \in Good
    <2>1. SUFFICES ASSUME j + 1 <= k PROVE BestOf(f[1 .. (j + 1)], v, j + 1)
      OBVIOUS
    <2> PICK r, e, m : r = f[1 .. j] /\ e = level.edges[j + 1] /\ m = j + 1
      OBVIOUS
    <2>2. BestOf(r, v, j)
      BY <1>6, <2>1
    <2>3. m \in 1 .. k /\ m - 1 = j /\ m \in Nat
      BY <2>1
    <2>4. f[1 .. m] = Better(r, e, v)
      <3>1. /\ 1 .. m \in SUBSET (1 .. k) /\ 1 .. m # {}
            /\ Max(1 .. m) = m /\ (1 .. m) \ {Max(1 .. m)} = 1 .. j
        BY <2>3, FirstLines
      <3>2. f[1 .. m] = Better(f[(1 .. m) \ {Max(1 .. m)}], level.edges[Max(1 .. m)], v)
        BY <1>4, <3>1 DEF Looks
      <3>3. QED BY <3>1, <3>2
    <2>5. m \in Touching(level.edges, v) <=> v \in {e.a, e.b}
      BY <1>2, <2>3 DEF Touching
    <2> PICK c : c = Across(e, v)
      OBVIOUS
    <2>6. \A i \in Touching(level.edges, v) : i <= m => i <= j \/ i = m
      <3>1. \A i \in 1 .. k : i <= m => i <= j \/ i = m
        BY <2>3
      <3>2. QED BY <1>2, <3>1 DEF Touching
    <2>7. \A i \in Touching(level.edges, v) : i = m => level.edges[i] = e
      OBVIOUS
    <2>8. CASE v \in {e.a, e.b} /\ Gains(v)[c] > r.gain
      <3> DEFINE b == [comm |-> c, gain |-> Gains(v)[c]]
      <3>1. f[1 .. m] = b
        BY <2>4, <2>8 DEF Better
      <3>2. b.comm = c /\ b.gain = Gains(v)[c]
        OBVIOUS
      <3> HIDE DEF b
      <3>3. Gains(v)[c] \in Int
        BY <2>5, <2>8
      <3>4. \A i \in Touching(level.edges, v) : i <= m => Gains(v)[Across(level.edges[i], v)] <= b.gain
        BY <2>2, <2>6, <2>7, <2>8, <3>2, <3>3 DEF BestOf
      <3>5. BestOf(b, v, m)
        BY <2>2, <2>5, <2>8, <3>2, <3>3, <3>4 DEF BestOf
      <3>6. QED BY <3>1, <3>5
    <2>9. CASE ~(v \in {e.a, e.b} /\ Gains(v)[c] > r.gain)
      <3>1. f[1 .. m] = r
        BY <2>4, <2>9 DEF Better
      <3>2. m \in Touching(level.edges, v) => Gains(v)[c] <= r.gain /\ Gains(v)[c] \in Int
        BY <2>2, <2>5, <2>9 DEF BestOf
      <3>3. \A i \in Touching(level.edges, v) : i <= m => Gains(v)[Across(level.edges[i], v)] <= r.gain
        BY <2>2, <2>6, <2>7, <3>2 DEF BestOf
      <3>4. BestOf(r, v, m)
        BY <2>2, <3>3 DEF BestOf
      <3>5. QED BY <3>1, <3>4
    <2>10. QED BY <2>8, <2>9
  <1>7. BestOf(f[D], v, k)
    <2>1. k \in Good
      <3> HIDE DEF Good
      <3>1. QED BY <1>5, <1>6, Induction
    <2>2. QED BY <2>1
  <1>8. \A i \in Touching(level.edges, v) : i <= k
    BY <1>2 DEF Touching
  <1>9. QED BY <1>3, <1>7, <1>8 DEF BestOf

(***************************************************************************)
(* Every level stands for the graph                                        *)
(***************************************************************************)
\* A community has the total degree of its nodes.
Totals ==
    /\ sigmaTot \in [1 .. level.n -> Int]
    /\ \A c \in 1 .. level.n : sigmaTot[c] = Sum(Part(1 .. level.n, comm, c), level.degree)

\* Once a node has moved, a community is empty, and stays so.
Emptied ==
    /\ moved \in [pass : BOOLEAN, level : BOOLEAN]
    /\ moved.level => \E x \in 1 .. level.n : \A v \in 1 .. level.n : comm[v] # x
    /\ ~moved.level => \A v \in 1 .. level.n : comm[v] = v

LevelInv ==
    /\ Stands(graph, N, finalComm, level) /\ level.n <= N
    /\ comm \in [1 .. level.n -> 1 .. level.n]
    /\ at \in 1 .. (level.n + 1)
    /\ Totals /\ Emptied /\ ComponentsApart

\* A graph read is one between different entities, without loops.
LEMMA GraphsAre ==
  ASSUME NEW g \in Graphs
  PROVE  Proper(g, N)
  <1>1. PICK k \in 0 .. MaxEdges : g \in [1 .. k -> EdgesOnce]
    BY DEF Graphs
  <1>2. k \in Nat /\ N \in Nat
    BY LouvainBounds
  <1>3. EdgesOnce \subseteq EdgesAmong(N)
    <2>1. ASSUME NEW e \in EdgesOnce PROVE e \in EdgesAmong(N)
      BY <1>2 DEF EdgesOnce, EdgesAmong
    <2>2. QED BY <2>1
  <1>4. g \in [1 .. k -> EdgesAmong(N)]
    BY <1>1, <1>3
  <1>5. QED BY <1>2, <1>4 DEF Proper

LEMMA InitStands ==
  ASSUME LouvainInit
  PROVE  LevelInv
  <1> DEFINE loops == [v \in 1 .. N |-> 0]
             id == Singletons(N)
  <1>1. /\ Proper(graph, N) /\ level = Level(N, graph, loops)
        /\ comm = id /\ sigmaTot = level.degree /\ at = 1 /\ finalComm = id
        /\ moved = [pass |-> FALSE, level |-> FALSE]
    <2>1. PICK g \in Graphs : LouvainStart(g)
      BY DEF LouvainInit
    <2>2. Proper(g, N)
      BY GraphsAre
    <2>3. QED BY <2>1, <2>2 DEF LouvainStart, Level0
  <1>2. N \in Nat /\ N > 0
    BY LouvainBounds
  <1>3. /\ id \in [1 .. N -> 1 .. N] /\ \A v \in 1 .. N : id[v] = v
        /\ loops \in [1 .. N -> Nat] /\ \A v \in 1 .. N : loops[v] = 0
    BY DEF Singletons
  <1> HIDE DEF id, loops
  <1>4. /\ level.n = N /\ level.edges = graph /\ level.selfLoop = loops
        /\ level.degree \in [1 .. N -> Nat]
    BY <1>1, <1>3, LevelIs
  <1>5. IsLevel(level)
    BY <1>1, <1>2, <1>3, <1>4 DEF IsLevel
  <1>6. \A i \in DOMAIN graph : /\ graph[i].a \in 1 .. N /\ graph[i].b \in 1 .. N /\ graph[i].a # graph[i].b
                                /\ id[graph[i].a] = graph[i].a /\ id[graph[i].b] = graph[i].b
    <2>1. \A i \in DOMAIN graph : graph[i].a \in 1 .. N /\ graph[i].b \in 1 .. N /\ graph[i].a # graph[i].b
      BY <1>1, EdgesAre
    <2>2. QED BY <1>3, <2>1
  <1>7. LoopsFit(graph, id, level)
    <2>1. ASSUME NEW s \in 1 .. N PROVE loops[s] = Sum(Within(graph, id, s), Weights(graph))
      <3>1. Within(graph, id, s) = {}
        BY <1>6 DEF Within
      <3>2. QED BY <1>3, <3>1, SumEmpty
    <2>2. QED BY <1>4, <2>1 DEF LoopsFit
  <1>8. LinksFit(graph, id, level)
    <2>1. ASSUME NEW R PROVE Among(graph, R) = Joined(graph, id, R)
      BY <1>6 DEF Among, Joined
    <2>2. QED BY <1>4, <2>1 DEF LinksFit
  <1>9. EdgesMet(graph, id, level)
    BY <1>4, <1>6 DEF EdgesMet
  <1>10. Stands(graph, N, finalComm, level)
    BY <1>1, <1>3, <1>4, <1>5, <1>7, <1>8, <1>9 DEF Stands
  <1>11. Totals
    <2>1. ASSUME NEW c \in 1 .. N PROVE level.degree[c] = Sum(Part(1 .. N, id, c), level.degree)
      <3>1. Part(1 .. N, id, c) = {c}
        BY <1>3 DEF Part
      <3> PICK d : d = level.degree
        OBVIOUS
      <3>2. d \in [1 .. N -> Nat]
        BY <1>4
      <3>3. d[c] \in Nat
        BY ONLY <2>1, <3>2
      <3>4. d[c] \in Int
        BY ONLY <3>3
      <3>5. Sum({c}, d) = d[c]
        BY ONLY <3>4, SumOne
      <3>6. QED BY <3>1, <3>5
    <2>2. sigmaTot \in [1 .. N -> Int]
      BY <1>1, <1>4
    <2>3. QED BY <1>1, <1>4, <2>1, <2>2 DEF Totals
  <1>12. Emptied
    BY <1>1, <1>3, <1>4 DEF Emptied
  <1>13. ComponentsApart
    BY <1>1, <1>3 DEF ComponentsApart, CommOf
  <1>14. at \in 1 .. (level.n + 1)
    BY <1>1, <1>2, <1>4
  <1>15. QED BY <1>1, <1>2, <1>3, <1>4, <1>10, <1>11, <1>12, <1>13, <1>14 DEF LevelInv

LEMMA LevelTyped ==
  ASSUME LevelInv
  PROVE  /\ Stands(graph, N, finalComm, level) /\ level.n \in Nat /\ IsLevel(level)
         /\ Proper(graph, N) /\ Proper(level.edges, level.n)
         /\ level.degree \in [1 .. level.n -> Nat] /\ level.selfLoop \in [1 .. level.n -> Nat]
         /\ \A v \in 1 .. level.n : level.degree[v] \in Nat /\ level.degree[v] \in Int
  <1>1. /\ Stands(graph, N, finalComm, level) /\ level.n \in Nat /\ IsLevel(level)
        /\ Proper(graph, N) /\ Proper(level.edges, level.n)
        /\ level.degree \in [1 .. level.n -> Nat] /\ level.selfLoop \in [1 .. level.n -> Nat]
    BY LevelIs, EdgesAre DEF LevelInv, Stands, IsLevel
  <1>2. \A v \in 1 .. level.n : level.degree[v] \in Nat
    BY ONLY <1>1
  <1>3. \A v \in 1 .. level.n : level.degree[v] \in Int
    BY ONLY <1>2
  <1>4. QED BY <1>1, <1>2, <1>3

LEMMA NatTimes ==
  ASSUME NEW x \in Nat, NEW y \in Nat
  PROVE  x * y \in Nat
  OBVIOUS

\* The edges from v into community c, as pairs of nodes.
Into(v, c) == {p \in (1 .. level.n) \X (1 .. level.n) :
                  p[1] # p[2] /\ ((p[1] = v /\ comm[p[2]] = c) \/ (p[2] = v /\ comm[p[1]] = c))}

\* What leaving its community, or joining another one, changes for v.
LEMMA GainsAre ==
  ASSUME LevelInv, NEW v \in 1 .. level.n
  PROVE  /\ M2 \in Nat /\ level.degree[v] \in Nat /\ sigmaTot \in [1 .. level.n -> Nat]
         /\ sigmaTot[comm[v]] >= level.degree[v]
         /\ \A c \in 1 .. level.n :
               LET J == Sum(Joined(graph, finalComm, Into(v, c)), Weights(graph))
               IN  /\ J \in Nat
                   /\ (\A i \in Touching(level.edges, v) : Across(level.edges[i], v) # c) => J = 0
                   /\ Gains(v)[c] \in Int
                   /\ Gains(v)[c] = J * M2 - (IF c = comm[v] THEN sigmaTot[c] - level.degree[v]
                                                             ELSE sigmaTot[c]) * level.degree[v]
  <1>1. /\ Stands(graph, N, finalComm, level) /\ level.n \in Nat
        /\ Proper(graph, N) /\ Proper(level.edges, level.n)
        /\ level.degree \in [1 .. level.n -> Nat]
    BY LevelTyped
  <1>2. comm \in [1 .. level.n -> 1 .. level.n] /\ Totals
    BY DEF LevelInv
  <1>3. M2 \in Nat
    <2>1. TotalWeight(graph) \in Nat
      BY <1>1, EdgesAre DEF TotalWeight
    <2>2. QED BY <2>1 DEF M2
  <1>4. \A c : IsFiniteSet(Part(1 .. level.n, comm, c)) /\ Part(1 .. level.n, comm, c) \subseteq 1 .. level.n
    <2>1. IsFiniteSet(1 .. level.n)
      BY <1>1, FS_Interval
    <2>2. QED BY <2>1, FS_Subset DEF Part
  <1>5. ASSUME NEW c \in 1 .. level.n PROVE sigmaTot[c] \in Nat
    <2>1. \A x \in Part(1 .. level.n, comm, c) : level.degree[x] \in Nat
      BY <1>1, <1>4
    <2>2. QED BY <1>2, <1>4, <2>1, SumNat DEF Totals
  <1>6. sigmaTot[comm[v]] >= level.degree[v] /\ level.degree[v] \in Nat
    <2> DEFINE P == Part(1 .. level.n, comm, comm[v])
    <2>1. v \in P /\ comm[v] \in 1 .. level.n
      BY <1>2 DEF Part
    <2>2. IsFiniteSet(P) /\ P \subseteq 1 .. level.n /\ sigmaTot[comm[v]] = Sum(P, level.degree)
      BY <1>2, <1>4, <2>1 DEF Totals
    <2> HIDE DEF P
    <2>3. \A x \in P : level.degree[x] \in Nat
      BY <1>1, <2>2
    <2>4. Sum(P, level.degree) = level.degree[v] + Sum(P \ {v}, level.degree)
      <3>1. \A x \in P : level.degree[x] \in Int
        BY ONLY <2>3
      <3>2. QED BY <2>1, <2>2, <3>1, SumWith
    <2>5. Sum(P \ {v}, level.degree) \in Nat
      <3>1. IsFiniteSet(P \ {v}) /\ \A x \in P \ {v} : level.degree[x] \in Nat
        BY <2>2, <2>3, FS_Subset
      <3>2. QED BY <3>1, SumNat
    <2>6. QED BY <2>1, <2>2, <2>3, <2>4, <2>5
  <1>7. ASSUME NEW c \in 1 .. level.n
        PROVE  LET J == Sum(Joined(graph, finalComm, Into(v, c)), Weights(graph))
               IN  /\ J \in Nat
                   /\ (\A i \in Touching(level.edges, v) : Across(level.edges[i], v) # c) => J = 0
                   /\ Gains(v)[c] \in Int
                   /\ Gains(v)[c] = J * M2 - (IF c = comm[v] THEN sigmaTot[c] - level.degree[v]
                                                             ELSE sigmaTot[c]) * level.degree[v]
    <2> DEFINE R == Into(v, c)
               J == Sum(Joined(graph, finalComm, R), Weights(graph))
               I == {i \in Touching(level.edges, v) : Across(level.edges[i], v) = c}
               k == level.degree[v]
               left == IF c = comm[v] THEN sigmaTot[c] - k ELSE sigmaTot[c]
    <2>1. R \in Links(level.n)
      <3>1. R \in SUBSET ((1 .. level.n) \X (1 .. level.n))
        BY DEF Into
      <3>2. \A p \in R : <<p[2], p[1]>> \in R /\ p[1] # p[2]
        BY DEF Into
      <3> HIDE DEF R
      <3>3. QED BY <3>1, <3>2 DEF Links
    <2>2. Among(level.edges, R) = I
      <3>1. \A j \in DOMAIN level.edges :
               /\ level.edges[j].a \in 1 .. level.n /\ level.edges[j].b \in 1 .. level.n
               /\ level.edges[j].a # level.edges[j].b
        BY <1>1, EdgesAre
      <3>2. ASSUME NEW j \in DOMAIN level.edges
            PROVE  <<level.edges[j].a, level.edges[j].b>> \in R <=>
                      v \in {level.edges[j].a, level.edges[j].b} /\ Across(level.edges[j], v) = c
        <4> PICK x, y : x = level.edges[j].a /\ y = level.edges[j].b
          OBVIOUS
        <4>1. x \in 1 .. level.n /\ y \in 1 .. level.n /\ x # y
          BY <3>1
        <4>2. <<x, y>> \in R <=> (x = v /\ comm[y] = c) \/ (y = v /\ comm[x] = c)
          BY <4>1 DEF Into
        <4>3. Across(level.edges[j], v) = comm[IF x = v THEN y ELSE x]
          BY DEF Across
        <4>4. QED BY <4>1, <4>2, <4>3
      <3> HIDE DEF R
      <3>3. QED BY <3>2 DEF Among, Touching
    <2>3. Sum(I, Weights(level.edges)) = J
      BY <1>1, <2>1, <2>2 DEF Stands, LinksFit
    <2>4. J \in Nat
      <3>1. Joined(graph, finalComm, R) \in SUBSET DOMAIN graph
        BY DEF Joined
      <3>2. QED BY <1>1, <3>1, EdgesAre
    <2>5. (\A i \in Touching(level.edges, v) : Across(level.edges[i], v) # c) => J = 0
      <3>1. ASSUME \A i \in Touching(level.edges, v) : Across(level.edges[i], v) # c PROVE I = {}
        BY <3>1
      <3> HIDE DEF I, J
      <3>2. QED BY <2>3, <3>1, SumEmpty
    <2>6. Gains(v)[c] = J * M2 - left * k
      <3>1. Joining(v)[c] = Sum(I, Weights(level.edges))
        BY DEF Joining
      <3>2. [sigmaTot EXCEPT ![comm[v]] = @ - k][c] = left
        BY <1>2 DEF Totals
      <3>3. Gains(v)[c] = Joining(v)[c] * M2 - [sigmaTot EXCEPT ![comm[v]] = @ - k][c] * k
        BY DEF Gains
      <3> HIDE DEF I, J, left
      <3>4. QED BY <2>3, <3>1, <3>2, <3>3
    <2>7. left \in Int /\ k \in Nat
      BY <1>5, <1>6
    <2> HIDE DEF J, left, k
    <2>8. Gains(v)[c] \in Int
      BY <1>3, <2>4, <2>6, <2>7
    <2>9. QED BY <2>4, <2>5, <2>6, <2>8 DEF J, left, k
  <1>8. sigmaTot \in [1 .. level.n -> Nat]
    BY <1>2, <1>5 DEF Totals
  <1>9. QED BY <1>3, <1>6, <1>7, <1>8

\* A visit takes node v from community o to community b.
Visited(v, o, b) ==
    /\ v = at /\ v \in 1 .. level.n /\ o = comm[v] /\ o \in 1 .. level.n /\ b \in 1 .. level.n
    /\ comm' = [comm EXCEPT ![v] = b]
    /\ b = o \/ \E i \in Touching(level.edges, v) : b = Across(level.edges[i], v)
    /\ b # o => Gains(v)[b] >= Gains(v)[o]
    /\ \A c \in 1 .. level.n :
          sigmaTot'[c] = sigmaTot[c] + (IF c = b THEN level.degree[v] ELSE 0) - (IF c = o THEN level.degree[v] ELSE 0)
    /\ sigmaTot' = [c \in 1 .. level.n |-> sigmaTot'[c]]
    /\ moved' = IF b # o THEN [pass |-> TRUE, level |-> TRUE] ELSE moved
    /\ at' = at + 1 /\ UNCHANGED <<graph, level, pass, finalComm, pc>>

LEMMA VisitIs ==
  ASSUME LevelInv, Visit
  PROVE  \E v, o, b : Visited(v, o, b)
  <1> DEFINE v == at
             o == comm[at]
             b == BestComm(at)
             T == Touching(level.edges, v)
  <1>1. /\ level.n \in Nat /\ Proper(level.edges, level.n) /\ comm \in [1 .. level.n -> 1 .. level.n]
        /\ DOMAIN sigmaTot = 1 .. level.n
    BY EdgesAre DEF LevelInv, Stands, IsLevel, Totals
  <1>2. v \in 1 .. level.n
    BY <1>1 DEF Visit, LevelInv
  <1>3. /\ comm' = [comm EXCEPT ![v] = b]
        /\ sigmaTot' = [c \in DOMAIN sigmaTot |->
               sigmaTot[c] + (IF c = b THEN level.degree[v] ELSE 0) - (IF c = o THEN level.degree[v] ELSE 0)]
        /\ moved' = IF b # o THEN [pass |-> TRUE, level |-> TRUE] ELSE moved
        /\ at' = at + 1 /\ UNCHANGED <<graph, level, pass, finalComm, pc>>
    BY DEF Visit
  <1> HIDE DEF v, o, b, T
  <1>4. o = comm[v] /\ o \in 1 .. level.n
    BY <1>1, <1>2 DEF o, v
  <1>5. \A i \in T : Across(level.edges[i], v) \in 1 .. level.n
    <2>1. \A i \in T : level.edges[i].a \in 1 .. level.n /\ level.edges[i].b \in 1 .. level.n
      BY <1>1, EdgesAre DEF T, Touching
    <2>2. QED BY <1>1, <2>1 DEF Across
  <1>6. \A c \in 1 .. level.n : Gains(v)[c] \in Int
    BY <1>2, GainsAre
  <1>7. PICK g \in Int :
            /\ g >= 0
            /\ b = o \/ \E i \in T : b = Across(level.edges[i], v) /\ Gains(v)[b] = g
            /\ \A i \in T : Gains(v)[Across(level.edges[i], v)] <= g
    <2>1. \A i \in Touching(level.edges, v) : Gains(v)[Across(level.edges[i], v)] \in Int
      BY <1>5, <1>6 DEF T
    <2>2. QED BY <1>1, <2>1, BestCommIs DEF T, o, b, v
  <1>8. Gains(v)[o] <= g
    <2>1. CASE \E i \in T : Across(level.edges[i], v) = o
      BY <1>7, <2>1
    <2>2. CASE \A i \in T : Across(level.edges[i], v) # o
      <3> PICK J, m, s, k : /\ J = Sum(Joined(graph, finalComm, Into(v, o)), Weights(graph))
                            /\ m = M2 /\ s = sigmaTot[o] /\ k = level.degree[v]
        OBVIOUS
      <3>1. /\ J = 0 /\ m \in Nat /\ s \in Nat /\ k \in Nat /\ s >= k
            /\ Gains(v)[o] = J * m - (s - k) * k
        BY <1>2, <1>4, <2>2, GainsAre DEF T
      <3>2. (s - k) * k \in Nat
        <4>1. s - k \in Nat
          BY <3>1
        <4>2. QED BY <3>1, <4>1, NatTimes
      <3>3. Gains(v)[o] <= 0
        BY <3>1, <3>2
      <3>4. Gains(v)[o] \in Int
        BY <1>4, <1>6
      <3>5. QED BY <1>7, <3>3, <3>4
    <2>3. QED BY <2>1, <2>2
  <1>9. b \in 1 .. level.n /\ (b = o \/ \E i \in T : b = Across(level.edges[i], v))
    BY <1>4, <1>5, <1>7
  <1>10. b # o => Gains(v)[b] >= Gains(v)[o]
    BY <1>4, <1>6, <1>7, <1>8
  <1>11. Visited(v, o, b)
    BY <1>1, <1>2, <1>3, <1>4, <1>9, <1>10 DEF Visited, T, v
  <1>12. QED BY <1>11

\* The edges inside a part of the communities.
LEMMA VisitKeepsTotals ==
  ASSUME LevelInv, NEW v, NEW o, NEW b, Visited(v, o, b)
  PROVE  Totals' /\ comm' \in [1 .. level.n -> 1 .. level.n] /\ level' = level
  <1> DEFINE n == level.n
             d == level.degree
             D == 1 .. level.n
  <1>1. /\ v \in D /\ o = comm[v] /\ o \in D /\ b \in D /\ comm \in [D -> D] /\ comm' = [comm EXCEPT ![v] = b]
        /\ level' = level
    BY DEF LevelInv, Visited
  <1>2. /\ comm' \in [D -> D] /\ comm'[v] = b /\ \A u \in D : u # v => comm'[u] = comm[u]
    BY <1>1
  <1>3. n \in Nat /\ d \in [D -> Nat]
    BY LevelTyped
  <1>4. /\ \A c \in D : sigmaTot[c] = Sum(Part(D, comm, c), d) /\ sigmaTot[c] \in Int
        /\ \A c \in D : sigmaTot'[c] = sigmaTot[c] + (IF c = b THEN d[v] ELSE 0) - (IF c = o THEN d[v] ELSE 0)
        /\ sigmaTot' = [c \in D |-> sigmaTot'[c]]
    BY DEF LevelInv, Totals, Visited
  <1>5. IsFiniteSet(D)
    BY <1>3, FS_Interval
  <1> HIDE DEF D, d, n
  <1>6. d[v] \in Nat /\ \A S \in SUBSET D : IsFiniteSet(S) /\ \A x \in S : d[x] \in Int
    <2>1. \A x \in D : d[x] \in Nat
      BY <1>3
    <2>2. \A x \in D : d[x] \in Int
      BY ONLY <2>1
    <2>3. QED BY <1>1, <1>5, <2>1, <2>2, FS_Subset
  <1>7. ASSUME NEW c \in D
        PROVE  sigmaTot'[c] = Sum(Part(D, comm', c), d) /\ sigmaTot'[c] \in Int
    <2>1. sigmaTot'[c] \in Int
      BY <1>4, <1>6
    <2> PICK P, R : P = Part(D, comm, c) /\ R = Part(D, comm', c)
      OBVIOUS
    <2>2. P \in SUBSET D /\ R \in SUBSET D
      BY DEF Part
    <2>3. IsFiniteSet(P) /\ IsFiniteSet(R) /\ (\A x \in P : d[x] \in Int) /\ (\A x \in R : d[x] \in Int)
      BY <1>6, <2>2
    <2>4. CASE c = b /\ b # o
      <3>1. R = P \cup {v} /\ v \notin P
        BY <1>1, <1>2, <2>4 DEF Part
      <3>2. Sum(R, d) = d[v] + Sum(P, d)
        BY <1>6, <2>3, <3>1, SumAdds
      <3>3. QED BY <1>4, <1>6, <2>1, <2>4, <3>2
    <2>5. CASE c = o /\ b # o
      <3>1. P = R \cup {v} /\ v \notin R
        BY <1>1, <1>2, <2>5 DEF Part
      <3>2. Sum(P, d) = d[v] + Sum(R, d)
        BY <1>6, <2>3, <3>1, SumAdds
      <3>3. Sum(R, d) \in Int
        BY <2>3, SumInt
      <3>4. QED BY <1>4, <1>6, <2>1, <2>5, <3>2, <3>3
    <2>6. CASE b = o \/ (c # b /\ c # o)
      <3>1. P = R
        BY <1>1, <1>2, <2>6 DEF Part
      <3>2. sigmaTot'[c] = sigmaTot[c]
        <4> PICK s, k : s = sigmaTot[c] /\ k = d[v]
          OBVIOUS
        <4>1. s \in Int /\ k \in Int /\ sigmaTot'[c] = s + (IF c = b THEN k ELSE 0) - (IF c = o THEN k ELSE 0)
          BY <1>4, <1>6
        <4>2. QED BY <2>6, <4>1
      <3>3. QED BY <1>4, <3>1, <3>2
    <2>7. QED BY <2>4, <2>5, <2>6
  <1>8. sigmaTot' \in [D -> Int]
    BY <1>4, <1>7
  <1>9. QED BY <1>1, <1>2, <1>7, <1>8 DEF Totals, D, d

\* Whom no edge connects stay apart: a community joined is that of a node
\* which an edge of the graph reaches.
LEMMA VisitKeepsApart ==
  ASSUME LevelInv, NEW v, NEW o, NEW b, Visited(v, o, b)
  PROVE  ComponentsApart'
  <1>1. /\ v \in 1 .. level.n /\ comm' = [comm EXCEPT ![v] = b] /\ comm \in [1 .. level.n -> 1 .. level.n]
        /\ b = comm[v] \/ \E i \in Touching(level.edges, v) : b = Across(level.edges[i], v)
        /\ UNCHANGED <<graph, level, finalComm>>
    BY DEF LevelInv, Visited
  <1>2. /\ finalComm \in [1 .. N -> 1 .. level.n] /\ EdgesMet(graph, finalComm, level)
        /\ \A i \in DOMAIN graph : graph[i].a \in 1 .. N /\ graph[i].b \in 1 .. N
    BY EdgesAre DEF LevelInv, Stands
  <1>3. \A x \in 1 .. N : CommOf(x)' = IF finalComm[x] = v THEN b ELSE CommOf(x)
    BY <1>1, <1>2 DEF CommOf
  <1>4. SUFFICES ASSUME NEW S \in SUBSET (1 .. N),
                        \A i \in DOMAIN graph : graph[i].a \in S <=> graph[i].b \in S,
                        NEW x \in S, NEW y \in (1 .. N) \ S, CommOf(x)' = CommOf(y)'
                 PROVE  FALSE
    BY <1>1 DEF ComponentsApart
  <1>5. \A u \in S, w \in (1 .. N) \ S : CommOf(u) # CommOf(w)
    BY <1>4 DEF LevelInv, ComponentsApart
  <1>6. \A u, w \in 1 .. N : CommOf(u) = CommOf(w) => (u \in S <=> w \in S)
    BY <1>5
  <1>7. \A z \in 1 .. N : finalComm[z] = v => CommOf(z) = comm[v]
    BY DEF CommOf
  <1>8. ASSUME NEW z \in 1 .. N, finalComm[z] = v, NEW w \in 1 .. N, CommOf(w) = b, b # comm[v]
        PROVE  z \in S <=> w \in S
    <2>1. PICK j \in Touching(level.edges, v) : b = Across(level.edges[j], v)
      BY <1>1, <1>8
    <2>2. j \in DOMAIN level.edges /\ v \in {level.edges[j].a, level.edges[j].b}
      BY DEF Touching
    <2>3. PICK i \in DOMAIN graph :
              \/ finalComm[graph[i].a] = level.edges[j].a /\ finalComm[graph[i].b] = level.edges[j].b
              \/ finalComm[graph[i].a] = level.edges[j].b /\ finalComm[graph[i].b] = level.edges[j].a
      BY <1>2, <2>2 DEF EdgesMet
    <2> PICK p, q : /\ p \in 1 .. N /\ q \in 1 .. N /\ (p \in S <=> q \in S)
                    /\ finalComm[p] = v /\ comm[finalComm[q]] = b
      <3>1. graph[i].a \in 1 .. N /\ graph[i].b \in 1 .. N /\ (graph[i].a \in S <=> graph[i].b \in S)
        BY <1>2, <1>4
      <3>2. \/ finalComm[graph[i].a] = v /\ comm[finalComm[graph[i].b]] = b
            \/ finalComm[graph[i].b] = v /\ comm[finalComm[graph[i].a]] = b
        BY <2>1, <2>2, <2>3 DEF Across
      <3>3. QED BY <3>1, <3>2
    <2>4. CommOf(p) = CommOf(z) /\ CommOf(q) = CommOf(w)
      BY <1>7, <1>8 DEF CommOf
    <2>5. QED BY <1>6, <2>4
  <1>9. CASE finalComm[x] = v /\ finalComm[y] # v
    BY <1>3, <1>4, <1>5, <1>7, <1>8, <1>9
  <1>10. CASE finalComm[y] = v /\ finalComm[x] # v
    BY <1>3, <1>4, <1>5, <1>7, <1>8, <1>10
  <1>11. CASE finalComm[x] = v /\ finalComm[y] = v
    BY <1>5, <1>7, <1>11
  <1>12. CASE finalComm[x] # v /\ finalComm[y] # v
    BY <1>3, <1>4, <1>5, <1>12
  <1>13. QED BY <1>9, <1>10, <1>11, <1>12

LEMMA VisitKeeps ==
  ASSUME LevelInv, Visit
  PROVE  LevelInv'
  <1>1. PICK v, o, b : Visited(v, o, b)
    BY VisitIs
  <1>2. /\ v = at /\ v \in 1 .. level.n /\ o = comm[v] /\ comm' = [comm EXCEPT ![v] = b] /\ b \in 1 .. level.n
        /\ b = o \/ \E i \in Touching(level.edges, v) : b = Across(level.edges[i], v)
        /\ moved' = IF b # o THEN [pass |-> TRUE, level |-> TRUE] ELSE moved
        /\ at' = at + 1 /\ UNCHANGED <<graph, level, finalComm>>
    BY <1>1 DEF Visited
  <1>3. /\ Totals' /\ comm' \in [1 .. level.n -> 1 .. level.n] /\ ComponentsApart'
    BY <1>1, VisitKeepsTotals, VisitKeepsApart
  <1>4. Stands(graph, N, finalComm, level)' /\ (level.n <= N)'
    BY <1>2 DEF LevelInv
  <1>5. (at \in 1 .. (level.n + 1))'
    <2>1. level.n \in Nat
      BY LevelTyped
    <2>2. QED BY <1>2, <2>1
  <1>6. Emptied'
    <2>1. comm \in [1 .. level.n -> 1 .. level.n] /\ Emptied
      BY DEF LevelInv
    <2>2. comm'[v] = b /\ \A u \in 1 .. level.n : u # v => comm'[u] = comm[u]
      BY <1>2, <2>1
    <2>3. CASE b = o
      <3>1. \A u \in 1 .. level.n : comm'[u] = comm[u]
        BY <1>2, <2>2, <2>3
      <3>2. moved' = moved
        BY <1>2, <2>3
      <3>3. QED BY <1>2, <2>1, <3>1, <3>2 DEF Emptied
    <2>4. CASE b # o
      <3>1. PICK i \in Touching(level.edges, v) : b = Across(level.edges[i], v)
        BY <1>2, <2>4
      <3>2. PICK u \in 1 .. level.n : b = comm[u]
        <4>1. level.edges[i].a \in 1 .. level.n /\ level.edges[i].b \in 1 .. level.n
          BY EdgesAre DEF LevelInv, Stands, IsLevel, Touching
        <4>2. QED BY <3>1, <4>1 DEF Across
      <3>3. \E x \in 1 .. level.n : \A w \in 1 .. level.n : comm'[w] # x
        <4>1. CASE moved.level
          <5>1. PICK x \in 1 .. level.n : \A w \in 1 .. level.n : comm[w] # x
            BY <2>1, <4>1 DEF Emptied
          <5>2. \A w \in 1 .. level.n : comm'[w] # x
            BY <2>2, <3>2, <5>1
          <5>3. QED BY <5>2
        <4>2. CASE ~moved.level
          <5>1. \A w \in 1 .. level.n : comm[w] = w
            BY <2>1, <4>2 DEF Emptied
          <5>2. \A w \in 1 .. level.n : comm'[w] # v
            BY <1>2, <2>2, <2>4, <5>1
          <5>3. QED BY <1>2, <5>2
        <4>3. QED BY <4>1, <4>2
      <3>4. moved' = [pass |-> TRUE, level |-> TRUE]
        BY <1>2, <2>4
      <3>5. moved' \in [pass : BOOLEAN, level : BOOLEAN] /\ moved'.level
        BY <3>4
      <3>6. QED BY <1>2, <3>3, <3>5 DEF Emptied
    <2>5. QED BY <2>3, <2>4
  <1>7. QED BY <1>2, <1>3, <1>4, <1>5, <1>6 DEF LevelInv

\* Communities become the m nodes of the next level, numbered by c.
Folded(c, m) ==
    /\ m \in 1 .. level.n /\ m < level.n /\ c \in [1 .. level.n -> 1 .. m]
    /\ \A u, v \in 1 .. level.n : c[u] = c[v] <=> comm[u] = comm[v]
    /\ level' = Aggregated(c, m) /\ comm' = Singletons(m) /\ sigmaTot' = level'.degree
    /\ finalComm' = Compose(c) /\ at' = 1 /\ moved' = [pass |-> FALSE, level |-> FALSE] /\ graph' = graph

LEMMA AggregateIs ==
  ASSUME LevelInv, Aggregate
  PROVE  \E c, m : Folded(c, m)
  <1> DEFINE c == Compact(level.n, comm)
             m == Max({c[v] : v \in 1 .. level.n})
  <1>1. /\ level' = Aggregated(c, m) /\ comm' = Singletons(m) /\ sigmaTot' = level'.degree
        /\ finalComm' = Compose(c) /\ at' = 1 /\ moved' = [pass |-> FALSE, level |-> FALSE] /\ graph' = graph
        /\ moved.level
    BY DEF Aggregate
  <1>2. level.n \in Nat \ {0} /\ comm \in [1 .. level.n -> 1 .. level.n]
    BY LevelTyped DEF LevelInv, IsLevel
  <1>3. /\ m \in 1 .. level.n /\ c \in [1 .. level.n -> 1 .. m]
        /\ \A u, v \in 1 .. level.n : c[u] = c[v] <=> comm[u] = comm[v]
        /\ (\E x \in 1 .. level.n : \A v \in 1 .. level.n : comm[v] # x) => m < level.n
    <2>1. LET r == Compact(level.n, comm)
              k == Max({r[v] : v \in 1 .. level.n})
          IN  /\ k \in 1 .. level.n /\ r \in [1 .. level.n -> 1 .. k]
              /\ \A u, v \in 1 .. level.n : r[u] = r[v] <=> comm[u] = comm[v]
              /\ (\E x \in 1 .. level.n : \A v \in 1 .. level.n : comm[v] # x) => k < level.n
      BY <1>2, CompactIs
    <2>2. QED BY <2>1, Zenon
  <1> HIDE DEF c, m
  <1>4. m < level.n
    BY <1>1, <1>3 DEF LevelInv, Emptied
  <1>5. Folded(c, m)
    BY <1>1, <1>3, <1>4 DEF Folded
  <1>6. QED BY <1>5

LEMMA FoldKeeps ==
  ASSUME LevelInv, NEW c, NEW m, Folded(c, m)
  PROVE  LevelInv' /\ level'.n = m
  <1> DEFINE h == Compose(c)
             A == Aggregated(c, m)
             id == Singletons(m)
  <1>1. /\ level' = A /\ comm' = id /\ sigmaTot' = level'.degree
        /\ finalComm' = h /\ at' = 1 /\ moved' = [pass |-> FALSE, level |-> FALSE] /\ graph' = graph
    BY DEF Folded
  <1>2. /\ level.n \in Nat /\ Stands(graph, N, finalComm, level) /\ finalComm \in [1 .. N -> 1 .. level.n]
        /\ level.n <= N /\ N \in Nat /\ comm \in [1 .. level.n -> 1 .. level.n]
    BY LevelTyped, LouvainBounds DEF LevelInv, Stands
  <1>3. /\ m \in Nat \ {0} /\ m < level.n /\ c \in [1 .. level.n -> 1 .. m]
        /\ \A u, v \in 1 .. level.n : c[u] = c[v] <=> comm[u] = comm[v]
    <2>1. /\ m \in 1 .. level.n /\ m < level.n /\ c \in [1 .. level.n -> 1 .. m]
          /\ \A u, v \in 1 .. level.n : c[u] = c[v] <=> comm[u] = comm[v]
      BY DEF Folded
    <2>2. m \in Nat \ {0}
      BY <1>2, <2>1
    <2>3. QED BY <2>1, <2>2
  <1>4. h \in [1 .. N -> 1 .. m] /\ Composed(h, c, finalComm, N)
    BY <1>2, <1>3 DEF Compose, Composed
  <1>5. id \in [1 .. m -> 1 .. m] /\ \A v \in 1 .. m : id[v] = v
    BY DEF Singletons
  <1> HIDE DEF h, A, id
  <1>6. Stands(graph, N, h, A) /\ A.n = m
    <2>1. /\ Stands(graph, N, finalComm, level) /\ m \in Nat \ {0} /\ c \in [1 .. level.n -> 1 .. m]
          /\ h \in [1 .. N -> 1 .. m] /\ Composed(h, c, finalComm, N)
      BY <1>2, <1>3, <1>4
    <2>2. Stands(graph, N, h, Aggregated(c, m)) /\ Aggregated(c, m).n = m
      BY ONLY <2>1, AggregatedFits
    <2>3. QED BY <2>2 DEF A
  <1>7. Stands(graph, N, finalComm, level)' /\ (level.n <= N)' /\ level'.n = m
    BY <1>1, <1>2, <1>3, <1>6
  <1>8. Totals'
    <2> DEFINE d == A.degree
               D == 1 .. m
    <2>1. d \in [D -> Nat]
      BY <1>6, LevelIs DEF Stands, IsLevel
    <2>2. Totals' <=> /\ d \in [D -> Int]
                      /\ \A x \in D : d[x] = Sum(Part(D, id, x), d)
      BY <1>1, <1>6 DEF Totals
    <2> HIDE DEF d, D
    <2>3. \A x \in D : d[x] \in Nat
      BY <2>1
    <2>4. \A x \in D : d[x] \in Int
      BY ONLY <2>3
    <2>5. d \in [D -> Int]
      BY ONLY <2>1, <2>4
    <2>6. ASSUME NEW x \in D PROVE d[x] = Sum(Part(D, id, x), d)
      <3>1. Part(D, id, x) = {x}
        BY <1>5 DEF Part, D
      <3>2. QED BY <2>4, <3>1, SumOne
    <2>7. QED BY <2>2, <2>5, <2>6
  <1>9. Emptied'
    BY <1>1, <1>5, <1>6 DEF Emptied
  <1>10. ASSUME NEW u \in 1 .. N, NEW v \in 1 .. N
         PROVE  CommOf(u)' = CommOf(v)' <=> CommOf(u) = CommOf(v)
    <2>1. CommOf(u)' = id[h[u]] /\ CommOf(v)' = id[h[v]]
      BY <1>1 DEF CommOf
    <2>2. id[h[u]] = c[finalComm[u]] /\ id[h[v]] = c[finalComm[v]]
      BY <1>4, <1>5 DEF Composed
    <2>3. finalComm[u] \in 1 .. level.n /\ finalComm[v] \in 1 .. level.n
      BY <1>2
    <2>4. QED BY <1>3, <2>1, <2>2, <2>3 DEF CommOf
  <1>11. ComponentsApart'
    <2>1. SUFFICES ASSUME NEW S \in SUBSET (1 .. N),
                          \A i \in DOMAIN graph : graph[i].a \in S <=> graph[i].b \in S,
                          NEW u \in S, NEW v \in (1 .. N) \ S
                   PROVE  CommOf(u)' # CommOf(v)'
      BY <1>1 DEF ComponentsApart
    <2>2. CommOf(u) # CommOf(v)
      BY <2>1 DEF LevelInv, ComponentsApart
    <2>3. QED BY <1>10, <2>2
  <1>12. (comm \in [1 .. level.n -> 1 .. level.n])' /\ (at \in 1 .. (level.n + 1))'
    BY <1>1, <1>3, <1>5, <1>7
  <1>13. QED BY <1>7, <1>8, <1>9, <1>11, <1>12 DEF LevelInv

LEMMA LevelInvHolds ==
  LouvainSpec => []LevelInv
  <1>1. LouvainInit => LevelInv
    BY InitStands
  <1>2. LevelInv /\ [LouvainNext]_louvainVars => LevelInv'
    <2>1. SUFFICES ASSUME LevelInv, [LouvainNext]_louvainVars PROVE LevelInv'
      OBVIOUS
    <2>2. CASE Visit
      BY <2>1, <2>2, VisitKeeps
    <2>3. CASE NextPass
      <3>1. /\ at' = 1 /\ moved' = [moved EXCEPT !.pass = FALSE]
            /\ UNCHANGED <<graph, level, comm, sigmaTot, finalComm>>
        BY <2>3 DEF NextPass
      <3>2. (at \in 1 .. (level.n + 1))'
        BY <2>1, <3>1, LevelTyped
      <3>3. Emptied'
        <4>1. Emptied
          BY <2>1 DEF LevelInv
        <4>2. moved' \in [pass : BOOLEAN, level : BOOLEAN] /\ moved'.level = moved.level
          BY <3>1, <4>1 DEF Emptied
        <4>3. QED BY <3>1, <4>1, <4>2 DEF Emptied
      <3>4. Stands(graph, N, finalComm, level)' /\ (level.n <= N)' /\ (comm \in [1 .. level.n -> 1 .. level.n])'
        BY <2>1, <3>1 DEF LevelInv
      <3>5. Totals' /\ ComponentsApart'
        BY <2>1, <3>1 DEF LevelInv, Totals, ComponentsApart, CommOf
      <3>6. QED BY <3>2, <3>3, <3>4, <3>5 DEF LevelInv
    <2>4. CASE Aggregate
      BY <2>1, <2>4, AggregateIs, FoldKeeps
    <2>5. CASE UNCHANGED <<graph, level, comm, sigmaTot, at, moved, finalComm>>
      <3>1. Totals' /\ Emptied' /\ ComponentsApart'
        BY <2>1, <2>5 DEF LevelInv, Totals, Emptied, ComponentsApart, CommOf
      <3>2. QED BY <2>1, <2>5, <3>1 DEF LevelInv
    <2>6. CASE NothingMoves
      BY <2>5, <2>6 DEF NothingMoves
    <2>7. CASE Cancel
      BY <2>5, <2>7 DEF Cancel
    <2>8. CASE UNCHANGED louvainVars
      BY <2>5, <2>8 DEF louvainVars
    <2>9. QED BY <2>1, <2>2, <2>3, <2>4, <2>6, <2>7, <2>8 DEF LouvainNext
  <1>3. QED BY <1>1, <1>2, PTL DEF LouvainSpec

\* Every level stands for the graph (LevelsStandForGraph): whom no edge
\* connects share no community, a node has the degree of the entities in it,
\* and a community the total of its nodes (localMoving, aggregate).
THEOREM LevelsStand == LouvainSpec => []LevelsStandForGraph
  <1>1. LevelInv => LevelsStandForGraph
    <2>1. SUFFICES ASSUME LevelInv PROVE ComponentsApart /\ DegreesAdd
      BY DEF LevelsStandForGraph
    <2>2. ComponentsApart /\ Totals /\ Stands(graph, N, finalComm, level)
      BY <2>1 DEF LevelInv
    <2>3. \A c \in 1 .. level.n :
             sigmaTot[c] = Sum({v \in 1 .. level.n : comm[v] = c}, level.degree)
      BY <2>2 DEF Totals, Part
    <2>4. DegreeIs(graph, finalComm, level, N)
      BY <2>2, DegreesFit DEF Stands
    <2>5. \A s \in 1 .. level.n :
             level.degree[s] = Sum({v \in 1 .. N : finalComm[v] = s}, Level0.degree)
      BY <2>4 DEF DegreeIs, Level0
    <2>6. QED BY <2>2, <2>3, <2>5 DEF DegreesAdd
  <1>2. QED BY <1>1, LevelInvHolds, PTL

(***************************************************************************)
(* Modularity                                                              *)
(***************************************************************************)
\* Degrees of the entities in the graph of the edges es.
EntityDegree(es) == Level(N, es, [v \in 1 .. N |-> 0]).degree

\* What community x adds to modularity, c being the community of each entity.
Share(es, c, x) ==
    2 * (2 * TotalWeight(es)) * Sum(Within(es, c, x), Weights(es))
      - Sum(Part(1 .. N, c, x), EntityDegree(es)) * Sum(Part(1 .. N, c, x), EntityDegree(es))
Shares(es, c) == [x \in 1 .. N |-> Share(es, c, x)]
Quality(es, c) == Sum({c[v] : v \in 1 .. N}, Shares(es, c))

LEMMA QIs ==
  /\ Q = Quality(graph, [v \in 1 .. N |-> CommOf(v)])
  /\ Q' = Quality(graph', [v \in 1 .. N |-> CommOf(v)'])
  BY DEF Q, Quality, Shares, Share, EntityDegree, Level0, M2, Within, Part

LEMMA SharesAre ==
  ASSUME NEW es, Proper(es, N), NEW c, NEW x
  PROVE  /\ Sum(Within(es, c, x), Weights(es)) \in Nat /\ 2 * TotalWeight(es) \in Nat
         /\ Sum(Part(1 .. N, c, x), EntityDegree(es)) \in Nat
         /\ Share(es, c, x) \in Int
         /\ (\A v \in 1 .. N : c[v] # x) => Share(es, c, x) = 0
  <1> DEFINE w == Sum(Within(es, c, x), Weights(es))
             d == Sum(Part(1 .. N, c, x), EntityDegree(es))
             m == 2 * TotalWeight(es)
  <1>1. N \in Nat /\ EntityDegree(es) \in [1 .. N -> Nat]
    <2>1. N \in Nat /\ [v \in 1 .. N |-> 0] \in [1 .. N -> Nat]
      BY LouvainBounds
    <2>2. QED BY <2>1, LevelIs DEF EntityDegree
  <1>2. w \in Nat
    <2>1. Within(es, c, x) \in SUBSET DOMAIN es
      BY DEF Within
    <2>2. QED BY <2>1, EdgesAre
  <1>3. m \in Nat
    <2>1. TotalWeight(es) \in Nat
      BY EdgesAre DEF TotalWeight
    <2>2. QED BY <2>1
  <1>4. d \in Nat
    <2>1. IsFiniteSet(Part(1 .. N, c, x)) /\ \A v \in Part(1 .. N, c, x) : EntityDegree(es)[v] \in Nat
      <3>1. IsFiniteSet(1 .. N)
        BY <1>1, FS_Interval
      <3>2. Part(1 .. N, c, x) \subseteq 1 .. N
        BY DEF Part
      <3>3. QED BY <1>1, <3>1, <3>2, FS_Subset
    <2>2. QED BY <2>1, SumNat
  <1>5. Share(es, c, x) = 2 * m * w - d * d
    BY DEF Share
  <1>6. ASSUME \A v \in 1 .. N : c[v] # x PROVE w = 0 /\ d = 0
    <2>1. Part(1 .. N, c, x) = {}
      BY <1>6 DEF Part
    <2>2. Within(es, c, x) = {}
      <3>1. \A i \in DOMAIN es : es[i].a \in 1 .. N
        BY EdgesAre
      <3>2. QED BY <1>6, <3>1 DEF Within
    <2>3. QED BY <2>1, <2>2, SumEmpty
  <1> HIDE DEF w, d, m
  <1>7. 2 * m * w - d * d \in Int
    BY <1>2, <1>3, <1>4
  <1>8. w = 0 /\ d = 0 => 2 * m * w - d * d = 0
    BY <1>3
  <1>9. QED BY <1>2, <1>3, <1>4, <1>5, <1>6, <1>7, <1>8 DEF w, d, m

\* Communities of no one add nothing.
LEMMA QualityIs ==
  ASSUME NEW es, Proper(es, N), NEW c \in [1 .. N -> 1 .. N]
  PROVE  Quality(es, c) = Sum(1 .. N, Shares(es, c)) /\ Quality(es, c) \in Int
  <1> DEFINE D == 1 .. N
             R == {c[v] : v \in 1 .. N}
             f == Shares(es, c)
  <1>1. IsFiniteSet(D) /\ R \in SUBSET D
    <2>1. N \in Nat
      BY LouvainBounds
    <2>2. IsFiniteSet(D)
      BY <2>1, FS_Interval
    <2>3. QED BY <2>2
  <1>2. \A x \in D : f[x] = Share(es, c, x)
    BY DEF Shares
  <1>3. \A x \in D \ R : \A v \in 1 .. N : c[v] # x
    OBVIOUS
  <1>4. Quality(es, c) = Sum(R, f)
    BY DEF Quality
  <1> HIDE DEF D, R, f
  <1>5. (\A x \in D : f[x] \in Int) /\ \A x \in D \ R : f[x] = 0
    <2>1. \A x \in D : f[x] \in Int
      BY <1>2, SharesAre
    <2>2. \A x \in D \ R : f[x] = 0
      BY <1>2, <1>3, SharesAre
    <2>3. QED BY <2>1, <2>2
  <1>6. Sum(D, f) = Sum(R, f) /\ Sum(D, f) \in Int
    <2>1. \A x \in R : f[x] \in Int
      BY <1>1, <1>5
    <2>2. QED BY <1>1, <1>5, <2>1, SumZeros, SumInt
  <1>7. QED BY <1>4, <1>6 DEF D, f

\* Other names for the same communities.
LEMMA QualityOfNames ==
  ASSUME NEW es, Proper(es, N), NEW c \in [1 .. N -> 1 .. N], NEW d \in [1 .. N -> 1 .. N],
         \A u, v \in 1 .. N : c[u] = c[v] <=> d[u] = d[v]
  PROVE  Quality(es, d) = Quality(es, c)
  <1> DEFINE S == {c[v] : v \in 1 .. N}
             K == {d[v] : v \in 1 .. N}
             to(x) == d[CHOOSE v \in 1 .. N : c[v] = x]
             b == [x \in S |-> to(x)]
             f == Shares(es, c)
             g == Shares(es, d)
  <1>1. IsFiniteSet(S) /\ IsFiniteSet(K) /\ S \subseteq 1 .. N /\ K \subseteq 1 .. N
    <2>1. S \subseteq 1 .. N /\ K \subseteq 1 .. N
      OBVIOUS
    <2>2. IsFiniteSet(1 .. N)
      BY LouvainBounds, FS_Interval
    <2> HIDE DEF S, K
    <2>3. QED BY <2>1, <2>2, FS_Subset
  <1>2. ASSUME NEW v \in 1 .. N PROVE c[v] \in S /\ d[v] \in K /\ b[c[v]] = d[v]
    <2> DEFINE u == CHOOSE z \in 1 .. N : c[z] = c[v]
    <2>1. u \in 1 .. N /\ c[u] = c[v]
      OBVIOUS
    <2>2. c[v] \in S /\ d[v] \in K /\ b[c[v]] = d[u]
      OBVIOUS
    <2> HIDE DEF u, b, S, K
    <2>3. QED BY <2>1, <2>2
  <1>3. (\A x \in S : \E v \in 1 .. N : x = c[v]) /\ (\A k \in K : \E v \in 1 .. N : k = d[v])
    OBVIOUS
  <1>4. Quality(es, c) = Sum(S, f) /\ Quality(es, d) = Sum(K, g)
    BY DEF Quality
  <1>5. (\A x \in 1 .. N : f[x] = Share(es, c, x)) /\ (\A x \in 1 .. N : g[x] = Share(es, d, x))
    BY DEF Shares
  <1> HIDE DEF S, K, b, f, g
  <1>6. ASSUME NEW v \in 1 .. N PROVE Share(es, d, d[v]) = Share(es, c, c[v])
    <2>1. Within(es, d, d[v]) = Within(es, c, c[v])
      <3>1. \A i \in DOMAIN es : es[i].a \in 1 .. N /\ es[i].b \in 1 .. N
        BY EdgesAre
      <3>2. QED BY <3>1 DEF Within
    <2>2. Part(1 .. N, d, d[v]) = Part(1 .. N, c, c[v])
      BY DEF Part
    <2>3. QED BY <2>1, <2>2 DEF Share
  <1>7. \A x \in S : b[x] \in K /\ f[x] = g[b[x]]
    <2>1. ASSUME NEW x \in S PROVE b[x] \in K /\ f[x] = g[b[x]]
      <3>1. PICK v \in 1 .. N : x = c[v]
        BY <1>3
      <3>2. b[x] = d[v] /\ d[v] \in K
        BY <1>2, <3>1
      <3>3. f[c[v]] = Share(es, c, c[v]) /\ g[d[v]] = Share(es, d, d[v])
        BY <1>5
      <3>4. QED BY <1>6, <3>1, <3>2, <3>3
    <2>2. QED BY <2>1
  <1>8. \A x, y \in S : b[x] = b[y] => x = y
    BY <1>2, <1>3
  <1>9. \A k \in K : \E x \in S : b[x] = k
    BY <1>2, <1>3
  <1>10. \A k \in K : g[k] \in Int
    BY <1>1, <1>5, SharesAre
  <1>11. Sum(K, g) = Sum(S, f)
    <2>1. Renamed(S, K, b, f, g)
      BY <1>1, <1>7, <1>8, <1>9, <1>10 DEF Renamed
    <2>2. QED BY <2>1, SumRenamed
  <1>12. QED BY <1>4, <1>11

\* A community has the degree of the entities in it.
LEMMA DegreeOfComm ==
  ASSUME LevelInv, NEW d, NEW c, Composed(c, d, finalComm, N), NEW x
  PROVE  Sum(Part(1 .. N, c, x), EntityDegree(graph)) = Sum(Part(1 .. level.n, d, x), level.degree)
  <1> DEFINE f == EntityDegree(graph)
             g == level.degree
             S == Part(1 .. N, c, x)
             K == Part(1 .. level.n, d, x)
  <1>1. /\ finalComm \in [1 .. N -> 1 .. level.n] /\ N \in Nat /\ level.n \in Nat
        /\ \A v \in 1 .. N : c[v] = d[finalComm[v]]
    BY LevelTyped, LouvainBounds DEF Stands, Composed
  <1>2. DegreeIs(graph, finalComm, level, N)
    BY LevelTyped, DegreesFit DEF Stands
  <1>3. \A v \in 1 .. N : f[v] \in Int
    <2>1. [v \in 1 .. N |-> 0] \in [1 .. N -> Nat] /\ Proper(graph, N)
      BY LevelTyped
    <2>2. EntityDegree(graph) \in [1 .. N -> Nat]
      BY <2>1, LevelIs DEF EntityDegree
    <2>3. \A v \in 1 .. N : f[v] \in Nat
      BY <2>2
    <2> HIDE DEF f
    <2>4. QED BY ONLY <2>3
  <1>4. IsFiniteSet(S) /\ IsFiniteSet(K)
    <2>1. IsFiniteSet(1 .. N) /\ IsFiniteSet(1 .. level.n)
      BY <1>1, FS_Interval
    <2>2. S \subseteq 1 .. N /\ K \subseteq 1 .. level.n
      BY DEF Part
    <2> HIDE DEF S, K
    <2>3. QED BY <2>1, <2>2, FS_Subset
  <1>5. ASSUME NEW v \in S PROVE finalComm[v] \in K /\ f[v] \in Int
    BY <1>1, <1>3 DEF Part
  <1>6. ASSUME NEW s \in K PROVE g[s] = Sum(Part(S, finalComm, s), f)
    <2>1. s \in 1 .. level.n /\ d[s] = x
      BY DEF Part
    <2>2. Part(S, finalComm, s) = {v \in 1 .. N : finalComm[v] = s}
      BY <1>1, <2>1 DEF Part
    <2>3. g[s] = Sum({v \in 1 .. N : finalComm[v] = s}, f)
      BY <1>2, <2>1 DEF DegreeIs, EntityDegree
    <2>4. QED BY <2>2, <2>3
  <1> HIDE DEF f, g, S, K
  <1>7. Divided(S, K, finalComm, f, g)
    BY <1>4, <1>5, <1>6 DEF Divided
  <1>8. Sum(K, g) = Sum(S, f)
    BY <1>7, SumOfParts
  <1>9. QED BY <1>8 DEF f, g, S, K

\* Node v enters community x: c before, e after.
Entered(c, e, v, x) ==
    \A z \in 1 .. N :
        /\ finalComm[z] = v => e[z] = x /\ c[z] # x
        /\ finalComm[z] # v => e[z] = c[z] /\ (c[z] = x <=> comm[finalComm[z]] = x)

\* It brings the edges folded into it and those to the community.
LEMMA EnteredSums ==
  ASSUME LevelInv, NEW c, NEW e, NEW v, NEW x, Entered(c, e, v, x)
  PROVE  Sum(Within(graph, e, x), Weights(graph)) =
           Sum(Within(graph, c, x), Weights(graph)) + (Sum(Within(graph, finalComm, v), Weights(graph))
              + Sum(Joined(graph, finalComm, Into(v, x)), Weights(graph)))
  <1> DEFINE w == Weights(graph)
             A == Within(graph, e, x)
             B == Within(graph, c, x)
             L == Within(graph, finalComm, v)
             J == Joined(graph, finalComm, Into(v, x))
  <1>1. /\ Proper(graph, N) /\ finalComm \in [1 .. N -> 1 .. level.n]
        /\ \A i \in DOMAIN graph : graph[i].a \in 1 .. N /\ graph[i].b \in 1 .. N
    BY LevelTyped, EdgesAre DEF Stands
  <1>2. /\ A \in SUBSET DOMAIN graph /\ B \in SUBSET DOMAIN graph
        /\ L \in SUBSET DOMAIN graph /\ J \in SUBSET DOMAIN graph
    BY DEF Within, Joined
  <1>3. ASSUME NEW i \in DOMAIN graph
        PROVE  /\ i \in A <=> i \in B \/ i \in L \/ i \in J
               /\ ~(i \in B /\ i \in L) /\ ~(i \in B /\ i \in J) /\ ~(i \in L /\ i \in J)
    <2> PICK p, q : p = graph[i].a /\ q = graph[i].b
      OBVIOUS
    <2>1. p \in 1 .. N /\ q \in 1 .. N /\ finalComm[p] \in 1 .. level.n /\ finalComm[q] \in 1 .. level.n
      BY <1>1
    <2>2. /\ i \in A <=> e[p] = x /\ e[q] = x
          /\ i \in B <=> c[p] = x /\ c[q] = x
          /\ i \in L <=> finalComm[p] = v /\ finalComm[q] = v
      BY DEF Within
    <2>3. i \in J <=> /\ finalComm[p] # finalComm[q]
                      /\ \/ finalComm[p] = v /\ comm[finalComm[q]] = x
                         \/ finalComm[q] = v /\ comm[finalComm[p]] = x
      BY <2>1 DEF Joined, Into
    <2> HIDE DEF A, B, L, J
    <2>4. /\ finalComm[p] = v => e[p] = x /\ c[p] # x
          /\ finalComm[q] = v => e[q] = x /\ c[q] # x
          /\ finalComm[p] # v => e[p] = c[p] /\ (c[p] = x <=> comm[finalComm[p]] = x)
          /\ finalComm[q] # v => e[q] = c[q] /\ (c[q] = x <=> comm[finalComm[q]] = x)
      BY <2>1 DEF Entered
    <2>5. CASE finalComm[p] = v
      BY <2>2, <2>3, <2>4, <2>5
    <2>6. CASE finalComm[p] # v
      BY <2>2, <2>3, <2>4, <2>6
    <2>7. QED BY <2>5, <2>6
  <1> HIDE DEF A, B, L, J
  <1>4. L \cap J = {} /\ B \cap (L \cup J) = {} /\ A = B \cup (L \cup J) /\ L \cup J \in SUBSET DOMAIN graph
    BY <1>2, <1>3
  <1>5. Sum(L \cup J, w) = Sum(L, w) + Sum(J, w)
    <2> PICK K : K = L \cup J
      OBVIOUS
    <2>1. QED BY <1>1, <1>2, <1>4, TwoSums
  <1>6. Sum(A, w) = Sum(B, w) + Sum(L \cup J, w)
    BY <1>1, <1>2, <1>4, TwoSums
  <1>7. QED BY <1>5, <1>6 DEF A, B, L, J

\* What modularity gains is twice what the move gains.
LEMMA GainIsTwice ==
  ASSUME NEW m \in Int, NEW wb \in Int, NEW wo \in Int, NEW l \in Int, NEW jb \in Int, NEW jo \in Int,
         NEW sb \in Int, NEW so \in Int, NEW k \in Int,
         jb * m - sb * k >= jo * m - (so - k) * k
  PROVE  (2 * m * (wb + (l + jb)) - (sb + k) * (sb + k)) - (2 * m * wb - sb * sb)
           + ((2 * m * wo - (so - k) * (so - k)) - (2 * m * (wo + (l + jo)) - so * so)) >= 0
  <1>1. (2 * m * (wb + (l + jb)) - (sb + k) * (sb + k)) - (2 * m * wb - sb * sb)
           + ((2 * m * wo - (so - k) * (so - k)) - (2 * m * (wo + (l + jo)) - so * so))
          = 2 * (jb * m - sb * k) - 2 * (jo * m - (so - k) * k)
    OBVIOUS
  <1>2. jb * m - sb * k \in Int /\ jo * m - (so - k) * k \in Int
    OBVIOUS
  <1>3. QED BY <1>1, <1>2

\* No visit lowers modularity.
LEMMA VisitImproves ==
  ASSUME LevelInv, NEW v, NEW o, NEW b, Visited(v, o, b)
  PROVE  Q' >= Q
  <1> DEFINE c == [z \in 1 .. N |-> CommOf(z)]
             e == [z \in 1 .. N |-> CommOf(z)']
             n == level.n
             k == level.degree[v]
             w(f, x) == Sum(Within(graph, f, x), Weights(graph))
             l == Sum(Within(graph, finalComm, v), Weights(graph))
             j(x) == Sum(Joined(graph, finalComm, Into(v, x)), Weights(graph))
             d(f, x) == Sum(Part(1 .. N, f, x), EntityDegree(graph))
             m == 2 * TotalWeight(graph)
  <1>1. /\ v \in 1 .. n /\ o = comm[v] /\ o \in 1 .. n /\ b \in 1 .. n
        /\ comm' = [comm EXCEPT ![v] = b] /\ comm \in [1 .. n -> 1 .. n]
        /\ b # o => Gains(v)[b] >= Gains(v)[o]
        /\ graph' = graph /\ finalComm' = finalComm /\ level' = level
    BY DEF LevelInv, Visited
  <1>2. /\ Proper(graph, N) /\ n \in Nat /\ N \in Nat /\ n <= N
        /\ finalComm \in [1 .. N -> 1 .. n] /\ k \in Nat
        /\ \A u \in 1 .. n : comm'[u] = IF u = v THEN b ELSE comm[u]
        /\ comm' \in [1 .. n -> 1 .. n]
    BY <1>1, LevelTyped, LouvainBounds DEF Stands, LevelInv
  <1>3. Q = Quality(graph, c) /\ Q' = Quality(graph, e)
    <2>1. Q = Quality(graph, c)
      BY QIs
    <2>2. Q' = Quality(graph', e)
      BY QIs
    <2>3. QED BY <1>1, <2>1, <2>2
  <1>4. /\ c \in [1 .. N -> 1 .. N] /\ e \in [1 .. N -> 1 .. N]
        /\ \A z \in 1 .. N : c[z] = comm[finalComm[z]] /\ e[z] = comm'[finalComm[z]]
        /\ c = [z \in 1 .. N |-> c[z]] /\ e = [z \in 1 .. N |-> e[z]]
    <2>1. \A z \in 1 .. N : /\ finalComm[z] \in 1 .. n /\ CommOf(z) = comm[finalComm[z]]
                            /\ CommOf(z)' = comm'[finalComm[z]]
      BY <1>1, <1>2 DEF CommOf
    <2>2. \A z \in 1 .. N : CommOf(z) \in 1 .. n /\ CommOf(z)' \in 1 .. n
      <3>1. \A z \in 1 .. N : comm[finalComm[z]] \in 1 .. n /\ comm'[finalComm[z]] \in 1 .. n
        BY <1>1, <1>2
      <3>2. QED BY <2>1, <3>1
    <2>3. 1 .. n \subseteq 1 .. N
      BY <1>2
    <2>4. QED BY <2>1, <2>2, <2>3
  <1> HIDE DEF c, e
  <1>5. Quality(graph, c) = Sum(1 .. N, Shares(graph, c)) /\ Quality(graph, e) = Sum(1 .. N, Shares(graph, e))
    BY <1>2, <1>4, QualityIs
  <1>6. /\ \A x \in 1 .. N : Shares(graph, c)[x] = Share(graph, c, x) /\ Shares(graph, e)[x] = Share(graph, e, x)
        /\ \A x \in 1 .. N : Share(graph, c, x) \in Int /\ Share(graph, e, x) \in Int
    BY <1>2, SharesAre DEF Shares
  <1>7. CASE b = o
    <2>1. \A z \in 1 .. N : e[z] = c[z]
      BY <1>1, <1>2, <1>4, <1>7
    <2>2. e = c
      BY <1>4, <2>1
    <2>3. Quality(graph, c) \in Int
      BY <1>2, <1>4, QualityIs
    <2>4. QED BY <1>3, <2>2, <2>3
  <1>8. CASE b # o
    <2>1. \A z \in 1 .. N : /\ finalComm[z] = v => e[z] = b /\ c[z] = o
                            /\ finalComm[z] # v => e[z] = c[z]
      <3>1. \A z \in 1 .. N : /\ finalComm[z] \in 1 .. n
                              /\ comm'[finalComm[z]] = IF finalComm[z] = v THEN b ELSE comm[finalComm[z]]
        BY <1>2
      <3>2. QED BY <1>1, <1>4, <3>1
    <2>2. ASSUME NEW x \in (1 .. N) \ {o, b} PROVE Share(graph, e, x) = Share(graph, c, x)
      <3>1. \A z \in 1 .. N : c[z] = x <=> e[z] = x
        BY <2>1
      <3>2. \A i \in DOMAIN graph : graph[i].a \in 1 .. N /\ graph[i].b \in 1 .. N
        BY <1>2, EdgesAre
      <3>3. Within(graph, e, x) = Within(graph, c, x) /\ Part(1 .. N, e, x) = Part(1 .. N, c, x)
        BY <3>1, <3>2 DEF Within, Part
      <3>4. QED BY <3>3 DEF Share
    <2>3. w(e, b) = w(c, b) + (l + j(b)) /\ w(c, o) = w(e, o) + (l + j(o))
      <3>1. Entered(c, e, v, b)
        BY <1>4, <1>8, <2>1 DEF Entered
      <3>2. Entered(e, c, v, o)
        BY <1>4, <1>8, <2>1 DEF Entered
      <3>3. QED BY <3>1, <3>2, EnteredSums
    <2>4. d(c, b) = sigmaTot[b] /\ d(c, o) = sigmaTot[o] /\ d(e, b) = sigmaTot[b] + k /\ d(e, o) = sigmaTot[o] - k
      <3>1. Totals /\ Totals' /\ level' = level
        BY <1>1, VisitKeepsTotals DEF LevelInv
      <3>2. Composed(c, comm, finalComm, N) /\ Composed(e, comm', finalComm, N)
        BY <1>4 DEF Composed
      <3>3. /\ \A x : d(c, x) = Sum(Part(1 .. level.n, comm, x), level.degree)
            /\ \A x : d(e, x) = Sum(Part(1 .. level.n, comm', x), level.degree)
        BY <3>2, DegreeOfComm
      <3>4. d(c, b) = sigmaTot[b] /\ d(c, o) = sigmaTot[o] /\ d(e, b) = sigmaTot'[b] /\ d(e, o) = sigmaTot'[o]
        <4>1. /\ \A x \in 1 .. level.n : sigmaTot[x] = Sum(Part(1 .. level.n, comm, x), level.degree)
              /\ \A x \in 1 .. level.n : sigmaTot'[x] = Sum(Part(1 .. level.n, comm', x), level.degree)
          BY <3>1 DEF Totals
        <4>2. b \in 1 .. level.n /\ o \in 1 .. level.n
          BY <1>1
        <4> HIDE DEF d, n
        <4>3. QED BY <3>3, <4>1, <4>2
      <3>5. /\ sigmaTot'[b] = sigmaTot[b] + k - 0 /\ sigmaTot'[o] = sigmaTot[o] + 0 - k
        BY <1>1, <1>8 DEF Visited
      <3>6. sigmaTot[b] \in Int /\ sigmaTot[o] \in Int
        BY <1>1, <3>1 DEF Totals
      <3> HIDE DEF d, k
      <3>7. QED BY <1>2, <3>4, <3>5, <3>6 DEF k
    <2>5. /\ m \in Nat /\ sigmaTot[b] \in Nat /\ sigmaTot[o] \in Nat
          /\ l \in Nat /\ j(b) \in Nat /\ j(o) \in Nat /\ w(c, b) \in Nat /\ w(e, o) \in Nat
      <3>1. \A I \in SUBSET DOMAIN graph : Sum(I, Weights(graph)) \in Nat
        BY <1>2, EdgesAre
      <3>2. l \in Nat /\ j(b) \in Nat /\ j(o) \in Nat /\ w(c, b) \in Nat /\ w(e, o) \in Nat
        BY <3>1 DEF Within, Joined
      <3>3. m \in Nat
        BY <1>2, SharesAre
      <3>4. sigmaTot \in [1 .. level.n -> Nat]
        BY <1>1, GainsAre
      <3>5. sigmaTot[b] \in Nat /\ sigmaTot[o] \in Nat
        BY <1>1, <3>4
      <3>6. QED BY <3>2, <3>3, <3>5
    <2>6. j(b) * m - sigmaTot[b] * k >= j(o) * m - (sigmaTot[o] - k) * k
      <3>1. Gains(v)[b] = j(b) * M2 - sigmaTot[b] * k
        BY <1>1, <1>8, GainsAre
      <3>2. Gains(v)[o] = j(o) * M2 - (sigmaTot[o] - k) * k
        BY <1>1, GainsAre
      <3>3. M2 = m
        BY DEF M2
      <3>4. QED BY <1>1, <1>8, <3>1, <3>2, <3>3
    <2>7. /\ Share(graph, c, b) = 2 * m * w(c, b) - d(c, b) * d(c, b)
          /\ Share(graph, c, o) = 2 * m * w(c, o) - d(c, o) * d(c, o)
          /\ Share(graph, e, b) = 2 * m * w(e, b) - d(e, b) * d(e, b)
          /\ Share(graph, e, o) = 2 * m * w(e, o) - d(e, o) * d(e, o)
      BY DEF Share
    <2> HIDE DEF w, l, j, d, m, k, n
    <2>8. (Share(graph, e, b) - Share(graph, c, b)) + (Share(graph, e, o) - Share(graph, c, o)) >= 0
      <3> PICK mm, wb, wo, ll, jb, jo, sb, so, kk :
              /\ mm = m /\ wb = w(c, b) /\ wo = w(e, o) /\ ll = l /\ jb = j(b) /\ jo = j(o)
              /\ sb = sigmaTot[b] /\ so = sigmaTot[o] /\ kk = k
        OBVIOUS
      <3>1. /\ mm \in Int /\ wb \in Int /\ wo \in Int /\ ll \in Int /\ jb \in Int /\ jo \in Int
            /\ sb \in Int /\ so \in Int /\ kk \in Int
            /\ jb * mm - sb * kk >= jo * mm - (so - kk) * kk
        BY <1>2, <2>5, <2>6
      <3>2. (2 * mm * (wb + (ll + jb)) - (sb + kk) * (sb + kk)) - (2 * mm * wb - sb * sb)
              + ((2 * mm * wo - (so - kk) * (so - kk)) - (2 * mm * (wo + (ll + jo)) - so * so)) >= 0
        BY ONLY <3>1, GainIsTwice
      <3>3. /\ Share(graph, c, b) = 2 * mm * wb - sb * sb
            /\ Share(graph, c, o) = 2 * mm * (wo + (ll + jo)) - so * so
            /\ Share(graph, e, b) = 2 * mm * (wb + (ll + jb)) - (sb + kk) * (sb + kk)
            /\ Share(graph, e, o) = 2 * mm * wo - (so - kk) * (so - kk)
        BY <2>3, <2>4, <2>7
      <3>4. QED BY <3>2, <3>3
    <2>9. Sum(1 .. N, Shares(graph, e)) = Sum(1 .. N, Shares(graph, c))
            + (Share(graph, e, b) - Share(graph, c, b)) + (Share(graph, e, o) - Share(graph, c, o))
      <3> PICK f, g : f = Shares(graph, c) /\ g = Shares(graph, e)
        OBVIOUS
      <3>1. /\ IsFiniteSet(1 .. N) /\ b \in 1 .. N /\ o \in 1 .. N
        <4>1. IsFiniteSet(1 .. N)
          BY <1>2, FS_Interval
        <4>2. b \in 1 .. N /\ o \in 1 .. N
          BY <1>1, <1>2 DEF n
        <4>3. QED BY <4>1, <4>2
      <3>2. \A z \in 1 .. N : f[z] \in Int /\ g[z] \in Int
        BY <1>6
      <3>3. \A z \in (1 .. N) \ {b, o} : g[z] = f[z]
        BY <1>6, <2>2
      <3>4. Sum(1 .. N, g) = Sum(1 .. N, f) + (g[b] - f[b]) + (g[o] - f[o])
        <4>1. b # o
          BY <1>8
        <4>2. Changed(1 .. N, b, o, f, g)
          BY <3>1, <3>2, <3>3, <4>1 DEF Changed
        <4>3. QED BY <4>2, SumChanges
      <3>5. QED BY <1>6, <3>1, <3>4
    <2>10. Quality(graph, e) >= Quality(graph, c)
      <3> PICK q, r, s, t, u, p : /\ q = Quality(graph, e) /\ r = Quality(graph, c) /\ s = Share(graph, e, b)
                                  /\ t = Share(graph, c, b) /\ u = Share(graph, e, o) /\ p = Share(graph, c, o)
        OBVIOUS
      <3>1. q = r + (s - t) + (u - p) /\ (s - t) + (u - p) >= 0
        BY <1>5, <2>8, <2>9
      <3>2. b \in 1 .. N /\ o \in 1 .. N
        BY <1>1, <1>2 DEF n
      <3>3. r \in Int /\ s \in Int /\ t \in Int /\ u \in Int /\ p \in Int
        BY <1>2, <1>4, <1>6, <3>2, QualityIs
      <3>4. q >= r
        BY ONLY <3>1, <3>3
      <3>5. QED BY <3>4
    <2>11. QED BY <1>3, <2>10
  <1>9. QED BY <1>7, <1>8

LEMMA UpToRises ==
  ASSUME NEW i \in Nat, NEW j \in Nat, NEW k \in Nat, i < j, j <= k
  PROVE  1 .. j \subseteq 1 .. k /\ 1 .. i \subseteq 1 .. k
  OBVIOUS

LEMMA FoldKeepsQ ==
  ASSUME LevelInv, NEW c, NEW m, Folded(c, m)
  PROVE  Q' = Q /\ Q \in Int
  <1> DEFINE d == [z \in 1 .. N |-> CommOf(z)]
             e == [z \in 1 .. N |-> CommOf(z)']
  <1>1. /\ m \in Nat /\ m < level.n /\ c \in [1 .. level.n -> 1 .. m]
        /\ \A u, v \in 1 .. level.n : c[u] = c[v] <=> comm[u] = comm[v]
        /\ comm' = Singletons(m) /\ finalComm' = Compose(c) /\ graph' = graph
    BY LevelTyped DEF Folded
  <1>2. /\ Proper(graph, N) /\ N \in Nat /\ level.n \in Nat /\ level.n <= N
        /\ finalComm \in [1 .. N -> 1 .. level.n] /\ comm \in [1 .. level.n -> 1 .. level.n]
    BY LevelTyped, LouvainBounds DEF Stands, LevelInv
  <1>3. Q = Quality(graph, d) /\ Q' = Quality(graph, e)
    <2>1. Q = Quality(graph, d)
      BY QIs
    <2>2. Q' = Quality(graph', e)
      BY QIs
    <2>3. QED BY <1>1, <2>1, <2>2
  <1>4. ASSUME NEW z \in 1 .. N
        PROVE  /\ finalComm[z] \in 1 .. level.n
               /\ d[z] = comm[finalComm[z]] /\ e[z] = c[finalComm[z]]
               /\ d[z] \in 1 .. N /\ e[z] \in 1 .. N
    <2>1. finalComm[z] \in 1 .. level.n /\ comm[finalComm[z]] \in 1 .. level.n /\ c[finalComm[z]] \in 1 .. m
      BY <1>1, <1>2
    <2>2. CommOf(z) = comm[finalComm[z]] /\ CommOf(z)' = c[finalComm[z]]
      <3>1. finalComm'[z] = c[finalComm[z]]
        BY <1>1 DEF Compose
      <3>2. comm'[c[finalComm[z]]] = c[finalComm[z]]
        BY <1>1, <2>1 DEF Singletons
      <3>3. QED BY <3>1, <3>2 DEF CommOf
    <2>3. comm[finalComm[z]] \in 1 .. N /\ c[finalComm[z]] \in 1 .. N
      <3>1. 1 .. level.n \subseteq 1 .. N /\ 1 .. m \subseteq 1 .. N
        <4>1. m \in Nat /\ level.n \in Nat /\ N \in Nat /\ m < level.n /\ level.n <= N
          BY <1>1, <1>2
        <4>2. QED BY ONLY <4>1, UpToRises
      <3>2. QED BY <2>1, <3>1
    <2>4. QED BY <2>1, <2>2, <2>3
  <1>5. d = [z \in 1 .. N |-> d[z]] /\ e = [z \in 1 .. N |-> e[z]]
    OBVIOUS
  <1> HIDE DEF d, e
  <1>6. d \in [1 .. N -> 1 .. N] /\ e \in [1 .. N -> 1 .. N]
    BY <1>4, <1>5
  <1>7. \A u, v \in 1 .. N : d[u] = d[v] <=> e[u] = e[v]
    BY <1>1, <1>4
  <1>8. Quality(graph, e) = Quality(graph, d) /\ Quality(graph, d) \in Int
    BY <1>2, <1>6, <1>7, QualityOfNames, QualityIs
  <1>9. QED BY <1>3, <1>8

\* No step lowers modularity, and every level is smaller than the one before
\* (NoStepWorse; localMoving, aggregate): that passes end early, which
\* ModularityNeverFalls adds, is seen on the instance only.
THEOREM NoStepIsWorse == LouvainSpec => [][NoStepWorse]_louvainVars
  <1>1. LevelInv /\ [LouvainNext]_louvainVars => [NoStepWorse]_louvainVars
    <2>1. SUFFICES ASSUME LevelInv, LouvainNext PROVE NoStepWorse
      OBVIOUS
    <2>2. CASE Visit
      <3>1. PICK v, o, b : Visited(v, o, b)
        BY <2>1, <2>2, VisitIs
      <3>2. Q' >= Q /\ level' = level
        <4>1. Q' >= Q
          BY <2>1, <3>1, VisitImproves
        <4>2. level' = level
          BY <3>1 DEF Visited
        <4>3. QED BY <4>1, <4>2
      <3>3. QED BY <3>2 DEF NoStepWorse
    <2>3. CASE Aggregate
      <3>1. PICK c, m : Folded(c, m)
        BY <2>1, <2>3, AggregateIs
      <3>2. Q' = Q /\ Q \in Int /\ level'.n = m /\ m < level.n
        BY <2>1, <3>1, FoldKeepsQ, FoldKeeps DEF Folded
      <3>3. QED BY <3>2 DEF NoStepWorse
    <2>4. CASE UNCHANGED <<graph, level, comm, finalComm>>
      <3>1. Q' = Q
        BY <2>4 DEF Q, CommOf, Level0, M2
      <3>2. Q \in Int
        <4> DEFINE c == [v \in 1 .. N |-> CommOf(v)]
        <4>1. c \in [1 .. N -> 1 .. N] /\ Proper(graph, N)
          <5>1. /\ Proper(graph, N) /\ finalComm \in [1 .. N -> 1 .. level.n]
                /\ comm \in [1 .. level.n -> 1 .. level.n]
            BY <2>1, LevelTyped DEF Stands, LevelInv
          <5>2. level.n \in Nat /\ N \in Nat /\ level.n <= N
            BY <2>1, LevelTyped, LouvainBounds DEF LevelInv
          <5>3. \A x \in 1 .. level.n : x \in 1 .. N
            BY ONLY <5>2
          <5>4. \A v \in 1 .. N : CommOf(v) \in 1 .. level.n
            BY <5>1 DEF CommOf
          <5>5. QED BY <5>1, <5>3, <5>4
        <4> HIDE DEF c
        <4>2. Quality(graph, c) \in Int
          BY <4>1, QualityIs
        <4>3. QED BY <4>2, QIs DEF c
      <3>3. QED BY <2>4, <3>1, <3>2 DEF NoStepWorse
    <2>5. CASE NextPass
      BY <2>4, <2>5 DEF NextPass
    <2>6. CASE NothingMoves
      BY <2>4, <2>6 DEF NothingMoves
    <2>7. CASE Cancel
      BY <2>4, <2>7 DEF Cancel
    <2>8. QED BY <2>1, <2>2, <2>3, <2>5, <2>6, <2>7 DEF LouvainNext
  <1>2. QED BY <1>1, LevelInvHolds, PTL DEF LouvainSpec
=============================================================================
