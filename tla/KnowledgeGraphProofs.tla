------------------------ MODULE KnowledgeGraphProofs ------------------------
(***************************************************************************)
(* What holds of KnowledgeGraph for every document, every number of edge   *)
(* jobs and reviews at once, and every limit on the entities of a chunk;   *)
(* and of GraphLegs for every graph.                                       *)
(***************************************************************************)
EXTENDS KnowledgeGraph, FiniteSetTheorems, TLAPS

(***************************************************************************)
(* The inductive invariant                                                 *)
(***************************************************************************)
Keys == Chunks \X Pairs
Row == [relation : Answers \cup {"NULL"}, read : Nat]

JobState ==
    [pc : {"idle", "delete", "create"}, keys : SUBSET Keys, gen : Nat,
     stale : BOOLEAN, last : BOOLEAN]

Reading(of, items) ==
    [of : {of}, read : SUBSET items, gen : Nat, text : Nat, ident : [Names -> Nat], alone : BOOLEAN]

ReviewState == Reading("nothing", Pairs) \cup Reading("edges", Keys) \cup Reading("links", Pairs)

Shape ==
    /\ gen \in Nat /\ text \in Nat /\ ident \in [Names -> Nat] /\ settled \in BOOLEAN
    /\ DOMAIN mentions \subseteq Chunks
    /\ \A c \in DOMAIN mentions : mentions[c] \subseteq Names
    /\ edgeRuns \in [Runs -> JobState]
    /\ reviews \in [Reviewers -> ReviewState]

\* Every edge joins two mentions of one chunk, and was read with them.
EdgesFit ==
    /\ DOMAIN edges \subseteq EdgeKeys
    /\ \A k \in DOMAIN edges : edges[k] \in Row /\ edges[k].read = gen
    /\ settled => EdgeKeys \subseteq DOMAIN edges

LinksFit ==
    /\ DOMAIN links \subseteq Pairs
    /\ \A p \in DOMAIN links : links[p] \in Answers

\* What a job listed is there unless it was replaced, and is all there is
\* unless something was added.
JobKnows(q) ==
    q.pc # "idle" =>
       /\ q.gen <= gen
       /\ q.gen = gen => q.keys \subseteq EdgeKeys
       /\ ~q.stale => q.gen = gen /\ q.keys = EdgeKeys

\* Nobody but a review answers what it read, unless another of its kind ran
\* beside it.
ReviewKnows(q) ==
    /\ q.gen <= gen
    /\ q.of = "edges" /\ q.alone /\ q.gen = gen =>
          \A k \in q.read \cap DOMAIN edges : edges[k].relation = "NULL"
    /\ q.of = "links" /\ q.alone => q.read \cap DOMAIN links = {}

Alone ==
    \A v, w \in Reviewers :
       reviews[v].of # "nothing" /\ reviews[v].alone /\ reviews[w].of = reviews[v].of => v = w

IInv ==
    /\ Shape
    /\ EdgesFit
    /\ LinksFit
    /\ \A r \in Runs : JobKnows(edgeRuns[r])
    /\ \A v \in Reviewers : ReviewKnows(reviews[v])
    /\ Alone

(***************************************************************************)
(* Pairs                                                                   *)
(***************************************************************************)
LEMMA TwoMakeAPair ==
  ASSUME NEW S, NEW a \in S, NEW b \in S, a # b
  PROVE  {a, b} \in kSubset(2, S)
  <1>1. IsFiniteSet({a}) /\ Cardinality({a}) = 1
    BY FS_Singleton
  <1>2. Cardinality({a} \cup {b}) = Cardinality({a}) + 1
    BY <1>1, FS_AddElement
  <1>3. {a} \cup {b} = {a, b}
    OBVIOUS
  <1>4. Cardinality({a, b}) = 2
    BY <1>1, <1>2, <1>3
  <1>5. QED BY <1>4 DEF kSubset

\* EdgeKeys, of mentions that may be those of the next state.
KeysOf(m) ==
    UNION {{<<c, p>> : p \in kSubset(2, m[c])} :
           c \in {c \in DOMAIN m : Cardinality(m[c]) <= MaxEntitiesForEdges}}

LEMMA KeyOf ==
  ASSUME NEW m
  PROVE  /\ \A c, p : <<c, p>> \in KeysOf(m) <=> /\ c \in DOMAIN m /\ p \in kSubset(2, m[c])
                                               /\ Cardinality(m[c]) <= MaxEntitiesForEdges
         /\ \A k \in KeysOf(m) : k = <<k[1], k[2]>>
  BY DEF KeysOf

LEMMA KeysGrow ==
  ASSUME NEW m, NEW n, DOMAIN m \subseteq DOMAIN n, \A c \in DOMAIN m : n[c] = m[c]
  PROVE  KeysOf(m) \subseteq KeysOf(n)
  BY DEF KeysOf

LEMMA KeysTyped ==
  ASSUME NEW m, DOMAIN m \subseteq Chunks, \A c \in DOMAIN m : m[c] \subseteq Names
  PROVE  KeysOf(m) \subseteq Keys
  <1>1. ASSUME NEW k \in KeysOf(m) PROVE k \in Keys
    <2>1. PICK c, p : k = <<c, p>> /\ c \in DOMAIN m /\ p \in kSubset(2, m[c])
      BY KeyOf
    <2>2. p \in Pairs
      BY <2>1 DEF Pairs, kSubset
    <2>3. QED BY <2>1, <2>2 DEF Keys
  <1>2. QED BY <1>1

LEMMA ChainsArePairs ==
  ASSUME NEW chunks, NEW caps, NEW recorded
  PROVE  CandidateChains(chunks, caps, recorded) \subseteq Pairs \ recorded
  <1>1. ASSUME NEW p \in ThreeHop(Sym(chunks, caps)) PROVE {p[1], p[2]} \in Pairs
    <2>1. p[1] \in Names /\ p[2] \in Names /\ p[1] # p[2]
      BY DEF ThreeHop
    <2>2. QED BY <2>1, TwoMakeAPair DEF Pairs
  <1>2. QED BY <1>1 DEF CandidateChains

(***************************************************************************)
(* Jobs and reviews that wait                                              *)
(***************************************************************************)
LEMMA IdleFits ==
  /\ IdleRun \in JobState /\ IdleReview \in ReviewState
  /\ IdleRun.pc = "idle" /\ IdleReview.of = "nothing"
  /\ JobKnows(IdleRun)
  /\ gen \in Nat => ReviewKnows(IdleReview)
  BY DEF IdleRun, IdleReview, JobState, ReviewState, Reading, JobKnows, ReviewKnows

LEMMA SameJobs ==
  ASSUME gen' = gen, mentions' = mentions
  PROVE  \A q : JobKnows(q) => JobKnows(q)'
  BY DEF JobKnows, EdgeKeys

LEMMA JobsKept ==
  ASSUME IInv, gen' = gen, mentions' = mentions, edgeRuns' = edgeRuns
  PROVE  \A r \in Runs : JobKnows(edgeRuns[r])'
  <1>1. ASSUME NEW r \in Runs PROVE JobKnows(edgeRuns[r])'
    <2>1. PICK q : q = edgeRuns[r]
      OBVIOUS
    <2>2. JobKnows(q)'
      BY <2>1, SameJobs DEF IInv
    <2>3. QED BY <2>1, <2>2 DEF JobKnows
  <1>2. QED BY <1>1

\* Nothing is answered beside the reviews.
LEMMA SameReviews ==
  ASSUME IInv, gen' \in Nat, gen <= gen', DOMAIN links' \subseteq DOMAIN links,
         gen' = gen => \A k \in DOMAIN edges' :
            edges'[k].relation = "NULL" \/ (k \in DOMAIN edges /\ edges'[k] = edges[k]),
         NEW q \in ReviewState, ReviewKnows(q)
  PROVE  ReviewKnows(q)'
  <1>1. q.gen \in Nat /\ q.gen <= gen /\ gen \in Nat
    BY DEF IInv, Shape, ReviewState, Reading, ReviewKnows
  <1>2. q.gen <= gen'
    BY <1>1
  <1>3. q.gen = gen' => gen' = gen
    BY <1>1
  <1>4. QED BY <1>2, <1>3 DEF ReviewKnows

LEMMA ReviewsKept ==
  ASSUME IInv, gen' \in Nat, gen <= gen', DOMAIN links' \subseteq DOMAIN links,
         gen' = gen => \A k \in DOMAIN edges' :
            edges'[k].relation = "NULL" \/ (k \in DOMAIN edges /\ edges'[k] = edges[k]),
         reviews' = reviews
  PROVE  (\A v \in Reviewers : ReviewKnows(reviews[v])') /\ Alone'
  <1>1. ASSUME NEW v \in Reviewers PROVE ReviewKnows(reviews[v])'
    <2>1. PICK q : q = reviews[v]
      OBVIOUS
    <2>2. q \in ReviewState /\ ReviewKnows(q)
      BY <2>1 DEF IInv, Shape
    <2>3. ReviewKnows(q)'
      BY <2>2, SameReviews
    <2>4. QED BY <2>1, <2>3 DEF ReviewKnows
  <1>2. Alone'
    BY DEF IInv, Alone
  <1>3. QED BY <1>1, <1>2

LEMMA EdgesKept ==
  ASSUME IInv, edges' = edges, gen' = gen, mentions' = mentions, settled' => settled
  PROVE  EdgesFit'
  BY DEF IInv, EdgesFit, EdgeKeys

LEMMA LinksShrink ==
  ASSUME IInv, NEW S, links' = Without(links, S)
  PROVE  LinksFit' /\ DOMAIN links' \subseteq DOMAIN links
  BY DEF IInv, LinksFit, Without

(***************************************************************************)
(* The document is replaced                                                *)
(***************************************************************************)
LEMMA ReverseStep ==
  ASSUME IInv, ReverseCounts
  PROVE  IInv'
  <1>1. /\ gen' = gen /\ text' = text /\ mentions' = mentions /\ edges' = edges
        /\ edgeRuns' = edgeRuns /\ reviews' = reviews /\ settled' = settled
    BY DEF ReverseCounts
  <1>2. ident' \in [Names -> Nat]
    BY DEF ReverseCounts, IInv, Shape
  <1>3. \E S : links' = Without(links, S)
    BY DEF ReverseCounts
  <1>4. Shape'
    BY <1>1, <1>2 DEF IInv, Shape
  <1>5. EdgesFit'
    BY <1>1, EdgesKept
  <1>6. LinksFit' /\ DOMAIN links' \subseteq DOMAIN links
    BY <1>3, LinksShrink
  <1>7. \A r \in Runs : JobKnows(edgeRuns[r])'
    BY <1>1, JobsKept
  <1>8. (\A v \in Reviewers : ReviewKnows(reviews[v])') /\ Alone'
    BY <1>1, <1>6, ReviewsKept DEF IInv, Shape
  <1>9. QED BY <1>4, <1>5, <1>6, <1>7, <1>8 DEF IInv

\* The jobs know that the mentions have changed.
LEMMA JobsTold ==
  ASSUME IInv, gen' \in Nat, MentionsChange,
         gen' = gen => KeysOf(mentions) \subseteq KeysOf(mentions'), gen <= gen'
  PROVE  edgeRuns' \in [Runs -> JobState] /\ \A r \in Runs : JobKnows(edgeRuns[r])'
  <1>1. ASSUME NEW r \in Runs
        PROVE  /\ edgeRuns'[r] = [edgeRuns[r] EXCEPT !.stale = TRUE]
               /\ edgeRuns'[r] \in JobState
               /\ JobKnows(edgeRuns[r])'
    <2>1. PICK q : q = edgeRuns[r]
      OBVIOUS
    <2>2. q \in JobState /\ JobKnows(q)
      BY <2>1 DEF IInv, Shape
    <2>3. PICK p : p = edgeRuns'[r]
      OBVIOUS
    <2>4. p = [q EXCEPT !.stale = TRUE]
      BY <2>1, <2>3 DEF MentionsChange
    <2>5. p \in JobState /\ p.stale /\ p.pc = q.pc /\ p.gen = q.gen /\ p.keys = q.keys
      BY <2>2, <2>4 DEF JobState
    <2>6. p.pc # "idle" => p.gen <= gen /\ p.gen \in Nat /\ (p.gen = gen => p.keys \subseteq EdgeKeys)
      BY <2>2, <2>5 DEF JobKnows, JobState
    <2>7. gen \in Nat
      BY DEF IInv, Shape
    <2>8. p.pc # "idle" => p.gen <= gen' /\ (p.gen = gen' => p.gen = gen /\ gen' = gen)
      BY <2>6, <2>7
    <2>9. p.pc # "idle" /\ p.gen = gen' => p.keys \subseteq EdgeKeys'
      BY <2>6, <2>8 DEF EdgeKeys, KeysOf
    <2>10. JobKnows(p)'
      BY <2>5, <2>8, <2>9 DEF JobKnows
    <2>11. QED BY <2>1, <2>3, <2>4, <2>5, <2>10 DEF JobKnows
  <1>2. edgeRuns' \in [Runs -> JobState]
    <2>1. edgeRuns' = [r \in Runs |-> edgeRuns'[r]]
      BY DEF MentionsChange
    <2>2. QED BY <1>1, <2>1
  <1>3. QED BY <1>1, <1>2

\* The mentions go, with their edges.
LEMMA MentionsGo ==
  ASSUME IInv, gen' = gen + 1, text' \in Nat, mentions' = <<>>, edges' = NoEdges, MentionsChange,
         UNCHANGED <<ident, reviews>>, DOMAIN links' \subseteq DOMAIN links, LinksFit'
  PROVE  IInv'
  <1>1. gen \in Nat /\ gen' \in Nat /\ gen <= gen' /\ gen' # gen
    BY DEF IInv, Shape
  <1>2. edgeRuns' \in [Runs -> JobState] /\ \A r \in Runs : JobKnows(edgeRuns[r])'
    BY <1>1, JobsTold
  <1>3. (\A v \in Reviewers : ReviewKnows(reviews[v])') /\ Alone'
    BY <1>1, ReviewsKept
  <1>4. settled' = FALSE
    BY DEF MentionsChange
  <1>5. Shape'
    <2>1. DOMAIN mentions' = {}
      OBVIOUS
    <2>2. ident' = ident /\ reviews' = reviews
      OBVIOUS
    <2>3. QED BY <1>1, <1>2, <1>4, <2>1, <2>2 DEF IInv, Shape
  <1>6. EdgesFit'
    BY <1>4 DEF EdgesFit, NoEdges
  <1>7. QED BY <1>2, <1>3, <1>5, <1>6 DEF IInv

LEMMA ClearStep ==
  ASSUME IInv, ClearEntities
  PROVE  IInv'
  <1>1. links' = links /\ text' = text
    BY DEF ClearEntities
  <1>2. LinksFit' /\ text' \in Nat
    BY <1>1 DEF IInv, Shape, LinksFit
  <1>3. QED BY <1>1, <1>2, MentionsGo DEF ClearEntities

LEMMA ReplaceStep ==
  ASSUME IInv, ReplaceChunks
  PROVE  IInv'
  <1>1. links' = <<>> /\ text' = text + 1
    BY DEF ReplaceChunks
  <1>2. LinksFit' /\ text' \in Nat /\ DOMAIN links' \subseteq DOMAIN links
    BY <1>1 DEF IInv, Shape, LinksFit
  <1>3. QED BY <1>2, MentionsGo DEF ReplaceChunks

LEMMA SavedStep ==
  ASSUME IInv, NEW c \in Chunks, SaveEntities(c)
  PROVE  IInv'
  <1>1. PICK S \in Found[c] : mentions' = With(mentions, [d \in {c} |-> S])
    BY DEF SaveEntities
  <1>2. /\ gen' = gen /\ text' = text /\ ident' = ident /\ edges' = edges /\ links' = links
        /\ reviews' = reviews /\ c \notin DOMAIN mentions /\ MentionsChange
    BY DEF SaveEntities
  <1>3. /\ DOMAIN mentions' = DOMAIN mentions \cup {c}
        /\ \A d \in DOMAIN mentions : mentions'[d] = mentions[d]
        /\ mentions'[c] = S
    BY <1>1, <1>2 DEF With
  <1>4. S \subseteq Names
    BY GraphBounds
  <1>5. KeysOf(mentions) \subseteq KeysOf(mentions')
    BY <1>3, KeysGrow
  <1>6. gen \in Nat /\ gen' \in Nat /\ gen <= gen'
    BY <1>2 DEF IInv, Shape
  <1>7. edgeRuns' \in [Runs -> JobState] /\ \A r \in Runs : JobKnows(edgeRuns[r])'
    BY <1>2, <1>5, <1>6, JobsTold
  <1>8. (\A v \in Reviewers : ReviewKnows(reviews[v])') /\ Alone'
    BY <1>2, <1>6, ReviewsKept
  <1>9. settled' = FALSE
    BY <1>2 DEF MentionsChange
  <1>10. Shape'
    BY <1>2, <1>3, <1>4, <1>7, <1>9 DEF IInv, Shape
  <1>11. EdgesFit'
    <2>1. EdgeKeys \subseteq EdgeKeys'
      BY <1>5 DEF EdgeKeys, KeysOf
    <2>2. QED BY <1>2, <1>9, <2>1 DEF IInv, EdgesFit
  <1>12. LinksFit'
    BY <1>2 DEF IInv, LinksFit
  <1>13. QED BY <1>7, <1>8, <1>10, <1>11, <1>12 DEF IInv

LEMMA SameGraph ==
  ASSUME IInv, UNCHANGED <<gen, text, ident, mentions, edges, links, edgeRuns, reviews, settled>>
  PROVE  IInv'
  <1>1. Shape' /\ LinksFit'
    BY DEF IInv, Shape, LinksFit
  <1>2. EdgesFit'
    BY EdgesKept
  <1>3. \A r \in Runs : JobKnows(edgeRuns[r])'
    BY JobsKept
  <1>4. (\A v \in Reviewers : ReviewKnows(reviews[v])') /\ Alone'
    BY ReviewsKept DEF IInv, Shape
  <1>5. QED BY <1>1, <1>2, <1>3, <1>4 DEF IInv

LEMMA PurgeStep ==
  ASSUME IInv, Purge
  PROVE  IInv'
  <1>1. /\ gen' = gen /\ text' = text /\ ident' = ident /\ mentions' = mentions /\ edges' = edges
        /\ edgeRuns' = edgeRuns /\ reviews' = reviews /\ settled' = settled
    BY DEF Purge, rows
  <1>2. \E S : links' = Without(links, S)
    BY DEF Purge
  <1>3. LinksFit' /\ DOMAIN links' \subseteq DOMAIN links
    BY <1>2, LinksShrink
  <1>4. Shape'
    BY <1>1 DEF IInv, Shape
  <1>5. EdgesFit'
    BY <1>1, EdgesKept
  <1>6. \A r \in Runs : JobKnows(edgeRuns[r])'
    BY <1>1, JobsKept
  <1>7. (\A v \in Reviewers : ReviewKnows(reviews[v])') /\ Alone'
    BY <1>1, <1>3, ReviewsKept DEF IInv, Shape
  <1>8. QED BY <1>3, <1>4, <1>5, <1>6, <1>7 DEF IInv

(***************************************************************************)
(* The edge job                                                            *)
(***************************************************************************)
\* A job takes a step: the others may only lose that they cleared last.
LEMMA JobsMove ==
  ASSUME IInv, gen' = gen, mentions' = mentions, NEW r \in Runs, NEW q \in JobState, JobKnows(q),
         edgeRuns' = [edgeRuns EXCEPT ![r] = q]
         \/ edgeRuns' = [s \in Runs |-> IF s # r THEN [edgeRuns[s] EXCEPT !.last = FALSE] ELSE q]
  PROVE  edgeRuns' \in [Runs -> JobState] /\ \A s \in Runs : JobKnows(edgeRuns[s])'
  <1>1. ASSUME NEW s \in Runs PROVE edgeRuns'[s] \in JobState /\ JobKnows(edgeRuns[s])'
    <2>1. PICK o : o = edgeRuns[s]
      OBVIOUS
    <2>2. o \in JobState /\ JobKnows(o)
      BY <2>1 DEF IInv, Shape
    <2>3. PICK p : p = edgeRuns'[s]
      OBVIOUS
    <2>4. p = q \/ p = o \/ p = [o EXCEPT !.last = FALSE]
      BY <2>1, <2>3 DEF IInv, Shape
    <2>5. p \in JobState /\ JobKnows(p)
      BY <2>2, <2>4 DEF JobState, JobKnows
    <2>6. JobKnows(p)'
      BY <2>5, SameJobs
    <2>7. QED BY <2>3, <2>5, <2>6 DEF JobKnows
  <1>2. edgeRuns' = [s \in Runs |-> edgeRuns'[s]]
    BY DEF IInv, Shape
  <1>3. QED BY <1>1, <1>2

\* A job takes a step that leaves the answers there are.
LEMMA JobStep ==
  ASSUME IInv, NEW r \in Runs, NEW q \in JobState, JobKnows(q),
         edgeRuns' = [edgeRuns EXCEPT ![r] = q]
         \/ edgeRuns' = [s \in Runs |-> IF s # r THEN [edgeRuns[s] EXCEPT !.last = FALSE] ELSE q],
         UNCHANGED <<rows, links, reviews>>, settled' \in BOOLEAN, EdgesFit',
         \A k \in DOMAIN edges' :
            edges'[k].relation = "NULL" \/ (k \in DOMAIN edges /\ edges'[k] = edges[k])
  PROVE  IInv'
  <1>1. /\ gen' = gen /\ text' = text /\ ident' = ident /\ mentions' = mentions /\ links' = links
        /\ reviews' = reviews
    BY DEF rows
  <1>2. edgeRuns' \in [Runs -> JobState] /\ \A s \in Runs : JobKnows(edgeRuns[s])'
    BY <1>1, JobsMove
  <1>3. (\A v \in Reviewers : ReviewKnows(reviews[v])') /\ Alone'
    BY <1>1, ReviewsKept DEF IInv, Shape
  <1>4. Shape' /\ LinksFit'
    BY <1>1, <1>2 DEF IInv, Shape, LinksFit
  <1>5. QED BY <1>2, <1>3, <1>4 DEF IInv

LEMMA ListStep ==
  ASSUME IInv, NEW r \in Runs, ListEntities(r)
  PROVE  IInv'
  <1>1. PICK q : q = [IdleRun EXCEPT !.pc = "delete", !.keys = EdgeKeys, !.gen = gen]
    OBVIOUS
  <1>2. EdgeKeys \subseteq Keys
    BY KeysTyped DEF IInv, Shape, EdgeKeys, KeysOf
  <1>3. /\ q \in JobState /\ q.keys = EdgeKeys /\ q.gen = gen
    BY <1>1, <1>2 DEF IInv, Shape, IdleRun, JobState
  <1>4. JobKnows(q)
    BY <1>3 DEF IInv, Shape, JobKnows
  <1>5. /\ edges' = edges /\ settled' = settled /\ UNCHANGED <<rows, links, reviews>>
        /\ edgeRuns' = [edgeRuns EXCEPT ![r] = q]
    BY <1>1 DEF ListEntities
  <1>6. EdgesFit'
    BY <1>5, EdgesKept DEF rows
  <1>7. settled' \in BOOLEAN
    BY <1>5 DEF IInv, Shape
  <1>8. QED BY <1>3, <1>4, <1>5, <1>6, <1>7, JobStep

LEMMA FailStep ==
  ASSUME IInv, NEW r \in Runs, RunFails(r)
  PROVE  IInv'
  <1>1. /\ edges' = edges /\ settled' = settled /\ UNCHANGED <<rows, links, reviews>>
        /\ edgeRuns' = [edgeRuns EXCEPT ![r] = IdleRun]
    BY DEF RunFails
  <1>2. EdgesFit'
    BY <1>1, EdgesKept DEF rows
  <1>3. settled' \in BOOLEAN
    BY <1>1 DEF IInv, Shape
  <1>4. QED BY <1>1, <1>2, <1>3, IdleFits, JobStep

LEMMA DeleteStep ==
  ASSUME IInv, NEW r \in Runs, DeleteEdges(r)
  PROVE  IInv'
  <1>1. edgeRuns[r] \in JobState /\ JobKnows(edgeRuns[r]) /\ edgeRuns[r].pc = "delete"
    BY DEF IInv, Shape, DeleteEdges
  <1>2. PICK q : q = IF edgeRuns[r].keys = {} THEN IdleRun
                     ELSE [edgeRuns[r] EXCEPT !.pc = "create", !.last = TRUE]
    OBVIOUS
  <1>3. q \in JobState /\ JobKnows(q)
    BY <1>1, <1>2, IdleFits DEF JobState, JobKnows
  <1>4. /\ edges' = NoEdges /\ UNCHANGED <<rows, links, reviews>> /\ mentions' = mentions
        /\ settled' = (edgeRuns[r].keys = {} /\ ~edgeRuns[r].stale)
        /\ edgeRuns' = [s \in Runs |-> IF s # r THEN [edgeRuns[s] EXCEPT !.last = FALSE] ELSE q]
    BY <1>2 DEF DeleteEdges, rows
  <1>5. settled' \in BOOLEAN
    BY <1>4
  <1>6. DOMAIN edges' = {}
    BY <1>4 DEF NoEdges
  <1>7. EdgeKeys' = EdgeKeys
    BY <1>4 DEF EdgeKeys
  <1>8. settled' => EdgeKeys = {}
    BY <1>1, <1>4 DEF JobKnows
  <1>9. EdgesFit'
    BY <1>6, <1>7, <1>8 DEF EdgesFit
  <1>10. QED BY <1>3, <1>4, <1>5, <1>6, <1>9, JobStep

LEMMA CreateStep ==
  ASSUME IInv, NEW r \in Runs, CreateEdges(r)
  PROVE  IInv'
  <1>1. PICK q : q = edgeRuns[r]
    OBVIOUS
  <1>2. q \in JobState /\ JobKnows(q) /\ q.pc = "create" /\ q.gen = gen
    BY <1>1 DEF IInv, Shape, CreateEdges
  <1>3. /\ edges' = With(edges, [k \in q.keys |-> [relation |-> "NULL", read |-> gen]])
        /\ edgeRuns' = [edgeRuns EXCEPT ![r] = IdleRun]
        /\ settled' = (settled \/ (q.last /\ ~q.stale))
        /\ UNCHANGED <<rows, links, reviews>> /\ gen' = gen /\ mentions' = mentions
    BY <1>1 DEF CreateEdges, rows
  <1>4. /\ DOMAIN edges' = DOMAIN edges \cup q.keys
        /\ \A k \in DOMAIN edges : edges'[k] = edges[k]
        /\ \A k \in DOMAIN edges' :
              k \in DOMAIN edges \/ edges'[k] = [relation |-> "NULL", read |-> gen]
    BY <1>3 DEF With
  <1>5. EdgeKeys' = EdgeKeys /\ gen \in Nat /\ settled \in BOOLEAN
    BY <1>3 DEF EdgeKeys, IInv, Shape
  <1>6. q.keys \subseteq EdgeKeys /\ (~q.stale => q.keys = EdgeKeys)
    BY <1>2 DEF JobKnows
  <1>7. [relation |-> "NULL", read |-> gen] \in Row
    BY <1>5 DEF Row
  <1>8. settled' \in BOOLEAN
    BY <1>2, <1>3, <1>5 DEF JobState
  <1>9. EdgesFit'
    <2>1. DOMAIN edges' \subseteq EdgeKeys'
      BY <1>4, <1>5, <1>6 DEF IInv, EdgesFit
    <2>2. ASSUME NEW k \in DOMAIN edges' PROVE edges'[k] \in Row /\ edges'[k].read = gen'
      BY <1>3, <1>4, <1>7, <2>2 DEF IInv, EdgesFit
    <2>3. settled' => EdgeKeys' \subseteq DOMAIN edges'
      BY <1>3, <1>4, <1>5, <1>6 DEF IInv, EdgesFit
    <2>4. QED BY <2>1, <2>2, <2>3 DEF EdgesFit
  <1>10. \A k \in DOMAIN edges' :
            edges'[k].relation = "NULL" \/ (k \in DOMAIN edges /\ edges'[k] = edges[k])
    BY <1>4
  <1>11. QED BY <1>3, <1>8, <1>9, <1>10, IdleFits, JobStep

(***************************************************************************)
(* Reviews                                                                 *)
(***************************************************************************)
LEMMA BeginsStep ==
  ASSUME IInv, NEW v \in Reviewers, NEW of \in {"edges", "links"}, NEW read,
         BeginReview(v, of, read),
         of = "edges" => read \subseteq {k \in DOMAIN edges : edges[k].relation = "NULL"},
         of = "links" => read \subseteq Pairs \ DOMAIN links
  PROVE  IInv'
  <1>1. /\ gen' = gen /\ text' = text /\ ident' = ident /\ mentions' = mentions /\ links' = links
        /\ edges' = edges /\ edgeRuns' = edgeRuns /\ settled' = settled
    BY DEF BeginReview, rows
  <1>2. PICK others : others = {w \in Reviewers : reviews[w].of = of}
    OBVIOUS
  <1>3. PICK new : new = [of |-> of, read |-> read, gen |-> gen, text |-> text, ident |-> ident,
                          alone |-> others = {}]
    OBVIOUS
  <1>4. reviews' = [w \in Reviewers |-> IF w = v THEN new
                       ELSE IF w \in others THEN [reviews[w] EXCEPT !.alone = FALSE] ELSE reviews[w]]
    BY <1>2, <1>3 DEF BeginReview
  <1>5. DOMAIN edges \subseteq Keys
    <2>1. EdgeKeys \subseteq Keys
      BY KeysTyped DEF IInv, Shape, EdgeKeys, KeysOf
    <2>2. QED BY <2>1 DEF IInv, EdgesFit
  <1>6. new \in ReviewState
    <2>1. gen \in Nat /\ text \in Nat /\ ident \in [Names -> Nat]
      BY DEF IInv, Shape
    <2>2. CASE of = "edges"
      BY <1>3, <1>5, <2>1, <2>2 DEF ReviewState, Reading
    <2>3. CASE of = "links"
      BY <1>3, <2>1, <2>3 DEF ReviewState, Reading
    <2>4. QED BY <2>2, <2>3
  <1>7. ReviewKnows(new)
    BY <1>3 DEF IInv, Shape, ReviewKnows
  <1>8. ASSUME NEW w \in Reviewers
        PROVE  /\ reviews'[w] \in ReviewState
               /\ ReviewKnows(reviews[w])'
               /\ w # v => reviews'[w].of = reviews[w].of
               /\ w # v /\ reviews'[w].alone => reviews[w].alone
               /\ w # v /\ w \in others => ~reviews'[w].alone
    <2>1. PICK o : o = reviews[w]
      OBVIOUS
    <2>2. o \in ReviewState /\ ReviewKnows(o)
      BY <2>1 DEF IInv, Shape
    <2>3. PICK p : p = reviews'[w]
      OBVIOUS
    <2>4. \/ p = new /\ w = v
          \/ p = [o EXCEPT !.alone = FALSE] /\ w # v
          \/ p = o /\ w # v /\ w \notin others
      BY <1>4, <2>1, <2>3
    <2>5. /\ p \in ReviewState
          /\ w # v => p.of = o.of /\ (p.alone => o.alone)
          /\ w # v /\ w \in others => ~p.alone
      BY <1>6, <2>2, <2>4 DEF ReviewState, Reading
    <2>6. ReviewKnows(p)
      BY <1>7, <2>2, <2>4 DEF ReviewState, Reading, ReviewKnows
    <2>7. ReviewKnows(p)'
      BY <1>1, <2>6 DEF ReviewKnows
    <2>8. QED BY <2>1, <2>3, <2>5, <2>7 DEF ReviewKnows
  <1>9. reviews' \in [Reviewers -> ReviewState]
    <2>1. reviews' = [w \in Reviewers |-> reviews'[w]]
      BY <1>4
    <2>2. QED BY <1>8, <2>1
  <1>10. Alone'
    <2>1. reviews'[v] = new /\ new.of = of /\ (new.alone <=> others = {})
      BY <1>3, <1>4
    <2>2. ASSUME NEW a \in Reviewers, NEW b \in Reviewers, reviews'[a].of # "nothing",
                 reviews'[a].alone, reviews'[b].of = reviews'[a].of
          PROVE  a = b
      <3>1. CASE a = v
        BY <1>2, <1>8, <2>1, <2>2, <3>1
      <3>2. CASE a # v /\ b = v
        BY <1>2, <1>8, <2>1, <2>2, <3>2
      <3>3. CASE a # v /\ b # v
        BY <1>8, <2>2, <3>3 DEF IInv, Alone
      <3>4. QED BY <3>1, <3>2, <3>3
    <2>3. QED BY <2>2 DEF Alone
  <1>11. Shape' /\ LinksFit'
    BY <1>1, <1>9 DEF IInv, Shape, LinksFit
  <1>12. EdgesFit'
    BY <1>1, EdgesKept
  <1>13. \A r \in Runs : JobKnows(edgeRuns[r])'
    BY <1>1, JobsKept
  <1>14. QED BY <1>8, <1>10, <1>11, <1>12, <1>13 DEF IInv

LEMMA ReadEdgesStep ==
  ASSUME IInv, NEW v \in Reviewers, ReadEdges(v)
  PROVE  IInv'
  BY BeginsStep DEF ReadEdges

LEMMA ReadChainsStep ==
  ASSUME IInv, NEW v \in Reviewers, ReadChains(v)
  PROVE  IInv'
  <1>1. PICK chunks : BeginReview(v, "links", CandidateChains(chunks, capital, DOMAIN links))
    BY DEF ReadChains
  <1>2. CandidateChains(chunks, capital, DOMAIN links) \subseteq Pairs \ DOMAIN links
    BY ChainsArePairs
  <1>3. QED BY <1>1, <1>2, BeginsStep

\* The other reviews do not miss what one of their kind answered: none of
\* them was alone.
LEMMA ReviewEnds ==
  ASSUME IInv, NEW v \in Reviewers, EndReview(v), UNCHANGED <<rows, edgeRuns, settled>>,
         EdgesFit', LinksFit',
         reviews[v].of # "edges" => edges' = edges,
         reviews[v].of # "links" => links' = links,
         DOMAIN edges' = DOMAIN edges
  PROVE  IInv'
  <1>1. /\ gen' = gen /\ text' = text /\ ident' = ident /\ mentions' = mentions
        /\ edgeRuns' = edgeRuns /\ settled' = settled
        /\ reviews' = [reviews EXCEPT ![v] = IdleReview]
    BY DEF rows, EndReview
  <1>2. ASSUME NEW w \in Reviewers
        PROVE  /\ reviews'[w] \in ReviewState
               /\ reviews'[w] = IF w = v THEN IdleReview ELSE reviews[w]
               /\ ReviewKnows(reviews[w])'
    <2>1. PICK o : o = reviews[w]
      OBVIOUS
    <2>2. o \in ReviewState /\ ReviewKnows(o)
      BY <2>1 DEF IInv, Shape
    <2>3. PICK p : p = reviews'[w]
      OBVIOUS
    <2>4. p = IF w = v THEN IdleReview ELSE o
      BY <1>1, <2>1, <2>3 DEF IInv, Shape
    <2>5. p \in ReviewState /\ ReviewKnows(p)
      BY <2>2, <2>4, IdleFits DEF IInv, Shape
    <2>6. ReviewKnows(p)'
      <3>1. CASE p.of = "nothing" \/ ~p.alone
        BY <1>1, <2>5, <3>1 DEF ReviewKnows
      <3>2. CASE p.of # "nothing" /\ p.alone
        <4>1. w # v /\ p = o
          BY <2>4, <3>2, IdleFits
        <4>2. p.of # reviews[v].of
          BY <2>1, <3>2, <4>1 DEF IInv, Alone
        <4>3. /\ p.of = "edges" => edges' = edges
              /\ p.of = "links" => links' = links
          BY <4>2
        <4>4. QED BY <1>1, <2>5, <4>3 DEF ReviewKnows
      <3>3. QED BY <3>1, <3>2
    <2>7. QED BY <2>1, <2>3, <2>4, <2>5, <2>6 DEF ReviewKnows
  <1>3. reviews' \in [Reviewers -> ReviewState]
    BY <1>1, IdleFits DEF IInv, Shape
  <1>4. Alone'
    BY <1>2, IdleFits DEF IInv, Alone
  <1>5. Shape'
    BY <1>1, <1>3 DEF IInv, Shape
  <1>6. \A r \in Runs : JobKnows(edgeRuns[r])'
    BY <1>1, JobsKept
  <1>7. QED BY <1>2, <1>4, <1>5, <1>6 DEF IInv

LEMMA ReviewFailsStep ==
  ASSUME IInv, NEW v \in Reviewers, ReviewFails(v)
  PROVE  IInv'
  <1>1. edges' = edges /\ links' = links /\ UNCHANGED <<rows, edgeRuns, settled>> /\ EndReview(v)
    BY DEF ReviewFails
  <1>2. EdgesFit'
    BY <1>1, EdgesKept DEF rows
  <1>3. LinksFit'
    BY <1>1 DEF IInv, LinksFit
  <1>4. QED BY <1>1, <1>2, <1>3, ReviewEnds

\* What an answer does to the edges.
LEMMA EdgesAnswered ==
  ASSUME IInv, NEW v \in Reviewers, AnswerEdges(v)
  PROVE  /\ DOMAIN edges' = DOMAIN edges
         /\ \A k \in DOMAIN edges :
               \/ edges'[k] = edges[k]
               \/ /\ k \in reviews[v].read /\ reviews[v].gen = gen
                  /\ edges'[k] \in Row /\ edges'[k].read = gen
  <1>1. PICK A \in SUBSET reviews[v].read, answer \in Answers :
          edges' = [k \in DOMAIN edges |->
                       IF k \in A /\ reviews[v].gen = gen THEN [relation |-> answer, read |-> gen]
                       ELSE edges[k]]
    BY DEF AnswerEdges
  <1>2. gen \in Nat
    BY DEF IInv, Shape
  <1>3. [relation |-> answer, read |-> gen] \in Row
    BY <1>2 DEF Row
  <1>4. QED BY <1>1, <1>3

LEMMA AnswerEdgesStep ==
  ASSUME IInv, NEW v \in Reviewers, AnswerEdges(v)
  PROVE  IInv'
  <1>1. /\ links' = links /\ UNCHANGED <<rows, edgeRuns, settled>> /\ EndReview(v)
        /\ reviews[v].of = "edges" /\ gen' = gen /\ mentions' = mentions /\ settled' = settled
    BY DEF AnswerEdges, rows
  <1>2. DOMAIN edges' = DOMAIN edges
    BY EdgesAnswered
  <1>3. EdgesFit'
    <2>1. ASSUME NEW k \in DOMAIN edges' PROVE edges'[k] \in Row /\ edges'[k].read = gen'
      BY <1>1, <1>2, EdgesAnswered DEF IInv, EdgesFit
    <2>2. EdgeKeys' = EdgeKeys
      BY <1>1 DEF EdgeKeys
    <2>3. QED BY <1>1, <1>2, <2>1, <2>2 DEF IInv, EdgesFit
  <1>4. LinksFit'
    BY <1>1 DEF IInv, LinksFit
  <1>5. QED BY <1>1, <1>2, <1>3, <1>4, ReviewEnds

\* What an answer does to the links.
LEMMA LinksAnswered ==
  ASSUME IInv, NEW v \in Reviewers, AnswerLinks(v)
  PROVE  /\ DOMAIN links' \subseteq DOMAIN links \cup reviews[v].read
         /\ \A p \in DOMAIN links' : \/ p \in DOMAIN links /\ links'[p] = links[p]
                                     \/ p \in reviews[v].read /\ links'[p] \in Answers
  <1>1. PICK A \in SUBSET reviews[v].read, answer \in Answers :
          links' = With([p \in A |-> answer], links)
    BY DEF AnswerLinks
  <1>2. QED BY <1>1 DEF With

LEMMA AnswerLinksStep ==
  ASSUME IInv, NEW v \in Reviewers, AnswerLinks(v)
  PROVE  IInv'
  <1>1. /\ edges' = edges /\ UNCHANGED <<rows, edgeRuns, settled>> /\ EndReview(v)
        /\ reviews[v].of = "links" /\ settled' = settled
    BY DEF AnswerLinks
  <1>2. reviews[v].read \subseteq Pairs
    <2>1. reviews[v] \in ReviewState
      BY DEF IInv, Shape
    <2>2. QED BY <1>1, <2>1 DEF ReviewState, Reading
  <1>3. LinksFit'
    BY <1>2, LinksAnswered DEF IInv, LinksFit
  <1>4. EdgesFit'
    BY <1>1, EdgesKept DEF rows
  <1>5. QED BY <1>1, <1>3, <1>4, ReviewEnds

(***************************************************************************)
(* What is proved                                                          *)
(***************************************************************************)
LEMMA InitInv ==
  ASSUME GraphInit
  PROVE  IInv
  <1>1. Shape
    <2>1. /\ edgeRuns \in [Runs -> JobState] /\ reviews \in [Reviewers -> ReviewState]
      BY IdleFits DEF GraphInit
    <2>2. DOMAIN mentions = {}
      BY DEF GraphInit
    <2>3. QED BY <2>1, <2>2 DEF GraphInit, Shape
  <1>2. EdgesFit
    BY DEF GraphInit, EdgesFit, NoEdges
  <1>3. LinksFit
    <2>1. CASE links = <<>>
      BY <2>1 DEF LinksFit
    <2>2. CASE \E e, f \in Names : e < f /\ links = [p \in {{e, f}} |-> "relation"]
      <3>1. PICK e \in Names, f \in Names : e < f /\ links = [p \in {{e, f}} |-> "relation"]
        BY <2>2
      <3>2. e # f
        BY <3>1, NamesAreOrdered
      <3>3. {e, f} \in Pairs
        BY <3>2, TwoMakeAPair DEF Pairs
      <3>4. QED BY <3>1, <3>3 DEF LinksFit, Answers
    <2>3. QED BY <2>1, <2>2 DEF GraphInit
  <1>4. \A r \in Runs : JobKnows(edgeRuns[r])
    BY IdleFits DEF GraphInit
  <1>5. (\A v \in Reviewers : ReviewKnows(reviews[v])) /\ Alone
    BY <1>1, IdleFits DEF GraphInit, Shape, Alone
  <1>6. QED BY <1>1, <1>2, <1>3, <1>4, <1>5 DEF IInv

LEMMA NextInv ==
  ASSUME IInv, [GraphNext]_graphVars
  PROVE  IInv'
  <1>1. CASE UNCHANGED graphVars
    BY <1>1, SameGraph DEF graphVars, rows
  <1>2. CASE ReverseCounts \/ ClearEntities \/ ReplaceChunks \/ Purge
    BY <1>2, ReverseStep, ClearStep, ReplaceStep, PurgeStep
  <1>3. CASE Finalize \/ LinkMentions
    BY <1>3, SameGraph DEF Finalize, LinkMentions
  <1>4. CASE \E c \in Chunks : SaveEntities(c)
    BY <1>4, SavedStep
  <1>5. CASE \E r \in Runs : ListEntities(r) \/ DeleteEdges(r) \/ CreateEdges(r) \/ RunFails(r)
    BY <1>5, ListStep, DeleteStep, CreateStep, FailStep
  <1>6. CASE \E v \in Reviewers : \/ ReadEdges(v) \/ ReadChains(v) \/ AnswerEdges(v)
                                  \/ AnswerLinks(v) \/ ReviewFails(v)
    BY <1>6, ReadEdgesStep, ReadChainsStep, AnswerEdgesStep, AnswerLinksStep, ReviewFailsStep
  <1>7. QED BY <1>1, <1>2, <1>3, <1>4, <1>5, <1>6 DEF GraphNext

\* The inductive invariant of a document's edges: each edge is one the mentions
\* call for, a job whose mentions nobody replaced knows all of them, and what a
\* review read is unanswered while no other of its kind runs (Handle,
\* CandidateChunks, CandidateChains).
THEOREM Invariant == GraphSpec => []IInv
  BY InitInv, NextInv, PTL DEF GraphSpec

\* Once the edge job that last cleared the edges has added its own, every pair
\* within a chunk that is not oversized has its edge, and no other pair has
\* one, however jobs and replacements of the mentions overlap (BulkCreate).
THEOREM EdgesAreComplete == GraphSpec => []EdgesComplete
  <1>1. IInv => EdgesComplete
    <2>1. SUFFICES ASSUME IInv PROVE EdgesComplete
      OBVIOUS
    <2>2. DOMAIN edges \subseteq KeysOf(mentions) /\ (settled => KeysOf(mentions) \subseteq DOMAIN edges)
      BY <2>1 DEF IInv, EdgesFit, EdgeKeys, KeysOf
    <2>3. ASSUME NEW k \in DOMAIN edges
          PROVE  /\ k[1] \in DOMAIN mentions /\ k[2] \subseteq mentions[k[1]]
                 /\ edges[k].relation \in Answers \cup {"NULL"}
      <3>1. k = <<k[1], k[2]>> /\ <<k[1], k[2]>> \in KeysOf(mentions)
        BY <2>2, KeyOf
      <3>2. k[1] \in DOMAIN mentions /\ k[2] \in kSubset(2, mentions[k[1]])
        BY <3>1, KeyOf
      <3>3. edges[k] \in Row
        BY <2>1 DEF IInv, EdgesFit
      <3>4. QED BY <3>2, <3>3 DEF kSubset, Row
    <2>4. \A r \in Runs : edgeRuns[r].pc \in {"idle", "delete", "create"}
      BY <2>1 DEF IInv, Shape, JobState
    <2>5. \A v \in Reviewers : reviews[v].of \in {"nothing", "edges", "links"}
      BY <2>1 DEF IInv, Shape, ReviewState, Reading
    <2>6. GraphTypeOK
      BY <2>1, <2>3, <2>4, <2>5 DEF IInv, Shape, LinksFit, GraphTypeOK
    <2>7. ASSUME settled, NEW c \in Chunks, NEW p \in Pairs
          PROVE  <<c, p>> \in DOMAIN edges <=>
                    /\ c \in DOMAIN mentions /\ p \subseteq mentions[c]
                    /\ Cardinality(mentions[c]) <= MaxEntitiesForEdges
      <3>1. <<c, p>> \in DOMAIN edges <=> <<c, p>> \in KeysOf(mentions)
        BY <2>2, <2>7
      <3>2. p \subseteq mentions[c] <=> p \in kSubset(2, mentions[c])
        BY DEF Pairs, kSubset
      <3>3. QED BY <3>1, <3>2, KeyOf
    <2>8. QED BY <2>6, <2>7 DEF EdgesComplete
  <1>2. QED BY <1>1, Invariant, PTL

Answered ==
    /\ \A k \in DOMAIN edges \cap DOMAIN edges' :
          edges[k].relation \in Answers /\ edges'[k] # edges[k]
              => \E v \in Reviewers : ~reviews[v].alone /\ reviews'[v] = IdleReview
    /\ \A p \in DOMAIN links \cap DOMAIN links' :
          links'[p] # links[p] => \E v \in Reviewers : ~reviews[v].alone /\ reviews'[v] = IdleReview
    /\ \A k \in DOMAIN edges' : edges'[k].read = gen'

LEMMA NothingAnswered ==
  ASSUME IInv', \A k \in DOMAIN edges \cap DOMAIN edges' : edges'[k] = edges[k],
         \A p \in DOMAIN links \cap DOMAIN links' : links'[p] = links[p]
  PROVE  Answered
  BY DEF IInv, EdgesFit, Answered

LEMMA EndsIdle ==
  ASSUME IInv, NEW v \in Reviewers, EndReview(v)
  PROVE  reviews'[v] = IdleReview
  BY DEF IInv, Shape, EndReview

LEMMA StepAnswers ==
  ASSUME IInv, IInv', GraphNext
  PROVE  Answered
  <1>1. CASE ReverseCounts \/ ClearEntities \/ ReplaceChunks \/ Finalize \/ LinkMentions \/ Purge
    BY <1>1, NothingAnswered DEF ReverseCounts, ClearEntities, ReplaceChunks, Finalize,
       LinkMentions, Purge, Without, NoEdges
  <1>2. CASE \E c \in Chunks : SaveEntities(c)
    BY <1>2, NothingAnswered DEF SaveEntities
  <1>3. CASE \E r \in Runs : ListEntities(r) \/ DeleteEdges(r) \/ CreateEdges(r) \/ RunFails(r)
    BY <1>3, NothingAnswered DEF ListEntities, DeleteEdges, CreateEdges, RunFails, With, NoEdges
  <1>4. CASE \E v \in Reviewers : ReadEdges(v) \/ ReadChains(v) \/ ReviewFails(v)
    BY <1>4, NothingAnswered DEF ReadEdges, ReadChains, BeginReview, ReviewFails
  <1>5. ASSUME NEW v \in Reviewers, AnswerEdges(v) PROVE Answered
    <2>1. EndReview(v) /\ links' = links /\ reviews[v].of = "edges"
      BY <1>5 DEF AnswerEdges
    <2>2. ASSUME NEW k \in DOMAIN edges, edges[k].relation \in Answers, edges'[k] # edges[k]
          PROVE  ~reviews[v].alone
      <3>1. k \in reviews[v].read /\ reviews[v].gen = gen
        BY <1>5, <2>2, EdgesAnswered
      <3>2. edges[k].relation # "NULL"
        BY <2>2 DEF Answers
      <3>3. QED BY <2>1, <3>1, <3>2 DEF IInv, ReviewKnows
    <2>3. \A k \in DOMAIN edges' : edges'[k].read = gen'
      BY DEF IInv, EdgesFit
    <2>4. QED BY <2>1, <2>2, <2>3, EndsIdle DEF Answered
  <1>6. ASSUME NEW v \in Reviewers, AnswerLinks(v) PROVE Answered
    <2>1. EndReview(v) /\ edges' = edges /\ reviews[v].of = "links"
      BY <1>6 DEF AnswerLinks
    <2>2. ASSUME NEW p \in DOMAIN links \cap DOMAIN links', links'[p] # links[p]
          PROVE  ~reviews[v].alone
      <3>1. p \in reviews[v].read
        BY <1>6, <2>2, LinksAnswered
      <3>2. QED BY <2>1, <2>2, <3>1 DEF IInv, ReviewKnows
    <2>3. \A k \in DOMAIN edges' : edges'[k].read = gen'
      BY DEF IInv, EdgesFit
    <2>4. QED BY <2>1, <2>2, <2>3, EndsIdle DEF Answered
  <1>7. QED BY <1>1, <1>2, <1>3, <1>4, <1>5, <1>6 DEF GraphNext

\* An answer about an edge or a link changes only by a review that another of
\* its kind overlapped, and none is stored about mentions that were replaced
\* while the model was asked (ApplyUpdates of relation and of crosslink).
THEOREM AnswersStay == GraphSpec => AnswersKept
  <1>1. IInv /\ IInv' /\ [GraphNext]_graphVars => [Answered]_graphVars
    BY StepAnswers
  <1>2. QED BY <1>1, Invariant, PTL DEF GraphSpec, AnswersKept, Answered

(***************************************************************************)
(* The legs and the links                                                  *)
(***************************************************************************)

\* A pair is what kSubset(2, S) holds.
LEMMA PairOf ==
    ASSUME NEW S \in SUBSET Names, NEW p
    PROVE  p \in kSubset(2, S) <=> \E a, b \in S : a # b /\ p = {a, b}
  <1>1. ASSUME NEW a \in S, NEW b \in S, a # b PROVE {a, b} \in kSubset(2, S)
    <2>1. IsFiniteSet({a}) /\ Cardinality({a}) = 1
      BY FS_Singleton
    <2>2. Cardinality({a} \cup {b}) = 2
      BY <1>1, <2>1, FS_AddElement
    <2>3. {a} \cup {b} = {a, b}
      OBVIOUS
    <2>4. QED BY <2>2, <2>3 DEF kSubset
  <1>2. ASSUME p \in kSubset(2, S) PROVE \E a, b \in S : a # b /\ p = {a, b}
    <2>1. p \subseteq S /\ Cardinality(p) = 2 /\ IsFiniteSet(p)
      BY <1>2, NamesAreOrdered, FS_Subset DEF kSubset
    <2>2. PICK a \in p : TRUE
      BY <2>1, FS_EmptySet
    <2>3. IsFiniteSet(p \ {a}) /\ Cardinality(p \ {a}) = 1
      BY <2>1, <2>2, FS_RemoveElement
    <2>4. PICK b : p \ {a} = {b}
      BY <2>3, FS_Singleton
    <2>5. a # b /\ p = {a, b} /\ a \in S /\ b \in S
      BY <2>1, <2>2, <2>4
    <2>6. QED BY <2>5
  <1>3. QED BY <1>1, <1>2

\* Two entities of a chunk make an edge.
LEMMA SeveralMentioned ==
    ASSUME NEW c \in SUBSET Names, NEW a \in c, NEW b \in c, a # b
    PROVE  Cardinality(c) > 1
  <1>1. {a, b} \in kSubset(2, c)
    BY PairOf
  <1>2. IsFiniteSet(c)
    BY NamesAreOrdered, FS_Subset
  <1>3. Cardinality({a, b}) <= Cardinality(c)
    BY <1>2, FS_Subset
  <1>4. Cardinality({a, b}) = 2 /\ Cardinality(c) \in Nat
    BY <1>1, <1>2, FS_CardinalityType DEF kSubset
  <1>5. QED BY <1>3, <1>4

LEMMA SymIs ==
    ASSUME NEW chunks, NEW capitals \in SUBSET Names
    PROVE  /\ \A p \in Sym(chunks, capitals) : p = <<p[1], p[2]>>
           /\ \A x, y : <<x, y>> \in Sym(chunks, capitals) =>
                 x \in capitals /\ y \in capitals /\ x # y /\ <<y, x>> \in Sym(chunks, capitals)
  BY DEF Sym

LEMMA ReachIs ==
    ASSUME NEW sym, NEW S, \A p \in sym : p = <<p[1], p[2]>>
    PROVE  \A y : y \in Reach(sym, S) <=> y \in S \/ \E x \in S : <<x, y>> \in sym
  <1>1. ASSUME NEW y, NEW x \in S, <<x, y>> \in sym PROVE y \in Reach(sym, S)
    <2>1. <<x, y>>[1] = x /\ <<x, y>>[2] = y
      OBVIOUS
    <2>2. QED BY <1>1, <2>1 DEF Reach
  <1>2. ASSUME NEW y, y \in Reach(sym, S), y \notin S PROVE \E x \in S : <<x, y>> \in sym
    BY <1>2 DEF Reach
  <1>3. QED BY <1>1, <1>2 DEF Reach

\* Entities one, two and three edges from a.
LEMMA ReachFrom ==
    ASSUME NEW sym, \A p \in sym : p = <<p[1], p[2]>>, NEW a
    PROVE  /\ \A y : y \in Reach(sym, {a}) <=> y = a \/ <<a, y>> \in sym
           /\ \A y : y \in Reach2(sym, {a}) <=>
                 y = a \/ <<a, y>> \in sym \/ \E m : <<a, m>> \in sym /\ <<m, y>> \in sym
           /\ \A y : y \in Reach(sym, Reach2(sym, {a})) <=>
                 y \in Reach2(sym, {a}) \/ \E n \in Reach2(sym, {a}) : <<n, y>> \in sym
  <1>1. \A y : y \in Reach(sym, {a}) <=> y \in {a} \/ \E x \in {a} : <<x, y>> \in sym
    BY ReachIs
  <1>2. \A y : y \in Reach(sym, {a}) <=> y = a \/ <<a, y>> \in sym
    BY <1>1
  <1>3. \A y : y \in Reach(sym, Reach(sym, {a})) <=>
                  y \in Reach(sym, {a}) \/ \E x \in Reach(sym, {a}) : <<x, y>> \in sym
    BY ReachIs
  <1>4. \A y : y \in Reach(sym, Reach(sym, {a})) <=>
                  y = a \/ <<a, y>> \in sym \/ \E m : <<a, m>> \in sym /\ <<m, y>> \in sym
    BY <1>2, <1>3
  <1>5. \A y : y \in Reach(sym, Reach2(sym, {a})) <=>
                  y \in Reach2(sym, {a}) \/ \E x \in Reach2(sym, {a}) : <<x, y>> \in sym
    BY ReachIs
  <1>6. QED BY <1>2, <1>4, <1>5 DEF Reach2

LEMMA HopsAre ==
    ASSUME NEW sym,
           \A x, y : <<x, y>> \in sym => x \in Names /\ y \in Names,
           NEW a, NEW b
    PROVE  /\ <<a, b>> \in TwoHop(sym) <=> a # b /\ \E m : <<a, m>> \in sym /\ <<m, b>> \in sym
           /\ <<a, b>> \in ThreeHop(sym) <=>
                 \E m, n : /\ <<a, m>> \in sym /\ <<m, n>> \in sym /\ <<n, b>> \in sym
                           /\ a # b /\ a # n /\ m # b
  <1>1. <<a, b>>[1] = a /\ <<a, b>>[2] = b
    OBVIOUS
  <1>2. <<a, b>> \in TwoHop(sym) <=>
           /\ <<a, b>> \in Names \X Names
           /\ \E m \in Names : a # b /\ {<<a, m>>, <<m, b>>} \subseteq sym
    BY <1>1 DEF TwoHop
  <1>3. <<a, b>> \in ThreeHop(sym) <=>
           /\ <<a, b>> \in Names \X Names
           /\ \E m \in Names, n \in Names :
                 /\ {<<a, m>>, <<m, n>>, <<n, b>>} \subseteq sym
                 /\ a # b /\ a # n /\ m # b
    BY <1>1 DEF ThreeHop
  <1>4. ASSUME NEW m, NEW n, <<a, m>> \in sym, <<m, n>> \in sym, <<n, b>> \in sym,
               a # b, a # n, m # b
        PROVE  <<a, b>> \in ThreeHop(sym)
    <2>1. m \in Names /\ n \in Names /\ <<a, b>> \in Names \X Names
      BY <1>4
    <2>2. {<<a, m>>, <<m, n>>, <<n, b>>} \subseteq sym
      BY <1>4
    <2>3. QED BY <1>3, <1>4, <2>1, <2>2
  <1>5. ASSUME NEW m, <<a, m>> \in sym, <<m, b>> \in sym, a # b
        PROVE  <<a, b>> \in TwoHop(sym)
    <2>1. m \in Names /\ <<a, b>> \in Names \X Names /\ {<<a, m>>, <<m, b>>} \subseteq sym
      BY <1>5
    <2>2. QED BY <1>2, <1>5, <2>1
  <1>6. ASSUME <<a, b>> \in TwoHop(sym)
        PROVE  a # b /\ \E m : <<a, m>> \in sym /\ <<m, b>> \in sym
    <2>1. PICK m \in Names : a # b /\ {<<a, m>>, <<m, b>>} \subseteq sym
      BY <1>2, <1>6
    <2>2. a # b /\ <<a, m>> \in sym /\ <<m, b>> \in sym
      BY <2>1
    <2>3. QED BY <2>2
  <1>7. ASSUME <<a, b>> \in ThreeHop(sym)
        PROVE  \E m, n : /\ <<a, m>> \in sym /\ <<m, n>> \in sym /\ <<n, b>> \in sym
                         /\ a # b /\ a # n /\ m # b
    <2>1. PICK m \in Names, n \in Names : /\ {<<a, m>>, <<m, n>>, <<n, b>>} \subseteq sym
                                         /\ a # b /\ a # n /\ m # b
      BY <1>3, <1>7
    <2>2. <<a, m>> \in sym /\ <<m, n>> \in sym /\ <<n, b>> \in sym
      BY <2>1
    <2>3. QED BY <2>1, <2>2
  <1>8. QED BY <1>4, <1>5, <1>6, <1>7

\* What is at most two edges away is in a chunk found.
LEMMA NearIsFound ==
    ASSUME NEW chunks \in SUBSET SUBSET Names, NEW seeds \in SUBSET Names, NEW confirmed
    PROVE  Reach2(Sym(chunks, Names), seeds) \ seeds
             \subseteq UNION (SeedChunks(chunks, seeds) \cup TraversalLeg(chunks, seeds, confirmed))
  <1> DEFINE all == Sym(chunks, Names)
             FoundIn == SeedChunks(chunks, seeds) \cup TraversalLeg(chunks, seeds, confirmed)
  <1>1. ASSUME NEW a, NEW b, <<a, b>> \in all
        PROVE  \E c \in chunks : a \in c /\ b \in c /\ Cardinality(c) > 1 /\ a # b /\ a \in Names
    <2>1. PICK c \in chunks : {a, b} \subseteq c /\ a # b /\ a \in Names
      BY <1>1 DEF Sym
    <2>2. QED BY <2>1, SeveralMentioned
  <1>2. ASSUME NEW s \in seeds, NEW b, <<s, b>> \in all
        PROVE  \E c \in SeedChunks(chunks, seeds) : s \in c /\ b \in c
    BY <1>1, <1>2 DEF SeedChunks
  <1>3. ASSUME NEW s \in seeds, NEW m, NEW b, <<s, m>> \in all, <<m, b>> \in all
        PROVE  \E c \in FoundIn : b \in c
    <2> DEFINE hop1 == {e \in Names : \E c \in SeedChunks(chunks, seeds), t \in seeds :
                                         {e, t} \subseteq c /\ e # t}
    <2>1. m \in hop1
      BY <1>1, <1>2, <1>3
    <2>2. PICK c \in chunks : m \in c /\ b \in c /\ Cardinality(c) > 1
      BY <1>1, <1>3
    <2>3. c \in SeedChunks(chunks, hop1)
      BY <2>1, <2>2 DEF SeedChunks
    <2>4. c \in FoundIn
      BY <2>3 DEF TraversalLeg, Hop2Chunks
    <2>5. QED BY <2>2, <2>4
  <1>4. \A p \in all : p = <<p[1], p[2]>>
    BY SymIs
  <1>5. SUFFICES ASSUME NEW e, e \in Reach2(all, seeds), e \notin seeds
                 PROVE  \E c \in FoundIn : e \in c
    OBVIOUS
  <1>6. \A y : y \in Reach(all, seeds) <=> y \in seeds \/ \E s \in seeds : <<s, y>> \in all
    BY <1>4, ReachIs
  <1>7. e \in Reach(all, seeds) \/ \E m \in Reach(all, seeds) : <<m, e>> \in all
    BY <1>4, <1>5, ReachIs DEF Reach2
  <1>8. CASE \E s \in seeds : <<s, e>> \in all
    BY <1>2, <1>8
  <1>9. CASE \E m \in Reach(all, seeds) : <<m, e>> \in all /\ m \notin seeds
    <2>1. PICK m \in Reach(all, seeds) : <<m, e>> \in all /\ m \notin seeds
      BY <1>9
    <2>2. PICK s \in seeds : <<s, m>> \in all
      BY <1>6, <2>1
    <2>3. QED BY <1>3, <2>1, <2>2
  <1>10. QED BY <1>5, <1>6, <1>7, <1>8, <1>9

\* A link leads to every chunk of its other end.
LEMMA LinkIsFollowed ==
    ASSUME NEW chunks \in SUBSET SUBSET Names, NEW seeds \in SUBSET Names,
           NEW link \in kSubset(2, Names), NEW e \in link \ seeds, link \cap seeds # {},
           NEW c \in chunks, e \in c
    PROVE  c \in SeedChunks(chunks, seeds) \cup TraversalLeg(chunks, seeds, {link})
  <1>1. PICK a \in Names, b \in Names : a # b /\ link = {a, b}
    BY PairOf
  <1>2. PICK s \in link \cap seeds : TRUE
    OBVIOUS
  <1>3. link \cap seeds = {s}
    BY <1>1, <1>2
  <1>4. Cardinality(link \cap seeds) # 2
    BY <1>3, FS_Singleton
  <1>5. e \in CrossLinked(seeds, {link})
    <2> DEFINE other(l) == IF Cardinality(l \cap seeds) = 2 THEN {Max(l)} ELSE l \ seeds
    <2>1. link \in {l \in {link} : l \cap seeds # {}} /\ other(link) = link \ seeds
      BY <1>4
    <2>2. CrossLinked(seeds, {link}) = UNION {other(l) : l \in {l \in {link} : l \cap seeds # {}}}
      BY DEF CrossLinked
    <2>3. other(link) \in {other(l) : l \in {l \in {link} : l \cap seeds # {}}}
      BY <2>1
    <2>4. e \in other(link)
      BY <2>1
    <2> HIDE DEF other
    <2>5. QED BY <2>2, <2>3, <2>4
  <1>6. QED BY <1>5 DEF TraversalLeg, CrossLinkedChunks

\* The two ends of a pair, seen from either.
ThreeApart(sym, p) ==
    \A a \in p : p \ {a} \subseteq Reach(sym, Reach2(sym, {a})) \ Reach2(sym, {a})

\* What is reviewed is what is exactly three edges apart.
LEMMA ChainsAreThreeApart ==
    ASSUME NEW chunks \in SUBSET SUBSET Names, NEW capitals \in SUBSET Names, NEW recorded
    PROVE  CandidateChains(chunks, capitals, recorded) =
             {p \in kSubset(2, capitals) \ recorded : ThreeApart(Sym(chunks, capitals), p)}
  <1> DEFINE sym == Sym(chunks, capitals)
             far == ThreeHop(sym) \ (sym \cup TwoHop(sym))
             Apart(a, b) == b \in Reach(sym, Reach2(sym, {a})) \ Reach2(sym, {a})
  <1>1. /\ \A p \in sym : p = <<p[1], p[2]>>
        /\ \A a, b : <<a, b>> \in sym =>
              /\ a \in Names /\ b \in Names /\ a \in capitals /\ b \in capitals
              /\ a # b /\ <<b, a>> \in sym
    BY SymIs
  <1>2. \A a, b : b \in Reach(sym, {a}) <=> b = a \/ <<a, b>> \in sym
    BY <1>1, ReachFrom
  <1>3. \A a, b : b \in Reach2(sym, {a}) <=>
                     b = a \/ <<a, b>> \in sym \/ \E m : <<a, m>> \in sym /\ <<m, b>> \in sym
    BY <1>1, ReachFrom
  <1>4. \A a, b : b \in Reach(sym, Reach2(sym, {a})) <=>
                     b \in Reach2(sym, {a}) \/ \E n \in Reach2(sym, {a}) : <<n, b>> \in sym
    BY <1>1, ReachFrom
  <1>5. \A a, b : <<a, b>> \in TwoHop(sym) <=> a # b /\ \E m : <<a, m>> \in sym /\ <<m, b>> \in sym
    BY <1>1, HopsAre
  <1>6. \A a, b : <<a, b>> \in ThreeHop(sym) <=>
                     \E m, n : /\ <<a, m>> \in sym /\ <<m, n>> \in sym /\ <<n, b>> \in sym
                               /\ a # b /\ a # n /\ m # b
    BY <1>1, HopsAre
  <1>7. far \subseteq Names \X Names
    BY DEF ThreeHop
  <1> HIDE DEF sym
  <1>8. \A a, b : <<a, b>> \in far <=> Apart(a, b)
    <2>1. ASSUME NEW a, NEW b, <<a, b>> \in far PROVE Apart(a, b)
      <3>1. b \notin Reach2(sym, {a})
        BY <1>3, <1>5, <1>6, <2>1
      <3>2. PICK m, n : <<a, m>> \in sym /\ <<m, n>> \in sym /\ <<n, b>> \in sym
        BY <1>6, <2>1
      <3>3. QED BY <1>3, <1>4, <3>1, <3>2
    <2>2. ASSUME NEW a, NEW b, Apart(a, b) PROVE <<a, b>> \in far
      <3>1. /\ a # b /\ <<a, b>> \notin sym
            /\ ~\E m : <<a, m>> \in sym /\ <<m, b>> \in sym
        BY <1>3, <2>2
      <3>2. PICK n \in Reach2(sym, {a}) : <<n, b>> \in sym
        BY <1>4, <2>2
      <3>3. PICK m : <<a, m>> \in sym /\ <<m, n>> \in sym
        BY <1>3, <3>1, <3>2
      <3>4. a # n /\ m # b
        BY <3>1, <3>2, <3>3
      <3>5. <<a, b>> \in ThreeHop(sym)
        BY <1>6, <3>1, <3>2, <3>3, <3>4
      <3>6. QED BY <1>5, <3>1, <3>5
    <2>3. QED BY <2>1, <2>2
  <1>9. \A a, b : Apart(a, b) => a \in capitals /\ b \in capitals /\ a # b /\ Apart(b, a)
    <2>1. SUFFICES ASSUME NEW a, NEW b, Apart(a, b)
                   PROVE  a \in capitals /\ b \in capitals /\ a # b /\ Apart(b, a)
      OBVIOUS
    <2>2. /\ a # b /\ <<a, b>> \notin sym
          /\ ~\E m : <<a, m>> \in sym /\ <<m, b>> \in sym
      BY <1>3, <2>1
    <2>3. <<a, b>> \in ThreeHop(sym)
      BY <1>8, <2>1
    <2>4. PICK m, n : <<a, m>> \in sym /\ <<m, n>> \in sym /\ <<n, b>> \in sym
      BY <1>6, <2>3
    <2>5. a \in capitals /\ b \in capitals
      BY <1>1, <2>4
    <2>6. a \notin Reach2(sym, {b})
      BY <1>1, <1>3, <2>2
    <2>7. n \in Reach(sym, {b}) /\ m \in Reach2(sym, {b}) /\ <<m, a>> \in sym
      BY <1>1, <1>2, <1>3, <2>4
    <2>8. QED BY <1>4, <2>2, <2>5, <2>6, <2>7
  <1>10. CandidateChains(chunks, capitals, recorded) = {{p[1], p[2]} : p \in far} \ recorded
    BY DEF CandidateChains, sym
  <1> DEFINE Pair(p) == \E a, b \in capitals : a # b /\ p = {a, b}
  <1>11. \A p : p \in {{q[1], q[2]} : q \in far} <=> \E a, b : <<a, b>> \in far /\ p = {a, b}
    <2>1. \A q \in far : q = <<q[1], q[2]>>
      BY <1>7
    <2>2. QED BY <2>1
  <1> HIDE DEF far
  <1>12. ASSUME NEW p, NEW a, NEW b, <<a, b>> \in far, p = {a, b}
         PROVE  Pair(p) /\ ThreeApart(sym, p)
    <2>1. Apart(a, b) /\ Apart(b, a) /\ a \in capitals /\ b \in capitals /\ a # b
      BY <1>8, <1>9, <1>12
    <2>2. p \ {a} = {b} /\ p \ {b} = {a}
      BY <1>12, <2>1
    <2>3. QED BY <1>12, <2>1, <2>2 DEF ThreeApart
  <1>13. ASSUME NEW p, Pair(p), ThreeApart(sym, p)
         PROVE  \E a, b : <<a, b>> \in far /\ p = {a, b}
    <2>1. PICK a \in capitals, b \in capitals : a # b /\ p = {a, b}
      BY <1>13
    <2>2. Apart(a, b)
      BY <1>13, <2>1 DEF ThreeApart
    <2>3. QED BY <1>8, <2>1, <2>2
  <1>14. \A p : p \in kSubset(2, capitals) <=> Pair(p)
    BY PairOf
  <1> HIDE DEF Pair
  <1>15. \A p : p \in CandidateChains(chunks, capitals, recorded) <=>
                  p \in kSubset(2, capitals) /\ p \notin recorded /\ ThreeApart(sym, p)
    BY <1>10, <1>11, <1>12, <1>13, <1>14
  <1>16. QED BY <1>15 DEF sym, CandidateChains

\* Of every knowledge base of any number of entities and chunks, whatever
\* the seeds, the link and the capitals: an entity at most two edges from a
\* seed is in a chunk of a leg, a confirmed link leads to every chunk of its
\* other end, and the pairs reviewed are those exactly three edges apart
\* (TraversalLeg, candidateChainsQuery).
THEOREM LegsComplement ==
    ASSUME walk \in Walks \cup {NoWalk}
    PROVE  LegsAndLinksComplement
  <1>1. SUFFICES ASSUME walk.kind = "walk"
                 PROVE  LegsAndLinksComplement
    BY DEF LegsAndLinksComplement
  <1>2. walk \in Walks
    BY <1>1 DEF NoWalk
  <1> DEFINE chunks == walk.chunks
             capitals == walk.capital
             seeds == walk.seeds
             link == walk.link
  <1>3. /\ chunks \in SUBSET SUBSET Names /\ capitals \in SUBSET Names
        /\ seeds \in SUBSET Names /\ link \in kSubset(2, Names)
    BY <1>2 DEF Walks, kSubset
  <1> HIDE DEF chunks, capitals, seeds, link
  <1>4. Reach2(Sym(chunks, Names), seeds) \ seeds
          \subseteq UNION (SeedChunks(chunks, seeds) \cup TraversalLeg(chunks, seeds, {}))
    BY <1>3, NearIsFound
  <1>5. \A e \in link \ seeds : link \cap seeds # {} =>
           {c \in chunks : e \in c}
             \subseteq SeedChunks(chunks, seeds) \cup TraversalLeg(chunks, seeds, {link})
    BY <1>3, LinkIsFollowed
  <1>6. CandidateChains(chunks, capitals, {link}) =
             {p \in kSubset(2, capitals) \ {link} : ThreeApart(Sym(chunks, capitals), p)}
    BY <1>3, ChainsAreThreeApart
  <1>7. QED
    BY <1>4, <1>5, <1>6 DEF LegsAndLinksComplement, ThreeApart, chunks, capitals, seeds, link
=============================================================================
