--------------------------- MODULE InquiryProofs ---------------------------
(***************************************************************************)
(* What holds of Inquiry for every number of concurrent requests, of       *)
(* queries, of documents and of messages; of RateLimiter, which its        *)
(* requests pass first, for every number of replicas and every limit; of   *)
(* Pagination, for every list and every size of its pages; and of          *)
(* SearchAnswer, for every answer of a model and every pair of rankings.   *)
(***************************************************************************)
EXTENDS Inquiry, SearchAnswer, RateLimiter, Pagination, FiniteSetTheorems,
        SequenceTheorems, WellFoundedInduction, TLAPS

(***************************************************************************)
(* Induction                                                               *)
(***************************************************************************)
LEMMA Least ==
  ASSUME NEW T, T \subseteq Nat, T # {}
  PROVE  \E x \in T : \A y \in T : x <= y
  <1> DEFINE R == OpToRel(<, Nat)
  <1>1. IsWellFoundedOn(R, Nat)
    BY NatLessThanWellFounded
  <1>2. \A i, j \in Nat : i < j => <<i, j>> \in R
    BY DEF OpToRel
  <1> HIDE DEF R
  <1>3. PICK x \in T : \A y \in T : ~(<<y, x>> \in R)
    BY <1>1, WFMin
  <1>4. \A y \in T : ~(y < x)
    BY <1>2, <1>3
  <1>5. QED BY <1>3, <1>4

LEMMA Induction ==
  ASSUME NEW S, 0 \in S, \A n \in Nat : n \in S => n + 1 \in S
  PROVE  Nat \subseteq S
  <1>1. SUFFICES ASSUME Nat \ S # {} PROVE FALSE
    OBVIOUS
  <1>2. PICK n \in Nat \ S : \A m \in Nat \ S : n <= m
    BY <1>1, Least
  <1>3. n # 0 /\ n - 1 \in Nat /\ n - 1 \in S
    BY <1>2
  <1>4. QED BY <1>2, <1>3

\* A step can be iterated any number of times.
Iterates(S, first, step, n, g) ==
    /\ g \in [0 .. n -> S]
    /\ \A k \in 0 .. n : g[k] = IF k = 0 THEN first ELSE step[g[k - 1]]

LEMMA IterationExists ==
  ASSUME NEW S, NEW first \in S, NEW step, step \in [S -> S], NEW N \in Nat
  PROVE  \E g : Iterates(S, first, step, N, g)
  <1> DEFINE Good == {n \in Nat : \E g : Iterates(S, first, step, n, g)}
  <1>1. 0 \in Good
    <2>1. Iterates(S, first, step, 0, [k \in 0 .. 0 |-> first])
      BY DEF Iterates
    <2>2. QED BY <2>1
  <1>2. ASSUME NEW n \in Nat, n \in Good PROVE n + 1 \in Good
    <2>1. PICK g : Iterates(S, first, step, n, g)
      BY <1>2
    <2> DEFINE h == [k \in 0 .. n + 1 |-> IF k = n + 1 THEN step[g[n]] ELSE g[k]]
    <2>2. h \in [0 .. n + 1 -> S]
      <3>1. ASSUME NEW k \in 0 .. n + 1 PROVE (IF k = n + 1 THEN step[g[n]] ELSE g[k]) \in S
        BY <2>1 DEF Iterates
      <3>2. QED BY <3>1
    <2>3. ASSUME NEW k \in 0 .. n + 1
          PROVE  h[k] = IF k = 0 THEN first ELSE step[h[k - 1]]
      <3>1. CASE k = n + 1
        BY <2>1, <3>1 DEF Iterates
      <3>2. CASE k # n + 1
        BY <2>1, <3>2 DEF Iterates
      <3>3. QED BY <3>1, <3>2
    <2>4. Iterates(S, first, step, n + 1, h)
      BY <2>2, <2>3 DEF Iterates
    <2> HIDE DEF h
    <2>5. \E f : Iterates(S, first, step, n + 1, f)
      BY <2>4
    <2>6. QED BY <2>5
  <1>3. N \in Good
    <2> HIDE DEF Good
    <2>1. QED BY <1>1, <1>2, Induction
  <1>4. QED BY <1>3

(***************************************************************************)
(* The walk to the original answer                                         *)
(***************************************************************************)

\* Messages are numbered, and one supersedes an earlier one only.
Chained(all) ==
    /\ Cardinality(all) \in Nat
    /\ \A m \in all : m.id \in 0 .. Cardinality(all) - 1
    /\ \A m, p \in all : m.id = p.id => m = p
    /\ \A m, p \in all : p.id = m.supersedes => p.id < m.id

\* Where the message with this id and its parent are, and the walk of n steps.
The(all, id) == CHOOSE p \in {p \in all : p.id = id} : TRUE
NoParent(all, id) == {p \in all : p.id = The(all, id).supersedes} = {}
Ids(all) == {p.id : p \in all}
WalksOf(all, root) ==
    \A n \in 0 .. Cardinality(all), id \in Ids(all) :
       root[n][id] = IF n = 0 \/ NoParent(all, id) THEN The(all, id)
                     ELSE root[n - 1][The(all, id).supersedes]

LEMMA TheOne ==
  ASSUME NEW all, Chained(all), NEW m \in all
  PROVE  /\ The(all, m.id) = m
         /\ m.id \in Ids(all)
         /\ NoParent(all, m.id) <=> \A p \in all : p.id # m.supersedes
  BY DEF Chained, The, Ids, NoParent

LEMMA WalkExists ==
  ASSUME NEW all, Chained(all)
  PROVE  \E root : /\ root = [n \in 0 .. Cardinality(all) |-> [id \in Ids(all) |->
                                 IF n = 0 \/ NoParent(all, id) THEN The(all, id)
                                 ELSE root[n - 1][The(all, id).supersedes]]]
  <1> DEFINE N == Cardinality(all)
             I == Ids(all)
             S == [I -> all]
             first == [id \in I |-> The(all, id)]
             step == [f \in S |-> [id \in I |->
                        IF NoParent(all, id) THEN The(all, id) ELSE f[The(all, id).supersedes]]]
  <1>1. \A id \in I : The(all, id) \in all /\ The(all, id).id = id
    BY DEF The, Ids
  <1>2. \A id \in I : ~NoParent(all, id) => The(all, id).supersedes \in I
    BY DEF NoParent, Ids
  <1>3. first \in S
    BY <1>1
  <1>4. step \in [S -> S]
    BY <1>1, <1>2
  <1>5. N \in Nat
    BY DEF Chained
  <1>6. PICK g : Iterates(S, first, step, N, g)
    <2> HIDE DEF S, first, step, N
    <2>1. QED BY <1>3, <1>4, <1>5, IterationExists
  <1>7. ASSUME NEW n \in 0 .. N
        PROVE  g[n] = [id \in I |-> IF n = 0 \/ NoParent(all, id) THEN The(all, id)
                                    ELSE g[n - 1][The(all, id).supersedes]]
    <2>1. CASE n = 0
      BY <1>6, <2>1 DEF Iterates
    <2>2. CASE n # 0
      <3>1. n - 1 \in 0 .. N
        BY <1>5, <2>2
      <3>2. g[n] = step[g[n - 1]] /\ g[n - 1] \in S
        BY <1>6, <2>2, <3>1 DEF Iterates
      <3>3. QED BY <2>2, <3>2
    <2>3. QED BY <2>1, <2>2
  <1>8. g = [n \in 0 .. N |-> [id \in I |-> IF n = 0 \/ NoParent(all, id) THEN The(all, id)
                                            ELSE g[n - 1][The(all, id).supersedes]]]
    BY <1>6, <1>7 DEF Iterates
  <1>9. QED BY <1>8


LEMMA RootIsWalk ==
  ASSUME NEW all, Chained(all)
  PROVE  \E root : /\ WalksOf(all, root)
                   /\ \A m : RootAmong(all, m) = root[Cardinality(all)][m.id]
  <1> DEFINE root == CHOOSE root : root =
                [n \in 0 .. Cardinality(all) |-> [id \in Ids(all) |->
                   IF n = 0 \/ NoParent(all, id) THEN The(all, id)
                   ELSE root[n - 1][The(all, id).supersedes]]]
  <1>1. root = [n \in 0 .. Cardinality(all) |-> [id \in Ids(all) |->
                  IF n = 0 \/ NoParent(all, id) THEN The(all, id)
                  ELSE root[n - 1][The(all, id).supersedes]]]
    BY WalkExists
  <1>2. ASSUME NEW m PROVE RootAmong(all, m) = root[Cardinality(all)][m.id]
    BY DEF RootAmong, The, NoParent, Ids
  <1> HIDE DEF root
  <1>3. ASSUME NEW n \in 0 .. Cardinality(all), NEW id \in Ids(all)
        PROVE  root[n][id] = IF n = 0 \/ NoParent(all, id) THEN The(all, id)
                             ELSE root[n - 1][The(all, id).supersedes]
    <2>1. root[n] = [i \in Ids(all) |->
                  IF n = 0 \/ NoParent(all, i) THEN The(all, i)
                  ELSE root[n - 1][The(all, i).supersedes]]
      BY <1>1
    <2>2. QED BY <2>1
  <1>4. WalksOf(all, root)
    BY <1>3 DEF WalksOf
  <1>5. QED BY <1>2, <1>4

\* Deep enough, a walk ends where one step less deep does.
LEMMA WalkSettles ==
  ASSUME NEW all, Chained(all), NEW root, WalksOf(all, root),
         NEW id \in Ids(all), NEW k \in id .. Cardinality(all), NEW l \in id .. Cardinality(all)
  PROVE  root[k][id] = root[l][id]
  <1> DEFINE N == Cardinality(all)
             Settles(i) == \A k_1, l_1 \in i .. N : root[k_1][i] = root[l_1][i]
             Good == {n \in Nat : \A i \in Ids(all) : i <= n => Settles(i)}
  <1>1. /\ N \in Nat
        /\ \A i \in Ids(all) : i \in Nat
        /\ \A i \in Ids(all) : ~NoParent(all, i) =>
              The(all, i).supersedes \in Ids(all) /\ The(all, i).supersedes < i
    BY DEF Chained, Ids, NoParent, The
  <1>2. ASSUME NEW i \in Ids(all),
               \A j \in Ids(all) : j < i => Settles(j)
        PROVE  Settles(i)
    <2>1. SUFFICES ASSUME NEW k_1 \in i .. N, NEW l_1 \in i .. N
                   PROVE  root[k_1][i] = root[l_1][i]
      OBVIOUS
    <2>2. k_1 \in 0 .. N /\ l_1 \in 0 .. N
      BY <1>1
    <2>3. CASE NoParent(all, i)
      BY <2>2, <2>3 DEF WalksOf
    <2>4. CASE ~NoParent(all, i)
      <3> DEFINE j == The(all, i).supersedes
      <3>1. j \in Ids(all) /\ j < i /\ i \in Nat /\ j \in Nat
        BY <1>1, <2>4
      <3>2. k_1 # 0 /\ l_1 # 0 /\ k_1 - 1 \in j .. N /\ l_1 - 1 \in j .. N
        BY <1>1, <3>1
      <3>3. root[k_1][i] = root[k_1 - 1][j] /\ root[l_1][i] = root[l_1 - 1][j]
        BY <2>2, <2>4, <3>2 DEF WalksOf
      <3>4. QED BY <1>2, <3>1, <3>2, <3>3
    <2>5. QED BY <2>3, <2>4
  <1>3. 0 \in Good
    BY <1>1, <1>2
  <1>4. ASSUME NEW n \in Nat, n \in Good PROVE n + 1 \in Good
    <2>1. ASSUME NEW i \in Ids(all), i <= n + 1 PROVE Settles(i)
      <3>1. \A j \in Ids(all) : j < i => j <= n
        BY <1>1, <2>1
      <3>2. \A j \in Ids(all) : j < i => Settles(j)
        BY <1>4, <3>1
      <3> HIDE DEF Settles
      <3>3. QED BY <1>2, <3>2
    <2>2. QED BY <2>1
  <1>5. id \in Nat /\ id \in Good
    <2> HIDE DEF Good
    <2>1. QED BY <1>1, <1>3, <1>4, Induction
  <1>6. Settles(id)
    BY <1>5
  <1>7. QED BY <1>6

\* The walk goes on from the parent, if there is one.
LEMMA RootStep ==
  ASSUME NEW all, Chained(all), NEW m \in all
  PROVE  /\ (\A p \in all : p.id # m.supersedes) => RootAmong(all, m) = m
         /\ \A p \in all : p.id = m.supersedes => RootAmong(all, m) = RootAmong(all, p)
  <1> DEFINE N == Cardinality(all)
  <1>1. PICK root : /\ WalksOf(all, root)
                    /\ \A p : RootAmong(all, p) = root[N][p.id]
    BY RootIsWalk
  <1>2. N \in Nat /\ N \in 0 .. N /\ m.id \in 0 .. N - 1
    BY DEF Chained
  <1>3. (\A p \in all : p.id # m.supersedes) => RootAmong(all, m) = m
    <2>1. ASSUME \A p \in all : p.id # m.supersedes PROVE root[N][m.id] = m
      <3>1. NoParent(all, m.id) /\ m.id \in Ids(all) /\ The(all, m.id) = m
        BY <2>1, TheOne
      <3>2. QED BY <1>1, <1>2, <3>1 DEF WalksOf
    <2>2. QED BY <1>1, <2>1
  <1>4. ASSUME NEW p \in all, p.id = m.supersedes
        PROVE  RootAmong(all, m) = RootAmong(all, p)
    <2>1. ~NoParent(all, m.id) /\ m.id \in Ids(all) /\ The(all, m.id) = m /\ p.id \in Ids(all)
      BY <1>4, TheOne
    <2>2. root[N][m.id] = root[N - 1][p.id]
      BY <1>1, <1>2, <1>4, <2>1 DEF WalksOf
    <2>3. p.id \in Nat /\ p.id < m.id
      BY <1>4 DEF Chained
    <2>4. N - 1 \in p.id .. N /\ N \in p.id .. N
      BY <1>2, <2>3
    <2>5. root[N - 1][p.id] = root[N][p.id]
      BY <1>1, <2>1, <2>4, WalkSettles
    <2>6. QED BY <1>1, <2>2, <2>5
  <1>5. QED BY <1>3, <1>4

\* What passes along the supersedes chain holds of every message.
LEMMA ChainInduction ==
  ASSUME NEW all, Chained(all), NEW Good,
         \A m \in all : (\A p \in all : p.id = m.supersedes => p \in Good) => m \in Good
  PROVE  all \subseteq Good
  <1> DEFINE S == {n \in Nat : \A m \in all : m.id <= n => m \in Good}
  <1>1. \A m \in all : m.id \in Nat
    BY DEF Chained
  <1>2. ASSUME NEW m \in all, \A p \in all : p.id < m.id => p \in Good PROVE m \in Good
    <2>1. \A p \in all : p.id = m.supersedes => p \in Good
      BY <1>2 DEF Chained
    <2>2. QED BY <2>1
  <1>3. 0 \in S
    <2>1. ASSUME NEW m \in all, m.id <= 0 PROVE m \in Good
      <3>1. \A p \in all : ~(p.id < m.id)
        BY <1>1, <2>1
      <3>2. QED BY <1>2, <3>1
    <2>2. QED BY <2>1
  <1>4. ASSUME NEW n \in Nat, n \in S PROVE n + 1 \in S
    <2>1. ASSUME NEW m \in all, m.id <= n + 1 PROVE m \in Good
      <3>1. \A p \in all : p.id < m.id => p.id <= n
        BY <1>1, <2>1
      <3>2. QED BY <1>2, <1>4, <3>1
    <2>2. QED BY <2>1
  <1>5. Nat \subseteq S
    <2> HIDE DEF S
    <2>1. QED BY <1>3, <1>4, Induction
  <1>6. QED BY <1>1, <1>5

LEMMA RootIsMessage ==
  ASSUME NEW all, Chained(all), NEW m \in all
  PROVE  RootAmong(all, m) \in all
  <1> DEFINE Good == {q \in all : RootAmong(all, q) \in all}
  <1>1. ASSUME NEW q \in all, \A p \in all : p.id = q.supersedes => p \in Good
        PROVE  q \in Good
    <2>1. CASE \A p \in all : p.id # q.supersedes
      BY <2>1, RootStep
    <2>2. CASE \E p \in all : p.id = q.supersedes
      BY <1>1, <2>2, RootStep
    <2>3. QED BY <2>1, <2>2
  <1>2. all \subseteq Good
    <2> HIDE DEF Good
    <2>1. QED BY <1>1, ChainInduction
  <1>3. QED BY <1>2

(***************************************************************************)
(* The inductive invariant                                                 *)
(***************************************************************************)
N == Cardinality(messages)

Named == SUBSET (Docs \cup {OldDoc})

Turns ==
    [id : Nat, ordinal : Nat, role : {"user", "assistant"}, query : Queries,
     retrieved : Named, retrievedNames : Named, cited : Named, citedNames : Named,
     supersedes : Nat \cup {NoMessage}, orderly : BOOLEAN]

RequestState ==
    [pc : Steps, kind : {"search", "reevaluate"}, query : Queries \cup {NoQuery},
     target : Nat \cup {NoMessage}, names : SUBSET Docs, ordinal : Nat,
     retrieved : SUBSET Docs, cited : SUBSET Docs, orderly : BOOLEAN]

\* There is an answer with this id, and it answers this query.
AnswerTo(id, query) ==
    \E p \in messages : p.id = id /\ p.role = "assistant" /\ QueryFor(p) = query

\* The message before this place asks this query.
AskedBefore(k, query) ==
    \E p \in messages : p.ordinal = k - 1 /\ p.role = "user" /\ p.query = query

Numbered ==
    /\ \A m \in messages : m.id = m.ordinal /\ m.ordinal \in 0 .. N - 1
    /\ \A m, p \in messages : m.ordinal = p.ordinal => m = p
    /\ \A k \in 0 .. N - 1 : \E m \in messages : m.ordinal = k

\* A message's documents are named alike, what it supersedes is an earlier
\* answer to its query, and an orderly one follows its question.
Told(m) ==
    /\ m.citedNames \subseteq m.cited
    /\ m.retrievedNames \cap m.cited \subseteq m.citedNames
    /\ m.supersedes # NoMessage =>
          AnswerTo(m.supersedes, m.query) /\ m.supersedes < m.ordinal
    /\ m.role = "assistant" /\ m.orderly /\ m.supersedes = NoMessage =>
          AskedBefore(m.ordinal, m.query)

History ==
    /\ messages \subseteq Turns
    /\ IsFiniteSet(messages)
    /\ Numbered
    /\ \A m \in messages : Told(m)

\* Past its first step a request has its query, and only a re-evaluation has
\* an answer to supersede.  An ordinal read is at most the next one, and a
\* search that stored its question and is alone finds it last in the list.
Fits(q) ==
    /\ q.cited \subseteq q.retrieved
    /\ q.pc \notin {"idle", "list"} =>
          /\ q.query \in Queries
          /\ q.kind = "search" <=> q.target = NoMessage
    /\ q.pc \in {"inquiry", "ask", "askInsert"} => q.kind = "search"
    /\ q.pc = "list" => q.kind = "reevaluate"
    /\ kb => /\ q.pc \in {"askInsert", "answerInsert"} => q.ordinal <= N
             /\ q.pc # "idle" /\ q.target # NoMessage => AnswerTo(q.target, q.query)
             /\ /\ q.pc \in {"stream", "answer", "answerInsert"}
                /\ q.target = NoMessage
                /\ q.orderly
                => AskedBefore(N, q.query)

Alone ==
    \A r, s \in Requests :
       InProgress(r) /\ requests[r].orderly /\ InProgress(s) => r = s

IInv ==
    /\ TypeOK
    /\ requests \in [Requests -> RequestState]
    /\ History
    /\ \A r \in Requests : Fits(requests[r])
    /\ Alone

LEMMA Counted ==
  ASSUME History
  PROVE  N \in Nat /\ Chained(messages)
  <1>1. N \in Nat
    BY FS_CardinalityType DEF History, N
  <1>2. ASSUME NEW m \in messages, NEW p \in messages, p.id = m.supersedes
        PROVE  p.id < m.id
    BY <1>2, NoMessageIsNoId DEF History, Numbered, Told, Turns
  <1>3. \A m, p \in messages : m.id = p.id => m = p
    BY DEF History, Numbered
  <1>4. \A m \in messages : m.id \in 0 .. N - 1
    BY DEF History, Numbered
  <1>5. QED BY <1>1, <1>2, <1>3, <1>4 DEF Chained, N

LEMMA NextIsCount ==
  ASSUME History
  PROVE  NextOrdinal = N
  <1>1. N \in Nat /\ (N = 0 <=> messages = {})
    BY FS_CardinalityType, FS_EmptySet DEF History, N
  <1>2. CASE messages = {}
    BY <1>1, <1>2 DEF NextOrdinal
  <1>3. CASE messages # {}
    <2>1. PICK m \in messages : m.ordinal = N - 1
      BY <1>1, <1>3 DEF History, Numbered
    <2>2. \A p \in messages : p.ordinal \in 0 .. N - 1
      BY DEF History, Numbered
    <2>3. \A p \in messages : p.ordinal <= m.ordinal
      BY <1>1, <2>1, <2>2
    <2> DEFINE Latest == CHOOSE q \in messages : \A p \in messages : p.ordinal <= q.ordinal
    <2>4. Latest \in messages /\ \A p \in messages : p.ordinal <= Latest.ordinal
      BY <2>3
    <2>5. NextOrdinal = Latest.ordinal + 1
      BY <1>3 DEF NextOrdinal
    <2> HIDE DEF Latest
    <2>6. Latest.ordinal = N - 1
      BY <1>1, <2>1, <2>2, <2>4
    <2>7. QED BY <1>1, <2>5, <2>6
  <1>4. QED BY <1>2, <1>3

\* Where the history ends with a message, it stays as it was before.
LEMMA HistoryGrows ==
  ASSUME History, NEW x \in Turns, x.id = N, x.ordinal = N, messages' = messages \cup {x},
         x.supersedes # NoMessage => x.supersedes < N
  PROVE  /\ N' = N + 1
         /\ Chained(messages')
         /\ Numbered'
         /\ IsFiniteSet(messages)'
         /\ \A m \in messages : QueryFor(m)' = QueryFor(m)
  <1>1. N \in Nat /\ Chained(messages) /\ IsFiniteSet(messages)
    BY Counted DEF History
  <1>2. x \notin messages
    BY <1>1 DEF History, Numbered
  <1>3. N' = N + 1 /\ IsFiniteSet(messages')
    BY <1>1, <1>2, FS_AddElement DEF N
  <1>4. Numbered'
    <2>1. ASSUME NEW m \in messages' PROVE m.id = m.ordinal /\ m.ordinal \in 0 .. N' - 1
      BY <1>1, <1>3 DEF History, Numbered
    <2>2. ASSUME NEW m \in messages', NEW p \in messages', m.ordinal = p.ordinal PROVE m = p
      BY <1>1, <2>2 DEF History, Numbered
    <2>3. ASSUME NEW k \in 0 .. N' - 1 PROVE \E m \in messages' : m.ordinal = k
      BY <1>1, <1>3 DEF History, Numbered
    <2>4. QED BY <2>1, <2>2, <2>3 DEF Numbered
  <1>5. Chained(messages')
    <2>1. \A m \in messages' : m.id \in 0 .. Cardinality(messages') - 1
      BY <1>4 DEF Numbered, N
    <2>2. \A m, p \in messages' : m.id = p.id => m = p
      BY <1>4 DEF Numbered
    <2>3. ASSUME NEW m \in messages', NEW p \in messages', p.id = m.supersedes PROVE p.id < m.id
      <3>1. \A q \in messages : q.id \in Nat /\ q.id < N
        BY <1>1 DEF History, Numbered
      <3>2. CASE m = x
        BY <1>1, <2>3, <3>1, <3>2, NoMessageIsNoId DEF Turns
      <3>3. CASE m # x
        <4>1. m \in messages /\ m.supersedes # NoMessage => m.supersedes < m.id
          BY <3>3 DEF History, Numbered, Told
        <4>2. m.supersedes \in Nat
          BY <1>1, <2>3, <3>1
        <4>3. QED BY <2>3, <3>3, <4>1, <4>2, NoMessageIsNoId
      <3>4. QED BY <3>2, <3>3
    <2>4. Cardinality(messages') \in Nat
      BY <1>1, <1>3 DEF N
    <2>5. QED BY <2>1, <2>2, <2>3, <2>4 DEF Chained
  <1>6. ASSUME NEW m \in messages PROVE RootAmong(messages', m) = RootAmong(messages, m)
    <2> DEFINE Good == {q \in messages : RootAmong(messages', q) = RootAmong(messages, q)}
    <2>1. ASSUME NEW q \in messages, \A p \in messages : p.id = q.supersedes => p \in Good
          PROVE  q \in Good
      <3>1. q.supersedes # x.id
        BY <1>1, NoMessageIsNoId DEF History, Numbered, Told
      <3>2. CASE \A p \in messages : p.id # q.supersedes
        <4>1. \A p \in messages' : p.id # q.supersedes
          BY <3>1, <3>2
        <4>2. RootAmong(messages', q) = q
          BY <1>5, <4>1, RootStep
        <4>3. QED BY <1>1, <3>2, <4>2, RootStep
      <3>3. ASSUME NEW p \in messages, p.id = q.supersedes
            PROVE  q \in Good
        <4>1. RootAmong(messages', q) = RootAmong(messages', p)
          BY <1>5, <3>3, RootStep
        <4>2. QED BY <1>1, <2>1, <3>3, <4>1, RootStep
      <3>4. QED BY <3>2, <3>3
    <2>2. messages \subseteq Good
      <3> HIDE DEF Good
      <3>1. QED BY <1>1, <2>1, ChainInduction
    <2>3. QED BY <2>2
  <1>7. ASSUME NEW m \in messages PROVE QueryFor(m)' = QueryFor(m)
    <2> DEFINE root == RootAmong(messages, m)
    <2>1. root \in messages /\ root.ordinal \in Nat /\ root.ordinal < N
      BY <1>1, RootIsMessage DEF History, Numbered
    <2>2. {p \in messages' : p.ordinal < root.ordinal} = {p \in messages : p.ordinal < root.ordinal}
      BY <1>1, <2>1
    <2> HIDE DEF root
    <2>3. RootAmong(messages', m) = root
      BY <1>6 DEF root
    <2>4. RootOf(m) = root /\ RootOf(m)' = root
      BY <2>3 DEF RootOf, root
    <2>5. Before(RootOf(m))' = Before(RootOf(m))
      BY <2>2, <2>4 DEF Before
    <2>6. QED BY <2>4, <2>5 DEF QueryFor
  <1>8. QED BY <1>3, <1>4, <1>5, <1>7

(***************************************************************************)
(* Steps                                                                   *)
(***************************************************************************)
LEMMA SameHistory ==
  ASSUME messages' = messages
  PROVE  /\ N' = N
         /\ \A id, query : AnswerTo(id, query)' = AnswerTo(id, query)
         /\ \A k, query : AskedBefore(k, query)' = AskedBefore(k, query)
         /\ \A m : QueryFor(m)' = QueryFor(m)
         /\ History' = History
  <1>1. N' = N
    BY DEF N
  <1>2. \A m : RootOf(m)' = RootOf(m)
    BY DEF RootOf
  <1>3. \A m : Before(m)' = Before(m)
    BY DEF Before
  <1>4. ASSUME NEW m PROVE QueryFor(m)' = QueryFor(m)
    <2>1. PICK root : root = RootOf(m)
      OBVIOUS
    <2>2. RootOf(m) = root /\ RootOf(m)' = root
      BY <1>2, <2>1
    <2>3. Before(RootOf(m))' = Before(RootOf(m))
      BY <2>2 DEF Before
    <2>4. QED BY <2>2, <2>3 DEF QueryFor
  <1>5. \A id, query : AnswerTo(id, query)' = AnswerTo(id, query)
    BY <1>4 DEF AnswerTo
  <1>6. \A k, query : AskedBefore(k, query)' = AskedBefore(k, query)
    BY DEF AskedBefore
  <1>7. \A m : Told(m)' = Told(m)
    BY <1>5, <1>6 DEF Told
  <1>8. Numbered' = Numbered
    BY <1>1 DEF Numbered
  <1>9. History' = History
    BY <1>7, <1>8 DEF History
  <1>10. QED BY <1>1, <1>4, <1>5, <1>6, <1>9

LEMMA SameFits ==
  ASSUME messages' = messages, kb' = kb \/ ~kb'
  PROVE  \A q : Fits(q) => Fits(q)'
  BY SameHistory DEF Fits

\* A request in progress takes a step that leaves the history alone.
LEMMA StepOf ==
  ASSUME IInv, NEW r \in Requests, NEW q \in RequestState, requests' = [requests EXCEPT ![r] = q],
         kb' = kb, messages' = messages, docs' = docs, 
         inquiry' = inquiry \/ (kb /\ inquiry' = TRUE),
         Fits(q), requests[r].pc # "idle",
         q.pc # "idle" /\ q.orderly => requests[r].orderly
  PROVE  IInv'
  <1>1. /\ requests' \in [Requests -> RequestState]
        /\ requests'[r] = q
        /\ \A s \in Requests \ {r} : requests'[s] = requests[s]
    BY DEF IInv
  <1>2. TypeOK'
    <2>1. TypeOK
      BY DEF IInv
    <2>2. inquiry' \in BOOLEAN /\ (~kb => ~inquiry')
      <3>1. CASE inquiry' = inquiry
        BY <2>1, <3>1 DEF TypeOK
      <3>2. CASE kb /\ inquiry' = TRUE
        BY <3>2
      <3>3. QED BY <3>1, <3>2
    <2>3. ~inquiry' => messages' = {}
      BY <2>1 DEF TypeOK
    <2>4. \A s \in Requests : requests'[s].pc \in Steps
      BY <1>1 DEF RequestState
    <2>5. QED BY <2>1, <2>2, <2>3, <2>4 DEF TypeOK
  <1>3. History'
    BY SameHistory DEF IInv
  <1>4. ASSUME NEW s \in Requests PROVE Fits(requests[s])'
    <2>1. PICK p : p = requests'[s]
      OBVIOUS
    <2>2. Fits(p)
      BY <1>1, <2>1 DEF IInv
    <2>3. Fits(p)'
      BY <2>2, SameFits
    <2>4. QED BY <2>1, <2>3 DEF Fits
  <1>5. Alone'
    BY <1>1 DEF IInv, Alone, InProgress, At
  <1>6. QED BY <1>1, <1>2, <1>3, <1>4, <1>5 DEF IInv

LEMMA FinishStep ==
  ASSUME IInv, NEW r \in Requests, Finish(r), InProgress(r), UNCHANGED stored
  PROVE  IInv'
  <1>1. IdleRequest \in RequestState
    BY DEF IdleRequest, RequestState, Steps
  <1>2. requests' = [requests EXCEPT ![r] = IdleRequest] /\ requests[r].pc # "idle"
    BY DEF Finish, InProgress, At
  <1>3. Fits(IdleRequest) /\ IdleRequest.pc = "idle"
    BY DEF Fits, IdleRequest
  <1>4. kb' = kb /\ messages' = messages /\ docs' = docs /\ inquiry' = inquiry
    BY DEF stored
  <1>5. QED BY <1>1, <1>2, <1>3, <1>4, StepOf

LEMMA BeginStep ==
  ASSUME IInv, NEW r \in Requests, NEW kind \in {"search", "reevaluate"},
         NEW pc \in {"names", "list"}, NEW query \in Queries \cup {NoQuery},
         IF pc = "names" THEN kind = "search" /\ query \in Queries ELSE kind = "reevaluate",
         Begin(r, kind, pc, query)
  PROVE  IInv'
  <1> DEFINE others == {s \in Requests \ {r} : InProgress(s)}
             new == [IdleRequest EXCEPT !.pc = pc, !.kind = kind, !.query = query,
                                        !.orderly = (others = {})]
  <1>1. new \in RequestState /\ new.pc = pc /\ new.orderly = (others = {})
    BY DEF IdleRequest, RequestState, Steps
  <1>2. requests' = [s \in Requests |->
            IF s = r THEN new
            ELSE IF s \in others THEN [requests[s] EXCEPT !.orderly = FALSE]
            ELSE requests[s]]
    BY DEF Begin
  <1>3. Fits(new)
    BY DEF Fits, IdleRequest
  <1>4. ASSUME NEW s \in Requests, s # r
        PROVE  /\ requests'[s] \in RequestState
               /\ requests'[s].pc = requests[s].pc
               /\ InProgress(s) => ~requests'[s].orderly
               /\ Fits(requests'[s])
    <2>1. requests[s] \in RequestState /\ Fits(requests[s])
      BY DEF IInv
    <2>2. [requests[s] EXCEPT !.orderly = FALSE] \in RequestState
      BY <2>1 DEF RequestState
    <2>3. CASE s \in others
      <3>1. requests'[s] = [requests[s] EXCEPT !.orderly = FALSE]
        BY <1>2, <1>4, <2>3
      <3>2. Fits([requests[s] EXCEPT !.orderly = FALSE])
        BY <2>1 DEF Fits, RequestState
      <3>3. QED BY <2>1, <2>2, <3>1, <3>2 DEF RequestState
    <2>4. CASE s \notin others
      BY <1>2, <1>4, <2>1, <2>4
    <2>5. QED BY <2>3, <2>4
  <1>5. requests'[r] = new
    BY <1>2
  <1>6. kb' = kb /\ messages' = messages /\ docs' = docs /\ inquiry' = inquiry
    BY DEF Begin, stored
  <1>7. requests' \in [Requests -> RequestState]
    <2> HIDE DEF new, others
    <2>1. requests' = [s \in Requests |-> requests'[s]]
      BY <1>2
    <2>2. \A s \in Requests : requests'[s] \in RequestState
      BY <1>1, <1>4, <1>5
    <2>3. QED BY <2>1, <2>2
  <1>8. TypeOK'
    BY <1>6, <1>7 DEF IInv, TypeOK, RequestState
  <1>9. History'
    BY <1>6, SameHistory DEF IInv
  <1>10. ASSUME NEW s \in Requests PROVE Fits(requests[s])'
    <2>1. PICK q : q = requests'[s]
      OBVIOUS
    <2>2. Fits(q)
      <3>1. CASE s = r
        BY <1>3, <1>5, <2>1, <3>1 DEF Fits
      <3>2. CASE s # r
        BY <1>4, <2>1, <3>2 DEF Fits
      <3>3. QED BY <3>1, <3>2
    <2>3. Fits(q)'
      BY <1>6, <2>2, SameFits
    <2>4. QED BY <2>1, <2>3 DEF Fits
  <1>11. Alone'
    <2>1. ASSUME NEW s \in Requests, NEW t \in Requests,
                 requests'[s].pc # "idle", requests'[s].orderly, requests'[t].pc # "idle"
          PROVE  s = t
      <3>1. s = r
        BY <1>4, <2>1 DEF InProgress, At
      <3>2. others = {}
        BY <1>1, <1>5, <2>1, <3>1
      <3>3. QED BY <1>4, <2>1, <3>1, <3>2 DEF InProgress, At
    <2>2. QED BY <2>1 DEF Alone, InProgress, At
  <1>12. QED BY <1>7, <1>8, <1>9, <1>10, <1>11 DEF IInv

LEMMA QueryForKnown ==
  ASSUME History, NEW m \in messages
  PROVE  /\ QueryFor(m) \in Queries \cup {NoQuery}
         /\ QueryFor(m) # NoQuery => m.role = "assistant"
  BY DEF QueryFor, Before, History, Turns

LEMMA ListStep ==
  ASSUME IInv, NEW r \in Requests, ReevaluateList(r)
  PROVE  IInv'
  <1>1. requests[r] \in RequestState /\ Fits(requests[r]) /\ requests[r].pc = "list" /\ History
    BY DEF IInv, ReevaluateList, At
  <1>2. CASE Finish(r)
    BY <1>1, <1>2, FinishStep DEF ReevaluateList, InProgress, At
  <1>3. ASSUME NEW m \in messages, QueryFor(m) # NoQuery,
               requests' = [requests EXCEPT ![r].pc = "names", ![r].target = m.id,
                                            ![r].query = QueryFor(m)]
        PROVE  IInv'
    <2>1. PICK q : q = [requests[r] EXCEPT !.pc = "names", !.target = m.id, !.query = QueryFor(m)]
      OBVIOUS
    <2>2. m.id \in Nat /\ QueryFor(m) \in Queries /\ m.role = "assistant"
      BY <1>1, <1>3, QueryForKnown DEF History, Turns
    <2>3. q \in RequestState
      BY <1>1, <2>1, <2>2 DEF RequestState, Steps
    <2>4. AnswerTo(m.id, QueryFor(m))
      BY <2>2 DEF AnswerTo
    <2>5. Fits(q)
      BY <1>1, <2>1, <2>2, <2>4, NoMessageIsNoId DEF Fits, RequestState
    <2>6. requests' = [requests EXCEPT ![r] = q]
      BY <1>1, <1>3, <2>1 DEF IInv, RequestState
    <2>7. q.orderly = requests[r].orderly
      BY <1>1, <2>1 DEF RequestState
    <2>8. kb' = kb /\ messages' = messages /\ docs' = docs /\ inquiry' = inquiry
      BY DEF ReevaluateList, stored
    <2>9. QED BY <1>1, <2>3, <2>5, <2>6, <2>7, <2>8, StepOf
  <1>4. QED BY <1>2, <1>3 DEF ReevaluateList

LEMMA NamesStep ==
  ASSUME IInv, NEW r \in Requests, FileNames(r)
  PROVE  IInv'
  <1>1. requests[r] \in RequestState /\ Fits(requests[r]) /\ requests[r].pc = "names"
    BY DEF IInv, FileNames, At
  <1>2. PICK names \in {{}, {d \in Docs : docs[d] \in {"stored", "indexed"}}} :
          requests' = [requests EXCEPT ![r].names = names,
              ![r].pc = IF requests[r].kind = "search" THEN "inquiry" ELSE "stream"]
    BY DEF FileNames
  <1>3. PICK q : q = [requests[r] EXCEPT !.names = names,
                        !.pc = IF requests[r].kind = "search" THEN "inquiry" ELSE "stream"]
    OBVIOUS
  <1>4. q \in RequestState
    BY <1>1, <1>3 DEF RequestState, Steps
  <1>5. Fits(q)
    BY <1>1, <1>3 DEF Fits, RequestState
  <1>6. requests' = [requests EXCEPT ![r] = q]
    BY <1>1, <1>2, <1>3 DEF IInv, RequestState
  <1>7. q.orderly = requests[r].orderly
    BY <1>1, <1>3 DEF RequestState
  <1>8. kb' = kb /\ messages' = messages /\ docs' = docs /\ inquiry' = inquiry
    BY DEF FileNames, stored
  <1>9. QED BY <1>1, <1>4, <1>5, <1>6, <1>7, <1>8, StepOf

LEMMA InquiryStep ==
  ASSUME IInv, NEW r \in Requests, GetOrCreate(r)
  PROVE  IInv'
  <1>1. requests[r] \in RequestState /\ Fits(requests[r]) /\ requests[r].pc = "inquiry"
    BY DEF IInv, GetOrCreate, At
  <1>2. kb' = kb /\ messages' = messages /\ docs' = docs
    BY DEF GetOrCreate
  <1>3. CASE Finish(r) /\ UNCHANGED inquiry
    BY <1>1, <1>2, <1>3, FinishStep DEF stored, InProgress, At
  <1>4. CASE kb /\ inquiry' = TRUE /\ Goto(r, "ask")
    <2>1. PICK q : q = [requests[r] EXCEPT !.pc = "ask"]
      OBVIOUS
    <2>2. q \in RequestState
      BY <1>1, <2>1 DEF RequestState, Steps
    <2>3. Fits(q)
      BY <1>1, <2>1 DEF Fits, RequestState
    <2>4. requests' = [requests EXCEPT ![r] = q]
      BY <1>1, <1>4, <2>1 DEF IInv, RequestState, Goto
    <2>5. q.orderly = requests[r].orderly
      BY <1>1, <2>1 DEF RequestState
    <2>6. QED BY <1>1, <1>2, <1>4, <2>2, <2>3, <2>4, <2>5, StepOf
  <1>5. QED BY <1>3, <1>4 DEF GetOrCreate

LEMMA ReadStep ==
  ASSUME IInv, NEW r \in Requests, AppendRead(r)
  PROVE  IInv'
  <1>1. /\ requests[r] \in RequestState /\ Fits(requests[r])
        /\ requests[r].pc \in {"ask", "answer"}
    BY DEF IInv, AppendRead
  <1>2. NextOrdinal = N /\ N \in Nat
    BY Counted, NextIsCount DEF IInv
  <1>3. PICK q : q = [requests[r] EXCEPT !.ordinal = N,
                        !.pc = IF At(r, "ask") THEN "askInsert" ELSE "answerInsert"]
    OBVIOUS
  <1>4. q \in RequestState
    BY <1>1, <1>2, <1>3 DEF RequestState, Steps
  <1>5. Fits(q)
    BY <1>1, <1>2, <1>3 DEF Fits, RequestState, At
  <1>6. requests' = [requests EXCEPT ![r] = q]
    BY <1>1, <1>2, <1>3 DEF IInv, RequestState, AppendRead
  <1>7. q.orderly = requests[r].orderly
    BY <1>1, <1>3 DEF RequestState
  <1>8. kb' = kb /\ messages' = messages /\ docs' = docs /\ inquiry' = inquiry
    BY DEF AppendRead, stored
  <1>9. requests[r].pc # "idle"
    BY <1>1
  <1>10. QED BY <1>4, <1>5, <1>6, <1>7, <1>8, <1>9, StepOf

LEMMA AskFailsStep ==
  ASSUME IInv, NEW r \in Requests, AskFails(r)
  PROVE  IInv'
  <1>1. requests[r] \in RequestState /\ Fits(requests[r]) /\ requests[r].pc = "askInsert"
    BY DEF IInv, AskFails, At
  <1>2. PICK q : q = [requests[r] EXCEPT !.pc = "stream", !.ordinal = 0, !.orderly = FALSE]
    OBVIOUS
  <1>3. q \in RequestState
    BY <1>1, <1>2 DEF RequestState, Steps
  <1>4. Fits(q) /\ ~q.orderly
    BY <1>1, <1>2 DEF Fits, RequestState
  <1>5. requests' = [requests EXCEPT ![r] = q]
    BY <1>1, <1>2 DEF IInv, RequestState, AskFails
  <1>6. kb' = kb /\ messages' = messages /\ docs' = docs /\ inquiry' = inquiry
    BY DEF AskFails, stored
  <1>7. QED BY <1>1, <1>3, <1>4, <1>5, <1>6, StepOf

LEMMA StreamStep ==
  ASSUME IInv, NEW r \in Requests, SearchStream(r)
  PROVE  IInv'
  <1>1. requests[r] \in RequestState /\ Fits(requests[r]) /\ requests[r].pc = "stream"
    BY DEF IInv, SearchStream, At
  <1>2. kb' = kb /\ messages' = messages /\ docs' = docs /\ inquiry' = inquiry
    BY DEF SearchStream, stored
  <1>3. CASE Finish(r)
    BY <1>1, <1>3, FinishStep DEF SearchStream, InProgress, At
  <1>4. ASSUME NEW S \in SUBSET {d \in Docs : docs[d] = "indexed"}, NEW C \in SUBSET S,
               requests' = [requests EXCEPT ![r].retrieved = S, ![r].cited = C,
                                            ![r].names = @ \cap S, ![r].pc = "answer"]
        PROVE  IInv'
    <2>1. PICK q : q = [requests[r] EXCEPT !.retrieved = S, !.cited = C,
                                           !.names = @ \cap S, !.pc = "answer"]
      OBVIOUS
    <2>2. q \in RequestState
      BY <1>1, <2>1 DEF RequestState, Steps
    <2>3. Fits(q) /\ q.orderly = requests[r].orderly
      BY <1>1, <2>1 DEF Fits, RequestState
    <2>4. requests' = [requests EXCEPT ![r] = q]
      BY <1>1, <1>4, <2>1 DEF IInv, RequestState
    <2>5. QED BY <1>1, <1>2, <2>2, <2>3, <2>4, StepOf
  <1>5. QED BY <1>3, <1>4 DEF SearchStream

\* The message a request stores is the last one.
Stored(q, role) ==
    IF role = "user"
    THEN Message(N, N, role, q.query, {}, {}, {}, NoMessage, FALSE)
    ELSE Message(N, N, role, q.query, q.retrieved, q.cited, q.names, q.target, q.orderly)

LEMMA InsertIsLast ==
  ASSUME IInv, NEW r \in Requests, NEW role \in {"user", "assistant"}, Insert(r, role),
         requests[r].pc = IF role = "user" THEN "askInsert" ELSE "answerInsert"
  PROVE  /\ kb
         /\ messages' = messages \cup {Stored(requests[r], role)}
         /\ Stored(requests[r], role) \in Turns
  <1>1. requests[r] \in RequestState /\ Fits(requests[r]) /\ History /\ TypeOK /\ N \in Nat
    BY Counted DEF IInv
  <1>2. kb
    BY <1>1 DEF Insert, TypeOK
  <1>3. requests[r].ordinal \in Nat /\ requests[r].ordinal <= N
    BY <1>1, <1>2 DEF Fits, RequestState
  <1>4. requests[r].ordinal = N
    <2>1. \A k \in 0 .. N - 1 : \E m \in messages : m.ordinal = k
      BY <1>1 DEF History, Numbered
    <2>2. \A m \in messages : m.ordinal # requests[r].ordinal
      BY DEF Insert
    <2>3. QED BY <1>1, <1>3, <2>1, <2>2
  <1>5. messages' = messages \cup {Stored(requests[r], role)}
    BY <1>4 DEF Insert, Stored, N
  <1>6. requests[r].query \in Queries
    BY <1>1 DEF Fits
  <1>7. Stored(requests[r], role) \in Turns
    <2>1. CASE role = "user"
      BY <1>1, <1>6, <2>1 DEF Stored, Message, Turns, Named
    <2>2. CASE role = "assistant"
      BY <1>1, <1>6, <2>2 DEF Stored, Message, Turns, Named, RequestState
    <2>3. QED BY <2>1, <2>2
  <1>8. QED BY <1>2, <1>5, <1>7

LEMMA HistoryExtended ==
  ASSUME History, NEW x \in Turns, x.id = N, x.ordinal = N, messages' = messages \cup {x},
         x.citedNames \subseteq x.cited, x.retrievedNames \cap x.cited \subseteq x.citedNames,
         x.supersedes # NoMessage => AnswerTo(x.supersedes, x.query),
         x.role = "assistant" /\ x.orderly /\ x.supersedes = NoMessage => AskedBefore(N, x.query)
  PROVE  /\ History'
         /\ N \in Nat
         /\ N' = N + 1
         /\ \A id, query : AnswerTo(id, query) => AnswerTo(id, query)'
         /\ \A k, query : AskedBefore(k, query) => AskedBefore(k, query)'
  <1>1. N \in Nat
    BY Counted
  <1>2. x.supersedes # NoMessage => x.supersedes < N
    BY <1>1 DEF AnswerTo, History, Numbered
  <1>3. /\ N' = N + 1
        /\ Numbered'
        /\ IsFiniteSet(messages)'
        /\ \A m \in messages : QueryFor(m)' = QueryFor(m)
    BY <1>2, HistoryGrows
  <1>4. \A id, query : AnswerTo(id, query) => AnswerTo(id, query)'
    BY <1>3 DEF AnswerTo
  <1>5. \A k, query : AskedBefore(k, query) => AskedBefore(k, query)'
    BY DEF AskedBefore
  <1>6. ASSUME NEW m \in messages' PROVE Told(m)'
    <2>1. CASE m = x
      BY <1>2, <1>4, <1>5, <2>1 DEF Told
    <2>2. CASE m \in messages
      <3>1. Told(m)
        BY <2>2 DEF History
      <3>2. QED BY <1>4, <1>5, <3>1 DEF Told
    <2>3. QED BY <2>1, <2>2
  <1>7. History'
    BY <1>3, <1>6 DEF History
  <1>8. QED BY <1>1, <1>3, <1>4, <1>5, <1>7

LEMMA InsertStep ==
  ASSUME IInv, NEW r \in Requests, NEW role \in {"user", "assistant"}, Insert(r, role),
         requests[r].pc = (IF role = "user" THEN "askInsert" ELSE "answerInsert"),
         NEW q \in RequestState, requests' = [requests EXCEPT ![r] = q],
         kb' = kb, docs' = docs, inquiry' = inquiry,
         IF role = "user"
         THEN q = [requests[r] EXCEPT !.pc = "stream", !.ordinal = 0]
         ELSE q = IdleRequest
  PROVE  IInv'
  <1>1. requests[r] \in RequestState /\ Fits(requests[r]) /\ History /\ TypeOK
    BY DEF IInv
  <1>2. kb /\ inquiry
    BY InsertIsLast DEF Insert
  <1>3. PICK x : x = Stored(requests[r], role)
    OBVIOUS
  <1>4. messages' = messages \cup {x} /\ x \in Turns
    BY <1>3, InsertIsLast
  <1>5. /\ x.id = N /\ x.ordinal = N /\ x.role = role /\ x.query = requests[r].query
        /\ x.citedNames \subseteq x.cited /\ x.retrievedNames \cap x.cited \subseteq x.citedNames
        /\ x.cited \subseteq x.retrieved
        /\ role = "user" => x.retrieved = {} /\ x.supersedes = NoMessage
        /\ role = "assistant" => /\ x.supersedes = requests[r].target
                                 /\ x.orderly = requests[r].orderly
    <2>1. CASE role = "user"
      BY <1>3, <2>1 DEF Stored, Message
    <2>2. CASE role = "assistant"
      BY <1>1, <1>3, <2>2 DEF Stored, Message, Fits
    <2>3. QED BY <2>1, <2>2
  <1>6. x.supersedes # NoMessage => AnswerTo(x.supersedes, x.query)
    BY <1>1, <1>2, <1>5 DEF Fits
  <1>7. x.role = "assistant" /\ x.orderly /\ x.supersedes = NoMessage => AskedBefore(N, x.query)
    BY <1>1, <1>2, <1>5 DEF Fits
  <1>8. /\ History'
        /\ N \in Nat
        /\ N' = N + 1
        /\ \A id, query : AnswerTo(id, query) => AnswerTo(id, query)'
        /\ \A k, query : AskedBefore(k, query) => AskedBefore(k, query)'
    BY <1>1, <1>4, <1>5, <1>6, <1>7, HistoryExtended
  <1>9. /\ requests' \in [Requests -> RequestState]
        /\ requests'[r] = q
        /\ \A s \in Requests \ {r} : requests'[s] = requests[s]
    BY DEF IInv
  <1>10. q.pc # "idle" => q.orderly = requests[r].orderly
    <2>1. CASE role = "user"
      BY <1>1, <2>1 DEF RequestState
    <2>2. CASE role = "assistant"
      BY <2>2 DEF IdleRequest
    <2>3. QED BY <2>1, <2>2
  <1>11. Alone'
    BY <1>9, <1>10 DEF IInv, Alone, InProgress, At
  <1>12. Fits(q)'
    <2>1. CASE role = "user"
      <3>1. AskedBefore(N, q.query)'
        <4>1. x \in messages' /\ x.ordinal = N' - 1 /\ x.role = "user"
          BY <1>4, <1>5, <1>8, <2>1
        <4>2. x.query = q.query
          BY <1>1, <1>5, <2>1 DEF RequestState
        <4>3. QED BY <4>1, <4>2 DEF AskedBefore
      <3>2. /\ q.pc = "stream" /\ q.kind = "search" /\ q.target = NoMessage
            /\ q.query \in Queries /\ q.cited \subseteq q.retrieved
        BY <1>1, <2>1 DEF Fits, RequestState
      <3>3. QED BY <3>1, <3>2 DEF Fits
    <2>2. CASE role = "assistant"
      BY <2>2 DEF Fits, IdleRequest
    <2>3. QED BY <2>1, <2>2
  <1>13. ASSUME NEW s \in Requests, s # r PROVE Fits(requests[s])'
    <2>1. PICK p : p = requests[s]
      OBVIOUS
    <2>2. p \in RequestState /\ Fits(p) /\ requests'[s] = p
      BY <1>9, <1>13, <2>1 DEF IInv
    <2>3. p.pc # "idle" => ~p.orderly
      BY <1>13, <2>1 DEF IInv, Alone, InProgress, At
    <2>4. /\ p.pc \in {"askInsert", "answerInsert"} => p.ordinal <= N'
          /\ p.pc # "idle" /\ p.target # NoMessage => AnswerTo(p.target, p.query)'
      BY <1>2, <1>8, <2>2 DEF Fits, RequestState
    <2>5. Fits(p)'
      BY <2>2, <2>3, <2>4 DEF Fits
    <2>6. QED BY <2>2, <2>5 DEF Fits
  <1>14. TypeOK'
    <2>1. \A m \in messages' :
             /\ m.role \in {"user", "assistant"}
             /\ m.query \in Queries
             /\ m.cited \subseteq m.retrieved
             /\ m.role = "user" => m.retrieved = {} /\ m.supersedes = NoMessage
      BY <1>1, <1>4, <1>5 DEF TypeOK, Turns
    <2>2. \A s \in Requests : requests'[s].pc \in Steps
      BY <1>9 DEF RequestState
    <2>3. QED BY <1>1, <1>2, <2>1, <2>2 DEF TypeOK
  <1>15. \A s \in Requests : Fits(requests[s])'
    BY <1>9, <1>12, <1>13 DEF Fits
  <1>16. QED BY <1>8, <1>9, <1>11, <1>14, <1>15 DEF IInv

LEMMA AskStep ==
  ASSUME IInv, NEW r \in Requests, AskInsert(r)
  PROVE  IInv'
  <1>1. requests[r] \in RequestState /\ requests[r].pc = "askInsert" /\ Insert(r, "user")
    BY DEF IInv, AskInsert, At
  <1>2. PICK q : q = [requests[r] EXCEPT !.pc = "stream", !.ordinal = 0]
    OBVIOUS
  <1>3. q \in RequestState
    BY <1>1, <1>2 DEF RequestState, Steps
  <1>4. requests' = [requests EXCEPT ![r] = q]
    BY <1>1, <1>2 DEF IInv, RequestState, AskInsert
  <1>5. kb' = kb /\ docs' = docs /\ inquiry' = inquiry
    BY DEF AskInsert
  <1>6. QED BY <1>1, <1>2, <1>3, <1>4, <1>5, InsertStep

LEMMA AnswerStep ==
  ASSUME IInv, NEW r \in Requests, AnswerInsert(r)
  PROVE  IInv'
  <1>1. requests[r].pc = "answerInsert" /\ Insert(r, "assistant")
    BY DEF AnswerInsert, At
  <1>2. PICK q : q = IdleRequest
    OBVIOUS
  <1>3. q \in RequestState
    BY <1>2 DEF IdleRequest, RequestState, Steps
  <1>4. requests' = [requests EXCEPT ![r] = q]
    BY <1>2 DEF AnswerInsert, Finish
  <1>5. kb' = kb /\ docs' = docs /\ inquiry' = inquiry
    BY DEF AnswerInsert
  <1>6. QED BY <1>1, <1>2, <1>3, <1>4, <1>5, InsertStep

LEMMA RequestsStep ==
  ASSUME IInv, NEW r \in Requests, Search(r) \/ Reevaluate(r)
  PROVE  IInv'
  <1>1. CASE SearchBegin(r)
    BY <1>1, BeginStep DEF SearchBegin
  <1>2. CASE ReevaluateBegin(r)
    BY <1>2, BeginStep DEF ReevaluateBegin
  <1>3. CASE AnswerFails(r)
    BY <1>3, FinishStep DEF AnswerFails, InProgress, At
  <1>4. QED
    BY <1>1, <1>2, <1>3, ListStep, NamesStep, InquiryStep, ReadStep, AskStep, AskFailsStep,
       StreamStep, AnswerStep
       DEF Search, Reevaluate

\* The knowledge base and its documents: requests go on, and find nothing.
LEMMA DocumentStep ==
  ASSUME IInv, NEW d \in Docs, Upload(d) \/ Index(d) \/ DeleteDocument(d)
  PROVE  IInv'
  <1>1. kb' = kb /\ inquiry' = inquiry /\ messages' = messages /\ requests' = requests
    BY DEF Upload, Index, DeleteDocument
  <1>2. TypeOK /\ docs \in [Docs -> {"absent", "stored", "indexed", "deleted"}]
    BY DEF IInv, TypeOK
  <1>3. /\ docs' \in [Docs -> {"absent", "stored", "indexed", "deleted"}]
        /\ ~kb => \A e \in Docs : docs'[e] \in {"absent", "deleted"}
    BY <1>2 DEF Upload, Index, DeleteDocument, TypeOK
  <1>4. TypeOK'
    BY <1>1, <1>2, <1>3 DEF TypeOK
  <1>5. History'
    BY <1>1, SameHistory DEF IInv
  <1>6. \A r \in Requests : Fits(requests[r])'
    <2>1. ASSUME NEW r \in Requests PROVE Fits(requests[r])'
      <3>1. PICK q : q = requests[r]
        OBVIOUS
      <3>2. Fits(q)
        BY <3>1 DEF IInv
      <3>3. Fits(q)'
        BY <1>1, <3>2, SameFits
      <3>4. QED BY <1>1, <3>1, <3>3 DEF Fits
    <2>2. QED BY <2>1
  <1>7. Alone' /\ requests' \in [Requests -> RequestState]
    BY <1>1 DEF IInv, Alone, InProgress, At
  <1>8. QED BY <1>4, <1>5, <1>6, <1>7 DEF IInv

LEMMA EmptyHistory ==
  ASSUME messages = {}
  PROVE  History
  <1>1. N = 0 /\ IsFiniteSet(messages)
    BY FS_EmptySet DEF N
  <1>2. QED BY <1>1 DEF History, Numbered

LEMMA DeletedStep ==
  ASSUME IInv, DeleteKB
  PROVE  IInv'
  <1>1. kb' = FALSE /\ inquiry' = FALSE /\ messages' = {} /\ requests' = requests
    BY DEF DeleteKB
  <1>2. TypeOK'
    <2>1. docs' \in [Docs -> {"absent", "stored", "indexed", "deleted"}]
      BY DEF DeleteKB
    <2>2. \A d \in Docs : docs'[d] \in {"absent", "deleted"}
      BY DEF DeleteKB
    <2>3. QED BY <1>1, <2>1, <2>2 DEF IInv, TypeOK
  <1>3. History'
    <2>1. N' = 0 /\ IsFiniteSet(messages')
      BY <1>1, FS_EmptySet DEF N
    <2>2. QED BY <1>1, <2>1 DEF History, Numbered
  <1>4. \A r \in Requests : Fits(requests[r])'
    BY <1>1 DEF IInv, Fits
  <1>5. Alone' /\ requests' \in [Requests -> RequestState]
    BY <1>1 DEF IInv, Alone, InProgress, At
  <1>6. QED BY <1>2, <1>3, <1>4, <1>5 DEF IInv

LEMMA InitInv ==
  ASSUME Init
  PROVE  IInv
  <1>1. requests \in [Requests -> RequestState]
    <2>1. IdleRequest \in RequestState
      BY DEF IdleRequest, RequestState, Steps
    <2>2. QED BY <2>1 DEF Init
  <1>2. \A r \in Requests : Fits(requests[r])
    BY DEF Init, Fits, IdleRequest
  <1>3. Alone
    BY DEF Init, Alone, InProgress, At, IdleRequest
  <1>4. History
    <2>1. CASE messages = {}
      BY <2>1, EmptyHistory
    <2>2. ASSUME NEW q \in Queries, messages = OldMessages(q) PROVE History
      <3>1. PICK u : u = Message(0, 0, "user", q, {}, {}, {}, NoMessage, TRUE)
        OBVIOUS
      <3>2. PICK a : a = [Message(1, 1, "assistant", q, {OldDoc}, {OldDoc}, {OldDoc}, NoMessage, TRUE)
                            EXCEPT !.retrievedNames = {}]
        OBVIOUS
      <3>3. messages = {u} \cup {a}
        BY <2>2, <3>1, <3>2 DEF OldMessages
      <3>4. u \in Turns /\ a \in Turns
        BY <3>1, <3>2 DEF Message, Turns, Named
      <3>5. /\ u.id = 0 /\ u.ordinal = 0 /\ u.role = "user" /\ u.query = q
            /\ u.supersedes = NoMessage
            /\ a.id = 1 /\ a.ordinal = 1 /\ a.role = "assistant" /\ a.query = q
            /\ a.supersedes = NoMessage
            /\ u.cited = {} /\ u.citedNames = {}
            /\ a.cited = {OldDoc} /\ a.citedNames \subseteq {OldDoc} /\ a.retrievedNames = {}
        BY <3>1, <3>2 DEF Message
      <3>6. IsFiniteSet(messages) /\ N = 2
        <4>1. IsFiniteSet({u}) /\ Cardinality({u}) = 1
          BY FS_Singleton
        <4>2. a \notin {u}
          BY <3>5
        <4>3. QED BY <3>3, <4>1, <4>2, FS_AddElement DEF N
      <3>7. Numbered
        BY <3>3, <3>5, <3>6 DEF Numbered
      <3>8. Told(u)
        BY <3>5 DEF Told
      <3>9. Told(a)
        <4>1. AskedBefore(1, q)
          BY <3>3, <3>5 DEF AskedBefore
        <4>2. QED BY <3>5, <4>1 DEF Told
      <3>10. QED BY <3>3, <3>4, <3>6, <3>7, <3>8, <3>9 DEF History
    <2>3. QED BY <2>1, <2>2 DEF Init
  <1>5. TypeOK
    <2>1. docs \in [Docs -> {"absent", "stored", "indexed", "deleted"}]
      BY DEF Init
    <2>2. ASSUME NEW m \in messages
          PROVE  /\ m.role \in {"user", "assistant"}
                 /\ m.query \in Queries
                 /\ m.cited \subseteq m.retrieved
                 /\ m.role = "user" => m.retrieved = {} /\ m.supersedes = NoMessage
      <3>1. PICK q \in Queries : m \in OldMessages(q)
        BY <2>2 DEF Init
      <3>2. CASE m = Message(0, 0, "user", q, {}, {}, {}, NoMessage, TRUE)
        BY <3>2 DEF Message
      <3>3. CASE m = [Message(1, 1, "assistant", q, {OldDoc}, {OldDoc}, {OldDoc}, NoMessage, TRUE)
                        EXCEPT !.retrievedNames = {}]
        BY <3>3 DEF Message
      <3>4. QED BY <3>1, <3>2, <3>3 DEF OldMessages
    <2>3. \A r \in Requests : requests[r].pc \in Steps
      BY <1>1 DEF RequestState
    <2>4. kb \in BOOLEAN /\ inquiry \in BOOLEAN /\ kb /\ (~inquiry => messages = {})
      BY DEF Init
    <2>5. QED BY <2>1, <2>2, <2>3, <2>4 DEF TypeOK
  <1>6. QED BY <1>1, <1>2, <1>3, <1>4, <1>5 DEF IInv

LEMMA NextInv ==
  ASSUME IInv, [Next]_vars
  PROVE  IInv'
  <1>1. CASE UNCHANGED vars
    <2>1. messages' = messages /\ kb' = kb /\ requests' = requests /\ UNCHANGED <<inquiry, docs>>
      BY <1>1 DEF vars
    <2>2. History' /\ TypeOK'
      BY <2>1, SameHistory DEF IInv, TypeOK
    <2>3. ASSUME NEW r \in Requests PROVE Fits(requests[r])'
      <3>1. PICK q : q = requests[r]
        OBVIOUS
      <3>2. Fits(q)'
        BY <2>1, <3>1, SameFits DEF IInv
      <3>3. QED BY <2>1, <3>1, <3>2 DEF Fits
    <2>4. QED BY <2>1, <2>2, <2>3 DEF IInv, Alone, InProgress, At
  <1>2. CASE Next
    BY <1>2, RequestsStep, DocumentStep, DeletedStep DEF Next
  <1>3. QED BY <1>1, <1>2

\* The inductive invariant of an inquiry: messages are numbered from 0 without
\* a gap and carry that number as their id, an answer that supersedes another
\* comes after it and answers the same query, and a request in progress holds
\* only what is still so when it inserts (AppendMessage, queryForReEvaluation).
THEOREM Invariant == Spec => []IInv
  BY InitInv, NextInv, PTL DEF Spec

\* However many appends run at once, the turns are numbered 0, 1, 2, ...
\* (AppendMessage and its unique index).
THEOREM TurnsAreNumbered == Spec => []OrdinalsDense
  <1>1. ASSUME IInv PROVE OrdinalsDense
    <2>1. N \in Nat /\ Numbered /\ TypeOK
      BY <1>1, Counted DEF IInv, History
    <2>2. {m.ordinal : m \in messages} = 0 .. N - 1
      BY <2>1 DEF Numbered
    <2>3. QED BY <2>1, <2>2 DEF OrdinalsDense, N
  <1>2. QED BY <1>1, Invariant, PTL

\* A document both retrieved and cited has a name in both places or in none,
\* whatever the names stored (buildInquiryMessages).
THEOREM SameNamesShown == Spec => []NamesAgree
  <1>1. ASSUME IInv PROVE NamesAgree
    <2>1. ASSUME NEW m \in messages PROVE Shown(m).retrieved \cap m.cited = Shown(m).cited
      <3>1. /\ m.citedNames \subseteq m.cited
            /\ m.retrievedNames \cap m.cited \subseteq m.citedNames
            /\ m.cited \subseteq m.retrieved
        BY <1>1 DEF IInv, History, Told, TypeOK
      <3>2. QED BY <3>1 DEF Shown
    <2>2. QED BY <2>1 DEF NamesAgree
  <1>2. QED BY <1>1, Invariant, PTL

\* The question behind an answer that supersedes another is the other's, and
\* behind one that supersedes nothing it is the message stored before it.
LEMMA QueryFollowsChain ==
  ASSUME History, NEW m \in messages, NEW p \in messages, p.id = m.supersedes,
         m.role = "assistant", p.role = "assistant"
  PROVE  QueryFor(m) = QueryFor(p)
  <1>1. Chained(messages)
    BY Counted
  <1>2. RootOf(m) = RootOf(p)
    BY <1>1, RootStep DEF RootOf
  <1>3. QED BY <1>2 DEF QueryFor

LEMMA QueryIsBefore ==
  ASSUME History, NEW m \in messages, m.role = "assistant", m.supersedes = NoMessage, m.orderly
  PROVE  RootOf(m) = m /\ QueryFor(m) = m.query
  <1>1. Chained(messages) /\ N \in Nat
    BY Counted
  <1>2. \A p \in messages : p.id # m.supersedes
    BY NoMessageIsNoId DEF History, Turns
  <1>3. RootOf(m) = m
    BY <1>1, <1>2, RootStep DEF RootOf
  <1>4. PICK u \in messages : u.ordinal = m.ordinal - 1 /\ u.role = "user" /\ u.query = m.query
    BY DEF History, Told, AskedBefore
  <1>5. \A p \in messages : p.ordinal \in Nat
    BY DEF History, Turns
  <1>6. u \in Before(m) /\ \A p \in Before(m) : p.ordinal <= u.ordinal
    BY <1>4, <1>5 DEF Before
  <1>7. {p \in Before(m) : \A q \in Before(m) : q.ordinal <= p.ordinal} = {u}
    <2>1. ASSUME NEW p \in Before(m), \A q \in Before(m) : q.ordinal <= p.ordinal PROVE p = u
      <3>1. p.ordinal = u.ordinal /\ p \in messages
        BY <1>5, <1>6, <2>1 DEF Before
      <3>2. QED BY <3>1 DEF History, Numbered
    <2>2. QED BY <1>6, <2>1
  <1>8. QED BY <1>3, <1>4, <1>7 DEF QueryFor

\* Re-evaluating an answer re-runs the question behind it, if the search that
\* gave it stored its question and was alone; and every re-evaluation of an
\* answer answers that answer's question (queryForReEvaluation).
THEOREM SameQuestionAgain == Spec => []ReevaluatesItsQuestion
  <1>1. ASSUME IInv PROVE ReevaluatesItsQuestion
    <2>1. History
      BY <1>1 DEF IInv
    <2>2. ASSUME NEW m \in messages, m.role = "assistant"
          PROVE  /\ RootOf(m).orderly => QueryFor(m) = m.query
                 /\ m.supersedes # NoMessage =>
                       /\ \E p \in ById(m.supersedes) : p.role = "assistant" /\ p.ordinal < m.ordinal
                       /\ QueryFor(m) = m.query
      <3>1. CASE m.supersedes = NoMessage
        <4>1. RootOf(m) = m
          <5>1. \A p \in messages : p.id # m.supersedes
            BY <2>1, <3>1, NoMessageIsNoId DEF History, Turns
          <5>2. QED BY <2>1, <5>1, Counted, RootStep DEF RootOf
        <4>2. QED BY <2>1, <2>2, <3>1, <4>1, QueryIsBefore
      <3>2. CASE m.supersedes # NoMessage
        <4>1. PICK p \in messages : /\ p.id = m.supersedes /\ p.role = "assistant"
                                    /\ QueryFor(p) = m.query /\ m.supersedes < m.ordinal
          BY <2>1, <3>2 DEF History, Told, AnswerTo
        <4>2. p.ordinal < m.ordinal /\ p \in ById(m.supersedes)
          BY <2>1, <4>1 DEF History, Numbered, ById
        <4>3. QueryFor(m) = m.query
          BY <2>1, <2>2, <4>1, QueryFollowsChain
        <4>4. QED BY <4>1, <4>2, <4>3
      <3>3. QED BY <3>1, <3>2
    <2>3. QED BY <2>2 DEF ReevaluatesItsQuestion
  <1>2. QED BY <1>1, Invariant, PTL

\* What a step does to the history while the knowledge base exists: nothing,
\* or a message after the last.
LEMMA HistoryStep ==
  ASSUME IInv, Next, kb'
  PROVE  \/ messages' = messages
         \/ \E r \in Requests, role \in {"user", "assistant"} :
               /\ Insert(r, role)
               /\ requests[r].pc = IF role = "user" THEN "askInsert" ELSE "answerInsert"
  <1>1. ASSUME NEW r \in Requests, Search(r) \/ Reevaluate(r), messages' # messages
        PROVE  \E role \in {"user", "assistant"} :
                  /\ Insert(r, role)
                  /\ requests[r].pc = IF role = "user" THEN "askInsert" ELSE "answerInsert"
    <2>1. AskInsert(r) \/ AnswerInsert(r)
      BY <1>1 DEF Search, Reevaluate, SearchBegin, ReevaluateBegin, Begin, ReevaluateList,
         FileNames, GetOrCreate, AppendRead, AskFails, SearchStream, AnswerFails, stored
    <2>2. QED BY <2>1 DEF AskInsert, AnswerInsert, At
  <1>2. ASSUME NEW d \in Docs, Upload(d) \/ Index(d) \/ DeleteDocument(d)
        PROVE  messages' = messages
    BY <1>2 DEF Upload, Index, DeleteDocument
  <1>3. ~DeleteKB
    BY DEF DeleteKB
  <1>4. QED BY <1>1, <1>2, <1>3 DEF Next

\* A stored turn stays as it is while the knowledge base exists, and so does
\* the question that re-evaluating it would ask (inquiry_messages).
THEOREM TurnsAreKept == Spec => HistoryKept
  <1>1. ASSUME IInv, Next, kb', NEW m \in messages
        PROVE  m \in messages' /\ QueryFor(m)' = QueryFor(m) /\ Shown(m)' = Shown(m)
    <2>1. Shown(m)' = Shown(m)
      BY DEF Shown
    <2>2. CASE messages' = messages
      BY <2>1, <2>2, SameHistory
    <2>3. ASSUME NEW r \in Requests, NEW role \in {"user", "assistant"}, Insert(r, role),
                 requests[r].pc = IF role = "user" THEN "askInsert" ELSE "answerInsert"
          PROVE  m \in messages' /\ QueryFor(m)' = QueryFor(m)
      <3>1. PICK x : x = Stored(requests[r], role)
        OBVIOUS
      <3>2. messages' = messages \cup {x} /\ x \in Turns /\ kb
        BY <1>1, <2>3, <3>1, InsertIsLast
      <3>3. x.id = N /\ x.ordinal = N
        BY <3>1 DEF Stored, Message
      <3>4. x.supersedes # NoMessage => x.supersedes < N
        <4>1. CASE role = "user"
          BY <3>1, <4>1 DEF Stored, Message
        <4>2. CASE role = "assistant"
          <5>1. x.supersedes = requests[r].target /\ Fits(requests[r]) /\ requests[r].pc # "idle"
            BY <1>1, <2>3, <3>1, <4>2 DEF Stored, Message, IInv
          <5>2. requests[r].target # NoMessage =>
                   AnswerTo(requests[r].target, requests[r].query)
            BY <3>2, <5>1 DEF Fits
          <5>3. \A p \in messages : p.id < N
            BY <1>1, Counted DEF IInv, History, Numbered
          <5>4. QED BY <5>1, <5>2, <5>3 DEF AnswerTo
        <4>3. QED BY <4>1, <4>2
      <3>5. QED BY <1>1, <3>2, <3>3, <3>4, HistoryGrows DEF IInv
    <2>4. QED BY <1>1, <2>1, <2>2, <2>3, HistoryStep
  <1>2. ASSUME IInv, [Next]_vars
        PROVE  [kb' => \A m \in messages :
                  m \in messages' /\ QueryFor(m)' = QueryFor(m) /\ Shown(m)' = Shown(m)]_vars
    BY <1>1, <1>2
  <1>3. QED BY <1>2, Invariant, PTL DEF Spec, HistoryKept

(***************************************************************************)
(* The limit on requests: RateLimiter                                      *)
(***************************************************************************)

(***************************************************************************)
(* Sums over ages                                                          *)
(***************************************************************************)
\* g is the running sums of p up to n: what Total evaluates.
Sums(p, n, g) ==
    /\ g \in [0 .. n -> Nat]
    /\ \A k \in 0 .. n : g[k] = p[k] + IF k = 0 THEN 0 ELSE g[k - 1]

\* There is such a function, built age by age.
LEMMA SumExists ==
  ASSUME NEW p \in [Ages -> Nat]
  PROVE  \E g : Sums(p, Window, g)
  <1>1. Window \in Nat
    BY LimiterBounds
  <1> DEFINE Good == {n \in Nat : n <= Window => \E g : Sums(p, n, g)}
  <1>2. 0 \in Good
    <2>1. p[0] \in Nat
      BY <1>1 DEF Ages
    <2>2. Sums(p, 0, [k \in 0 .. 0 |-> p[0]])
      BY <2>1 DEF Sums
    <2>3. QED BY <2>2
  <1>3. ASSUME NEW n \in Nat, n \in Good PROVE n + 1 \in Good
    <2>1. SUFFICES ASSUME n + 1 <= Window PROVE \E g : Sums(p, n + 1, g)
      OBVIOUS
    <2>2. PICK g : Sums(p, n, g)
      BY <1>1, <1>3, <2>1
    <2>3. p[n + 1] \in Nat /\ g[n] \in Nat
      BY <1>1, <2>1, <2>2 DEF Ages, Sums
    <2> DEFINE h == [k \in 0 .. n + 1 |-> IF k = n + 1 THEN p[n + 1] + g[n] ELSE g[k]]
    <2>4. h \in [0 .. n + 1 -> Nat]
      BY <2>2, <2>3 DEF Sums
    <2>5. ASSUME NEW k \in 0 .. n + 1
          PROVE  h[k] = p[k] + IF k = 0 THEN 0 ELSE h[k - 1]
      <3>1. CASE k = n + 1
        BY <2>2, <2>3, <3>1
      <3>2. CASE k # n + 1
        BY <2>2, <3>2 DEF Sums
      <3>3. QED BY <3>1, <3>2
    <2> HIDE DEF h
    <2>6. Sums(p, n + 1, h)
      BY <2>4, <2>5 DEF Sums
    <2>7. QED BY <2>6
  <1>4. Window \in Good
    <2> HIDE DEF Good
    <2>1. QED BY <1>1, <1>2, <1>3, Induction
  <1>5. QED BY <1>1, <1>4

\* So Total is the sum it says, a number at every age.
LEMMA TotalIs ==
  ASSUME NEW p \in [Ages -> Nat]
  PROVE  /\ \A t \in Ages : Total(p, t) \in Nat
         /\ Total(p, 0) = p[0]
         /\ \A t \in 1 .. Window : Total(p, t) = p[t] + Total(p, t - 1)
  <1>1. PICK g : Sums(p, Window, g)
    BY SumExists
  <1> DEFINE count == CHOOSE count : count = [t \in Ages |-> p[t] + IF t = 0 THEN 0 ELSE count[t - 1]]
  <1>2. g = [t \in Ages |-> p[t] + IF t = 0 THEN 0 ELSE g[t - 1]]
    BY <1>1 DEF Sums, Ages
  <1>3. count = [t \in Ages |-> p[t] + IF t = 0 THEN 0 ELSE count[t - 1]]
    BY <1>2
  <1>4. \A t : Total(p, t) = count[t]
    BY DEF Total
  <1> HIDE DEF count
  <1>5. Window \in Nat /\ p[0] \in Nat
    BY LimiterBounds DEF Ages
  <1>6. count[0] = p[0]
    BY <1>3, <1>5 DEF Ages
  <1>7. \A t \in 1 .. Window : count[t] = p[t] + count[t - 1]
    BY <1>3, <1>5 DEF Ages
  <1> DEFINE Good == {n \in Nat : n <= Window => count[n] \in Nat}
  <1>8. ASSUME NEW n \in Nat, n \in Good PROVE n + 1 \in Good
    <2>1. SUFFICES ASSUME n + 1 <= Window PROVE count[n + 1] \in Nat
      OBVIOUS
    <2>2. p[n + 1] \in Nat /\ count[n] \in Nat /\ n + 1 \in 1 .. Window
      BY <1>5, <1>8, <2>1 DEF Ages
    <2>3. count[n + 1] = p[n + 1] + count[(n + 1) - 1]
      BY <1>7, <2>2
    <2>4. QED BY <2>2, <2>3
  <1>9. 0 \in Good
    BY <1>5, <1>6
  <1>10. \A t \in Ages : count[t] \in Nat
    <2>1. Nat \subseteq Good
      <3> HIDE DEF Good
      <3>1. QED BY <1>8, <1>9, Induction
    <2>2. QED BY <1>5, <2>1 DEF Ages
  <1>11. QED BY <1>4, <1>6, <1>7, <1>10

\* A sum grows with the age, and is more by what is added at age 0.
LEMMA TotalGrows ==
  ASSUME NEW p \in [Ages -> Nat]
  PROVE  \A s, t \in Ages : s <= t => Total(p, s) <= Total(p, t)
  <1>1. Window \in Nat
    BY LimiterBounds
  <1> DEFINE Good == {n \in Nat : \A s \in Ages : s + n <= Window => Total(p, s) <= Total(p, s + n)}
  <1>2. 0 \in Good
    <2>1. ASSUME NEW s \in Ages PROVE Total(p, s) <= Total(p, s + 0)
      <3>1. s + 0 = s /\ Total(p, s) \in Nat
        BY TotalIs DEF Ages
      <3>2. QED BY <3>1
    <2>2. QED BY <2>1
  <1>3. ASSUME NEW n \in Nat, n \in Good PROVE n + 1 \in Good
    <2>1. ASSUME NEW s \in Ages, s + (n + 1) <= Window PROVE Total(p, s) <= Total(p, s + (n + 1))
      <3>1. PICK t : t = s + (n + 1)
        OBVIOUS
      <3>2. t \in 1 .. Window /\ t - 1 = s + n /\ s + n \in Ages /\ s + n <= Window
        BY <1>1, <2>1, <3>1 DEF Ages
      <3>3. Total(p, s) <= Total(p, t - 1)
        BY <1>3, <3>2
      <3>4. Total(p, t) = p[t] + Total(p, t - 1)
        BY <3>2, TotalIs
      <3>5. Total(p, s) \in Nat /\ Total(p, t - 1) \in Nat
        BY <3>2, TotalIs
      <3>6. p[t] \in Nat
        BY <1>1, <3>2 DEF Ages
      <3>7. QED BY <3>1, <3>3, <3>4, <3>5, <3>6
    <2>2. QED BY <2>1
  <1>4. Nat \subseteq Good
    <2> HIDE DEF Good
    <2>1. QED BY <1>2, <1>3, Induction
  <1>5. ASSUME NEW s \in Ages, NEW t \in Ages, s <= t PROVE Total(p, s) <= Total(p, t)
    <2>1. PICK n : n = t - s
      OBVIOUS
    <2>2. n \in Nat /\ s + n = t /\ s + n <= Window
      BY <1>1, <1>5, <2>1 DEF Ages
    <2>3. n \in Good
      BY <1>4, <2>2
    <2>4. QED BY <2>2, <2>3
  <1>6. QED BY <1>5

\* A request now is part of every sum.
LEMMA TotalMore ==
  ASSUME NEW p \in [Ages -> Nat], NEW k \in Nat, NEW q, q = [p EXCEPT ![0] = @ + k]
  PROVE  /\ q \in [Ages -> Nat]
         /\ \A t \in Ages : Total(q, t) = Total(p, t) + k
  <1>1. Window \in Nat /\ 0 \in Ages
    BY LimiterBounds DEF Ages
  <1>2. q \in [Ages -> Nat] /\ q[0] = p[0] + k /\ \A t \in 1 .. Window : q[t] = p[t]
    BY <1>1 DEF Ages
  <1> DEFINE Good == {n \in Nat : n <= Window => Total(q, n) = Total(p, n) + k}
  <1>3. 0 \in Good
    BY <1>2, TotalIs
  <1>4. ASSUME NEW n \in Nat, n \in Good PROVE n + 1 \in Good
    <2>1. SUFFICES ASSUME n + 1 <= Window PROVE Total(q, n + 1) = Total(p, n + 1) + k
      OBVIOUS
    <2>2. PICK t : t = n + 1
      OBVIOUS
    <2>3. t \in 1 .. Window /\ t - 1 = n /\ n \in Ages
      BY <1>1, <2>1, <2>2 DEF Ages
    <2>4. Total(q, n) = Total(p, n) + k
      BY <1>1, <1>4, <2>1
    <2>5. Total(q, t) = q[t] + Total(q, t - 1) /\ Total(p, t) = p[t] + Total(p, t - 1)
      BY <1>2, <2>3, TotalIs
    <2>6. p[t] \in Nat /\ Total(p, n) \in Nat /\ q[t] = p[t]
      BY <1>2, <2>3, TotalIs DEF Ages
    <2>7. QED BY <2>2, <2>3, <2>4, <2>5, <2>6
  <1>5. Nat \subseteq Good
    <2> HIDE DEF Good
    <2>1. QED BY <1>3, <1>4, Induction
  <1>6. ASSUME NEW t \in Ages PROVE Total(q, t) = Total(p, t) + k
    <2>1. t \in Nat /\ t <= Window
      BY <1>1 DEF Ages
    <2>2. QED BY <1>5, <2>1
  <1>7. QED BY <1>2, <1>6

\* A tick makes every request one older.
\* A tick moves every sum by one age.
LEMMA TotalLater ==
  ASSUME NEW p \in [Ages -> Nat], NEW q, q = [t \in Ages |-> IF t = 0 THEN 0 ELSE p[t - 1]]
  PROVE  /\ q \in [Ages -> Nat] /\ q[0] = 0
         /\ \A t \in 1 .. Window : Total(q, t) = Total(p, t - 1)
  <1>1. Window \in Nat /\ 0 \in Ages
    BY LimiterBounds DEF Ages
  <1>2. q \in [Ages -> Nat] /\ q[0] = 0 /\ \A t \in 1 .. Window : q[t] = p[t - 1]
    BY <1>1 DEF Ages
  <1> DEFINE Good == {n \in Nat : n + 1 <= Window => Total(q, n + 1) = Total(p, n)}
  <1>3. 0 \in Good
    <2>1. SUFFICES ASSUME 1 <= Window PROVE Total(q, 1) = Total(p, 0)
      OBVIOUS
    <2>2. 1 \in 1 .. Window /\ 1 - 1 = 0
      BY <1>1, <2>1
    <2>3. Total(q, 1) = q[1] + Total(q, 0) /\ Total(q, 0) = q[0] /\ q[1] = p[0]
      BY <1>2, <2>2, TotalIs
    <2>4. Total(p, 0) = p[0] /\ p[0] \in Nat
      BY <1>1, TotalIs
    <2>5. QED BY <1>2, <2>3, <2>4
  <1>4. ASSUME NEW n \in Nat, n \in Good PROVE n + 1 \in Good
    <2>1. SUFFICES ASSUME n + 1 + 1 <= Window PROVE Total(q, n + 1 + 1) = Total(p, n + 1)
      OBVIOUS
    <2>2. PICK t, u : t = n + 1 /\ u = n + 1 + 1
      OBVIOUS
    <2>3. /\ t \in 1 .. Window /\ t - 1 = n /\ u \in 1 .. Window /\ u - 1 = t
          /\ t \in Ages /\ n \in Ages
      BY <1>1, <2>1, <2>2 DEF Ages
    <2>4. Total(q, t) = Total(p, n)
      BY <1>1, <1>4, <2>1, <2>2
    <2>5. Total(q, u) = q[u] + Total(q, u - 1) /\ q[u] = p[u - 1]
      BY <1>2, <2>3, TotalIs
    <2>6. Total(p, t) = p[t] + Total(p, t - 1)
      BY <2>3, TotalIs
    <2>7. QED BY <2>2, <2>3, <2>4, <2>5, <2>6
  <1>5. Nat \subseteq Good
    <2> HIDE DEF Good
    <2>1. QED BY <1>3, <1>4, Induction
  <1>6. ASSUME NEW t \in 1 .. Window PROVE Total(q, t) = Total(p, t - 1)
    <2>1. t - 1 \in Nat /\ (t - 1) + 1 = t /\ t <= Window
      BY <1>1
    <2>2. t - 1 \in Good
      BY <1>5, <2>1
    <2>3. QED BY <2>1, <2>2
  <1>7. QED BY <1>2, <1>6

\* Nothing passed a counter that has just been set up.
LEMMA TotalNone ==
  LET none == [t \in Ages |-> 0]
  IN  none \in [Ages -> Nat] /\ \A t \in Ages : Total(none, t) = 0
  <1> DEFINE p == [t \in Ages |-> 0]
  <1>1. Window \in Nat /\ p \in [Ages -> Nat] /\ p[0] = 0 /\ \A t \in 1 .. Window : p[t] = 0
    BY LimiterBounds DEF Ages
  <1> HIDE DEF p
  <1> DEFINE Good == {n \in Nat : n <= Window => Total(p, n) = 0}
  <1>2. 0 \in Good
    BY <1>1, TotalIs
  <1>3. ASSUME NEW n \in Nat, n \in Good PROVE n + 1 \in Good
    <2>1. SUFFICES ASSUME n + 1 <= Window PROVE Total(p, n + 1) = 0
      OBVIOUS
    <2>2. n + 1 \in 1 .. Window /\ (n + 1) - 1 = n /\ Total(p, n) = 0
      BY <1>1, <1>3, <2>1
    <2>3. Total(p, n + 1) = p[n + 1] + Total(p, (n + 1) - 1)
      BY <1>1, <2>2, TotalIs
    <2>4. QED BY <1>1, <2>2, <2>3
  <1>4. Nat \subseteq Good
    <2> HIDE DEF Good
    <2>1. QED BY <1>2, <1>3, Induction
  <1>5. p \in [Ages -> Nat] /\ \A t \in Ages : Total(p, t) = 0
    BY <1>1, <1>4 DEF Ages
  <1>6. QED BY <1>5 DEF p

(***************************************************************************)
(* One counter, and what it let pass                                       *)
(***************************************************************************)
\* What a window that has not ended let pass is counted and within the limit;
\* so is what came before it, no longer ago than a window's length, because
\* only one earlier window reaches so far.
CounterFits(c, p) ==
    /\ c \in [count : Nat, left : -1 .. Window]
    /\ p \in [Ages -> Nat]
    /\ c.left < 0 => p[0] = 0 /\ Total(p, Window) <= Limit
    /\ c.left >= 0 =>
          LET within == Total(p, Window - c.left)
          IN  within <= c.count /\ within <= Limit /\ Total(p, Window) <= within + Limit

LEMMA NoneFits == CounterFits(NoCounter, [t \in Ages |-> 0])
  <1> DEFINE p == [t \in Ages |-> 0]
  <1>1. p \in [Ages -> Nat] /\ \A t \in Ages : Total(p, t) = 0
    BY TotalNone
  <1>2. Window \in Nat /\ Limit \in Nat /\ 0 \in Ages /\ Window \in Ages /\ p[0] = 0
    BY LimiterBounds DEF Ages
  <1> HIDE DEF p
  <1>3. CounterFits(NoCounter, p)
    BY <1>1, <1>2 DEF CounterFits, NoCounter
  <1>4. QED BY <1>3 DEF p

\* The next counter, and whether it lets the request pass: as each store
\* computes it, or as it counts one the middleware did not ask it about.
LEMMA CountedFits ==
  ASSUME NEW c, NEW p, CounterFits(c, p), NEW d, NEW k \in {0, 1},
         d = IF c.left < 0 THEN First ELSE [c EXCEPT !.count = @ + 1],
         k = 1 => d.count <= Limit,
         NEW q, q = [p EXCEPT ![0] = @ + k]
  PROVE  CounterFits(d, q)
  <1>1. Window \in Nat /\ Limit \in Nat /\ 0 \in Ages /\ Window \in Ages /\ 0 < Limit
    BY LimiterBounds DEF Ages
  <1>2. c \in [count : Nat, left : -1 .. Window] /\ p \in [Ages -> Nat]
    BY DEF CounterFits
  <1>3. q \in [Ages -> Nat] /\ \A t \in Ages : Total(q, t) = Total(p, t) + k
    <2>1. k \in Nat
      OBVIOUS
    <2>2. PICK i \in Nat : i = k
      BY <2>1
    <2>3. q = [p EXCEPT ![0] = @ + i]
      BY <2>2
    <2>4. q \in [Ages -> Nat] /\ \A t \in Ages : Total(q, t) = Total(p, t) + i
      BY <1>2, <2>3, TotalMore
    <2>5. QED BY <2>2, <2>4
  <1>4. CASE c.left < 0
    <2>1. d = [count |-> 1, left |-> Window] /\ p[0] = 0 /\ Total(p, Window) <= Limit
      BY <1>4 DEF First, CounterFits
    <2>2. Total(p, 0) = 0 /\ Total(p, Window) \in Nat
      BY <1>1, <1>2, <2>1, TotalIs
    <2>3. Total(q, 0) = k /\ Total(q, Window) = Total(p, Window) + k
      <3>1. Total(q, 0) = Total(p, 0) + k /\ Total(q, Window) = Total(p, Window) + k
        BY <1>1, <1>3
      <3>2. 0 + k = k
        OBVIOUS
      <3>3. QED BY <2>2, <3>1, <3>2
    <2>4. Window - d.left = 0 /\ ~(d.left < 0) /\ d \in [count : Nat, left : -1 .. Window]
      BY <1>1, <2>1
    <2>5. k <= d.count /\ k <= Limit /\ Total(q, Window) <= k + Limit
      BY <1>1, <2>1, <2>2, <2>3
    <2>6. QED BY <1>3, <2>3, <2>4, <2>5 DEF CounterFits
  <1>5. CASE ~(c.left < 0)
    <2>1. PICK a, n : a = Window - c.left /\ n = c.count
      OBVIOUS
    <2>2. a \in Ages /\ n \in Nat /\ c.left >= 0
      BY <1>1, <1>2, <1>5, <2>1 DEF Ages
    <2>3. Total(p, a) <= n /\ Total(p, a) <= Limit /\ Total(p, Window) <= Total(p, a) + Limit
      BY <2>1, <2>2 DEF CounterFits
    <2>4. d.count = n + 1 /\ d.left = c.left /\ d \in [count : Nat, left : -1 .. Window]
      BY <1>2, <1>5, <2>1
    <2>5. Total(p, a) \in Nat /\ Total(p, Window) \in Nat
      BY <1>1, <1>2, <2>2, TotalIs
    <2>6. Total(q, a) = Total(p, a) + k /\ Total(q, Window) = Total(p, Window) + k
      BY <1>1, <1>3, <2>2
    <2>7. k = 1 => n + 1 <= Limit
      BY <2>4
    <2>8. Total(q, a) <= n + 1 /\ Total(q, a) <= Limit /\ Total(q, Window) <= Total(q, a) + Limit
      BY <1>1, <2>2, <2>3, <2>5, <2>6, <2>7
    <2>9. QED BY <1>3, <1>5, <2>1, <2>2, <2>4, <2>8 DEF CounterFits
  <1>6. QED BY <1>4, <1>5

LEMMA NotCountedFits ==
  ASSUME NEW c, NEW p, CounterFits(c, p), NEW q, q = [p EXCEPT ![0] = @ + 0]
  PROVE  CounterFits(c, q)
  <1>1. p \in [Ages -> Nat] /\ 0 \in Ages
    BY LimiterBounds DEF CounterFits, Ages
  <1>2. p[0] + 0 = p[0]
    BY <1>1
  <1>3. q = p
    BY <1>1, <1>2
  <1>4. QED BY <1>3

Later(c) == [c EXCEPT !.left = IF @ < 0 THEN @ ELSE @ - 1]

LEMMA LaterFits ==
  ASSUME NEW c, NEW p, CounterFits(c, p),
         NEW q, q = [t \in Ages |-> IF t = 0 THEN 0 ELSE p[t - 1]]
  PROVE  CounterFits(Later(c), q)
  <1>1. Window \in Nat \ {0} /\ Limit \in Nat /\ Window \in Ages /\ Window - 1 \in Ages
    BY LimiterBounds DEF Ages
  <1>2. c \in [count : Nat, left : -1 .. Window] /\ p \in [Ages -> Nat]
    BY DEF CounterFits
  <1>3. q \in [Ages -> Nat] /\ q[0] = 0 /\ \A t \in 1 .. Window : Total(q, t) = Total(p, t - 1)
    BY <1>2, TotalLater
  <1>4. Total(q, Window) = Total(p, Window - 1) /\ Total(p, Window - 1) <= Total(p, Window)
    <2>1. Window - 1 <= Window /\ Window \in 1 .. Window
      BY <1>1
    <2>2. QED BY <1>1, <1>2, <1>3, <2>1, TotalGrows
  <1>5. Total(p, Window) \in Nat /\ Total(p, Window - 1) \in Nat
    BY <1>1, <1>2, TotalIs
  <1>6. CASE c.left < 0
    <2>1. Later(c) = c /\ Total(p, Window) <= Limit
      BY <1>2, <1>6 DEF Later, CounterFits
    <2>2. Total(q, Window) <= Limit
      BY <1>1, <1>4, <1>5, <2>1
    <2>3. ~(c.left >= 0)
      BY <1>2, <1>6
    <2>4. QED BY <1>2, <1>3, <2>1, <2>2, <2>3 DEF CounterFits
  <1>7. CASE ~(c.left < 0)
    <2>1. PICK l, n : l = c.left /\ n = c.count
      OBVIOUS
    <2>2. l \in 0 .. Window /\ n \in Nat
      BY <1>1, <1>2, <1>7, <2>1
    <2>3. Later(c) = [count |-> n, left |-> l - 1]
      BY <1>2, <1>7, <2>1 DEF Later
    <2>4. /\ Total(p, Window - l) <= n /\ Total(p, Window - l) <= Limit
          /\ Total(p, Window) <= Total(p, Window - l) + Limit
      BY <2>1, <2>2 DEF CounterFits
    <2>5. l - 1 \in -1 .. Window
      BY <1>1, <2>2
    <2>6. CASE l = 0
      <3>1. Window - l = Window
        BY <1>1, <2>6
      <3>2. Total(p, Window) <= Limit
        BY <2>4, <3>1
      <3>3. Total(q, Window) <= Limit
        BY <1>1, <1>4, <1>5, <3>2
      <3>4. l - 1 < 0 /\ ~(l - 1 >= 0)
        BY <2>6
      <3>5. QED BY <1>3, <2>2, <2>3, <2>5, <3>3, <3>4 DEF CounterFits
    <2>7. CASE l # 0
      <3>1. PICK a : a = Window - (l - 1)
        OBVIOUS
      <3>2. a \in 1 .. Window /\ a - 1 = Window - l /\ Window - l \in Ages
        BY <1>1, <2>2, <2>7, <3>1 DEF Ages
      <3>3. Total(q, a) = Total(p, Window - l)
        BY <1>3, <3>2
      <3>4. Total(p, Window - l) \in Nat
        BY <1>2, <3>2, TotalIs
      <3>5. Total(q, a) <= n /\ Total(q, a) <= Limit /\ Total(q, Window) <= Total(q, a) + Limit
        BY <1>1, <1>4, <1>5, <2>2, <2>4, <3>3, <3>4
      <3>6. ~(l - 1 < 0)
        BY <2>2, <2>7
      <3>7. QED BY <1>3, <2>2, <2>3, <2>5, <3>1, <3>5, <3>6 DEF CounterFits
    <2>8. QED BY <2>6, <2>7
  <1>8. QED BY <1>6, <1>7

\* What the client may send.
LEMMA FitsHolds ==
  ASSUME NEW c, NEW p, CounterFits(c, p)
  PROVE  /\ Total(p, Window) <= 2 * Limit
         /\ c.left >= 0 => Total(p, Window - c.left) <= Limit
  <1>1. Window \in Nat /\ Limit \in Nat /\ Window \in Ages
    BY LimiterBounds DEF Ages
  <1>2. c \in [count : Nat, left : -1 .. Window] /\ p \in [Ages -> Nat]
    BY DEF CounterFits
  <1>3. Total(p, Window) \in Nat
    BY <1>1, <1>2, TotalIs
  <1>4. CASE c.left < 0
    <2>1. ~(c.left >= 0) /\ Total(p, Window) <= Limit
      BY <1>2, <1>4 DEF CounterFits
    <2>2. QED BY <1>1, <1>3, <2>1
  <1>5. CASE ~(c.left < 0)
    <2>1. PICK a : a = Window - c.left
      OBVIOUS
    <2>2. a \in Ages /\ c.left >= 0
      BY <1>1, <1>2, <1>5, <2>1 DEF Ages
    <2>3. Total(p, a) <= Limit /\ Total(p, Window) <= Total(p, a) + Limit
      BY <2>1, <2>2 DEF CounterFits
    <2>4. Total(p, a) \in Nat
      BY <1>2, <2>2, TotalIs
    <2>5. Total(p, Window) <= 2 * Limit
      BY <1>1, <1>3, <2>3, <2>4
    <2>6. QED BY <2>1, <2>3, <2>5
  <1>6. QED BY <1>4, <1>5

LEMMA AskMemory ==
  ASSUME NEW c, NEW p, CounterFits(c, p), NEW m, m = AllowInMemory(c), NEW k,
         k = IF m.ok THEN 1 ELSE 0
  PROVE  /\ m.ok \in BOOLEAN /\ k \in {0, 1}
         /\ CounterFits(m.counter, [p EXCEPT ![0] = @ + k])
  <1>1. Limit \in Nat /\ 1 <= Limit
    BY LimiterBounds
  <1>2. c \in [count : Nat, left : -1 .. Window]
    BY DEF CounterFits
  <1>3. m.ok \in BOOLEAN /\ k \in {0, 1}
    BY DEF AllowInMemory
  <1>4. CASE m.ok
    <2>1. k = 1 /\ m.counter = IF c.left < 0 THEN First ELSE [c EXCEPT !.count = @ + 1]
      BY <1>4 DEF AllowInMemory
    <2>2. m.counter.count <= Limit
      BY <1>1, <1>2, <1>4 DEF AllowInMemory, First
    <2>3. CounterFits(m.counter, [p EXCEPT ![0] = @ + k])
      BY <1>3, <2>1, <2>2, CountedFits
    <2>4. QED BY <1>3, <2>3
  <1>5. CASE ~m.ok
    <2>1. k = 0 /\ m.counter = c
      BY <1>5 DEF AllowInMemory
    <2>2. CounterFits(c, [p EXCEPT ![0] = @ + 0])
      BY NotCountedFits
    <2>3. QED BY <1>3, <2>1, <2>2
  <1>6. QED BY <1>3, <1>4, <1>5

LEMMA AskStore ==
  ASSUME NEW c, NEW p, CounterFits(c, p), NEW s, s = AllowInStore(c), NEW k,
         k = IF s.ok THEN 1 ELSE 0
  PROVE  /\ s.ok \in BOOLEAN /\ k \in {0, 1}
         /\ CounterFits(s.counter, [p EXCEPT ![0] = @ + k])
         /\ CounterFits(s.counter, p)
  <1>1. s.counter = IF c.left < 0 THEN First ELSE [c EXCEPT !.count = @ + 1]
    BY DEF AllowInStore
  <1>2. s.ok = (s.counter.count <= Limit)
    BY DEF AllowInStore
  <1>3. k \in {0, 1} /\ s.ok \in BOOLEAN /\ (k = 1 => s.counter.count <= Limit)
    <2>1. c.count + 1 \in Nat /\ Limit \in Nat
      BY LimiterBounds DEF CounterFits
    <2>2. s.counter.count \in Nat
      BY <1>1, <2>1 DEF First, CounterFits
    <2>3. (s.counter.count <= Limit) \in BOOLEAN
      BY <2>1, <2>2
    <2>4. s.ok \in BOOLEAN
      BY <1>2, <2>3
    <2>5. CASE s.ok
      <3>1. k = 1 /\ s.counter.count <= Limit
        BY <1>2, <2>5
      <3>2. QED BY <2>4, <3>1
    <2>6. CASE ~s.ok
      <3>1. k = 0
        BY <2>6
      <3>2. QED BY <2>4, <3>1
    <2>7. QED BY <2>5, <2>6
  <1>4. CounterFits(s.counter, [p EXCEPT ![0] = @ + k])
    BY <1>1, <1>3, CountedFits
  <1>5. CounterFits(s.counter, [p EXCEPT ![0] = @ + 0])
    <2>1. 0 \in {0, 1} /\ (0 = 1 => s.counter.count <= Limit)
      OBVIOUS
    <2>2. QED BY <1>1, <2>1, CountedFits
  <1>6. p = [p EXCEPT ![0] = @ + 0]
    <2>1. p \in [Ages -> Nat] /\ 0 \in Ages
      BY LimiterBounds DEF CounterFits, Ages
    <2>2. p[0] + 0 = p[0]
      BY <2>1
    <2>3. QED BY <2>1, <2>2
  <1>7. QED BY <1>3, <1>4, <1>5, <1>6

(***************************************************************************)
(* The inductive invariant                                                 *)
(***************************************************************************)
Fit(M, S, P) ==
    /\ M \in [Replicas -> [count : Nat, left : -1 .. Window]]
    /\ P \in [Counters -> [Ages -> Nat]]
    /\ \A r \in Replicas : CounterFits(M[r], P[r])
    /\ CounterFits(S, P[Row])

\* One replica's counter is the row's, up to the limit, and no other is in a
\* window.
SameAs(m, s) == m.left = s.left /\ m.count = IF s.count < Limit THEN s.count ELSE Limit

OnlyAt(r, M) == \A q \in Replicas \ {r} : M[q].left < 0

Alike(M, s) ==
    /\ s.left < 0 => \A r \in Replicas : M[r].left < 0
    /\ s.left >= 0 => \E r \in Replicas : SameAs(M[r], s) /\ OnlyAt(r, M)

\* Nothing is known of the counters once a client reached several replicas, a
\* call failed or a process restarted: told.alike remembers it.
LimiterInv ==
    /\ Fit(memory, shared, passed)
    /\ told \in [agree : BOOLEAN, alike : BOOLEAN]
    /\ told.alike => told.agree /\ Alike(memory, shared)

LEMMA LimiterInitInv == LimiterInit => LimiterInv
  <1> SUFFICES ASSUME LimiterInit PROVE LimiterInv
    OBVIOUS
  <1>1. NoCounter \in [count : Nat, left : -1 .. Window] /\ NoCounter.left = -1
    BY LimiterBounds DEF NoCounter
  <1>2. [t \in Ages |-> 0] \in [Ages -> Nat]
    OBVIOUS
  <1>3. \A r \in Replicas : passed[r] = [t \in Ages |-> 0] /\ memory[r] = NoCounter
    BY DEF LimiterInit, Counters
  <1>4. passed[Row] = [t \in Ages |-> 0] /\ shared = NoCounter
    BY DEF LimiterInit, Counters
  <1>5. Fit(memory, shared, passed)
    BY <1>1, <1>2, <1>3, <1>4, NoneFits DEF LimiterInit, Fit
  <1>6. Alike(memory, shared)
    BY <1>1, <1>3, <1>4 DEF Alike
  <1>7. QED BY <1>5, <1>6 DEF LimiterInit, LimiterInv

Typed(M, s) ==
    /\ M \in [Replicas -> [count : Nat, left : -1 .. Window]]
    /\ s \in [count : Nat, left : -1 .. Window]

\* Both are asked, no other replica being in a window: the count of refused
\* requests tells the two apart only beyond the limit.
LEMMA BothAgree ==
  ASSUME NEW M, NEW s, Typed(M, s), Alike(M, s), NEW r \in Replicas, OnlyAt(r, M),
         NEW a, a = AllowInMemory(M[r]), NEW b, b = AllowInStore(s)
  PROVE  /\ a.ok = b.ok
         /\ Alike([M EXCEPT ![r] = a.counter], b.counter)
  <1>1. Limit \in Nat /\ 1 <= Limit /\ Window \in Nat \ {0}
    BY LimiterBounds
  <1> USE DEF Typed
  <1> DEFINE M2 == [M EXCEPT ![r] = a.counter]
  <1>2. M2[r] = a.counter /\ OnlyAt(r, M2)
    BY DEF OnlyAt
  <1>3. CASE s.left < 0
    <2>1. M[r].left < 0
      BY <1>3 DEF Alike
    <2>2. a = [ok |-> TRUE, counter |-> First]
      BY <2>1 DEF AllowInMemory
    <2>3. b.counter = First /\ b.ok = (First.count <= Limit)
      BY <1>3 DEF AllowInStore
    <2>4. First.left = Window /\ First.count = 1 /\ ~(First.left < 0)
      BY <1>1 DEF First
    <2>5. a.ok = b.ok /\ SameAs(a.counter, b.counter)
      <3>1. First.count <= Limit
        BY <1>1, <2>4
      <3>2. a.ok = TRUE /\ b.ok = TRUE /\ a.counter = First
        <4>1. b.ok = TRUE
          BY <2>3, <3>1, Zenon
        <4>2. QED BY <2>2, <4>1
      <3>3. First.count = IF First.count < Limit THEN First.count ELSE Limit
        BY <1>1, <2>4
      <3>4. SameAs(a.counter, b.counter)
        BY <2>3, <3>2, <3>3 DEF SameAs
      <3>5. QED BY <3>2, <3>4
    <2> HIDE DEF M2
    <2>6. Alike(M2, b.counter)
      BY <1>2, <2>3, <2>4, <2>5 DEF Alike
    <2>7. QED BY <2>5, <2>6 DEF M2
  <1>4. CASE ~(s.left < 0)
    <2>1. PICK o \in Replicas : SameAs(M[o], s)
      BY <1>4 DEF Alike
    <2>2. o = r
      BY <1>4, <2>1 DEF SameAs, OnlyAt
    <2>3. PICK n, l : n = s.count /\ l = s.left
      OBVIOUS
    <2>4. n \in Nat /\ l \in -1 .. Window /\ ~(l < 0)
      BY <1>4, <2>3
    <2>5. M[r].left = l /\ M[r].count = IF n < Limit THEN n ELSE Limit
      BY <2>1, <2>2, <2>3 DEF SameAs
    <2>6. b.counter = [count |-> n + 1, left |-> l] /\ b.ok = (n + 1 <= Limit)
      BY <1>4, <2>3 DEF AllowInStore
    <2>7. CASE n < Limit
      <3>1. a.ok = TRUE /\ a.counter = [count |-> n + 1, left |-> l]
        BY <2>4, <2>5, <2>7 DEF AllowInMemory
      <3>2. a.ok = b.ok /\ SameAs(a.counter, b.counter)
        <4>1. n + 1 <= Limit /\ n + 1 = IF n + 1 < Limit THEN n + 1 ELSE Limit
          BY <1>1, <2>4, <2>7
        <4>2. b.ok = TRUE
          BY <2>6, <4>1
        <4>3. SameAs(a.counter, b.counter)
          BY <2>6, <3>1, <4>1 DEF SameAs
        <4>4. QED BY <3>1, <4>2, <4>3
      <3>3. ~(b.counter.left < 0)
        BY <2>4, <2>6
      <3> HIDE DEF M2
      <3>4. Alike(M2, b.counter)
        BY <1>2, <3>2, <3>3 DEF Alike
      <3>5. QED BY <3>2, <3>4 DEF M2
    <2>8. CASE ~(n < Limit)
      <3>1. a.ok = FALSE /\ a.counter = M[r]
        BY <1>1, <2>4, <2>5, <2>8 DEF AllowInMemory
      <3>2. a.ok = b.ok /\ SameAs(a.counter, b.counter)
        <4>1. ~(n + 1 <= Limit) /\ ~(n + 1 < Limit)
          BY <1>1, <2>4, <2>8
        <4>2. b.ok = FALSE
          <5>1. (n + 1 <= Limit) = FALSE
            BY <4>1
          <5>2. QED BY <2>6, <5>1
        <4>3. a.counter.left = l /\ a.counter.count = Limit
          BY <2>5, <2>8, <3>1
        <4>4. SameAs(a.counter, b.counter)
          BY <2>6, <4>1, <4>3 DEF SameAs
        <4>5. QED BY <3>1, <4>2, <4>4
      <3>3. ~(b.counter.left < 0)
        BY <2>4, <2>6
      <3> HIDE DEF M2
      <3>4. Alike(M2, b.counter)
        BY <1>2, <3>2, <3>3 DEF Alike
      <3>5. QED BY <3>2, <3>4 DEF M2
    <2>9. QED BY <2>7, <2>8
  <1>5. QED BY <1>3, <1>4

LEMMA FitAfter ==
  ASSUME NEW M, NEW S, NEW P, Fit(M, S, P), NEW r \in Replicas,
         NEW c, NEW p, CounterFits(c, p), NEW s, NEW q, CounterFits(s, q)
  PROVE  Fit([M EXCEPT ![r] = c], s, [P EXCEPT ![r] = p, ![Row] = q])
  <1> DEFINE M2 == [M EXCEPT ![r] = c]
             P2 == [P EXCEPT ![r] = p, ![Row] = q]
  <1>1. c \in [count : Nat, left : -1 .. Window] /\ p \in [Ages -> Nat] /\ q \in [Ages -> Nat]
    BY DEF CounterFits
  <1>2. r # Row /\ r \in Counters /\ Row \in Counters
    BY RowIsNoReplica DEF Counters
  <1>3. M2 \in [Replicas -> [count : Nat, left : -1 .. Window]] /\ P2 \in [Counters -> [Ages -> Nat]]
    BY <1>1, <1>2 DEF Fit
  <1>4. P2[Row] = q /\ P2[r] = p /\ M2[r] = c
    BY <1>2 DEF Fit
  <1>5. ASSUME NEW o \in Replicas, o # r PROVE CounterFits(M2[o], P2[o])
    <2>1. o # Row /\ o \in Counters
      BY RowIsNoReplica DEF Counters
    <2>2. M2[o] = M[o] /\ P2[o] = P[o]
      BY <1>5, <2>1 DEF Fit
    <2>3. QED BY <2>2 DEF Fit
  <1> HIDE DEF M2, P2
  <1>6. Fit(M2, s, P2)
    BY <1>3, <1>4, <1>5 DEF Fit
  <1>7. QED BY <1>6 DEF M2, P2

LEMMA RequestStep ==
  ASSUME LimiterInv, NEW r \in Replicas, Request(r)
  PROVE  LimiterInv'
  <1>1. PICK M, S, P, T : M = memory /\ S = shared /\ P = passed /\ T = told
    OBVIOUS
  <1>2. PICK m, s : m = AllowInMemory(M[r]) /\ s = AllowInStore(S)
    OBVIOUS
  <1>3. PICK i, j : i = (IF m.ok THEN 1 ELSE 0) /\ j = (IF s.ok THEN 1 ELSE 0)
    OBVIOUS
  <1>4. Fit(M, S, P) /\ T \in [agree : BOOLEAN, alike : BOOLEAN]
    BY <1>1 DEF LimiterInv
  <1>5. CounterFits(M[r], P[r]) /\ CounterFits(S, P[Row])
    BY <1>4 DEF Fit
  <1> DEFINE p == [P[r] EXCEPT ![0] = @ + i]
             q == [P[Row] EXCEPT ![0] = @ + j]
  <1>6. m.ok \in BOOLEAN /\ s.ok \in BOOLEAN /\ CounterFits(m.counter, p) /\ CounterFits(s.counter, q)
    BY <1>2, <1>3, <1>5, AskMemory, AskStore
  <1>7. memory' = [M EXCEPT ![r] = m.counter] /\ shared' = s.counter
    BY <1>1, <1>2 DEF Request
  <1>8. passed' = [P EXCEPT ![r] = p, ![Row] = q]
    <2>1. passed' = [P EXCEPT ![r][0] = @ + i, ![Row][0] = @ + j]
      BY <1>1, <1>2, <1>3 DEF Request
    <2>2. r # Row
      BY RowIsNoReplica
    <2>3. P \in [Counters -> [Ages -> Nat]] /\ r \in Counters /\ Row \in Counters
      BY <1>4 DEF Fit, Counters
    <2>4. QED BY <2>1, <2>2, <2>3
  <1>9. Fit(memory', shared', passed')
    <2> HIDE DEF p, q
    <2>1. Fit([M EXCEPT ![r] = m.counter], s.counter, [P EXCEPT ![r] = p, ![Row] = q])
      BY <1>4, <1>6, FitAfter
    <2>2. QED BY <1>7, <1>8, <2>1
  <1>10. told' = [agree |-> T.agree /\ m.ok = s.ok,
                  alike |-> T.alike /\ \A o \in Replicas \ {r} : M[o].left < 0]
    BY <1>1, <1>2 DEF Request
  <1>11. told' \in [agree : BOOLEAN, alike : BOOLEAN]
    BY <1>4, <1>6, <1>10, Zenon
  <1>12. ASSUME told'.alike PROVE told'.agree /\ Alike(memory', shared')
    <2>1. T.alike /\ \A o \in Replicas \ {r} : M[o].left < 0
      BY <1>10, <1>12
    <2>2. T.agree /\ Alike(M, S)
      BY <1>1, <2>1 DEF LimiterInv
    <2>3. Typed(M, S)
      BY <1>4, <1>5 DEF Fit, CounterFits, Typed
    <2>4. (m.ok = s.ok) /\ Alike([M EXCEPT ![r] = m.counter], s.counter)
      <3>1. Alike(M, S)
        BY <2>2
      <3>2. OnlyAt(r, M)
        BY <2>1 DEF OnlyAt
      <3>3. QED BY <1>2, <2>3, <3>1, <3>2, BothAgree
    <2>5. told'.agree
      BY <1>10, <2>2, <2>4
    <2>6. QED BY <1>7, <2>4, <2>5
  <1>13. QED BY <1>9, <1>11, <1>12 DEF LimiterInv

LEMMA RequestFailsOpenStep ==
  ASSUME LimiterInv, NEW r \in Replicas, RequestFailsOpen(r)
  PROVE  LimiterInv'
  <1>1. PICK M, S, P, T : M = memory /\ S = shared /\ P = passed /\ T = told
    OBVIOUS
  <1>2. PICK m, s : m = AllowInMemory(M[r]) /\ s = AllowInStore(S)
    OBVIOUS
  <1>3. PICK i : i = (IF m.ok THEN 1 ELSE 0)
    OBVIOUS
  <1>4. Fit(M, S, P) /\ T \in [agree : BOOLEAN, alike : BOOLEAN]
    BY <1>1 DEF LimiterInv
  <1>5. CounterFits(M[r], P[r]) /\ CounterFits(S, P[Row])
    BY <1>4 DEF Fit
  <1> DEFINE p == [P[r] EXCEPT ![0] = @ + i]
  <1>6. CounterFits(m.counter, p) /\ CounterFits(s.counter, P[Row])
    <2>1. PICK j : j = (IF s.ok THEN 1 ELSE 0)
      OBVIOUS
    <2>2. QED BY <1>2, <1>3, <1>5, <2>1, AskMemory, AskStore
  <1>7. memory' = [M EXCEPT ![r] = m.counter] /\ shared' \in {S, s.counter}
    BY <1>1, <1>2, <1>4 DEF RequestFailsOpen, Fit
  <1>8. passed' = [P EXCEPT ![r] = p, ![Row] = P[Row]]
    <2>1. passed' = [P EXCEPT ![r][0] = @ + i]
      BY <1>1, <1>2, <1>3 DEF RequestFailsOpen
    <2>2. r # Row
      BY RowIsNoReplica
    <2>3. P \in [Counters -> [Ages -> Nat]] /\ r \in Counters /\ Row \in Counters
      BY <1>4 DEF Fit, Counters
    <2>4. QED BY <2>1, <2>2, <2>3
  <1>9. Fit(memory', shared', passed')
    <2> HIDE DEF p
    <2>1. PICK z : z = shared'
      OBVIOUS
    <2>2. CounterFits(z, P[Row])
      BY <1>5, <1>6, <1>7, <2>1
    <2>3. Fit([M EXCEPT ![r] = m.counter], z, [P EXCEPT ![r] = p, ![Row] = P[Row]])
      BY <1>4, <1>6, <2>2, FitAfter
    <2>4. QED BY <1>7, <1>8, <2>1, <2>3
  <1>10. told' \in [agree : BOOLEAN, alike : BOOLEAN] /\ ~told'.alike
    BY <1>1, <1>4 DEF RequestFailsOpen
  <1>11. QED BY <1>9, <1>10 DEF LimiterInv

LEMMA RestartStep ==
  ASSUME LimiterInv, NEW r \in Replicas, Restart(r)
  PROVE  LimiterInv'
  <1>1. PICK M, S, P, T : M = memory /\ S = shared /\ P = passed /\ T = told
    OBVIOUS
  <1>2. Fit(M, S, P) /\ T \in [agree : BOOLEAN, alike : BOOLEAN]
    BY <1>1 DEF LimiterInv
  <1> DEFINE p == [t \in Ages |-> 0]
  <1>3. CounterFits(NoCounter, p) /\ CounterFits(S, P[Row])
    BY <1>2, NoneFits DEF Fit
  <1>4. memory' = [M EXCEPT ![r] = NoCounter] /\ shared' = S
    BY <1>1 DEF Restart
  <1>5. passed' = [P EXCEPT ![r] = p, ![Row] = P[Row]]
    <2>1. passed' = [P EXCEPT ![r] = p]
      BY <1>1 DEF Restart
    <2> HIDE DEF p
    <2>2. r # Row
      BY RowIsNoReplica
    <2>3. P \in [Counters -> [Ages -> Nat]] /\ r \in Counters /\ Row \in Counters
      BY <1>2 DEF Fit, Counters
    <2>4. QED BY <2>1, <2>2, <2>3
  <1>6. Fit(memory', shared', passed')
    <2> HIDE DEF p
    <2>1. Fit([M EXCEPT ![r] = NoCounter], S, [P EXCEPT ![r] = p, ![Row] = P[Row]])
      BY <1>2, <1>3, FitAfter
    <2>2. QED BY <1>4, <1>5, <2>1
  <1>7. told' \in [agree : BOOLEAN, alike : BOOLEAN] /\ ~told'.alike
    BY <1>1, <1>2 DEF Restart
  <1>8. QED BY <1>6, <1>7 DEF LimiterInv

LEMMA DeleteExpiredStep ==
  ASSUME LimiterInv, DeleteExpired
  PROVE  LimiterInv'
  <1>1. Fit(memory, shared, passed) /\ shared.left < 0 /\ shared' = NoCounter
    BY DEF LimiterInv, DeleteExpired
  <1>2. UNCHANGED <<memory, passed, told>>
    BY DEF DeleteExpired
  <1>3. NoCounter \in [count : Nat, left : -1 .. Window] /\ NoCounter.left = -1
    BY LimiterBounds DEF NoCounter
  <1>4. ASSUME NEW p, CounterFits(shared, p) PROVE CounterFits(NoCounter, p)
    BY <1>1, <1>3, <1>4 DEF CounterFits
  <1>5. Fit(memory', shared', passed')
    BY <1>1, <1>2, <1>4 DEF Fit
  <1>6. Alike(memory, shared) => Alike(memory', shared')
    BY <1>1, <1>2, <1>3 DEF Alike
  <1>7. QED BY <1>2, <1>5, <1>6 DEF LimiterInv

LEMMA TickStep ==
  ASSUME LimiterInv, Tick
  PROVE  LimiterInv'
  <1>1. PICK M, S, P : M = memory /\ S = shared /\ P = passed
    OBVIOUS
  <1>2. Fit(M, S, P)
    BY <1>1 DEF LimiterInv
  <1> DEFINE M2 == [r \in Replicas |-> Later(M[r])]
             older(p) == [t \in Ages |-> IF t = 0 THEN 0 ELSE p[t - 1]]
             P2 == [c \in Counters |-> older(P[c])]
  <1>3. memory' = M2 /\ shared' = Later(S) /\ passed' = P2 /\ told' = told
    BY <1>1 DEF Tick, Later
  <1>4. ASSUME NEW c, NEW p, CounterFits(c, p) PROVE CounterFits(Later(c), older(p))
    BY <1>4, LaterFits
  <1>5. /\ S \in [count : Nat, left : -1 .. Window]
        /\ M \in [Replicas -> [count : Nat, left : -1 .. Window]]
        /\ P \in [Counters -> [Ages -> Nat]]
    BY <1>2 DEF Fit, CounterFits
  <1>6. Fit(M2, Later(S), P2)
    <2>1. \A c \in Counters : P2[c] = older(P[c])
      OBVIOUS
    <2>2. \A r \in Replicas : r \in Counters /\ M2[r] = Later(M[r])
      BY DEF Counters
    <2>3. Row \in Counters
      BY DEF Counters
    <2> HIDE DEF older
    <2>4. \A r \in Replicas : CounterFits(M2[r], P2[r])
      BY <1>2, <1>4, <2>1, <2>2 DEF Fit
    <2>5. CounterFits(Later(S), P2[Row])
      BY <1>2, <1>4, <2>1, <2>3 DEF Fit
    <2>6. \A c \in Counters : P2[c] \in [Ages -> Nat]
      <3>1. ASSUME NEW c \in Counters PROVE P2[c] \in [Ages -> Nat]
        <4>1. CASE c = Row
          BY <2>5, <4>1 DEF CounterFits
        <4>2. CASE c \in Replicas
          BY <2>4, <4>2 DEF CounterFits
        <4>3. QED BY <4>1, <4>2 DEF Counters
      <3>2. QED BY <3>1
    <2>7. \A r \in Replicas : M2[r] \in [count : Nat, left : -1 .. Window]
      BY <2>4 DEF CounterFits
    <2>8. P2 \in [Counters -> [Ages -> Nat]] /\ M2 \in [Replicas -> [count : Nat, left : -1 .. Window]]
      BY <2>6, <2>7
    <2> HIDE DEF M2, P2
    <2>9. QED BY <2>4, <2>5, <2>8 DEF Fit
  <1>7. ASSUME Alike(M, S) PROVE Alike(M2, Later(S))
    <2>1. ASSUME NEW c \in [count : Nat, left : -1 .. Window]
          PROVE  /\ Later(c).count = c.count
                 /\ Later(c).left = IF c.left < 0 THEN c.left ELSE c.left - 1
      BY DEF Later
    <2>2. \A r \in Replicas : M2[r] = Later(M[r]) /\ (M[r].left < 0 => M2[r].left < 0)
      BY <1>5, <2>1
    <2> HIDE DEF M2
    <2>3. CASE S.left < 0
      <3>1. Later(S).left < 0
        BY <1>5, <2>1, <2>3
      <3>2. \A r \in Replicas : M2[r].left < 0
        BY <1>7, <2>2, <2>3 DEF Alike
      <3>3. QED BY <1>5, <2>1, <2>3, <3>1, <3>2 DEF Alike
    <2>4. CASE ~(S.left < 0)
      <3>1. PICK r \in Replicas : SameAs(M[r], S) /\ OnlyAt(r, M)
        BY <1>5, <1>7, <2>4 DEF Alike
      <3>2. SameAs(M2[r], Later(S))
        BY <1>5, <2>1, <2>2, <3>1 DEF SameAs
      <3>3. OnlyAt(r, M2)
        BY <2>2, <3>1 DEF OnlyAt
      <3>4. Later(S).left < 0 => \A o \in Replicas : M2[o].left < 0
        BY <3>2, <3>3 DEF SameAs, OnlyAt
      <3>5. QED BY <3>2, <3>3, <3>4 DEF Alike
    <2>5. QED BY <2>3, <2>4
  <1> HIDE DEF M2, P2
  <1>8. Alike(memory, shared) => Alike(memory', shared')
    BY <1>1, <1>3, <1>7
  <1>9. Fit(memory', shared', passed')
    BY <1>3, <1>6
  <1>10. QED BY <1>3, <1>8, <1>9 DEF LimiterInv

LEMMA LimiterNextInv == LimiterInv /\ [LimiterNext]_limiterVars => LimiterInv'
  <1> SUFFICES ASSUME LimiterInv, [LimiterNext]_limiterVars PROVE LimiterInv'
    OBVIOUS
  <1>1. CASE \E r \in Replicas : Request(r) \/ RequestFailsOpen(r) \/ Restart(r)
    BY <1>1, RequestStep, RequestFailsOpenStep, RestartStep
  <1>2. CASE DeleteExpired
    BY <1>2, DeleteExpiredStep
  <1>3. CASE Tick
    BY <1>3, TickStep
  <1>4. CASE UNCHANGED limiterVars
    BY <1>4 DEF limiterVars, LimiterInv
  <1>5. QED BY <1>1, <1>2, <1>3, <1>4 DEF LimiterNext

\* The invariant implies the property.
LEMMA LimiterInvHolds == LimiterInv => LimitHolds
  <1> SUFFICES ASSUME LimiterInv PROVE LimitHolds
    OBVIOUS
  <1>1. ASSUME NEW c \in Counters
        PROVE  /\ PassedSince(c, Window) <= 2 * Limit
               /\ LET counter == IF c = Row THEN shared ELSE memory[c]
                  IN  counter.left >= 0 => PassedSince(c, Window - counter.left) <= Limit
    <2>1. PICK d : d = IF c = Row THEN shared ELSE memory[c]
      OBVIOUS
    <2>2. PICK p : p = passed[c]
      OBVIOUS
    <2>3. CounterFits(d, p)
      <3>1. CASE c = Row
        BY <2>1, <2>2, <3>1 DEF LimiterInv, Fit
      <3>2. CASE c # Row
        BY <2>1, <2>2, <3>2 DEF LimiterInv, Fit, Counters
      <3>3. QED BY <3>1, <3>2
    <2>4. /\ Total(p, Window) <= 2 * Limit
          /\ d.left >= 0 => Total(p, Window - d.left) <= Limit
      BY <2>3, FitsHolds
    <2>5. QED BY <2>1, <2>2, <2>4 DEF PassedSince
  <1>2. told.alike => told.agree
    BY DEF LimiterInv
  <1>3. QED BY <1>1, <1>2 DEF LimitHolds

\* Whatever requests reach whichever replicas, with calls to the database that
\* fail and processes that restart, Allow of either store lets at most Limit
\* pass in its window and at most twice that in any window's length, and the
\* two answer alike while one replica is asked and nothing fails.
THEOREM LimitAlwaysHolds == LimiterSpec => []LimitHolds
  <1>1. LimiterSpec => []LimiterInv
    BY LimiterInitInv, LimiterNextInv, PTL DEF LimiterSpec
  <1>2. QED BY <1>1, LimiterInvHolds, PTL

(***************************************************************************)
(* Pages: the order of a list                                              *)
(***************************************************************************)
PageTypes ==
    /\ DOMAIN list \subseteq Items
    /\ \A i \in DOMAIN list : list[i] \in Nat
    /\ gone \subseteq Items /\ gone \cap DOMAIN list = {}
    /\ cursor \in Items \cup {NotBegun, AtEnd}
    /\ seen \in Seq(Items)
    /\ over \in BOOLEAN

LEMMA ItemsAreIds ==
  ASSUME PageTypes
  PROVE  /\ IsFiniteSet(DOMAIN list) /\ Cardinality(DOMAIN list) \in Nat
         /\ DOMAIN list \subseteq Nat
         /\ NotBegun \notin Items /\ AtEnd \notin Items /\ FromStart \notin Items
         /\ AtEnd # NotBegun
  <1>1. IsFiniteSet(DOMAIN list)
    BY PageBounds, FS_Subset DEF PageTypes
  <1>2. Cardinality(DOMAIN list) \in Nat
    BY <1>1, FS_CardinalityType
  <1>3. QED BY <1>1, <1>2, PageBounds DEF PageTypes, NotBegun, AtEnd, FromStart

\* Items are in a total order.
LEMMA TotalOrder ==
  ASSUME PageTypes
  PROVE  /\ \A a, b \in DOMAIN list : Precedes(a, b) \/ a = b \/ Precedes(b, a)
         /\ \A a, b \in DOMAIN list : ~(Precedes(a, b) /\ Precedes(b, a)) /\ ~Precedes(a, a)
         /\ \A a, b, c \in DOMAIN list : Precedes(a, b) /\ Precedes(b, c) => Precedes(a, c)
  BY ItemsAreIds DEF PageTypes, Precedes

\* So every item has a place of its own.
LEMMA Places ==
  ASSUME PageTypes, NEW n, n = Cardinality(DOMAIN list)
  PROVE  /\ \A i \in DOMAIN list : Cardinality(UpTo(i)) \in 1 .. n
         /\ \A i, j \in DOMAIN list : Precedes(i, j) => Cardinality(UpTo(i)) < Cardinality(UpTo(j))
         /\ \A k \in 1 .. n : \E i \in DOMAIN list : Cardinality(UpTo(i)) = k
  <1> DEFINE D == DOMAIN list
  <1> DEFINE place == [i \in D |-> Cardinality(UpTo(i))]
  <1>1. IsFiniteSet(D) /\ n \in Nat
    BY ItemsAreIds
  <1>2. \A i \in D : UpTo(i) \subseteq D /\ i \in UpTo(i)
    BY DEF UpTo
  <1>3. \A i \in D : /\ IsFiniteSet(UpTo(i)) /\ Cardinality(UpTo(i)) \in Nat
                     /\ Cardinality(UpTo(i)) <= n
    BY <1>1, <1>2, FS_Subset, FS_CardinalityType
  <1>4. \A i \in D : Cardinality(UpTo(i)) # 0
    BY <1>2, <1>3, FS_EmptySet
  <1>5. \A i \in D : Cardinality(UpTo(i)) \in 1 .. n
    BY <1>1, <1>3, <1>4
  <1>6. ASSUME NEW i \in D, NEW j \in D, Precedes(i, j)
        PROVE  Cardinality(UpTo(i)) < Cardinality(UpTo(j))
    <2>1. UpTo(i) \subseteq UpTo(j) /\ UpTo(i) # UpTo(j)
      BY <1>6, TotalOrder DEF UpTo
    <2>2. /\ Cardinality(UpTo(i)) <= Cardinality(UpTo(j))
          /\ Cardinality(UpTo(i)) # Cardinality(UpTo(j))
      BY <1>3, <2>1, FS_Subset
    <2>3. QED BY <1>3, <2>2
  <1>7. \A i, j \in D : Cardinality(UpTo(i)) = Cardinality(UpTo(j)) => i = j
    <2>1. SUFFICES ASSUME NEW i \in D, NEW j \in D, Cardinality(UpTo(i)) = Cardinality(UpTo(j)),
                          i # j
                   PROVE  FALSE
      OBVIOUS
    <2>2. Precedes(i, j) \/ Precedes(j, i)
      BY <2>1, TotalOrder
    <2>3. QED BY <1>3, <1>6, <2>1, <2>2
  <1>8. place \in Injection(D, 1 .. n)
    BY <1>5, <1>7 DEF Injection, IsInjective
  <1>9. IsFiniteSet(1 .. n) /\ Cardinality(1 .. n) = n
    BY <1>1, FS_Interval
  <1>10. place \in Surjection(D, 1 .. n)
    BY <1>8, <1>9, FS_Injection
  <1>11. \A k \in 1 .. n : \E i \in D : place[i] = k
    BY <1>10 DEF Surjection
  <1>12. QED BY <1>5, <1>6, <1>11

LEMMA SortedRows ==
  ASSUME PageTypes, NEW n, n = Cardinality(DOMAIN list)
  PROVE  /\ n \in Nat /\ DOMAIN Sorted = 1 .. n /\ Len(Sorted) = n
         /\ Sorted \in Seq(DOMAIN list)
         /\ \A i \in DOMAIN list : \E k \in 1 .. n : Sorted[k] = i
         /\ \A k, l \in 1 .. n : k < l => Precedes(Sorted[k], Sorted[l])
  <1> DEFINE at(k) == CHOOSE i \in DOMAIN list : Cardinality(UpTo(i)) = k
  <1>1. n \in Nat
    BY ItemsAreIds
  <1>2. \A k \in 1 .. n : at(k) \in DOMAIN list /\ Cardinality(UpTo(at(k))) = k
    BY Places
  <1>3. Sorted = [k \in 1 .. n |-> at(k)]
    BY DEF Sorted
  <1> HIDE DEF at
  <1>4. Sorted \in [1 .. n -> DOMAIN list] /\ \A k \in 1 .. n : Cardinality(UpTo(Sorted[k])) = k
    BY <1>2, <1>3
  <1>5. Sorted \in Seq(DOMAIN list) /\ DOMAIN Sorted = 1 .. n /\ Len(Sorted) = n
    BY <1>1, <1>4
  <1>6. ASSUME NEW i \in DOMAIN list, NEW j \in DOMAIN list,
               Cardinality(UpTo(i)) <= Cardinality(UpTo(j))
        PROVE  i = j \/ Precedes(i, j)
    <2>1. CASE Precedes(j, i)
      <3>1. Cardinality(UpTo(j)) < Cardinality(UpTo(i))
        BY <2>1, Places
      <3>2. Cardinality(UpTo(i)) \in Nat /\ Cardinality(UpTo(j)) \in Nat
        BY Places
      <3>3. QED BY <1>6, <3>1, <3>2
    <2>2. QED BY <2>1, TotalOrder
  <1>7. \A i \in DOMAIN list : \E k \in 1 .. n : Sorted[k] = i
    <2>1. SUFFICES ASSUME NEW i \in DOMAIN list PROVE \E k \in 1 .. n : Sorted[k] = i
      OBVIOUS
    <2> DEFINE k == Cardinality(UpTo(i))
    <2>2. k \in 1 .. n
      BY Places
    <2>3. Sorted[k] \in DOMAIN list /\ Cardinality(UpTo(Sorted[k])) = k
      BY <1>4, <2>2
    <2>4. k <= k
      BY <2>2
    <2>5. /\ Sorted[k] = i \/ Precedes(Sorted[k], i)
          /\ i = Sorted[k] \/ Precedes(i, Sorted[k])
      BY <1>6, <2>3, <2>4
    <2>6. Sorted[k] = i
      BY <2>3, <2>5, TotalOrder
    <2>7. QED BY <2>2, <2>6
  <1>8. \A k, l \in 1 .. n : k < l => Precedes(Sorted[k], Sorted[l])
    <2>1. SUFFICES ASSUME NEW k \in 1 .. n, NEW l \in 1 .. n, k < l
                   PROVE  Precedes(Sorted[k], Sorted[l])
      OBVIOUS
    <2>2. /\ Sorted[k] \in DOMAIN list /\ Sorted[l] \in DOMAIN list
          /\ Cardinality(UpTo(Sorted[k])) = k /\ Cardinality(UpTo(Sorted[l])) = l
      BY <1>4
    <2>3. k <= l /\ k # l
      BY <2>1
    <2>4. Sorted[k] = Sorted[l] \/ Precedes(Sorted[k], Sorted[l])
      BY <1>6, <2>2, <2>3
    <2>5. QED BY <2>2, <2>3, <2>4
  <1>9. QED BY <1>1, <1>5, <1>7, <1>8

(***************************************************************************)
(* Pages: one page                                                         *)
(***************************************************************************)
AtMost(a, b) == a = b \/ Precedes(a, b)

\* What follows the client's place, up to its next one.
LEMMA OnePage ==
  ASSUME PageTypes, NEW limit \in Nat \ {0}, NEW after \in Items \cup {FromStart},
         NEW page, page = Paginate(Sorted, limit, after)
  PROVE  /\ page.next \in DOMAIN list \cup {AtEnd}
         /\ page.items \in Seq(DOMAIN list)
         /\ IsInjective(page.items)
         /\ page.next # AtEnd => page.next \in ToSet(page.items)
         /\ ToSet(page.items) =
               {i \in DOMAIN list : /\ after \in DOMAIN list => Precedes(after, i)
                                    /\ page.next # AtEnd => AtMost(i, page.next)}
  <1> DEFINE n == Cardinality(DOMAIN list)
             start == CursorPos(Sorted, after)
             last == IF start + limit > n THEN n ELSE start + limit
             items == SubSeq(Sorted, start + 1, last)
  <1>1. /\ n \in Nat /\ Len(Sorted) = n /\ DOMAIN Sorted = 1 .. n
        /\ \A k \in 1 .. n : Sorted[k] \in DOMAIN list
        /\ \A i \in DOMAIN list : \E k \in 1 .. n : Sorted[k] = i
        /\ \A k, l \in 1 .. n : k < l => Precedes(Sorted[k], Sorted[l])
    BY SortedRows
  <1>2. \A k, l \in 1 .. n : /\ Sorted[k] = Sorted[l] => k = l
                             /\ Precedes(Sorted[k], Sorted[l]) <=> k < l
    <2>1. SUFFICES ASSUME NEW k \in 1 .. n, NEW l \in 1 .. n
                   PROVE  /\ Sorted[k] = Sorted[l] => k = l
                          /\ Precedes(Sorted[k], Sorted[l]) <=> k < l
      OBVIOUS
    <2>2. k < l \/ k = l \/ l < k
      BY <1>1
    <2>3. ~(k < k) /\ ~(k < l /\ l < k) /\ ~(l < l)
      BY <1>1
    <2>4. QED BY <1>1, <2>2, <2>3, TotalOrder
  <1>3. after \notin DOMAIN list => start = 0
    BY <1>1 DEF CursorPos, Contains
  <1>4. after \in DOMAIN list => start \in 1 .. n /\ Sorted[start] = after
    <2>1. SUFFICES ASSUME after \in DOMAIN list PROVE start \in 1 .. n /\ Sorted[start] = after
      OBVIOUS
    <2>2. \E k \in 1 .. n : Sorted[k] = after
      BY <1>1, <2>1
    <2>3. start = CHOOSE k \in 1 .. n : Sorted[k] = after
      BY <1>1, <2>2 DEF CursorPos, Contains
    <2>4. QED BY <2>2, <2>3
  <1>5. start \in 0 .. n
    BY <1>1, <1>3, <1>4
  <1>6. page = [items |-> items, next |-> IF start + limit < n THEN Last(items) ELSE AtEnd]
    BY <1>1 DEF Paginate
  <1> HIDE DEF start
  <1>7. /\ last \in 0 .. n /\ start <= last
        /\ start + limit < n => last = start + limit /\ start < last
        /\ ~(start + limit < n) => last = n
    BY <1>1, <1>5
  <1>8. /\ items \in Seq(DOMAIN list)
        /\ Len(items) = last - start
        /\ \A k \in 1 .. last - start : items[k] = Sorted[start + k]
    <2>1. \A k \in start + 1 .. last : Sorted[k] \in DOMAIN list
      BY <1>1, <1>5, <1>7
    <2>2. start + 1 \in Int /\ last \in Int
      BY <1>5, <1>7
    <2> HIDE DEF last
    <2>3. /\ SubSeq(Sorted, start + 1, last) \in Seq(DOMAIN list)
          /\ Len(SubSeq(Sorted, start + 1, last)) =
                IF start + 1 <= last THEN last - (start + 1) + 1 ELSE 0
          /\ \A k \in 1 .. last - (start + 1) + 1 :
                SubSeq(Sorted, start + 1, last)[k] = Sorted[start + 1 + k - 1]
      BY <2>1, <2>2, SubSeqProperties
    <2>4. /\ last - (start + 1) + 1 = last - start
          /\ \A k \in 1 .. last - start : start + 1 + k - 1 = start + k
          /\ ~(start + 1 <= last) => last - start = 0
      BY <1>5, <1>7
    <2>5. QED BY <2>3, <2>4
  <1> HIDE DEF items, last
  <1>9. DOMAIN items = 1 .. last - start
    BY <1>8
  <1>10. IsInjective(items)
    <2>1. \A k, l \in 1 .. last - start : start + k \in 1 .. n /\ (start + k = start + l => k = l)
      BY <1>1, <1>5, <1>7
    <2>2. QED BY <1>2, <1>8, <1>9, <2>1 DEF IsInjective
  <1>11. ToSet(items) = {Sorted[k] : k \in start + 1 .. last}
    <2>1. \A k \in 1 .. last - start : start + k \in start + 1 .. last
      BY <1>5, <1>7
    <2>2. \A k \in start + 1 .. last : k - start \in 1 .. last - start /\ start + (k - start) = k
      BY <1>5, <1>7
    <2>3. ToSet(items) = {items[k] : k \in 1 .. last - start}
      BY <1>9 DEF ToSet
    <2>4. \A k \in start + 1 .. last : Sorted[k] = items[k - start]
      BY <1>8, <2>2
    <2>5. QED BY <1>8, <2>1, <2>2, <2>3, <2>4
  <1>12. start + limit < n => Last(items) = Sorted[last] /\ last \in 1 .. n
    <2>1. start + limit < n => last - start \in 1 .. last - start /\ start + (last - start) = last
                               /\ last \in 1 .. n
      BY <1>5, <1>7
    <2>2. QED BY <1>8, <2>1 DEF Last
  <1>13. page.next = IF start + limit < n THEN Sorted[last] ELSE AtEnd
    BY <1>6, <1>12
  <1>14. page.next \in DOMAIN list \cup {AtEnd}
    BY <1>1, <1>12, <1>13
  <1>15. page.next = AtEnd <=> ~(start + limit < n)
    BY <1>1, <1>12, <1>13, ItemsAreIds DEF PageTypes
  <1>16. ASSUME NEW k \in 1 .. n
         PROVE  k \in start + 1 .. last <=>
                   /\ after \in DOMAIN list => Precedes(after, Sorted[k])
                   /\ page.next # AtEnd => AtMost(Sorted[k], page.next)
    <2>1. k \in start + 1 .. last <=> start < k /\ k <= last
      BY <1>1, <1>5, <1>7
    <2>2. start < k <=> (after \in DOMAIN list => Precedes(after, Sorted[k]))
      <3>1. CASE after \in DOMAIN list
        BY <1>2, <1>4, <3>1
      <3>2. CASE after \notin DOMAIN list
        BY <1>1, <1>3, <3>2
      <3>3. QED BY <3>1, <3>2
    <2>3. k <= last <=> (page.next # AtEnd => AtMost(Sorted[k], page.next))
      <3>1. CASE page.next = AtEnd
        BY <1>1, <1>7, <1>15, <3>1
      <3>2. CASE page.next # AtEnd
        <4>1. page.next = Sorted[last] /\ last \in 1 .. n
          BY <1>12, <1>13, <1>15, <3>2
        <4>2. k <= last <=> k = last \/ k < last
          BY <4>1
        <4>3. QED BY <1>2, <3>2, <4>1, <4>2 DEF AtMost
      <3>3. QED BY <3>1, <3>2
    <2>4. QED BY <2>1, <2>2, <2>3
  <1>17. ToSet(items) = {i \in DOMAIN list : /\ after \in DOMAIN list => Precedes(after, i)
                                             /\ page.next # AtEnd => AtMost(i, page.next)}
    <2>1. \A k \in start + 1 .. last : k \in 1 .. n
      BY <1>1, <1>5, <1>7
    <2>2. QED BY <1>1, <1>11, <1>16, <2>1
  <1>18. page.next # AtEnd => page.next \in ToSet(items)
    <2>1. start + limit < n => last \in start + 1 .. last
      BY <1>5, <1>7
    <2>2. QED BY <1>11, <1>13, <1>15, <2>1
  <1>19. page.items = items
    BY <1>6
  <1>20. QED BY <1>8, <1>10, <1>14, <1>17, <1>18, <1>19

(***************************************************************************)
(* Pages: the inductive invariant                                          *)
(***************************************************************************)

\* An item seen is there or gone, so that it is not another later.  What was
\* there throughout and is up to the cursor was seen; and unless a cursor
\* was gone, nothing behind it was.
Walked ==
    /\ throughout \subseteq DOMAIN list
    /\ ToSet(seen) \subseteq DOMAIN list \cup gone
    /\ cursor = NotBegun => seen = <<>> /\ throughout = {}
    /\ cursor \in Items => cursor \in DOMAIN list \cup gone
    /\ cursor \in DOMAIN list => \A i \in throughout : AtMost(i, cursor) => i \in ToSet(seen)
    /\ cursor \in DOMAIN list /\ ~over =>
          \A i \in ToSet(seen) \cap DOMAIN list : AtMost(i, cursor)

PageInv == PageTypes /\ Walked /\ WalkShowsAll

LEMMA PageInitInv == PageInit => PageInv
  <1> SUFFICES ASSUME PageInit PROVE PageInv
    OBVIOUS
  <1>1. PageTypes
    <2>1. PICK S \in SUBSET Items : list \in [S -> 0 .. MaxCreated]
      BY DEF PageInit
    <2>2. DOMAIN list \subseteq Items /\ \A i \in DOMAIN list : list[i] \in Nat
      BY <2>1, PageBounds
    <2>3. <<>> \in Seq(Items)
      OBVIOUS
    <2>4. QED BY <2>2, <2>3 DEF PageInit, PageTypes
  <1>2. cursor \notin Items /\ cursor # AtEnd
    BY <1>1, ItemsAreIds DEF PageInit
  <1>3. ToSet(seen) = {} /\ IsInjective(seen)
    BY DEF PageInit, ToSet, IsInjective
  <1>4. QED BY <1>1, <1>2, <1>3 DEF PageInit, PageInv, PageTypes, Walked, WalkShowsAll

LEMMA ShownTogether ==
  ASSUME NEW T, NEW s \in Seq(T), NEW t \in Seq(T)
  PROVE  /\ s \o t \in Seq(T)
         /\ ToSet(s \o t) = ToSet(s) \cup ToSet(t)
         /\ IsInjective(s) /\ IsInjective(t) /\ ToSet(s) \cap ToSet(t) = {} => IsInjective(s \o t)
  <1>1. /\ s \o t \in Seq(T) /\ Len(s) \in Nat /\ Len(t) \in Nat
        /\ DOMAIN s = 1 .. Len(s) /\ DOMAIN t = 1 .. Len(t)
        /\ DOMAIN (s \o t) = 1 .. Len(s) + Len(t)
        /\ \A i \in 1 .. Len(s) + Len(t) :
              (s \o t)[i] = IF i <= Len(s) THEN s[i] ELSE t[i - Len(s)]
    OBVIOUS
  <1>2. \A i \in 1 .. Len(s) : i \in 1 .. Len(s) + Len(t) /\ (s \o t)[i] = s[i]
    BY <1>1
  <1>3. \A i \in 1 .. Len(t) : /\ i + Len(s) \in 1 .. Len(s) + Len(t)
                               /\ (s \o t)[i + Len(s)] = t[i]
    <2>1. \A i \in 1 .. Len(t) : /\ i + Len(s) \in 1 .. Len(s) + Len(t)
                                 /\ ~(i + Len(s) <= Len(s)) /\ i + Len(s) - Len(s) = i
      BY <1>1
    <2>2. QED BY <1>1, <2>1
  <1>4. \A i \in 1 .. Len(s) + Len(t) :
           \/ i \in 1 .. Len(s) /\ (s \o t)[i] = s[i]
           \/ i - Len(s) \in 1 .. Len(t) /\ (s \o t)[i] = t[i - Len(s)] /\ ~(i <= Len(s))
    BY <1>1
  <1>5. ToSet(s \o t) = ToSet(s) \cup ToSet(t)
    BY <1>1, <1>2, <1>3, <1>4 DEF ToSet
  <1>6. ASSUME IsInjective(s), IsInjective(t), ToSet(s) \cap ToSet(t) = {},
               NEW i \in DOMAIN (s \o t), NEW j \in DOMAIN (s \o t), (s \o t)[i] = (s \o t)[j]
        PROVE  i = j
    <2>1. CASE i \in 1 .. Len(s) /\ j \in 1 .. Len(s)
      BY <1>1, <1>2, <1>6, <2>1 DEF IsInjective
    <2>2. CASE i - Len(s) \in 1 .. Len(t) /\ j - Len(s) \in 1 .. Len(t)
               /\ ~(i <= Len(s)) /\ ~(j <= Len(s))
      <3>1. t[i - Len(s)] = t[j - Len(s)]
        BY <1>1, <1>6, <2>2
      <3>2. i - Len(s) = j - Len(s)
        BY <1>1, <1>6, <2>2, <3>1 DEF IsInjective
      <3>3. QED BY <1>1, <3>2
    <2>3. CASE \/ i \in 1 .. Len(s) /\ j - Len(s) \in 1 .. Len(t) /\ ~(j <= Len(s))
               \/ j \in 1 .. Len(s) /\ i - Len(s) \in 1 .. Len(t) /\ ~(i <= Len(s))
      <3>1. (s \o t)[i] \in ToSet(s) \cap ToSet(t)
        BY <1>1, <1>4, <1>6, <2>3 DEF ToSet
      <3>2. QED BY <1>6, <3>1
    <2>4. QED BY <1>1, <1>4, <2>1, <2>2, <2>3
  <1>7. QED BY <1>1, <1>5, <1>6 DEF IsInjective

LEMMA ListSafe ==
  ASSUME PageInv, List
  PROVE  PageInv'
  <1> DEFINE after == IF cursor = NotBegun THEN FromStart ELSE cursor
  <1>1. PICK n \in 0 .. MaxPageLimit + 1 :
             LET page == Paginate(Sorted, PageLimit(n), after)
             IN  /\ cursor' = page.next
                 /\ seen' = seen \o page.items
                 /\ over' = (over \/ (after # FromStart /\ after \notin DOMAIN list))
    BY DEF List
  <1> DEFINE page == Paginate(Sorted, PageLimit(n), after)
  <1>2. PageTypes /\ Walked /\ WalkShowsAll /\ cursor # AtEnd
    BY DEF PageInv, List
  <1>3. /\ list' = list /\ gone' = gone
        /\ throughout' = IF cursor = NotBegun THEN DOMAIN list ELSE throughout
    BY DEF List
  <1>4. /\ NotBegun \notin Items /\ AtEnd \notin Items /\ FromStart \notin Items
        /\ AtEnd # NotBegun /\ DOMAIN list \subseteq Items
    BY <1>2, ItemsAreIds DEF PageTypes
  <1>5. after \in Items \cup {FromStart} /\ (after \in Items => after = cursor /\ cursor # NotBegun)
    BY <1>2, <1>4 DEF PageTypes
  <1>6. PageLimit(n) \in Nat \ {0}
    BY PageBounds DEF PageLimit
  <1>7. /\ page.next \in DOMAIN list \cup {AtEnd}
        /\ page.items \in Seq(DOMAIN list)
        /\ IsInjective(page.items)
        /\ page.next # AtEnd => page.next \in ToSet(page.items)
        /\ ToSet(page.items) =
              {i \in DOMAIN list : /\ after \in DOMAIN list => Precedes(after, i)
                                   /\ page.next # AtEnd => AtMost(i, page.next)}
    BY <1>2, <1>5, <1>6, OnePage
  <1>8. /\ cursor' = page.next /\ seen' = seen \o page.items
        /\ over' = (over \/ (after # FromStart /\ after \notin DOMAIN list))
    BY <1>1
  <1> HIDE DEF page, after
  <1>9. page.items \in Seq(Items) /\ seen \in Seq(Items)
    BY <1>2, <1>4, <1>7 DEF PageTypes
  <1>10. /\ seen' \in Seq(Items)
         /\ ToSet(seen') = ToSet(seen) \cup ToSet(page.items)
         /\ IsInjective(seen) /\ ToSet(seen) \cap ToSet(page.items) = {} => IsInjective(seen')
    BY <1>7, <1>8, <1>9, ShownTogether
  <1>11. PageTypes'
    BY <1>2, <1>3, <1>4, <1>7, <1>8, <1>10 DEF PageTypes
  <1>12. throughout' \subseteq DOMAIN list /\ ToSet(seen') \subseteq DOMAIN list \cup gone
    BY <1>2, <1>3, <1>7, <1>10 DEF Walked
  <1>13. cursor' # NotBegun
    BY <1>4, <1>7, <1>8
  \* What was there throughout is on this page, or is up to the client's place.
  <1>14. ASSUME NEW i \in throughout', cursor' # AtEnd => AtMost(i, cursor')
         PROVE  i \in ToSet(seen')
    <2>1. i \in DOMAIN list
      BY <1>12, <1>14
    <2>2. CASE after \in DOMAIN list => Precedes(after, i)
      BY <1>7, <1>8, <1>10, <1>14, <2>1, <2>2
    <2>3. CASE after \in DOMAIN list /\ ~Precedes(after, i)
      <3>1. after = cursor /\ cursor # NotBegun /\ throughout' = throughout
        BY <1>3, <1>4, <1>5, <2>3
      <3>2. AtMost(i, cursor)
        BY <1>2, <2>1, <2>3, <3>1, TotalOrder DEF AtMost
      <3>3. i \in ToSet(seen)
        BY <1>2, <2>3, <3>1, <3>2 DEF Walked
      <3>4. QED BY <1>10, <3>3
    <2>4. QED BY <2>2, <2>3
  <1>15. ASSUME ~over'
         PROVE  /\ ToSet(seen) \cap ToSet(page.items) = {}
                /\ cursor' \in DOMAIN list => \A i \in ToSet(seen) \cap DOMAIN list : AtMost(i, cursor')
    <2>1. ~over /\ (after = FromStart \/ after \in DOMAIN list)
      BY <1>8, <1>15
    <2>2. CASE after = FromStart
      <3>1. cursor = NotBegun
        BY <1>2, <1>4, <2>2 DEF PageTypes, after
      <3>2. ToSet(seen) = {}
        BY <1>2, <3>1 DEF Walked, ToSet
      <3>3. QED BY <3>2
    <2>3. CASE after \in DOMAIN list
      <3>1. after = cursor
        BY <1>4, <1>5, <2>3
      <3>2. \A i \in ToSet(seen) \cap DOMAIN list : AtMost(i, after)
        BY <1>2, <2>1, <2>3, <3>1 DEF Walked
      <3>3. \A i \in ToSet(seen) : i \notin ToSet(page.items)
        BY <1>2, <1>7, <2>3, <3>2, TotalOrder DEF AtMost
      <3>4. ASSUME cursor' \in DOMAIN list, NEW i \in ToSet(seen) \cap DOMAIN list
            PROVE  AtMost(i, cursor')
        <4>1. cursor' \in DOMAIN list /\ AtMost(after, cursor')
          <5>1. cursor' \in ToSet(page.items)
            BY <1>2, <1>4, <1>7, <1>8, <3>4
          <5>2. QED BY <1>7, <2>3, <5>1 DEF AtMost
        <4>2. AtMost(i, after)
          BY <3>2, <3>4
        <4>3. QED BY <1>2, <2>3, <3>4, <4>1, <4>2, TotalOrder DEF AtMost
      <3>5. QED BY <3>3, <3>4
    <2>4. QED BY <2>1, <2>2, <2>3
  <1>16. Walked'
    <2>1. throughout' \subseteq DOMAIN list' /\ ToSet(seen') \subseteq DOMAIN list' \cup gone'
      BY <1>3, <1>12
    <2>2. cursor' \in Items => cursor' \in DOMAIN list' \cup gone'
      BY <1>3, <1>4, <1>7, <1>8
    <2>3. cursor' \in DOMAIN list' => \A i \in throughout' : AtMost(i, cursor)' => i \in ToSet(seen')
      BY <1>3, <1>14 DEF AtMost, Precedes
    <2>4. cursor' \in DOMAIN list' /\ ~over' =>
             \A i \in ToSet(seen') \cap DOMAIN list' : AtMost(i, cursor)'
      <3>1. SUFFICES ASSUME cursor' \in DOMAIN list, ~over', NEW i \in ToSet(seen') \cap DOMAIN list
                     PROVE  AtMost(i, cursor')
        BY <1>3 DEF AtMost, Precedes
      <3>2. CASE i \in ToSet(seen)
        BY <1>15, <3>1, <3>2
      <3>3. CASE i \in ToSet(page.items)
        BY <1>4, <1>7, <1>8, <3>1, <3>3
      <3>4. QED BY <1>10, <3>1, <3>2, <3>3
    <2>5. QED BY <1>13, <2>1, <2>2, <2>3, <2>4 DEF Walked, ToSet
  <1>17. WalkShowsAll'
    <2>1. cursor' = AtEnd => throughout' \subseteq ToSet(seen')
      BY <1>14
    <2>2. ~over' => IsInjective(seen')
      <3>1. ~over' => ~over
        BY <1>8
      <3>2. QED BY <1>2, <1>10, <1>15, <3>1 DEF WalkShowsAll
    <2>3. QED BY <2>1, <2>2 DEF WalkShowsAll, ToSet, IsInjective
  <1>18. QED BY <1>11, <1>16, <1>17 DEF PageInv

\* What is created or deleted is not what a client has seen, or is gone; the
\* others keep their order.
LEMMA ChangeSafe ==
  ASSUME PageInv, NEW i \in Items, Create(i) \/ Delete(i)
  PROVE  PageInv'
  <1>1. PageTypes /\ Walked /\ WalkShowsAll
    BY DEF PageInv
  <1>2. /\ UNCHANGED <<cursor, seen, over>> /\ throughout' \subseteq throughout
        /\ i \notin throughout'
        /\ \/ /\ i \notin DOMAIN list \cup gone /\ DOMAIN list' = DOMAIN list \cup {i} /\ gone' = gone
           \/ /\ i \in DOMAIN list /\ DOMAIN list' = DOMAIN list \ {i} /\ gone' = gone \cup {i}
        /\ \A j \in DOMAIN list \ {i} : list'[j] = list[j]
        /\ \A j \in DOMAIN list' : list'[j] \in Nat
    <2>1. CASE Create(i)
      <3>1. PICK t \in 0 .. MaxCreated :
               list' = [j \in DOMAIN list \cup {i} |-> IF j = i THEN t ELSE list[j]]
        BY <2>1 DEF Create
      <3>2. t \in Nat /\ i \notin DOMAIN list \cup gone /\ gone' = gone
            /\ UNCHANGED <<cursor, seen, throughout, over>>
        BY <2>1, PageBounds DEF Create
      <3>3. DOMAIN list' = DOMAIN list \cup {i} /\ list'[i] = t
        BY <3>1
      <3>4. \A j \in DOMAIN list : list'[j] = list[j]
        BY <3>1, <3>2
      <3>5. QED BY <1>1, <3>2, <3>3, <3>4 DEF PageTypes, Walked
    <2>2. CASE Delete(i)
      BY <1>1, <2>2 DEF Delete, PageTypes, Walked
    <2>3. QED BY <2>1, <2>2
  <1>3. PageTypes'
    BY <1>1, <1>2 DEF PageTypes
  <1>4. NotBegun \notin Items /\ AtEnd \notin Items
    BY <1>1, ItemsAreIds
  <1>5. /\ DOMAIN list' \ {i} = DOMAIN list \ {i}
        /\ DOMAIN list' \cup gone' = DOMAIN list \cup gone \cup {i}
        /\ i \notin DOMAIN list \cap DOMAIN list'
        /\ i \in DOMAIN list' => i \notin DOMAIN list \cup gone
    BY <1>2
  <1>6. \A a, b \in DOMAIN list \ {i} : AtMost(a, b)' <=> AtMost(a, b)
    BY <1>2 DEF AtMost, Precedes
  <1>7. throughout' \subseteq DOMAIN list \ {i}
    BY <1>1, <1>2 DEF Walked
  <1>8. cursor' \in DOMAIN list' => cursor \in DOMAIN list \ {i}
    BY <1>1, <1>2, <1>5 DEF Walked, PageTypes
  <1>9. ToSet(seen') \cap DOMAIN list' \subseteq DOMAIN list \ {i} /\ ToSet(seen') = ToSet(seen)
    BY <1>1, <1>2, <1>5 DEF Walked, ToSet
  <1>10. Walked'
    <2>1. cursor' \in DOMAIN list' => \A j \in throughout' : AtMost(j, cursor)' => j \in ToSet(seen')
      BY <1>1, <1>2, <1>6, <1>7, <1>8, <1>9 DEF Walked
    <2>2. cursor' \in DOMAIN list' /\ ~over' =>
             \A j \in ToSet(seen') \cap DOMAIN list' : AtMost(j, cursor)'
      BY <1>1, <1>2, <1>6, <1>8, <1>9 DEF Walked
    <2>3. QED BY <1>1, <1>2, <1>5, <1>7, <1>9, <2>1, <2>2 DEF Walked, ToSet
  <1>11. WalkShowsAll'
    BY <1>1, <1>2, <1>9 DEF WalkShowsAll, IsInjective, ToSet
  <1>12. QED BY <1>3, <1>10, <1>11 DEF PageInv

\* A client that follows the cursors to the end was shown all that was there
\* throughout, and nothing twice unless a deleted cursor sent it back to the
\* start (paginateKBs, kbCursorPos).
THEOREM WalkIsComplete == PageSpec => []WalkShowsAll
  <1>1. PageInit => PageInv
    BY PageInitInv
  <1>2. PageInv /\ [PageNext]_pageVars => PageInv'
    <2>1. SUFFICES ASSUME PageInv, [PageNext]_pageVars PROVE PageInv'
      OBVIOUS
    <2>2. CASE List
      BY <2>1, <2>2, ListSafe
    <2>3. CASE \E i \in Items : Create(i) \/ Delete(i)
      BY <2>1, <2>3, ChangeSafe
    <2>4. CASE UNCHANGED pageVars
      BY <2>1, <2>4 DEF pageVars, PageInv, PageTypes, Walked, WalkShowsAll, AtMost, Precedes,
                        ToSet, IsInjective
    <2>5. QED BY <2>1, <2>2, <2>3, <2>4 DEF PageNext
  <1>3. PageInv => WalkShowsAll
    BY DEF PageInv
  <1>4. QED BY <1>1, <1>2, <1>3, PTL DEF PageSpec

(***************************************************************************)
(* Folds                                                                   *)
(***************************************************************************)
\* f folds step over each subset of D, taking the elements pick takes.
Folds(f, D, S, base, pick, step) ==
    /\ f \in [SUBSET D -> S]
    /\ \A s \in SUBSET D : f[s] = IF s = {} THEN base ELSE step[<<pick[s], f[s \ {pick[s]}]>>]

\* There is such a function, built up by the size of the subsets.
LEMMA FoldExists ==
  ASSUME NEW D, IsFiniteSet(D), NEW S, NEW base \in S,
         NEW pick, \A s \in SUBSET D : s # {} => pick[s] \in s,
         NEW step \in [D \X S -> S]
  PROVE  \E f : Folds(f, D, S, base, pick, step)
  <1> DEFINE Small(n) == {s \in SUBSET D : Cardinality(s) <= n}
             Folded(n, f) == /\ f \in [Small(n) -> S]
                             /\ \A s \in Small(n) :
                                   f[s] = IF s = {} THEN base
                                          ELSE step[<<pick[s], f[s \ {pick[s]}]>>]
             Good == {n \in Nat : \E f : Folded(n, f)}
  <1>1. \A s \in SUBSET D : IsFiniteSet(s) /\ Cardinality(s) \in Nat /\ Cardinality(s) <= Cardinality(D)
    BY FS_Subset, FS_CardinalityType
  <1>2. \A s \in SUBSET D : s # {} =>
           /\ s \ {pick[s]} \in SUBSET D
           /\ Cardinality(s \ {pick[s]}) = Cardinality(s) - 1
    <2>1. SUFFICES ASSUME NEW s \in SUBSET D, s # {}
                   PROVE  Cardinality(s \ {pick[s]}) = Cardinality(s) - 1
      OBVIOUS
    <2>2. pick[s] \in s
      BY <2>1
    <2>3. QED BY <1>1, <2>2, FS_RemoveElement
  <1>3. 0 \in Good
    <2>1. \A s \in Small(0) : s = {}
      BY <1>1, FS_EmptySet
    <2>2. Folded(0, [s \in Small(0) |-> base])
      <3> HIDE DEF Small
      <3>1. QED BY <2>1
    <2>3. QED BY <2>2
  <1>4. ASSUME NEW n \in Nat, n \in Good PROVE n + 1 \in Good
    <2>1. PICK f : Folded(n, f)
      BY <1>4
    <2> DEFINE rest(s) == s \ {pick[s]}
               h == [s \in Small(n + 1) |-> IF s = {} THEN base ELSE step[<<pick[s], f[rest(s)]>>]]
    <2>2. \A s \in Small(n + 1) : s # {} => pick[s] \in D /\ rest(s) \in Small(n)
      <3>1. SUFFICES ASSUME NEW s \in Small(n + 1), s # {}
                     PROVE  pick[s] \in D /\ rest(s) \in Small(n)
        OBVIOUS
      <3>2. s \in SUBSET D /\ Cardinality(s) <= n + 1 /\ Cardinality(s) \in Nat
        BY <1>1
      <3>3. pick[s] \in s
        BY <3>1, <3>2
      <3>4. Cardinality(rest(s)) <= n /\ rest(s) \in SUBSET D
        BY <1>2, <3>1, <3>2
      <3>5. QED BY <3>2, <3>3, <3>4
    <2>3. \A s \in Small(n) : s \in Small(n + 1) /\ h[s] = f[s]
      <3>1. SUFFICES ASSUME NEW s \in Small(n) PROVE s \in Small(n + 1) /\ h[s] = f[s]
        OBVIOUS
      <3>2. s \in Small(n + 1)
        BY <1>1
      <3> HIDE DEF Small
      <3>3. QED BY <2>1, <3>1, <3>2
    <2> HIDE DEF Small
    <2>4. h \in [Small(n + 1) -> S]
      <3>1. ASSUME NEW s \in Small(n + 1), s # {} PROVE step[<<pick[s], f[rest(s)]>>] \in S
        <4>1. pick[s] \in D /\ f[rest(s)] \in S
          BY <2>1, <2>2, <3>1
        <4>2. <<pick[s], f[rest(s)]>> \in D \X S
          BY <4>1
        <4>3. QED BY <4>2
      <3>2. QED BY <3>1
    <2>5. ASSUME NEW s \in Small(n + 1)
          PROVE  h[s] = IF s = {} THEN base ELSE step[<<pick[s], h[rest(s)]>>]
      <3>1. CASE s = {}
        BY <3>1
      <3>2. CASE s # {}
        <4>1. h[rest(s)] = f[rest(s)]
          BY <2>2, <2>3, <3>2
        <4>2. h[s] = step[<<pick[s], f[rest(s)]>>]
          BY <3>2
        <4>3. QED BY <3>2, <4>1, <4>2
      <3>3. QED BY <3>1, <3>2
    <2> HIDE DEF h
    <2>6. Folded(n + 1, h)
      BY <2>4, <2>5
    <2>7. QED BY <2>6
  <1>5. Cardinality(D) \in Good
    <2> HIDE DEF Good
    <2>1. QED BY <1>1, <1>3, <1>4, Induction
  <1>6. PICK f : Folded(Cardinality(D), f)
    BY <1>5
  <1>7. Small(Cardinality(D)) = SUBSET D
    BY <1>1
  <1> HIDE DEF Small
  <1>8. QED BY <1>6, <1>7 DEF Folds

\* The greatest of a finite list's places.
LEMMA Greatest ==
  ASSUME NEW n \in Nat, NEW s \in SUBSET (1 .. n), s # {}
  PROVE  Max(s) \in s /\ \A y \in s : y <= Max(s)
  <1> DEFINE back == {k \in Nat : n - k \in s}
  <1>1. back # {} /\ back \subseteq Nat
    <2>1. PICK x \in s : TRUE
      OBVIOUS
    <2>2. n - x \in Nat /\ n - (n - x) = x
      BY <2>1
    <2>3. n - x \in back
      BY <2>2
    <2>4. QED BY <2>3
  <1>2. PICK k \in back : \A j \in back : k <= j
    BY <1>1, Least
  <1>3. ASSUME NEW y \in s PROVE n - k >= y
    <2>1. y \in 1 .. n /\ k \in Nat
      OBVIOUS
    <2>2. n - y \in Nat /\ n - (n - y) = y
      BY <2>1
    <2>3. k <= n - y
      BY <1>2, <2>2
    <2>4. QED BY <2>1, <2>3
  <1>4. n - k \in s
    OBVIOUS
  <1>5. Max(s) \in s /\ \A y \in s : Max(s) >= y
    BY <1>3, <1>4 DEF Max
  <1>6. QED BY <1>5

LEMMA LastPlace ==
  ASSUME NEW k \in Nat, k > 0
  PROVE  Max(1 .. k) = k /\ (1 .. k) \ {Max(1 .. k)} = 1 .. (k - 1) /\ 1 .. k # {}
  <1>1. 1 .. k # {} /\ k \in 1 .. k
    OBVIOUS
  <1>2. Max(1 .. k) \in 1 .. k /\ k <= Max(1 .. k)
    BY <1>1, Greatest
  <1>3. Max(1 .. k) = k
    BY <1>2
  <1>4. (1 .. k) \ {k} = 1 .. (k - 1)
    OBVIOUS
  <1>5. QED BY <1>1, <1>3, <1>4

\* f folds step over a list of n, from left to right.
LeftFolds(f, n, S, base, step) ==
    /\ f \in [SUBSET (1 .. n) -> S]
    /\ \A s \in SUBSET (1 .. n) :
          f[s] = IF s = {} THEN base ELSE step[<<Max(s), f[s \ {Max(s)}]>>]

LEMMA LeftFoldExists ==
  ASSUME NEW n \in Nat, NEW S, NEW base \in S, NEW step \in [(1 .. n) \X S -> S]
  PROVE  \E f : LeftFolds(f, n, S, base, step)
  <1> DEFINE D == 1 .. n
             pick == [s \in SUBSET D |-> Max(s)]
  <1>1. \A s \in SUBSET D : s # {} => pick[s] \in s
    BY Greatest
  <1>2. IsFiniteSet(D)
    BY FS_Interval
  <1>3. \A s \in SUBSET D : pick[s] = Max(s)
    OBVIOUS
  <1> HIDE DEF pick
  <1>4. PICK f : Folds(f, D, S, base, pick, step)
    BY <1>1, <1>2, FoldExists
  <1>5. f \in [SUBSET (1 .. n) -> S]
    BY <1>4 DEF Folds
  <1>6. ASSUME NEW s \in SUBSET (1 .. n)
        PROVE  f[s] = IF s = {} THEN base ELSE step[<<Max(s), f[s \ {Max(s)}]>>]
    <2>1. f[s] = IF s = {} THEN base ELSE step[<<pick[s], f[s \ {pick[s]}]>>]
      BY <1>4 DEF Folds
    <2>2. QED BY <1>3, <2>1
  <1>7. QED BY <1>5, <1>6 DEF LeftFolds

(***************************************************************************)
(* Sorting                                                                 *)
(***************************************************************************)
\* The members of S that R puts before x.
Ahead(S, R, x) == {y \in S : <<y, x>> \in R}

\* Each member of a list of S has as many before it as R puts before it.
Placed(places, S, R) ==
    /\ places \in [1 .. Cardinality(S) -> S]
    /\ \A k \in 1 .. Cardinality(S) : Cardinality(Ahead(S, R, places[k])) = k - 1

\* A finite set that is totally ordered has a member for every place, and
\* the list of them is in order.
LEMMA PlacedInOrder ==
  ASSUME NEW S, IsFiniteSet(S), NEW R, NEW n, n = Cardinality(S),
         \A x, y \in S : <<x, y>> \in R \/ x = y \/ <<y, x>> \in R,
         \A x \in S : <<x, x>> \notin R,
         \A x, y, z \in S : <<x, y>> \in R /\ <<y, z>> \in R => <<x, z>> \in R
  PROVE  /\ n \in Nat
         /\ \A k \in 1 .. n : \E x \in S : Cardinality(Ahead(S, R, x)) = k - 1
         /\ \A sorted : Placed(sorted, S, R) =>
               /\ \A x \in S : \E k \in 1 .. n : sorted[k] = x
               /\ \A k, l \in 1 .. n : k < l => <<sorted[k], sorted[l]>> \in R
  <1> DEFINE earlier(x) == Ahead(S, R, x)
             upTo(x) == earlier(x) \cup {x}
             place == [x \in S |-> Cardinality(upTo(x))]
  <1>1. n \in Nat
    BY FS_CardinalityType
  <1>2. ASSUME NEW x \in S
        PROVE  /\ IsFiniteSet(upTo(x)) /\ Cardinality(upTo(x)) \in 1 .. n
               /\ Cardinality(earlier(x)) = Cardinality(upTo(x)) - 1
               /\ Cardinality(earlier(x)) \in Nat
    <2>1. earlier(x) \in SUBSET S /\ upTo(x) \in SUBSET S /\ x \notin earlier(x)
      BY DEF Ahead
    <2>2. /\ IsFiniteSet(earlier(x)) /\ Cardinality(earlier(x)) \in Nat
          /\ IsFiniteSet(upTo(x)) /\ Cardinality(upTo(x)) \in Nat /\ Cardinality(upTo(x)) <= n
      <3> HIDE DEF earlier, upTo
      <3>1. QED BY <2>1, FS_Subset, FS_CardinalityType
    <2>3. Cardinality(earlier(x) \cup {x}) = Cardinality(earlier(x)) + 1
      <3> HIDE DEF earlier
      <3>1. QED BY <2>1, <2>2, FS_AddElement
    <2>4. Cardinality(upTo(x)) = Cardinality(earlier(x)) + 1
      BY <2>3
    <2> HIDE DEF earlier, upTo
    <2>5. QED BY <1>1, <2>2, <2>4
  <1> HIDE DEF earlier, upTo
  <1>3. ASSUME NEW x \in S, NEW y \in S, <<x, y>> \in R
        PROVE  Cardinality(upTo(x)) < Cardinality(upTo(y))
    <2>1. upTo(x) \in SUBSET upTo(y) /\ y \in upTo(y) /\ y \notin upTo(x)
      BY <1>3 DEF earlier, upTo, Ahead
    <2>2. IsFiniteSet(upTo(y)) /\ Cardinality(upTo(x)) \in Nat /\ Cardinality(upTo(y)) \in Nat
      BY <1>1, <1>2
    <2>3. Cardinality(upTo(x)) <= Cardinality(upTo(y)) /\ Cardinality(upTo(x)) # Cardinality(upTo(y))
      BY <2>1, <2>2, FS_Subset
    <2>4. QED BY <2>2, <2>3
  <1>4. ASSUME NEW x \in S, NEW y \in S, Cardinality(upTo(x)) = Cardinality(upTo(y)) PROVE x = y
    <2>1. Cardinality(upTo(x)) \in Nat
      BY <1>1, <1>2
    <2>2. ~(<<x, y>> \in R) /\ ~(<<y, x>> \in R)
      BY <1>3, <1>4, <2>1
    <2>3. QED BY <2>2
  <1>5. place \in Injection(S, 1 .. n)
    BY <1>2, <1>4 DEF Injection, IsInjective
  <1>6. IsFiniteSet(1 .. n) /\ Cardinality(1 .. n) = n
    BY <1>1, FS_Interval
  <1>7. place \in Surjection(S, 1 .. n)
    BY <1>5, <1>6, FS_Injection
  <1>8. \A k \in 1 .. n : \E x \in S : Cardinality(upTo(x)) = k
    BY <1>7 DEF Surjection
  <1>9. \A k \in 1 .. n : \E x \in S : Cardinality(earlier(x)) = k - 1
    BY <1>2, <1>8
  <1>10. ASSUME NEW sorted, Placed(sorted, S, R)
         PROVE  /\ \A x \in S : \E k \in 1 .. n : sorted[k] = x
                /\ \A k, l \in 1 .. n : k < l => <<sorted[k], sorted[l]>> \in R
    <2>1. ASSUME NEW k \in 1 .. n PROVE sorted[k] \in S /\ Cardinality(upTo(sorted[k])) = k
      <3>1. sorted[k] \in S /\ Cardinality(earlier(sorted[k])) = k - 1
        BY <1>10 DEF Placed, earlier
      <3>2. Cardinality(upTo(sorted[k])) \in Nat /\ Cardinality(upTo(sorted[k])) - 1 = k - 1
        BY <1>1, <1>2, <3>1
      <3>3. QED BY <3>1, <3>2
    <2>2. ASSUME NEW x \in S PROVE \E k \in 1 .. n : sorted[k] = x
      <3>1. PICK k \in 1 .. n : k = Cardinality(upTo(x))
        BY <1>2
      <3>2. sorted[k] = x
        BY <1>4, <2>1, <3>1
      <3>3. QED BY <3>2
    <2>3. ASSUME NEW k \in 1 .. n, NEW l \in 1 .. n, k < l
          PROVE  <<sorted[k], sorted[l]>> \in R
      <3>1. /\ sorted[k] \in S /\ Cardinality(upTo(sorted[k])) = k
            /\ sorted[l] \in S /\ Cardinality(upTo(sorted[l])) = l
        BY <2>1
      <3>2. sorted[k] # sorted[l]
        BY <2>3, <3>1
      <3>3. ~(<<sorted[l], sorted[k]>> \in R)
        <4>1. SUFFICES ASSUME <<sorted[l], sorted[k]>> \in R PROVE FALSE
          OBVIOUS
        <4>2. l < k
          BY <1>3, <3>1, <4>1
        <4>3. QED BY <2>3, <4>2
      <3>4. QED BY <3>1, <3>2, <3>3
    <2>4. QED BY <2>2, <2>3
  <1>11. QED BY <1>1, <1>9, <1>10 DEF earlier

(***************************************************************************)
(* Texts                                                                   *)
(***************************************************************************)
\* The letters after place a up to place b.
Part(text, a, b) == SubSeq(text, a + 1, b)

\* Such a list has those letters.
Copies(s, S, text, a, b) ==
    /\ s \in Seq(S)
    /\ Len(s) = b - a
    /\ \A i \in 1 .. b - a : s[i] = text[a + i]

LEMMA PartIs ==
  ASSUME NEW S, NEW text \in Seq(S), NEW b \in 0 .. Len(text), NEW a \in 0 .. b
  PROVE  Copies(Part(text, a, b), S, text, a, b)
  <1>1. Len(text) \in Nat
    BY LenProperties
  <1>2. a + 1 \in 1 .. Len(text) + 1 /\ b \in a .. Len(text)
    BY <1>1
  <1>3. /\ SubSeq(text, a + 1, b) \in Seq(S)
        /\ Len(SubSeq(text, a + 1, b)) = IF a + 1 <= b THEN b - (a + 1) + 1 ELSE 0
        /\ \A i \in 1 .. b - (a + 1) + 1 : SubSeq(text, a + 1, b)[i] = text[a + 1 + i - 1]
    <2>1. a + 1 >= 1 /\ b <= Len(text) /\ a + 1 \in Int /\ b \in Int
      BY <1>1
    <2>2. QED BY <1>1, <2>1, SubSeqProperties
  <1>4. b - (a + 1) + 1 = b - a /\ \A i \in Int : a + 1 + i - 1 = a + i
    OBVIOUS
  <1>5. Part(text, a, b) \in Seq(S) /\ Len(Part(text, a, b)) = b - a
    BY <1>3, <1>4 DEF Part
  <1>6. ASSUME NEW i \in 1 .. b - a PROVE Part(text, a, b)[i] = text[a + i]
    <2>1. SubSeq(text, a + 1, b)[i] = text[a + 1 + i - 1] /\ a + 1 + i - 1 = a + i
      BY <1>3, <1>4
    <2>2. QED BY <2>1 DEF Part
  <1>7. QED BY <1>5, <1>6 DEF Copies

\* Equal parts, letter by letter.
LEMMA SameText ==
  ASSUME NEW S, NEW s \in Seq(S), NEW t \in Seq(S), Len(s) = Len(t),
         \A i \in 1 .. Len(s) : s[i] = t[i]
  PROVE  s = t
  OBVIOUS

LEMMA PartOfPart ==
  ASSUME NEW S, NEW text \in Seq(S), NEW b \in 0 .. Len(text), NEW a \in 0 .. b,
         NEW d \in 0 .. b - a, NEW c \in 0 .. d
  PROVE  Part(Part(text, a, b), c, d) = Part(text, a + c, a + d)
  <1> DEFINE s == Part(Part(text, a, b), c, d)
             t == Part(text, a + c, a + d)
  <1>1. Len(text) \in Nat
    BY LenProperties
  <1>2. /\ Part(text, a, b) \in Seq(S) /\ Len(Part(text, a, b)) = b - a
        /\ \A i \in 1 .. b - a : Part(text, a, b)[i] = text[a + i]
    BY PartIs DEF Copies
  <1>3. d \in 0 .. Len(Part(text, a, b))
    BY <1>2
  <1>4. /\ s \in Seq(S) /\ Len(s) = d - c
        /\ \A i \in 1 .. d - c : s[i] = Part(text, a, b)[c + i]
    <2>1. Copies(s, S, Part(text, a, b), c, d)
      BY <1>2, <1>3, PartIs
    <2> HIDE DEF s
    <2>2. QED BY <2>1 DEF Copies
  <1>5. a + d \in 0 .. Len(text) /\ a + c \in 0 .. a + d /\ (a + d) - (a + c) = d - c
    BY <1>1
  <1>6. t \in Seq(S) /\ Len(t) = d - c /\ \A i \in 1 .. d - c : t[i] = text[a + c + i]
    <2>1. Copies(t, S, text, a + c, a + d)
      BY <1>5, PartIs
    <2> HIDE DEF t
    <2>2. QED BY <1>5, <2>1 DEF Copies
  <1> HIDE DEF s, t
  <1>7. ASSUME NEW i \in 1 .. Len(s) PROVE s[i] = t[i]
    <2>1. i \in 1 .. d - c /\ c + i \in 1 .. b - a /\ a + (c + i) = a + c + i
      BY <1>4
    <2>2. QED BY <1>2, <1>4, <1>6, <2>1
  <1>8. s = t
    BY <1>4, <1>6, <1>7, SameText
  <1>9. QED BY <1>8 DEF s, t

LEMMA PartsJoin ==
  ASSUME NEW S, NEW text \in Seq(S), NEW c \in 0 .. Len(text), NEW b \in 0 .. c, NEW a \in 0 .. b
  PROVE  Part(text, a, b) \o Part(text, b, c) = Part(text, a, c)
  <1> DEFINE s == Part(text, a, b)
             t == Part(text, b, c)
             u == Part(text, a, c)
  <1>1. Len(text) \in Nat
    BY LenProperties
  <1>2. b \in 0 .. Len(text) /\ a \in 0 .. c
    BY <1>1
  <1>3. /\ s \in Seq(S) /\ Len(s) = b - a /\ \A i \in 1 .. b - a : s[i] = text[a + i]
        /\ t \in Seq(S) /\ Len(t) = c - b /\ \A i \in 1 .. c - b : t[i] = text[b + i]
        /\ u \in Seq(S) /\ Len(u) = c - a /\ \A i \in 1 .. c - a : u[i] = text[a + i]
    <2>1. Copies(s, S, text, a, b) /\ Copies(t, S, text, b, c) /\ Copies(u, S, text, a, c)
      BY <1>2, PartIs
    <2> HIDE DEF s, t, u
    <2>2. QED BY <2>1 DEF Copies
  <1> HIDE DEF s, t, u
  <1>4. s \o t \in Seq(S) /\ Len(s \o t) = c - a
    <2>1. s \o t \in Seq(S) /\ Len(s \o t) = Len(s) + Len(t)
      <3>1. s \in Seq(S) /\ t \in Seq(S)
        BY <1>3
      <3>2. QED BY <3>1, ConcatProperties
    <2>2. (b - a) + (c - b) = c - a
      OBVIOUS
    <2>3. QED BY <1>3, <2>1, <2>2
  <1>5. ASSUME NEW i \in 1 .. c - a PROVE (s \o t)[i] = u[i]
    <2>1. CASE i <= b - a
      <3>1. (s \o t)[i] = s[i]
        BY <1>3, <2>1
      <3>2. QED BY <1>3, <2>1, <3>1
    <2>2. CASE i > b - a
      <3>1. i - (b - a) \in 1 .. c - b /\ b + (i - (b - a)) = a + i
        BY <2>2
      <3>2. (s \o t)[i] = t[i - (b - a)]
        <4>1. i > Len(s) /\ i - Len(s) = i - (b - a) /\ i <= Len(s) + Len(t)
          BY <1>3, <2>2
        <4>2. s \in Seq(S) /\ t \in Seq(S) /\ i \in 1 .. Len(s) + Len(t)
          BY <1>3, <4>1
        <4>3. (s \o t)[i] = t[i - Len(s)]
          BY <4>1, <4>2, ConcatProperties
        <4>4. QED BY <4>1, <4>3
      <3>3. QED BY <1>3, <3>1, <3>2
    <2>3. b - a \in Int /\ i \in Int
      OBVIOUS
    <2>4. i <= b - a \/ i > b - a
      BY <2>3
    <2>5. QED BY <2>1, <2>2, <2>4
  <1>6. s \o t = u
    BY <1>3, <1>4, <1>5, SameText
  <1>7. QED BY <1>6 DEF s, t, u

LEMMA WholeText ==
  ASSUME NEW S, NEW text \in Seq(S)
  PROVE  Part(text, 0, Len(text)) = text
  <1>1. Len(text) \in Nat
    BY LenProperties
  <1>2. /\ Part(text, 0, Len(text)) \in Seq(S) /\ Len(Part(text, 0, Len(text))) = Len(text)
        /\ \A i \in 1 .. Len(text) : Part(text, 0, Len(text))[i] = text[i]
    <2>1. PICK n, a : n = Len(text) /\ a = 0
      OBVIOUS
    <2>2. n \in 0 .. Len(text) /\ a \in 0 .. n /\ n - a = n /\ \A i \in Int : a + i = i
      BY <1>1, <2>1
    <2>3. /\ Part(text, a, n) \in Seq(S) /\ Len(Part(text, a, n)) = n - a
          /\ \A i \in 1 .. n - a : Part(text, a, n)[i] = text[a + i]
      BY <2>2, PartIs DEF Copies
    <2>4. QED BY <2>1, <2>2, <2>3
  <1>3. QED BY <1>2, SameText

\* Where the marker is, letter by letter.
LEMMA OccursAt ==
  ASSUME NEW text \in Seq(Letters)
  PROVE  Occurs(text) = {i \in 1 .. Len(text) - 2 :
                            text[i] = "c" /\ text[i + 1] = "s" /\ text[i + 2] = ":"}
  <1>1. Len(text) \in Nat
    BY LenProperties
  <1>2. SUFFICES ASSUME NEW i \in 1 .. Len(text) - 2
                 PROVE  SubSeq(text, i, i + 2) = Marker <=>
                           text[i] = "c" /\ text[i + 1] = "s" /\ text[i + 2] = ":"
    BY DEF Occurs
  <1> DEFINE s == SubSeq(text, i, i + 2)
  <1> PICK a, b : a = i - 1 /\ b = i + 2
    OBVIOUS
  <1>3. a \in 0 .. b /\ b \in 0 .. Len(text) /\ b - a = 3 /\ a + 1 = i /\ a + 2 = i + 1 /\ a + 3 = i + 2
    BY <1>1, <1>2
  <1>4. s = Part(text, a, b)
    BY <1>3 DEF Part
  <1>5. s \in Seq(Letters) /\ Len(s) = 3 /\ s[1] = text[i] /\ s[2] = text[i + 1] /\ s[3] = text[i + 2]
    <2> HIDE DEF s
    <2>1. s \in Seq(Letters) /\ Len(s) = b - a /\ \A j \in 1 .. b - a : s[j] = text[a + j]
      <3>1. a \in 0 .. b /\ b \in 0 .. Len(text)
        BY <1>3
      <3>2. Copies(Part(text, a, b), Letters, text, a, b)
        BY <3>1, PartIs
      <3>3. QED BY <1>4, <3>2 DEF Copies
    <2>2. \A j \in 1 .. 3 : s[j] = text[a + j]
      BY <1>3, <2>1
    <2>3. s[1] = text[a + 1] /\ s[2] = text[a + 2] /\ s[3] = text[a + 3]
      BY <2>2
    <2>4. QED BY <1>3, <2>1, <2>3
  <1> HIDE DEF s
  <1>6. /\ Marker \in Seq(Letters) /\ Len(Marker) = 3
        /\ Marker[1] = "c" /\ Marker[2] = "s" /\ Marker[3] = ":"
    BY DEF Marker, Letters
  <1>7. s = Marker <=> s[1] = "c" /\ s[2] = "s" /\ s[3] = ":"
    <2>1. ASSUME s[1] = "c" /\ s[2] = "s" /\ s[3] = ":" PROVE s = Marker
      <3>1. \A k \in 1 .. 3 : s[k] = Marker[k]
        BY <1>6, <2>1
      <3> HIDE DEF Marker
      <3>2. QED BY <1>5, <1>6, <3>1, SameText
    <2>2. QED BY <1>6, <2>1
  <1>8. QED BY <1>5, <1>7 DEF s

\* So the markers in a part are those of the text that lie in it.
LEMMA OccursInPart ==
  ASSUME NEW text \in Seq(Letters), NEW b \in 0 .. Len(text), NEW a \in 0 .. b
  PROVE  \A i \in Int : i \in Occurs(Part(text, a, b)) <=>
                           i >= 1 /\ a + i + 2 <= b /\ a + i \in Occurs(text)
  <1>1. Len(text) \in Nat
    BY LenProperties
  <1> DEFINE s == Part(text, a, b)
  <1>2. s \in Seq(Letters) /\ Len(s) = b - a /\ \A i \in 1 .. b - a : s[i] = text[a + i]
    <2>1. Copies(s, Letters, text, a, b)
      BY PartIs
    <2> HIDE DEF s
    <2>2. QED BY <2>1 DEF Copies
  <1> HIDE DEF s
  <1>3. SUFFICES ASSUME NEW i \in Int
                 PROVE  i \in Occurs(s) <=> i >= 1 /\ a + i + 2 <= b /\ a + i \in Occurs(text)
    BY DEF s
  <1>4. i \in Occurs(s) <=> i \in 1 .. (b - a) - 2 /\ s[i] = "c" /\ s[i + 1] = "s" /\ s[i + 2] = ":"
    <2>1. Occurs(s) = {j \in 1 .. Len(s) - 2 : s[j] = "c" /\ s[j + 1] = "s" /\ s[j + 2] = ":"}
      BY <1>2, OccursAt
    <2>2. QED BY <1>2, <2>1
  <1>5. a + i \in Occurs(text) <=> a + i \in 1 .. Len(text) - 2 /\ text[a + i] = "c"
                                    /\ text[a + i + 1] = "s" /\ text[a + i + 2] = ":"
    BY OccursAt
  <1>6. CASE i >= 1 /\ a + i + 2 <= b
    <2>1. i \in 1 .. b - a /\ i + 1 \in 1 .. b - a /\ i + 2 \in 1 .. b - a
          /\ a + (i + 1) = a + i + 1 /\ a + (i + 2) = a + i + 2
      BY <1>6
    <2>2. s[i] = text[a + i] /\ s[i + 1] = text[a + i + 1] /\ s[i + 2] = text[a + i + 2]
      <3>1. \A j \in 1 .. b - a : s[j] = text[a + j]
        BY <1>2
      <3>2. s[i] = text[a + i] /\ s[i + 1] = text[a + (i + 1)] /\ s[i + 2] = text[a + (i + 2)]
        BY <2>1, <3>1
      <3>3. QED BY <2>1, <3>2
    <2>3. i \in 1 .. (b - a) - 2 /\ a + i \in 1 .. Len(text) - 2
      BY <1>1, <1>6
    <2>4. QED BY <1>4, <1>5, <1>6, <2>2, <2>3
  <1>7. CASE ~(i >= 1 /\ a + i + 2 <= b)
    <2>1. i \notin 1 .. (b - a) - 2
      BY <1>7
    <2>2. QED BY <1>4, <1>7, <2>1
  <1>8. QED BY <1>6, <1>7

(***************************************************************************)
(* The stream of an answer                                                 *)
(***************************************************************************)
\* The l letters up to place p begin the marker.
Begins(text, p, l) ==
    \/ l = 1 /\ p >= 1 /\ text[p] = "c"
    \/ l = 2 /\ p >= 2 /\ text[p - 1] = "c" /\ text[p] = "s"

\* What Write holds back is as long as any such end.
LEMMA HeldIs ==
  ASSUME NEW text \in Seq(Letters)
  PROVE  /\ Held(text) \in 0 .. 2 /\ Held(text) <= Len(text)
         /\ \A l \in 1 .. 2 : Begins(text, Len(text), l) => l <= Held(text)
  <1> DEFINE n == Len(text)
             ends == {l \in 1 .. 2 : l <= n /\ SubSeq(text, n - l + 1, n) = SubSeq(Marker, 1, l)}
  <1>1. n \in Nat
    BY LenProperties
  <1>2. /\ Marker \in Seq(Letters) /\ Len(Marker) = 3
        /\ Marker[1] = "c" /\ Marker[2] = "s"
    BY DEF Marker, Letters
  <1>3. ASSUME NEW l \in 1 .. 2, l <= n
        PROVE  SubSeq(text, n - l + 1, n) = SubSeq(Marker, 1, l) <=>
                  \A i \in 1 .. l : text[n - l + i] = Marker[i]
    <2> DEFINE s == Part(text, n - l, n)
               t == Part(Marker, 0, l)
    <2>1. n - l \in 0 .. n /\ n \in 0 .. Len(text) /\ n - (n - l) = l
      BY <1>1, <1>3
    <2> PICK z : z = 0
      OBVIOUS
    <2>2. l \in 0 .. Len(Marker) /\ z \in 0 .. l /\ l - z = l /\ \A i \in Int : z + i = i
      BY <1>2
    <2>3. s \in Seq(Letters) /\ Len(s) = l /\ \A i \in 1 .. l : s[i] = text[n - l + i]
      <3>1. Copies(s, Letters, text, n - l, n)
        BY <2>1, PartIs
      <3> HIDE DEF s, n
      <3>2. QED BY <2>1, <3>1 DEF Copies
    <2>4. /\ Part(Marker, z, l) \in Seq(Letters) /\ Len(Part(Marker, z, l)) = l - z
          /\ \A i \in 1 .. l - z : Part(Marker, z, l)[i] = Marker[z + i]
      <3>1. Marker \in Seq(Letters) /\ l \in 0 .. Len(Marker) /\ z \in 0 .. l
        BY <1>2, <2>2
      <3> HIDE DEF s, t, n, ends
      <3>2. Copies(Part(Marker, z, l), Letters, Marker, z, l)
        BY <3>1, PartIs
      <3>3. QED BY <3>2 DEF Copies
    <2>5. t \in Seq(Letters) /\ Len(t) = l /\ \A i \in 1 .. l : t[i] = Marker[i]
      BY <2>2, <2>4
    <2>6. s = SubSeq(text, n - l + 1, n) /\ t = SubSeq(Marker, 1, l)
      BY DEF Part
    <2> HIDE DEF s, t, n
    <2>7. ASSUME \A i \in 1 .. l : text[n - l + i] = Marker[i] PROVE s = t
      <3>1. \A i \in 1 .. Len(s) : s[i] = t[i]
        BY <2>3, <2>5, <2>7
      <3>2. QED BY <2>3, <2>5, <3>1, SameText
    <2>8. ASSUME s = t PROVE \A i \in 1 .. l : text[n - l + i] = Marker[i]
      BY <2>3, <2>5, <2>8
    <2>9. QED BY <2>6, <2>7, <2>8
  <1>4. ASSUME NEW l \in 1 .. 2, Begins(text, n, l) PROVE l \in ends
    <2>1. l <= n
      BY <1>1, <1>4 DEF Begins
    <2>2. \A i \in 1 .. l : text[n - l + i] = Marker[i]
      <3> HIDE DEF n
      <3>1. CASE l = 1
        <4>1. text[n] = "c" /\ n - 1 + 1 = n
          BY <1>1, <1>4, <3>1 DEF Begins
        <4>2. \A i \in 1 .. l : i = 1
          BY <3>1
        <4>3. QED BY <1>2, <3>1, <4>1, <4>2
      <3>2. CASE l = 2
        <4>1. text[n - 1] = "c" /\ text[n] = "s" /\ n - 2 + 1 = n - 1 /\ n - 2 + 2 = n
          BY <1>1, <1>4, <3>2 DEF Begins
        <4>2. \A i \in 1 .. l : i = 1 \/ i = 2
          BY <3>2
        <4>3. QED BY <1>2, <3>2, <4>1, <4>2
      <3>3. QED BY <3>1, <3>2
    <2>3. SubSeq(text, n - l + 1, n) = SubSeq(Marker, 1, l)
      BY <1>3, <2>1, <2>2
    <2>4. QED BY <2>1, <2>3
  <1>5. Held(text) = IF ends = {} THEN 0 ELSE Max(ends)
    BY DEF Held
  <1>6. ends \in SUBSET (1 .. 2) /\ \A l \in ends : l <= n
    OBVIOUS
  <1> HIDE DEF ends
  <1>7. CASE ends = {}
    BY <1>1, <1>4, <1>5, <1>7
  <1>8. CASE ends # {}
    <2>1. Max(ends) \in ends /\ \A l \in ends : l <= Max(ends)
      BY <1>6, <1>8, Greatest
    <2>2. Held(text) = Max(ends)
      BY <1>5, <1>8
    <2>3. Held(text) \in 1 .. 2 /\ Held(text) <= n
      BY <1>6, <2>1, <2>2
    <2>4. \A l \in 1 .. 2 : Begins(text, n, l) => l <= Held(text)
      BY <1>4, <2>1, <2>2
    <2>5. QED BY <2>3, <2>4
  <1>9. QED BY <1>7, <1>8

\* No marker ends by place p, and what may yet become one begins after q.
Unseen(text, q, p) ==
    /\ \A i \in Occurs(text) : i + 2 > p
    /\ \A l \in 1 .. 2 : Begins(text, p, l) => l <= p - q

FirstMarker(text, m) == m \in Occurs(text) /\ \A i \in Occurs(text) : m <= i

Holding(text, q, p) ==
    [shown |-> Part(text, 0, q), buf |-> Part(text, q, p), matched |-> FALSE]

Found(text, m, p) ==
    [shown |-> Part(text, 0, m - 1), buf |-> Part(text, m - 1, p), matched |-> TRUE]

\* The filter after p letters of the text.
Streamed(text, w, p) ==
    \/ \E q \in 0 .. p : Unseen(text, q, p) /\ w = Holding(text, q, p)
    \/ \E m \in 1 .. p - 2 : FirstMarker(text, m) /\ w = Found(text, m, p)

\* A beginning of a marker that reaches past p is held back.
LEMMA HeldFrom ==
  ASSUME NEW text \in Seq(Letters), NEW p \in 0 .. Len(text), NEW q \in 0 .. p,
         Unseen(text, q, p), NEW j \in 1 .. Len(text), j + 2 > p,
         text[j] = "c", j + 1 <= p => text[j + 1] = "s"
  PROVE  j > q
  <1>1. CASE j > p
    BY <1>1
  <1>2. CASE j = p
    <2>1. Begins(text, p, 1)
      BY <1>2 DEF Begins
    <2>2. 1 <= p - q
      BY <2>1 DEF Unseen
    <2>3. QED BY <1>2, <2>2
  <1>3. CASE j = p - 1
    <2>1. j + 1 = p
      BY <1>3
    <2>2. Begins(text, p, 2)
      BY <1>3, <2>1 DEF Begins
    <2>3. 2 <= p - q
      BY <2>2 DEF Unseen
    <2>4. QED BY <1>3, <2>3
  <1>4. QED BY <1>1, <1>2, <1>3

LEMMA LeastIs ==
  ASSUME NEW S, S \subseteq Int, NEW m \in S, \A i \in S : m <= i
  PROVE  Min(S) = m
  <1>1. Min(S) \in S /\ \A i \in S : Min(S) <= i
    BY DEF Min
  <1>2. Min(S) \in Int /\ m \in Int /\ Min(S) <= m /\ m <= Min(S)
    BY <1>1
  <1>3. QED BY <1>2

\* With delta the filter has r letters, of which q are shown.
Reached(text, w, delta, q, r) ==
    w.shown = Part(text, 0, q) /\ w.buf \o delta = Part(text, q, r)

\* A marker in what is buffered is found, and what precedes it is shown.
LEMMA WriteFound ==
  ASSUME NEW text \in Seq(Letters), NEW r \in 0 .. Len(text), NEW m \in 1 .. r - 2,
         FirstMarker(text, m), NEW q \in 0 .. m - 1,
         NEW w, NEW delta, Reached(text, w, delta, q, r)
  PROVE  Write(w, delta) = Found(text, m, r)
  <1>0. w.shown = Part(text, 0, q) /\ w.buf \o delta = Part(text, q, r)
    BY DEF Reached
  <1> PICK t : t = w.buf \o delta
    OBVIOUS
  <1> PICK z, k, n : z = 0 /\ k = m - q - 1 /\ n = r - q
    OBVIOUS
  <1>1. Len(text) \in Nat
    BY LenProperties
  <1>2. q \in 0 .. r /\ m - 1 \in 0 .. r /\ q \in 0 .. m - 1 /\ m - 1 \in 0 .. Len(text)
        /\ z \in 0 .. q /\ z \in 0 .. k /\ k \in 0 .. n /\ n \in 0 .. n /\ n \in 0 .. r - q
        /\ q + z = q /\ q + k = m - 1 /\ q + n = r /\ k + 1 = m - q /\ z + 1 = 1
    BY <1>1
  <1>3. t = Part(text, q, r) /\ t \in Seq(Letters) /\ Len(t) = n
    <2>1. Part(text, q, r) \in Seq(Letters) /\ Len(Part(text, q, r)) = r - q
      <3>1. Copies(Part(text, q, r), Letters, text, q, r)
        BY <1>2, PartIs
      <3>2. QED BY <3>1 DEF Copies
    <2>2. QED BY <1>0, <2>1
  <1>4. m - q \in Occurs(t) /\ \A i \in Occurs(t) : m - q <= i
    <2>1. \A i \in Int : i \in Occurs(t) <=> i >= 1 /\ q + i + 2 <= r /\ q + i \in Occurs(text)
      BY <1>2, <1>3, OccursInPart
    <2>2. m - q \in Int /\ m - q >= 1 /\ q + (m - q) = m /\ m + 2 <= r
      OBVIOUS
    <2>3. m - q \in Occurs(t)
      BY <2>1, <2>2 DEF FirstMarker
    <2>4. ASSUME NEW i \in Occurs(t) PROVE m - q <= i
      <3>1. i \in Int
        BY DEF Occurs
      <3>2. m <= q + i
        BY <2>1, <3>1 DEF FirstMarker
      <3>3. QED BY <3>1, <3>2
    <2>5. QED BY <2>3, <2>4
  <1>5. Min(Occurs(t)) = m - q /\ Occurs(t) # {}
    <2>1. Occurs(t) \subseteq Int
      BY DEF Occurs
    <2>2. QED BY <1>4, <2>1, LeastIs
  <1>6. SubSeq(t, 1, m - q - 1) = Part(text, q, m - 1)
    <2>1. SubSeq(t, 1, m - q - 1) = Part(t, z, k)
      BY <1>2 DEF Part
    <2>2. Part(t, z, k) = Part(text, q + z, q + k)
      BY <1>2, <1>3, PartOfPart
    <2>3. QED BY <1>2, <2>1, <2>2
  <1>7. SubSeq(t, m - q, Len(t)) = Part(text, m - 1, r)
    <2>1. SubSeq(t, m - q, Len(t)) = Part(t, k, n)
      BY <1>2, <1>3 DEF Part
    <2>2. Part(t, k, n) = Part(text, q + k, q + n)
      BY <1>2, <1>3, PartOfPart
    <2>3. QED BY <1>2, <2>1, <2>2
  <1>8. Part(text, z, q) \o Part(text, q, m - 1) = Part(text, z, m - 1)
    BY <1>2, PartsJoin
  <1>9. Write(w, delta) = [shown |-> w.shown \o SubSeq(t, 1, m - q - 1),
                           buf |-> SubSeq(t, m - q, Len(t)), matched |-> TRUE]
    BY <1>5 DEF Write
  <1>10. QED BY <1>0, <1>6, <1>7, <1>8, <1>9 DEF Found

\* With none, all but what may become one is shown.
LEMMA WriteUnfound ==
  ASSUME NEW text \in Seq(Letters), NEW r \in 0 .. Len(text), NEW p \in 0 .. r, NEW q \in 0 .. p,
         Unseen(text, q, p), \A i \in Occurs(text) : i + 2 > r
  PROVE  \E u \in 0 .. r : /\ Unseen(text, u, r)
                           /\ Write(Holding(text, q, p), Part(text, p, r)) = Holding(text, u, r)
  <1> PICK t : t = Part(text, q, p) \o Part(text, p, r)
    OBVIOUS
  <1> PICK n, keep, u, z : n = r - q /\ keep = n - Held(t) /\ u = q + keep /\ z = 0
    OBVIOUS
  <1> DEFINE w == Holding(text, q, p)
  <1>1. Len(text) \in Nat
    BY LenProperties
  <1>2. q \in 0 .. r /\ p \in 0 .. Len(text)
    BY <1>1
  <1>3. t = Part(text, q, r)
    BY <1>2, PartsJoin
  <1>4. t \in Seq(Letters) /\ Len(t) = n /\ \A i \in 1 .. n : t[i] = text[q + i]
    <2>1. Copies(Part(text, q, r), Letters, text, q, r)
      BY <1>2, PartIs
    <2>2. QED BY <1>3, <2>1 DEF Copies
  <1>5. /\ Held(t) \in 0 .. 2 /\ Held(t) <= n
        /\ \A l \in 1 .. 2 : Begins(t, n, l) => l <= Held(t)
    BY <1>4, HeldIs
  <1>6. Occurs(t) = {}
    <2>1. \A i \in Int : i \in Occurs(t) => q + i + 2 <= r /\ q + i \in Occurs(text)
      BY <1>2, <1>3, OccursInPart
    <2>2. \A i \in Occurs(t) : i \in Int
      BY DEF Occurs
    <2>3. SUFFICES ASSUME NEW i \in Occurs(t) PROVE FALSE
      OBVIOUS
    <2>4. i \in Int /\ q + i + 2 <= r /\ (q + i) + 2 > r
      BY <2>1, <2>2
    <2>5. QED BY <2>4
  <1>7. /\ z \in 0 .. keep /\ keep \in 0 .. n /\ n \in 0 .. n /\ n \in 0 .. r - q
        /\ q + z = q /\ q + n = r /\ u \in q .. r /\ r - u = Held(t) /\ z + 1 = 1
        /\ u \in 0 .. Len(text) /\ q \in 0 .. u /\ z \in 0 .. q
    <2>1. n \in Nat /\ q + n = r /\ keep \in 0 .. n /\ Held(t) \in Nat
      BY <1>2, <1>5
    <2>2. u \in q .. r /\ r - u = Held(t)
      BY <2>1
    <2>3. z \in 0 .. keep /\ n \in 0 .. n /\ n \in 0 .. r - q /\ z + 1 = 1
      BY <2>1
    <2>4. q + z = q /\ u \in 0 .. Len(text) /\ q \in 0 .. u /\ z \in 0 .. q
      BY <1>1, <2>2
    <2>5. QED BY <2>1, <2>2, <2>3, <2>4
  <1>8. SubSeq(t, 1, keep) = Part(text, q, u)
    <2>1. SubSeq(t, 1, keep) = Part(t, z, keep)
      BY <1>7 DEF Part
    <2>2. Part(t, z, keep) = Part(text, q + z, q + keep)
      BY <1>2, <1>3, <1>7, PartOfPart
    <2>3. QED BY <1>7, <2>1, <2>2
  <1>9. SubSeq(t, keep + 1, n) = Part(text, u, r)
    <2>1. SubSeq(t, keep + 1, n) = Part(t, keep, n)
      BY DEF Part
    <2>2. Part(t, keep, n) = Part(text, q + keep, q + n)
      BY <1>2, <1>3, <1>7, PartOfPart
    <2>3. QED BY <1>7, <2>1, <2>2
  <1>10. Part(text, z, q) \o Part(text, q, u) = Part(text, z, u)
    BY <1>7, PartsJoin
  <1>11. Write(w, Part(text, p, r)) =
            [w EXCEPT !.shown = @ \o SubSeq(t, 1, keep), !.buf = SubSeq(t, keep + 1, n)]
    <2>1. w.buf = Part(text, q, p) /\ w.matched = FALSE
      BY DEF Holding
    <2> HIDE DEF w
    <2>2. QED BY <1>4, <1>6, <2>1 DEF Write
  <1>12. Write(w, Part(text, p, r)) = Holding(text, u, r)
    <2>1. Part(text, 0, q) \o Part(text, q, u) = Part(text, 0, u)
      BY <1>10
    <2>2. w = [shown |-> Part(text, 0, q), buf |-> Part(text, q, p), matched |-> FALSE]
      BY DEF Holding
    <2> HIDE DEF w
    <2>3. Write(w, Part(text, p, r)) = [w EXCEPT !.shown = @ \o Part(text, q, u), !.buf = Part(text, u, r)]
      BY <1>8, <1>9, <1>11
    <2>4. QED BY <2>1, <2>2, <2>3 DEF Holding
  <1>13. ASSUME NEW l \in 1 .. 2, Begins(text, r, l) PROVE l <= r - u
    <2>1. CASE l <= n
      <3>1. Begins(t, n, l)
        <4>1. CASE l = 1
          <5>1. n \in 1 .. n /\ q + n = r
            BY <1>7, <2>1, <4>1
          <5>2. text[r] = "c"
            BY <1>13, <4>1 DEF Begins
          <5>3. t[n] = text[r]
            BY <1>4, <5>1
          <5>4. QED BY <4>1, <5>1, <5>2, <5>3 DEF Begins
        <4>2. CASE l = 2
          <5>1. n \in 1 .. n /\ n - 1 \in 1 .. n /\ q + n = r /\ q + (n - 1) = r - 1
            BY <1>7, <2>1, <4>2
          <5>2. text[r - 1] = "c" /\ text[r] = "s"
            BY <1>13, <4>2 DEF Begins
          <5>3. t[n] = text[r] /\ t[n - 1] = text[r - 1]
            BY <1>4, <5>1
          <5>4. QED BY <2>1, <4>2, <5>2, <5>3 DEF Begins
        <4>3. QED BY <4>1, <4>2
      <3>2. QED BY <1>5, <1>7, <3>1
    <2>2. CASE l > n
      <3> PICK j : j = r - l + 1
        OBVIOUS
      <3>1. j \in 1 .. Len(text) /\ j + 2 > p /\ j <= q
        BY <1>1, <1>13, <2>2 DEF Begins
      <3>2. text[j] = "c" /\ (j + 1 <= p => text[j + 1] = "s")
        <4>1. CASE l = 1
          <5>1. j = r /\ ~(j + 1 <= p)
            BY <4>1
          <5>2. QED BY <1>13, <4>1, <5>1 DEF Begins
        <4>2. CASE l = 2
          <5>1. j = r - 1 /\ j + 1 = r
            BY <4>2
          <5>2. QED BY <1>13, <4>2, <5>1 DEF Begins
        <4>3. QED BY <4>1, <4>2
      <3>3. j > q
        BY <1>2, <3>1, <3>2, HeldFrom
      <3>4. QED BY <3>1, <3>3
    <2>3. l \in Int /\ n \in Int
      OBVIOUS
    <2>4. QED BY <2>1, <2>2, <2>3
  <1>14. Unseen(text, u, r)
    BY <1>13 DEF Unseen
  <1>15. u \in 0 .. r
    BY <1>7
  <1>16. QED BY <1>12, <1>14, <1>15

\* What Write makes of the next letters, whatever it holds.
LEMMA WriteStep ==
  ASSUME NEW text \in Seq(Letters), NEW r \in 0 .. Len(text), NEW p \in 0 .. r,
         NEW w, Streamed(text, w, p)
  PROVE  Streamed(text, Write(w, Part(text, p, r)), r)
  <1>1. Len(text) \in Nat
    BY LenProperties
  <1>2. CASE \E q \in 0 .. p : Unseen(text, q, p) /\ w = Holding(text, q, p)
    <2>1. PICK q \in 0 .. p : Unseen(text, q, p) /\ w = Holding(text, q, p)
      BY <1>2
    <2> DEFINE ended == {i \in Occurs(text) : i + 2 <= r}
    <2>2. ended \subseteq Nat /\ Occurs(text) \subseteq 1 .. Len(text) - 2
      BY <1>1 DEF Occurs
    <2>3. CASE ended = {}
      <3>1. \A i \in Occurs(text) : i + 2 > r
        BY <1>1, <2>2, <2>3
      <3>2. QED BY <2>1, <3>1, WriteUnfound DEF Streamed
    <2>4. CASE ended # {}
      <3>1. PICK m \in ended : \A i \in ended : m <= i
        BY <2>2, <2>4, Least
      <3>2. FirstMarker(text, m)
        <4>1. ASSUME NEW i \in Occurs(text) PROVE m <= i
          <5>1. i \in Int /\ m \in Int /\ m + 2 <= r
            BY <1>1, <2>2
          <5>2. CASE i + 2 <= r
            BY <3>1, <5>2
          <5>3. QED BY <5>1, <5>2
        <4>2. QED BY <4>1 DEF FirstMarker
      <3>3. m \in 1 .. r - 2
        BY <1>1, <2>2
      <3>4. m > q
        <4>1. text[m] = "c" /\ text[m + 1] = "s"
          BY OccursAt
        <4>2. m + 2 > p /\ m \in 1 .. Len(text) /\ p \in 0 .. Len(text)
          BY <1>1, <2>1, <3>3 DEF Unseen
        <4>3. QED BY <2>1, <4>1, <4>2, HeldFrom
      <3>5. q \in 0 .. m - 1 /\ q \in 0 .. p
        BY <3>3, <3>4
      <3>6. w.buf \o Part(text, p, r) = Part(text, q, r)
        BY <2>1, <3>5, PartsJoin DEF Holding
      <3>7. w.shown = Part(text, 0, q)
        BY <2>1 DEF Holding
      <3>8. Write(w, Part(text, p, r)) = Found(text, m, r)
        <4>1. Reached(text, w, Part(text, p, r), q, r)
          BY <3>6, <3>7 DEF Reached
        <4>2. QED BY <3>2, <3>3, <3>5, <4>1, WriteFound
      <3>9. QED BY <3>2, <3>3, <3>8 DEF Streamed
    <2>5. QED BY <2>3, <2>4
  <1>3. CASE \E m \in 1 .. p - 2 : FirstMarker(text, m) /\ w = Found(text, m, p)
    <2>1. PICK m \in 1 .. p - 2 : FirstMarker(text, m) /\ w = Found(text, m, p)
      BY <1>3
    <2>2. m \in 1 .. r - 2 /\ m - 1 \in 0 .. m - 1 /\ m - 1 \in 0 .. p
      OBVIOUS
    <2>3. w.buf \o Part(text, p, r) = Part(text, m - 1, r)
      BY <2>1, <2>2, PartsJoin DEF Found
    <2>4. w.shown = Part(text, 0, m - 1)
      BY <2>1 DEF Found
    <2>5. Write(w, Part(text, p, r)) = Found(text, m, r)
      <3>1. PICK q, delta : q = m - 1 /\ delta = Part(text, p, r)
        OBVIOUS
      <3>2. q \in 0 .. m - 1 /\ Reached(text, w, delta, q, r)
        BY <2>2, <2>3, <2>4, <3>1 DEF Reached
      <3>3. m \in 1 .. r - 2 /\ FirstMarker(text, m)
        BY <2>1, <2>2
      <3>4. Write(w, delta) = Found(text, m, r)
        <4>1. text \in Seq(Letters) /\ r \in 0 .. Len(text)
          OBVIOUS
        <4>2. QED BY <3>2, <3>3, <4>1, WriteFound
      <3>5. QED BY <3>1, <3>4
    <2>6. QED BY <2>1, <2>2, <2>5 DEF Streamed
  <1>4. QED BY <1>2, <1>3 DEF Streamed

Filters == [shown : Seq(Letters), buf : Seq(Letters), matched : BOOLEAN]
NewFilter == [shown |-> <<>>, buf |-> <<>>, matched |-> FALSE]

LEMMA WriteTyped ==
  ASSUME NEW w \in Filters, NEW delta \in Seq(Letters)
  PROVE  Write(w, delta) \in Filters
  <1> PICK text : text = w.buf \o delta
    OBVIOUS
  <1> PICK keep : keep = Len(text) - Held(text)
    OBVIOUS
  <1>1. w.shown \in Seq(Letters) /\ w.buf \in Seq(Letters) /\ w.matched \in BOOLEAN
    BY DEF Filters
  <1>2. text \in Seq(Letters) /\ Len(text) \in Nat
    BY <1>1, ConcatProperties, LenProperties
  <1>3. keep \in 0 .. Len(text)
    <2>1. Held(text) \in 0 .. 2 /\ Held(text) <= Len(text)
      BY <1>2, HeldIs
    <2>2. QED BY <1>2, <2>1
  <1>4. \A a \in 1 .. Len(text) + 1 : \A b \in 0 .. Len(text) : SubSeq(text, a, b) \in Seq(Letters)
    <2>1. SUFFICES ASSUME NEW a \in 1 .. Len(text) + 1, NEW b \in 0 .. Len(text)
                   PROVE  SubSeq(text, a, b) \in Seq(Letters)
      OBVIOUS
    <2>2. a >= 1 /\ b <= Len(text) /\ a \in Int /\ b \in Int
      BY <1>2
    <2>3. QED BY <1>2, <2>2, SubSeqProperties
  <1>5. CASE Occurs(text) # {}
    <2> PICK m : m = Min(Occurs(text))
      OBVIOUS
    <2>1. Occurs(text) \subseteq Nat /\ Occurs(text) \subseteq 1 .. Len(text)
      BY <1>2 DEF Occurs
    <2>2. m \in 1 .. Len(text)
      <3>1. PICK i \in Occurs(text) : \A j \in Occurs(text) : i <= j
        BY <1>5, <2>1, Least
      <3>2. m = i
        BY <2>1, <3>1, LeastIs
      <3>3. QED BY <2>1, <3>2
    <2>3. m \in 1 .. Len(text) + 1 /\ m - 1 \in 0 .. Len(text) /\ Len(text) \in 0 .. Len(text)
          /\ 1 \in 1 .. Len(text) + 1
      BY <1>2, <2>2
    <2>4. SubSeq(text, 1, m - 1) \in Seq(Letters) /\ SubSeq(text, m, Len(text)) \in Seq(Letters)
      BY <1>4, <2>3
    <2>5. w.shown \o SubSeq(text, 1, m - 1) \in Seq(Letters)
      BY <1>1, <2>4, ConcatProperties
    <2>6. Write(w, delta) = [shown |-> w.shown \o SubSeq(text, 1, m - 1),
                             buf |-> SubSeq(text, m, Len(text)), matched |-> TRUE]
      BY <1>5 DEF Write
    <2>7. PICK a, b : a = w.shown \o SubSeq(text, 1, m - 1) /\ b = SubSeq(text, m, Len(text))
      OBVIOUS
    <2>8. Write(w, delta) = [shown |-> a, buf |-> b, matched |-> TRUE]
      BY <2>6, <2>7
    <2>9. a \in Seq(Letters) /\ b \in Seq(Letters)
      BY <2>4, <2>5, <2>7
    <2>10. QED BY <2>8, <2>9 DEF Filters
  <1>6. CASE Occurs(text) = {} /\ w.matched
    <2>1. Write(w, delta) = [w EXCEPT !.buf = <<>>]
      BY <1>6 DEF Write
    <2>2. <<>> \in Seq(Letters)
      OBVIOUS
    <2>3. QED BY <2>1, <2>2 DEF Filters
  <1>7. CASE Occurs(text) = {} /\ ~w.matched
    <2>1. SubSeq(text, 1, keep) \in Seq(Letters) /\ SubSeq(text, keep + 1, Len(text)) \in Seq(Letters)
      <3>1. 1 \in 1 .. Len(text) + 1 /\ keep + 1 \in 1 .. Len(text) + 1 /\ Len(text) \in 0 .. Len(text)
        BY <1>2, <1>3
      <3>2. QED BY <1>3, <1>4, <3>1
    <2>2. w.shown \o SubSeq(text, 1, keep) \in Seq(Letters)
      BY <1>1, <2>1, ConcatProperties
    <2>3. Write(w, delta) = [w EXCEPT !.shown = @ \o SubSeq(text, 1, keep),
                                      !.buf = SubSeq(text, keep + 1, Len(text))]
      BY <1>7 DEF Write
    <2>4. QED BY <2>1, <2>2, <2>3 DEF Filters
  <1>8. QED BY <1>1, <1>5, <1>6, <1>7

\* Writing the deltas one after the other is what the fold over them does.
LEMMA WritesInTurn ==
  ASSUME NEW n \in Nat, NEW deltas \in [1 .. n -> Seq(Letters)]
  PROVE  \E g : /\ g[0] = NewFilter
                /\ \A k \in 1 .. n : g[k] = Write(g[k - 1], deltas[k])
                /\ FoldLeft(Write, NewFilter, deltas) = g[n]
  <1> DEFINE D == 1 .. n
             step == [x \in D \X Filters |-> Write(x[2], deltas[x[1]])]
             Equation(f) == f = [s \in SUBSET D |->
                                    IF s = {} THEN NewFilter
                                    ELSE Write(f[s \ {Max(s)}], deltas[Max(s)])]
             all == CHOOSE f : Equation(f)
             g == [k \in 0 .. n |-> all[1 .. k]]
  <1>1. NewFilter \in Filters
    BY DEF NewFilter, Filters
  <1>2. step \in [D \X Filters -> Filters]
    <2>1. ASSUME NEW x \in D \X Filters PROVE Write(x[2], deltas[x[1]]) \in Filters
      <3>1. x[2] \in Filters /\ deltas[x[1]] \in Seq(Letters)
        OBVIOUS
      <3>2. QED BY <3>1, WriteTyped
    <2>2. QED BY <2>1
  <1>3. PICK f \in [SUBSET D -> Filters] :
           \A s \in SUBSET D : f[s] = IF s = {} THEN NewFilter ELSE step[<<Max(s), f[s \ {Max(s)}]>>]
    <2>1. PICK f : LeftFolds(f, n, Filters, NewFilter, step)
      <3> HIDE DEF step, Equation, all, g
      <3>1. QED BY <1>1, <1>2, LeftFoldExists
    <2> HIDE DEF step
    <2>2. QED BY <2>1 DEF LeftFolds
  <1>4. Equation(f)
    <2>1. ASSUME NEW s \in SUBSET D, s # {}
          PROVE  f[s] = Write(f[s \ {Max(s)}], deltas[Max(s)])
      <3>1. Max(s) \in D /\ s \ {Max(s)} \in SUBSET D
        BY <2>1, Greatest
      <3>2. f[s \ {Max(s)}] \in Filters
        BY <3>1
      <3>3. step[<<Max(s), f[s \ {Max(s)}]>>] = Write(f[s \ {Max(s)}], deltas[Max(s)])
        BY <3>1, <3>2
      <3>4. QED BY <1>3, <2>1, <3>3
    <2>2. ASSUME NEW s \in SUBSET D
          PROVE  f[s] = IF s = {} THEN NewFilter ELSE Write(f[s \ {Max(s)}], deltas[Max(s)])
      <3>1. CASE s = {}
        BY <1>3, <3>1
      <3>2. QED BY <2>1, <3>1
    <2>3. QED BY <2>2
  <1>5. Equation(all)
    <2> HIDE DEF Equation
    <2>1. QED BY <1>4
  <1>6. FoldLeft(Write, NewFilter, deltas) = all[D]
    <2>1. DOMAIN deltas = D
      OBVIOUS
    <2>2. QED BY <2>1 DEF FoldLeft, MapThenFoldSet
  <1> HIDE DEF all
  <1>7. all[{}] = NewFilter /\ 1 .. 0 = {}
    BY <1>5
  <1>8. g[0] = NewFilter
    BY <1>7
  <1>9. ASSUME NEW k \in 1 .. n PROVE g[k] = Write(g[k - 1], deltas[k])
    <2>1. 1 .. k \in SUBSET D /\ 1 .. k # {} /\ Max(1 .. k) = k /\ (1 .. k) \ {Max(1 .. k)} = 1 .. (k - 1)
      <3>1. k \in Nat /\ k > 0 /\ 1 .. k \in SUBSET D
        OBVIOUS
      <3> HIDE DEF D, g
      <3>2. QED BY <3>1, LastPlace
    <2>2. all[1 .. k] = Write(all[(1 .. k) \ {Max(1 .. k)}], deltas[Max(1 .. k)])
      BY <1>5, <2>1
    <2>3. k \in 0 .. n /\ k - 1 \in 0 .. n
      OBVIOUS
    <2>4. g[k] = all[1 .. k] /\ g[k - 1] = all[1 .. (k - 1)]
      BY <2>3
    <2> HIDE DEF g
    <2>5. QED BY <2>1, <2>2, <2>4
  <1>10. g[n] = all[D]
    OBVIOUS
  <1> HIDE DEF g
  <1>11. QED BY <1>6, <1>8, <1>9, <1>10

\* What precedes the first marker.
Preceding(text) == IF Occurs(text) = {} THEN text ELSE SubSeq(text, 1, Min(Occurs(text)) - 1)

\* The n deltas are the text, the k-th up to its letter e[k].
CutAt(text, n, e, deltas) ==
    /\ n \in Nat /\ e \in [0 .. n -> 0 .. Len(text)]
    /\ e[0] = 0 /\ e[n] = Len(text) /\ \A k \in 1 .. n : e[k - 1] <= e[k]
    /\ deltas = [k \in 1 .. n |-> Part(text, e[k - 1], e[k])]

\* Whatever the deltas, the client is shown what precedes the first marker.
LEMMA StreamOf ==
  ASSUME NEW text \in Seq(Letters), NEW n, NEW e, NEW deltas, CutAt(text, n, e, deltas)
  PROVE  LiveText(deltas) = Preceding(text)
  <1>1. Len(text) \in Nat
    BY LenProperties
  <1>2. \A k \in 1 .. n : /\ e[k] \in 0 .. Len(text) /\ e[k - 1] \in 0 .. e[k]
                          /\ k - 1 \in 0 .. n /\ deltas[k] = Part(text, e[k - 1], e[k])
    <2>1. \A k \in 1 .. n : k \in 0 .. n /\ k - 1 \in 0 .. n
      BY DEF CutAt
    <2>2. \A k \in 1 .. n : e[k] \in 0 .. Len(text) /\ e[k - 1] \in 0 .. Len(text)
      BY <2>1 DEF CutAt
    <2>3. QED BY <1>1, <2>1, <2>2 DEF CutAt
  <1>3. deltas \in [1 .. n -> Seq(Letters)]
    <2>1. \A k \in 1 .. n : Part(text, e[k - 1], e[k]) \in Seq(Letters)
      BY <1>2, PartIs DEF Copies
    <2>2. QED BY <2>1 DEF CutAt
  <1>4. PICK g : /\ g[0] = NewFilter
                 /\ \A k \in 1 .. n : g[k] = Write(g[k - 1], deltas[k])
                 /\ FoldLeft(Write, NewFilter, deltas) = g[n]
    BY <1>3, WritesInTurn DEF CutAt
  <1> DEFINE Good == {k \in Nat : k <= n => Streamed(text, g[k], e[k])}
  <1>5. 0 \in Good
    <2> PICK z : z = 0
      OBVIOUS
    <2>1. Part(text, z, z) = <<>>
      BY SubSeqEmpty DEF Part
    <2>2. NewFilter = Holding(text, z, z)
      BY <2>1 DEF NewFilter, Holding
    <2>3. Unseen(text, z, z)
      BY DEF Unseen, Begins, Occurs
    <2>4. z \in 0 .. z
      OBVIOUS
    <2>5. Streamed(text, NewFilter, z)
      BY <2>2, <2>3, <2>4 DEF Streamed
    <2>6. QED BY <1>4, <2>5 DEF CutAt
  <1>6. ASSUME NEW k \in Nat, k \in Good PROVE k + 1 \in Good
    <2>1. SUFFICES ASSUME k + 1 <= n PROVE Streamed(text, g[k + 1], e[k + 1])
      OBVIOUS
    <2>2. k + 1 \in 1 .. n /\ (k + 1) - 1 = k /\ Streamed(text, g[k], e[k])
      BY <1>6, <2>1 DEF CutAt
    <2> HIDE DEF Good
    <2>3. /\ e[k + 1] \in 0 .. Len(text) /\ e[k] \in 0 .. e[k + 1]
          /\ g[k + 1] = Write(g[k], Part(text, e[k], e[k + 1]))
      BY <1>2, <1>4, <2>2
    <2>4. QED BY <2>2, <2>3, WriteStep
  <1>7. Streamed(text, g[n], Len(text))
    <2>1. n \in Good
      <3> HIDE DEF Good
      <3>1. QED BY <1>5, <1>6, Induction DEF CutAt
    <2>2. QED BY <2>1 DEF CutAt
  <1>8. LiveText(deltas) = Flush(g[n])
    BY <1>4 DEF LiveText, NewFilter
  <1> PICK w, L : w = g[n] /\ L = Len(text)
    OBVIOUS
  <1>9. CASE \E q \in 0 .. L : Unseen(text, q, L) /\ w = Holding(text, q, L)
    <2>1. PICK q \in 0 .. L : Unseen(text, q, L) /\ w = Holding(text, q, L)
      BY <1>9
    <2>2. Occurs(text) = {}
      <3>1. SUFFICES ASSUME NEW i \in Occurs(text) PROVE FALSE
        OBVIOUS
      <3>2. i \in 1 .. L - 2 /\ i + 2 > L
        BY <2>1 DEF Occurs, Unseen
      <3>3. QED BY <1>1, <3>2
    <2> PICK z : z = 0
      OBVIOUS
    <2>3. z \in 0 .. q /\ L \in 0 .. Len(text)
      BY <1>1
    <2>4. Part(text, z, q) \o Part(text, q, L) = Part(text, z, L)
      BY <2>3, PartsJoin
    <2>5. Part(text, z, L) = text
      BY WholeText
    <2>6. Flush(w) = Part(text, z, q) \o Part(text, q, L)
      BY <2>1 DEF Flush, Holding
    <2>7. QED BY <1>8, <2>2, <2>4, <2>5, <2>6 DEF Preceding
  <1>10. CASE \E m \in 1 .. L - 2 : FirstMarker(text, m) /\ w = Found(text, m, L)
    <2>1. PICK m \in 1 .. L - 2 : FirstMarker(text, m) /\ w = Found(text, m, L)
      BY <1>10
    <2>2. Min(Occurs(text)) = m /\ Occurs(text) # {}
      <3>1. Occurs(text) \subseteq Int
        BY DEF Occurs
      <3>2. QED BY <2>1, <3>1, LeastIs DEF FirstMarker
    <2>3. Flush(w) = SubSeq(text, 1, m - 1)
      BY <2>1 DEF Flush, Found, Part
    <2>4. QED BY <1>8, <2>2, <2>3 DEF Preceding
  <1>11. QED BY <1>7, <1>9, <1>10 DEF Streamed

\* The ends of the deltas of an answer that is cut are in order, up to its own.
LEMMA DeltasAre ==
  ASSUME NEW text \in Seq(Letters), NEW cuts \in SUBSET (1 .. Len(text) - 1)
  PROVE  \E n, e : CutAt(text, n, e, Deltas(text, cuts))
  <1> DEFINE L == Len(text)
             S == cuts \cup {L}
             R == {p \in Nat \X Nat : p[1] < p[2]}
             n == Cardinality(S)
             ends == Ordered(S, <)
  <1>1. L \in Nat
    BY LenProperties
  <1>2. S \subseteq 0 .. L /\ L \in S /\ IsFiniteSet(S)
    <2>1. S \subseteq 0 .. L /\ L \in S
      <3>1. ASSUME NEW x \in S PROVE x \in 0 .. L
        <4>1. CASE x = L
          BY <1>1, <4>1
        <4>2. CASE x \in cuts
          <5>1. x \in 1 .. L - 1
            BY <4>2
          <5> HIDE DEF L
          <5>2. QED BY <1>1, <5>1
        <4>3. QED BY <4>1, <4>2
      <3>2. QED BY <3>1
    <2>2. IsFiniteSet(0 .. L)
      BY <1>1, FS_Interval
    <2> HIDE DEF S
    <2>3. QED BY <2>1, <2>2, FS_Subset
  <1>3. \A x, y \in S : <<x, y>> \in R <=> x < y
    BY <1>1, <1>2
  <1>4. /\ \A x, y \in S : <<x, y>> \in R \/ x = y \/ <<y, x>> \in R
        /\ \A x \in S : <<x, x>> \notin R
        /\ \A x, y, z \in S : <<x, y>> \in R /\ <<y, z>> \in R => <<x, z>> \in R
    <2>1. \A x \in S : x \in Nat
      BY <1>1, <1>2
    <2> HIDE DEF S, R
    <2>2. QED BY <1>3, <2>1
  <1> HIDE DEF R, S
  <1>5. /\ n \in Nat
        /\ \A k \in 1 .. n : \E x \in S : Cardinality(Ahead(S, R, x)) = k - 1
        /\ \A sorted : Placed(sorted, S, R) =>
              /\ \A x \in S : \E k \in 1 .. n : sorted[k] = x
              /\ \A k, l \in 1 .. n : k < l => <<sorted[k], sorted[l]>> \in R
    BY <1>2, <1>4, PlacedInOrder
  <1>6. \A x \in S : Ahead(S, R, x) = {y \in S : y < x}
    BY <1>3 DEF Ahead
  <1> DEFINE at(k) == CHOOSE x \in S : Cardinality({y \in S : y < x}) = k - 1
  <1>7. ASSUME NEW k \in 1 .. n PROVE at(k) \in S /\ Cardinality(Ahead(S, R, at(k))) = k - 1
    <2>1. PICK x \in S : Cardinality(Ahead(S, R, x)) = k - 1
      BY <1>5
    <2>2. Cardinality({y \in S : y < x}) = k - 1
      BY <1>6, <2>1
    <2>3. at(k) \in S /\ Cardinality({y \in S : y < at(k)}) = k - 1
      BY <2>2
    <2> HIDE DEF at
    <2>4. QED BY <1>6, <2>3
  <1>8. ends = [k \in 1 .. n |-> at(k)]
    BY DEF Ordered
  <1> HIDE DEF at
  <1>9. ends \in [1 .. n -> S] /\ Placed(ends, S, R)
    BY <1>7, <1>8 DEF Placed
  <1> HIDE DEF ends
  <1>10. /\ \A x \in S : \E k \in 1 .. n : ends[k] = x
         /\ \A k, l \in 1 .. n : k < l => ends[k] < ends[l]
    <2>1. \A k, l \in 1 .. n : k < l => <<ends[k], ends[l]>> \in R
      BY <1>5, <1>9
    <2>2. QED BY <1>3, <1>5, <1>9, <2>1
  <1>11. Len(ends) = n
    BY <1>5, <1>9
  <1> DEFINE e == [k \in 0 .. n |-> IF k = 0 THEN 0 ELSE ends[k]]
  <1>12. n > 0
    BY <1>2, <1>5, <1>10
  <1>13. e \in [0 .. n -> 0 .. L] /\ e[0] = 0 /\ \A k \in 1 .. n : e[k] = ends[k]
    <2>1. ASSUME NEW k \in 0 .. n PROVE (IF k = 0 THEN 0 ELSE ends[k]) \in 0 .. L
      <3>1. CASE k = 0
        BY <1>1, <3>1
      <3>2. CASE k # 0
        <4>1. k \in 1 .. n
          BY <1>5, <3>2
        <4>2. ends[k] \in 0 .. L
          BY <1>2, <1>9, <4>1
        <4>3. QED BY <3>2, <4>2
      <3>3. QED BY <3>1, <3>2
    <2>2. 0 \in 0 .. n /\ \A k \in 1 .. n : k \in 0 .. n /\ k # 0
      BY <1>5
    <2>3. QED BY <2>1, <2>2
  <1>14. \A k \in 1 .. n : e[k - 1] = IF k = 1 THEN 0 ELSE ends[k - 1]
    <2>1. \A k \in 1 .. n : k - 1 \in 0 .. n /\ (k - 1 = 0 <=> k = 1)
      BY <1>5
    <2>2. QED BY <2>1
  <1> HIDE DEF e
  <1>15. e[n] = L
    <2>1. PICK k \in 1 .. n : ends[k] = L
      BY <1>2, <1>10
    <2>2. CASE k = n
      BY <1>13, <2>1, <2>2
    <2>3. CASE k < n
      <3>1. n \in 1 .. n
        BY <1>5, <1>12
      <3>2. L < ends[n] /\ ends[n] \in 0 .. L
        BY <1>2, <1>9, <1>10, <2>1, <2>3, <3>1
      <3>3. QED BY <1>1, <3>2
    <2>4. k < n \/ k = n
      BY <1>5
    <2>5. QED BY <2>2, <2>3, <2>4
  <1>16. ASSUME NEW k \in 1 .. n PROVE e[k - 1] <= e[k]
    <2>1. CASE k = 1
      <3>1. ends[k] \in 0 .. L
        BY <1>2, <1>9
      <3>2. QED BY <1>13, <1>14, <2>1, <3>1
    <2>2. CASE k # 1
      <3>1. k - 1 \in 1 .. n /\ k - 1 < k
        BY <1>5, <2>2
      <3>2. ends[k - 1] < ends[k] /\ ends[k - 1] \in 0 .. L /\ ends[k] \in 0 .. L
        BY <1>2, <1>9, <1>10, <3>1
      <3>3. QED BY <1>13, <1>14, <2>2, <3>2
    <2>3. QED BY <2>1, <2>2
  <1>17. Deltas(text, cuts) = [k \in 1 .. n |-> Part(text, e[k - 1], e[k])]
    <2>1. Deltas(text, cuts) =
             [k \in 1 .. n |-> SubSeq(text, (IF k = 1 THEN 0 ELSE ends[k - 1]) + 1, ends[k])]
      BY <1>11 DEF Deltas, ends, S
    <2>2. \A k \in 1 .. n : SubSeq(text, (IF k = 1 THEN 0 ELSE ends[k - 1]) + 1, ends[k])
                               = Part(text, e[k - 1], e[k])
      BY <1>13, <1>14 DEF Part
    <2>3. QED BY <2>1, <2>2
  <1>18. CutAt(text, n, e, Deltas(text, cuts))
    BY <1>5, <1>13, <1>15, <1>16, <1>17 DEF CutAt
  <1>19. QED BY <1>18

(***************************************************************************)
(* Answers                                                                 *)
(***************************************************************************)
\* A letter of an answer counts once, in upper and in lower case.
Count(text, size) == FoldSeq(LAMBDA l, n : n + IF l = "wide" THEN size ELSE 1, 0, text)

LEMMA CountIsLength ==
  ASSUME NEW text \in Seq(Letters), NEW size
  PROVE  Count(text, size) = Len(text)
  <1> DEFINE D == DOMAIN text
             one(s) == CHOOSE x \in s : TRUE
             Equation(f) == f = [s \in SUBSET D |->
                                    IF s = {} THEN 0
                                    ELSE f[s \ {one(s)}] + IF text[one(s)] = "wide" THEN size ELSE 1]
             all == CHOOSE f : Equation(f)
             cards == [s \in SUBSET D |-> Cardinality(s)]
  <1>1. Len(text) \in Nat /\ D = 1 .. Len(text) /\ \A i \in D : text[i] # "wide"
    <2>1. \A i \in D : text[i] \in Letters
      OBVIOUS
    <2>2. QED BY <2>1, LenProperties DEF Letters
  <1> HIDE DEF D
  <1>2. IsFiniteSet(D) /\ Cardinality(D) = Len(text)
    <2>1. \A k \in Nat : IsFiniteSet(1 .. k) /\ Cardinality(1 .. k) = k
      BY FS_Interval
    <2>2. QED BY <1>1, <2>1
  <1>3. ASSUME NEW s \in SUBSET D, s # {}
        PROVE  /\ s \ {one(s)} \in SUBSET D /\ text[one(s)] # "wide"
               /\ Cardinality(s \ {one(s)}) \in Nat
               /\ Cardinality(s) = Cardinality(s \ {one(s)}) + 1
    <2>1. one(s) \in s /\ IsFiniteSet(s) /\ Cardinality(s) \in Nat
      BY <1>2, <1>3, FS_Subset, FS_CardinalityType
    <2>2. PICK x : x = one(s)
      OBVIOUS
    <2> HIDE DEF one
    <2>3. Cardinality(s \ {x}) = Cardinality(s) - 1 /\ IsFiniteSet(s \ {x})
      BY <2>1, <2>2, FS_RemoveElement
    <2>4. Cardinality(s \ {x}) \in Nat
      BY <2>3, FS_CardinalityType
    <2>5. Cardinality(s) = Cardinality(s \ {x}) + 1
      BY <2>1, <2>3
    <2>6. s \ {x} \in SUBSET D /\ text[x] # "wide"
      BY <1>1, <2>1, <2>2
    <2>7. QED BY <2>2, <2>4, <2>5, <2>6
  <1>4. Cardinality({}) = 0
    <2>1. \A s : IsFiniteSet(s) => (Cardinality(s) = 0 <=> s = {})
      BY FS_EmptySet
    <2>2. IsFiniteSet({})
      BY FS_EmptySet
    <2>3. QED BY <2>1, <2>2
  <1> HIDE DEF one
  <1>5. Equation(cards)
    <2>1. ASSUME NEW s \in SUBSET D
          PROVE  cards[s] = IF s = {} THEN 0
                            ELSE cards[s \ {one(s)}] + IF text[one(s)] = "wide" THEN size ELSE 1
      <3>1. CASE s = {}
        BY <1>4, <3>1
      <3>2. CASE s # {}
        BY <1>3, <3>2
      <3>3. QED BY <3>1, <3>2
    <2>2. QED BY <2>1
  <1>6. Equation(all)
    <2> HIDE DEF Equation
    <2>1. QED BY <1>5
  <1>7. Count(text, size) = all[D]
    BY DEF Count, FoldSeq, FoldFunction, FoldFunctionOnSet, MapThenFoldSet, one, D
  <1> HIDE DEF all
  <1>8. \A s \in SUBSET D : all[s] = IF s = {} THEN 0
                                     ELSE all[s \ {one(s)}] + IF text[one(s)] = "wide" THEN size ELSE 1
    BY <1>6
  <1> HIDE DEF Equation
  <1> DEFINE Good == {n \in Nat : \A s \in SUBSET D : Cardinality(s) = n => all[s] = n}
  <1>9. 0 \in Good
    <2>1. ASSUME NEW s \in SUBSET D, Cardinality(s) = 0 PROVE all[s] = 0
      <3>1. s = {}
        BY <1>2, <2>1, FS_Subset, FS_EmptySet
      <3>2. QED BY <1>8, <3>1
    <2>2. QED BY <2>1
  <1>10. ASSUME NEW n \in Nat, n \in Good PROVE n + 1 \in Good
    <2>1. ASSUME NEW s \in SUBSET D, Cardinality(s) = n + 1 PROVE all[s] = n + 1
      <3>1. s # {}
        <4>1. n + 1 # 0
          OBVIOUS
        <4>2. QED BY <1>4, <2>1, <4>1
      <3>2. /\ s \ {one(s)} \in SUBSET D /\ text[one(s)] # "wide"
            /\ Cardinality(s \ {one(s)}) \in Nat
            /\ Cardinality(s) = Cardinality(s \ {one(s)}) + 1
        BY <1>3, <3>1
      <3>3. Cardinality(s \ {one(s)}) = n
        BY <2>1, <3>2
      <3>4. all[s \ {one(s)}] = n
        BY <1>10, <3>2, <3>3
      <3>5. QED BY <1>8, <3>1, <3>2, <3>4
    <2>2. QED BY <2>1
  <1>11. Nat \subseteq Good
    <2> HIDE DEF Good
    <2>1. QED BY <1>9, <1>10, Induction
  <1>12. QED BY <1>1, <1>2, <1>7, <1>11

LEMMA BytesAre ==
  ASSUME NEW text \in Seq(Letters)
  PROVE  Bytes(text) = Len(text) /\ LowerBytes(text) = Len(text)
  <1>1. Bytes(text) = Count(text, 2) /\ LowerBytes(text) = Count(text, 3)
    BY DEF Bytes, LowerBytes, Count
  <1>2. QED BY <1>1, CountIsLength

\* The stored summary ends before the last marker.
LEMMA FooterIs ==
  ASSUME NEW text \in Seq(Letters), NEW m \in Occurs(text), \A i \in Occurs(text) : i <= m
  PROVE  FooterAt(text) = m - 1
  <1>1. Len(text) \in Nat
    BY LenProperties
  <1>2. Occurs(text) \subseteq Int /\ m \in 1 .. Len(text) - 2
    BY <1>1 DEF Occurs
  <1>3. Max(Occurs(text)) = m
    <2>1. Max(Occurs(text)) \in Occurs(text) /\ \A i \in Occurs(text) : Max(Occurs(text)) >= i
      BY DEF Max
    <2>2. Max(Occurs(text)) \in Int /\ Max(Occurs(text)) >= m /\ Max(Occurs(text)) <= m
      BY <1>2, <2>1
    <2>3. QED BY <1>2, <2>2
  <1> PICK z, k : z = 0 /\ k = m - 1
    OBVIOUS
  <1>4. k \in 0 .. Len(text) /\ z \in 0 .. k /\ k - z = k /\ z + 1 = 1
    BY <1>1, <1>2
  <1>5. Part(text, z, k) \in Seq(Letters) /\ Len(Part(text, z, k)) = k - z
    BY <1>4, PartIs DEF Copies
  <1>6. LowerBytes(Part(text, z, k)) = k
    BY <1>4, <1>5, BytesAre
  <1>7. FooterAt(text) = LowerBytes(Part(text, z, k))
    BY <1>3, <1>4 DEF FooterAt, Part
  <1>8. QED BY <1>6, <1>7

\* Whatever the answer and however it is cut into deltas, the client is shown
\* what precedes the first marker; with one marker that is the summary stored,
\* and no marker but the last ends the stored one (footerFilter,
\* parseResponse).
THEOREM StreamIsSummary ==
    ASSUME input \in Inputs \cup {NoInput}
    PROVE  StreamShowsSummary
  <1>1. SUFFICES ASSUME input.kind = "answer" PROVE StreamShowsSummary
    BY DEF StreamShowsSummary
  <1> PICK text : text = input.text
    OBVIOUS
  <1>2. text \in Texts
    <2>1. input \in [kind : {"answer"}, text : Texts]
      BY <1>1 DEF Inputs, NoInput
    <2>2. QED BY <2>1
  <1>3. text \in Seq(Letters) /\ Len(text) \in Nat
    <2>1. PICK n \in 0 .. MaxText : text \in [1 .. n -> Letters]
      BY <1>2 DEF Texts, BoundedSeq, SeqOf
    <2>2. n \in Nat
      BY SearchBounds
    <2>3. QED BY <2>1, <2>2
  <1>4. ASSUME NEW cuts \in SUBSET (1 .. Len(text) - 1)
        PROVE  LiveText(Deltas(text, cuts)) = Preceding(text)
    <2>1. PICK n, e : CutAt(text, n, e, Deltas(text, cuts))
      BY <1>3, DeltasAre
    <2>2. QED BY <1>3, <2>1, StreamOf
  <1>5. Occurs(text) \subseteq 1 .. Len(text) - 2 /\ IsFiniteSet(Occurs(text))
    <2>1. Occurs(text) \subseteq 1 .. Len(text) - 2
      BY DEF Occurs
    <2>2. IsFiniteSet(1 .. Len(text) - 2)
      BY <1>3, FS_Interval
    <2>3. QED BY <2>1, <2>2, FS_Subset
  <1>6. ASSUME Cardinality(Occurs(text)) = 1 PROVE Len(LiveText(<<text>>)) = FooterAt(text)
    <2>1. PICK m : Occurs(text) = {m}
      BY <1>5, <1>6, FS_Singleton
    <2>2. FooterAt(text) = m - 1 /\ Min(Occurs(text)) = m /\ m \in 1 .. Len(text) - 2
      <3>1. m \in Occurs(text) /\ (\A i \in Occurs(text) : i = m) /\ m \in 1 .. Len(text) - 2
        BY <1>5, <2>1
      <3>2. (\A i \in Occurs(text) : i <= m /\ m <= i) /\ Occurs(text) \subseteq Int
        BY <1>5, <3>1
      <3>3. FooterAt(text) = m - 1
        BY <1>3, <3>1, <3>2, FooterIs
      <3>4. Min(Occurs(text)) = m
        BY <3>1, <3>2, LeastIs
      <3>5. QED BY <3>1, <3>3, <3>4
    <2>3. LiveText(<<text>>) = SubSeq(text, 1, m - 1)
      <3> DEFINE e == [k \in 0 .. 1 |-> IF k = 0 THEN 0 ELSE Len(text)]
      <3>1. e \in [0 .. 1 -> 0 .. Len(text)] /\ e[0] = 0 /\ e[1] = Len(text)
        BY <1>3
      <3>2. <<text>> = [k \in 1 .. 1 |-> Part(text, e[k - 1], e[k])]
        <4>1. \A k \in 1 .. 1 : k = 1 /\ k - 1 = 0
          OBVIOUS
        <4>2. Part(text, e[0], e[1]) = text
          BY <1>3, <3>1, WholeText
        <4> HIDE DEF e
        <4>3. \A k \in 1 .. 1 : Part(text, e[k - 1], e[k]) = text
          BY <4>1, <4>2
        <4>4. QED BY <4>3
      <3>3. \A k \in 1 .. 1 : e[k - 1] <= e[k]
        <4>1. \A k \in 1 .. 1 : k = 1 /\ k - 1 = 0
          OBVIOUS
        <4> HIDE DEF e
        <4>2. QED BY <1>3, <3>1, <4>1
      <3> HIDE DEF e
      <3>4. CutAt(text, 1, e, <<text>>)
        BY <3>1, <3>2, <3>3 DEF CutAt
      <3>5. LiveText(<<text>>) = Preceding(text)
        BY <1>3, <3>4, StreamOf
      <3>6. QED BY <2>1, <2>2, <3>5 DEF Preceding
    <2>4. Len(SubSeq(text, 1, m - 1)) = m - 1
      <3>1. PICK z, k : z = 0 /\ k = m - 1
        OBVIOUS
      <3>2. k \in 0 .. Len(text) /\ z \in 0 .. k /\ k - z = k /\ z + 1 = 1
        BY <1>3, <2>2, <3>1
      <3>3. Len(Part(text, z, k)) = k - z
        BY <1>3, <3>2, PartIs DEF Copies
      <3>4. QED BY <3>1, <3>2, <3>3 DEF Part
    <2>5. QED BY <2>2, <2>3, <2>4
  <1>7. ASSUME NEW i \in Occurs(text) PROVE FooterAt(text) >= i - 1
    <2>1. Occurs(text) \in SUBSET (1 .. Len(text)) /\ Occurs(text) # {}
      BY <1>3, <1>5, <1>7
    <2>2. PICK m \in Occurs(text) : \A j \in Occurs(text) : j <= m
      BY <1>3, <2>1, Greatest
    <2>3. FooterAt(text) = m - 1 /\ i <= m
      BY <1>3, <2>2, FooterIs
    <2>4. i \in Int /\ m \in Int
      BY <1>5
    <2>5. QED BY <2>3, <2>4
  <1>8. QED BY <1>4, <1>6, <1>7 DEF StreamShowsSummary, Preceding


(***************************************************************************)
(* Sources                                                                 *)
(***************************************************************************)
\* One more item, if it is one of A and not there yet.
Taken(out, x, A) == IF x \in A /\ ~Contains(out, x) THEN Append(out, x) ELSE out

Gathered(items, A) == FoldLeft(LAMBDA out, x : Taken(out, x, A), <<>>, items)

LEMMA TakenIs ==
  ASSUME NEW T, NEW out \in Seq(T), NEW x \in T, NEW A
  PROVE  Taken(out, x, A) \in Seq(T)
  BY AppendProperties DEF Taken

\* Taking the items one after the other is what the fold over them does.
TakenSoFar(g, items, n, A) ==
    /\ g[0] = <<>>
    /\ \A k \in 1 .. n : g[k] = Taken(g[k - 1], items[k], A)
    /\ Gathered(items, A) = g[n]

LEMMA TakenInTurn ==
  ASSUME NEW T, NEW n \in Nat, NEW items \in [1 .. n -> T], NEW A
  PROVE  \E g : TakenSoFar(g, items, n, A)
  <1> DEFINE D == 1 .. n
             step == [x \in D \X Seq(T) |-> Taken(x[2], items[x[1]], A)]
             Equation(f) == f = [s \in SUBSET D |->
                                    IF s = {} THEN <<>>
                                    ELSE Taken(f[s \ {Max(s)}], items[Max(s)], A)]
             all == CHOOSE f : Equation(f)
             g == [k \in 0 .. n |-> all[1 .. k]]
  <1>1. <<>> \in Seq(T)
    OBVIOUS
  <1>2. step \in [D \X Seq(T) -> Seq(T)]
    <2>1. ASSUME NEW x \in D \X Seq(T) PROVE Taken(x[2], items[x[1]], A) \in Seq(T)
      <3>1. x[2] \in Seq(T) /\ items[x[1]] \in T
        OBVIOUS
      <3>2. QED BY <3>1, TakenIs
    <2>2. QED BY <2>1
  <1>3. PICK f \in [SUBSET D -> Seq(T)] :
           \A s \in SUBSET D : f[s] = IF s = {} THEN <<>> ELSE step[<<Max(s), f[s \ {Max(s)}]>>]
    <2>1. PICK f : LeftFolds(f, n, Seq(T), <<>>, step)
      <3> HIDE DEF step, Equation, all, g
      <3>1. QED BY <1>1, <1>2, LeftFoldExists
    <2> HIDE DEF step
    <2>2. QED BY <2>1 DEF LeftFolds
  <1>4. Equation(f)
    <2>1. ASSUME NEW s \in SUBSET D, s # {}
          PROVE  f[s] = Taken(f[s \ {Max(s)}], items[Max(s)], A)
      <3>1. Max(s) \in D /\ s \ {Max(s)} \in SUBSET D
        BY <2>1, Greatest
      <3>2. f[s \ {Max(s)}] \in Seq(T)
        BY <3>1
      <3>3. step[<<Max(s), f[s \ {Max(s)}]>>] = Taken(f[s \ {Max(s)}], items[Max(s)], A)
        BY <3>1, <3>2
      <3>4. QED BY <1>3, <2>1, <3>3
    <2>2. ASSUME NEW s \in SUBSET D
          PROVE  f[s] = IF s = {} THEN <<>> ELSE Taken(f[s \ {Max(s)}], items[Max(s)], A)
      <3>1. CASE s = {}
        BY <1>3, <3>1
      <3>2. QED BY <2>1, <3>1
    <2>3. QED BY <2>2
  <1>5. Equation(all)
    <2> HIDE DEF Equation
    <2>1. QED BY <1>4
  <1>6. Gathered(items, A) = all[D]
    <2>1. DOMAIN items = D
      OBVIOUS
    <2>2. QED BY <2>1 DEF Gathered, FoldLeft, MapThenFoldSet
  <1> HIDE DEF all
  <1>7. all[{}] = <<>> /\ 1 .. 0 = {}
    BY <1>5
  <1>8. g[0] = <<>>
    BY <1>7
  <1>9. ASSUME NEW k \in 1 .. n PROVE g[k] = Taken(g[k - 1], items[k], A)
    <2>1. 1 .. k \in SUBSET D /\ 1 .. k # {} /\ Max(1 .. k) = k /\ (1 .. k) \ {Max(1 .. k)} = 1 .. (k - 1)
      <3>1. k \in Nat /\ k > 0 /\ 1 .. k \in SUBSET D
        OBVIOUS
      <3> HIDE DEF D, g
      <3>2. QED BY <3>1, LastPlace
    <2>2. all[1 .. k] = Taken(all[(1 .. k) \ {Max(1 .. k)}], items[Max(1 .. k)], A)
      BY <1>5, <2>1
    <2>3. k \in 0 .. n /\ k - 1 \in 0 .. n
      OBVIOUS
    <2>4. g[k] = all[1 .. k] /\ g[k - 1] = all[1 .. (k - 1)]
      BY <2>3
    <2> HIDE DEF g
    <2>5. QED BY <2>1, <2>2, <2>4
  <1>10. g[n] = all[D]
    OBVIOUS
  <1> HIDE DEF g
  <1>11. QED BY <1>6, <1>8, <1>9, <1>10 DEF TakenSoFar

\* Of the first k items those in A, each once, by its first place.
FirstTaken(out, T, items, k, A) ==
    /\ out \in Seq(T)
    /\ \A x : Contains(out, x) <=> x \in A /\ \E i \in 1 .. k : items[i] = x
    /\ \A a, b \in 1 .. Len(out) : a < b =>
          \E i \in 1 .. k : items[i] = out[a] /\ \A j \in 1 .. i : items[j] # out[b]

LEMMA TakeNext ==
  ASSUME NEW T, NEW n \in Nat, NEW items \in [1 .. n -> T], NEW A,
         NEW k \in 1 .. n, NEW out, FirstTaken(out, T, items, k - 1, A)
  PROVE  FirstTaken(Taken(out, items[k], A), T, items, k, A)
  <1> PICK x, m : x = items[k] /\ m = k - 1
    OBVIOUS
  <1>1. m \in Nat /\ 1 .. k = (1 .. m) \cup {k} /\ x \in T /\ FirstTaken(out, T, items, m, A)
    OBVIOUS
  <1>2. /\ out \in Seq(T) /\ Len(out) \in Nat
        /\ \A y : Contains(out, y) <=> y \in A /\ \E i \in 1 .. m : items[i] = y
        /\ \A a, b \in 1 .. Len(out) : a < b =>
              \E i \in 1 .. m : items[i] = out[a] /\ \A j \in 1 .. i : items[j] # out[b]
    <2>1. out \in Seq(T)
      BY <1>1 DEF FirstTaken
    <2>2. Len(out) \in Nat
      BY <2>1, LenProperties
    <2>3. QED BY <1>1, <2>1, <2>2 DEF FirstTaken
  <1>3. CASE ~(x \in A /\ ~Contains(out, x))
    <2>1. Taken(out, x, A) = out
      BY <1>3 DEF Taken
    <2>2. ASSUME NEW y
          PROVE  Contains(out, y) <=> y \in A /\ \E i \in 1 .. k : items[i] = y
      <3>1. (\E i \in 1 .. k : items[i] = y) <=> (\E i \in 1 .. m : items[i] = y) \/ x = y
        BY <1>1
      <3>2. QED BY <1>2, <1>3, <3>1
    <2>3. \A a, b \in 1 .. Len(out) : a < b =>
              \E i \in 1 .. k : items[i] = out[a] /\ \A j \in 1 .. i : items[j] # out[b]
      <3>1. \A i \in 1 .. m : i \in 1 .. k
        BY <1>1
      <3>2. QED BY <1>2, <3>1
    <2>4. FirstTaken(out, T, items, k, A)
      BY <1>2, <2>2, <2>3 DEF FirstTaken
    <2>5. QED BY <2>1, <2>4
  <1>4. CASE x \in A /\ ~Contains(out, x)
    <2> DEFINE new == Append(out, x)
    <2>1. Taken(out, x, A) = new
      BY <1>4 DEF Taken
    <2>2. /\ new \in Seq(T) /\ Len(new) = Len(out) + 1
          /\ new[Len(out) + 1] = x /\ \A i \in 1 .. Len(out) : new[i] = out[i]
      BY <1>1, <1>2, AppendProperties
    <2> HIDE DEF new
    <2>3. ASSUME NEW y
          PROVE  Contains(new, y) <=> y \in A /\ \E i \in 1 .. k : items[i] = y
      <3>1. (\E i \in 1 .. k : items[i] = y) <=> (\E i \in 1 .. m : items[i] = y) \/ x = y
        BY <1>1
      <3>2. Contains(new, y) <=> Contains(out, y) \/ x = y
        <4>1. 1 .. Len(new) = (1 .. Len(out)) \cup {Len(out) + 1}
          BY <1>2, <2>2
        <4>2. QED BY <2>2, <4>1 DEF Contains
      <3>3. QED BY <1>2, <1>4, <3>1, <3>2
    <2>4. ASSUME NEW a \in 1 .. Len(new), NEW b \in 1 .. Len(new), a < b
          PROVE  \E i \in 1 .. k : items[i] = new[a] /\ \A j \in 1 .. i : items[j] # new[b]
      <3>1. a \in 1 .. Len(out) /\ (b \in 1 .. Len(out) \/ b = Len(out) + 1)
        BY <1>2, <2>2, <2>4
      <3>2. new[a] = out[a]
        BY <2>2, <3>1
      <3>3. CASE b \in 1 .. Len(out)
        <4>1. PICK i \in 1 .. m : items[i] = out[a] /\ \A j \in 1 .. i : items[j] # out[b]
          BY <1>2, <2>4, <3>1, <3>3
        <4>2. new[b] = out[b] /\ i \in 1 .. k
          BY <1>1, <2>2, <3>3
        <4>3. QED BY <3>2, <4>1, <4>2
      <3>4. CASE b = Len(out) + 1
        <4>1. new[b] = x
          BY <2>2, <3>4
        <4>2. Contains(out, out[a])
          BY <3>1 DEF Contains
        <4>3. PICK i \in 1 .. m : items[i] = out[a]
          BY <1>2, <4>2
        <4>4. ASSUME NEW j \in 1 .. i PROVE items[j] # x
          <5>1. j \in 1 .. m
            BY <1>1
          <5>2. QED BY <1>2, <1>4, <5>1
        <4>5. i \in 1 .. k
          BY <1>1
        <4>6. QED BY <3>2, <4>1, <4>3, <4>4, <4>5
      <3>5. QED BY <3>1, <3>3, <3>4
    <2>5. FirstTaken(new, T, items, k, A)
      BY <2>2, <2>3, <2>4 DEF FirstTaken
    <2>6. QED BY <2>1, <2>5
  <1>5. QED BY <1>3, <1>4

LEMMA GatheredIs ==
  ASSUME NEW T, NEW n \in Nat, NEW items \in [1 .. n -> T], NEW A
  PROVE  FirstTaken(Gathered(items, A), T, items, n, A)
  <1>0. PICK g : TakenSoFar(g, items, n, A)
    BY TakenInTurn
  <1>1. /\ g[0] = <<>>
        /\ \A k \in 1 .. n : g[k] = Taken(g[k - 1], items[k], A)
        /\ Gathered(items, A) = g[n]
    BY <1>0 DEF TakenSoFar
  <1> DEFINE Good == {k \in Nat : k <= n => FirstTaken(g[k], T, items, k, A)}
  <1>2. 0 \in Good
    <2>1. Len(<<>>) = 0 /\ 1 .. 0 = {} /\ <<>> \in Seq(T)
      OBVIOUS
    <2>2. FirstTaken(<<>>, T, items, 0, A)
      BY <2>1 DEF FirstTaken, Contains
    <2>3. QED BY <1>1, <2>2
  <1>3. ASSUME NEW k \in Nat, k \in Good PROVE k + 1 \in Good
    <2>1. SUFFICES ASSUME k + 1 <= n PROVE FirstTaken(g[k + 1], T, items, k + 1, A)
      OBVIOUS
    <2>2. PICK m : m = k + 1
      OBVIOUS
    <2>3. m \in 1 .. n /\ m - 1 = k /\ FirstTaken(g[m - 1], T, items, m - 1, A)
      BY <1>3, <2>1, <2>2
    <2> HIDE DEF Good
    <2>4. FirstTaken(Taken(g[m - 1], items[m], A), T, items, m, A)
      BY <2>3, TakeNext
    <2>5. g[m] = Taken(g[m - 1], items[m], A)
      BY <1>1, <2>3
    <2>6. QED BY <2>2, <2>4, <2>5
  <1>4. n \in Good
    <2> HIDE DEF Good
    <2>1. QED BY <1>2, <1>3, Induction
  <1>5. QED BY <1>1, <1>4

\* So what is taken is ranked by the first places of the items.
FirstPlace(items, n, x) == Min({i \in 1 .. n : items[i] = x})

RankedFirst(out, items, n, A) ==
    /\ ToSet(out) = A \cap {items[i] : i \in 1 .. n}
    /\ \A a, b \in DOMAIN out : a < b =>
          FirstPlace(items, n, out[a]) < FirstPlace(items, n, out[b])

LEMMA FirstPlaces ==
  ASSUME NEW T, NEW n \in Nat, NEW items \in [1 .. n -> T], NEW A,
         NEW out, FirstTaken(out, T, items, n, A)
  PROVE  RankedFirst(out, items, n, A)
  <1>1. /\ out \in Seq(T) /\ DOMAIN out = 1 .. Len(out)
        /\ \A y : Contains(out, y) <=> y \in A /\ \E i \in 1 .. n : items[i] = y
        /\ \A a, b \in 1 .. Len(out) : a < b =>
              \E i \in 1 .. n : items[i] = out[a] /\ \A j \in 1 .. i : items[j] # out[b]
    BY DEF FirstTaken
  <1>2. \A y : y \in ToSet(out) <=> Contains(out, y)
    BY <1>1 DEF ToSet, Contains
  <1>3. ASSUME NEW a \in 1 .. Len(out), NEW i \in 1 .. n, items[i] = out[a]
        PROVE  /\ FirstPlace(items, n, out[a]) \in 1 .. n
               /\ FirstPlace(items, n, out[a]) <= i
               /\ items[FirstPlace(items, n, out[a])] = out[a]
    <2> DEFINE S == {j \in 1 .. n : items[j] = out[a]}
    <2>1. S \subseteq Nat /\ i \in S
      BY <1>3
    <2>2. PICK m \in S : \A j \in S : m <= j
      <3> HIDE DEF S
      <3>1. QED BY <2>1, Least
    <2>3. Min(S) = m
      <3>1. S \subseteq Int
        BY <2>1
      <3> HIDE DEF S
      <3>2. QED BY <2>2, <3>1, LeastIs
    <2>4. FirstPlace(items, n, out[a]) = m
      BY <2>3 DEF FirstPlace
    <2>5. m \in 1 .. n /\ items[m] = out[a] /\ m <= i
      BY <2>1, <2>2
    <2>6. QED BY <2>4, <2>5
  <1>4. ASSUME NEW a \in DOMAIN out, NEW b \in DOMAIN out, a < b
        PROVE  FirstPlace(items, n, out[a]) < FirstPlace(items, n, out[b])
    <2>1. a \in 1 .. Len(out) /\ b \in 1 .. Len(out)
      BY <1>1
    <2>2. PICK i \in 1 .. n : items[i] = out[a] /\ \A j \in 1 .. i : items[j] # out[b]
      BY <1>1, <1>4, <2>1
    <2>3. PICK l \in 1 .. n : items[l] = out[b]
      <3>1. Contains(out, out[b])
        BY <2>1 DEF Contains
      <3>2. QED BY <1>1, <3>1
    <2>4. PICK p, q : p = FirstPlace(items, n, out[a]) /\ q = FirstPlace(items, n, out[b])
      OBVIOUS
    <2>5. p \in 1 .. n /\ p <= i
      BY <1>3, <2>1, <2>2, <2>4
    <2>6. q \in 1 .. n /\ items[q] = out[b]
      BY <1>3, <2>1, <2>3, <2>4
    <2>7. ~(q \in 1 .. i)
      BY <2>2, <2>6
    <2>8. p < q
      BY <2>5, <2>6, <2>7
    <2>9. QED BY <2>4, <2>8
  <1>5. ToSet(out) = A \cap {items[i] : i \in 1 .. n}
    BY <1>1, <1>2
  <1>6. QED BY <1>4, <1>5 DEF RankedFirst

\* A list of bounded length is a list.
LEMMA Bounded ==
  ASSUME NEW S, NEW b \in Nat, NEW ranks \in BoundedSeq(S, b)
  PROVE  \E n \in Nat : n <= b /\ ranks \in [1 .. n -> S]
  <1>1. PICK n \in 0 .. b : ranks \in [1 .. n -> S]
    BY DEF BoundedSeq, SeqOf
  <1>2. QED BY <1>1

\* Each chunk the footer names is cited, by first mention (parseResponse).
LEMMA CitedOnce ==
  ASSUME NEW listed \in BoundedSeq(-1 .. 3, 4), NEW chunks
  PROVE  RankedBy(Citations(listed, chunks), ToSet(listed) \cap 1 .. chunks,
                  LAMBDA c : Min({i \in DOMAIN listed : listed[i] = c}))
  <1>1. PICK n \in Nat : listed \in [1 .. n -> -1 .. 3]
    BY Bounded
  <1> PICK T, A : T = -1 .. 3 /\ A = 1 .. chunks
    OBVIOUS
  <1> DEFINE out == Gathered(listed, 1 .. chunks)
  <1>2. Citations(listed, chunks) = out
    BY DEF Citations, Gathered, Taken
  <1>3. FirstTaken(out, T, listed, n, A)
    <2>1. FirstTaken(Gathered(listed, A), T, listed, n, A)
      BY <1>1, GatheredIs
    <2>2. QED BY <2>1
  <1> HIDE DEF out
  <1>4. /\ ToSet(out) = A \cap {listed[i] : i \in 1 .. n}
        /\ \A a, b \in DOMAIN out : a < b =>
              FirstPlace(listed, n, out[a]) < FirstPlace(listed, n, out[b])
    <2>1. RankedFirst(out, listed, n, A)
      BY <1>1, <1>3, FirstPlaces
    <2>2. QED BY <2>1 DEF RankedFirst
  <1>5. DOMAIN listed = 1 .. n
    BY <1>1
  <1>6. ToSet(out) = ToSet(listed) \cap 1 .. chunks
    BY <1>4, <1>5 DEF ToSet
  <1>7. \A c : FirstPlace(listed, n, c) = Min({i \in DOMAIN listed : listed[i] = c})
    BY <1>5 DEF FirstPlace
  <1>8. QED BY <1>2, <1>4, <1>6, <1>7 DEF RankedBy

\* The documents of the chunks, each by its best (retrievedDocuments).
LEMMA DocumentsOnce ==
  ASSUME NEW chunks \in Rankings, NEW docOf \in [1 .. MaxRanks -> {"d1", "d2"}]
  PROVE  RankedBy(RetrievedDocuments(chunks, docOf), {docOf[c] : c \in ToSet(chunks)},
                  LAMBDA d : Min({i \in DOMAIN chunks : docOf[chunks[i]] = d}))
  <1>1. PICK n \in Nat : chunks \in [1 .. n -> 1 .. MaxRanks]
    <2>1. MaxRanks \in Nat
      BY SearchBounds
    <2>2. chunks \in BoundedSeq(1 .. MaxRanks, MaxRanks)
      BY DEF Rankings
    <2>3. QED BY <2>1, <2>2, Bounded
  <1> DEFINE items == [i \in 1 .. n |-> docOf[chunks[i]]]
  <1> PICK T, A : T = {"d1", "d2"} /\ A = {"d1", "d2"}
    OBVIOUS
  <1>2. DOMAIN chunks = 1 .. n /\ items \in [1 .. n -> T] /\ DOMAIN items = 1 .. n
    BY <1>1
  <1> DEFINE out == Gathered(items, A)
  <1>3. RetrievedDocuments(chunks, docOf) = out
    <2> DEFINE D == 1 .. n
               Left(f) == f = [s \in SUBSET D |->
                                  IF s = {} THEN <<>>
                                  ELSE IF Contains(f[s \ {Max(s)}], docOf[chunks[Max(s)]])
                                       THEN f[s \ {Max(s)}]
                                       ELSE Append(f[s \ {Max(s)}], docOf[chunks[Max(s)]])]
               Right(f) == f = [s \in SUBSET D |->
                                   IF s = {} THEN <<>>
                                   ELSE IF items[Max(s)] \in A /\ ~Contains(f[s \ {Max(s)}], items[Max(s)])
                                        THEN Append(f[s \ {Max(s)}], items[Max(s)])
                                        ELSE f[s \ {Max(s)}]]
    <2>1. RetrievedDocuments(chunks, docOf) = (CHOOSE f : Left(f))[D]
      BY <1>2 DEF RetrievedDocuments, FoldLeft, MapThenFoldSet
    <2>2. out = (CHOOSE f : Right(f))[D]
      BY <1>2 DEF Gathered, Taken, FoldLeft, MapThenFoldSet
    <2>3. \A s \in SUBSET D : s # {} => items[Max(s)] = docOf[chunks[Max(s)]] /\ items[Max(s)] \in A
      <3>1. \A s \in SUBSET D : s # {} => Max(s) \in D
        BY Greatest
      <3>2. QED BY <1>2, <3>1
    <2>4. ASSUME NEW f PROVE Left(f) <=> Right(f)
      <3> HIDE DEF items
      <3>1. QED BY <2>3
    <2> HIDE DEF Left, Right
    <2>5. (CHOOSE f : Left(f)) = (CHOOSE f : Right(f))
      BY <2>4
    <2>6. QED BY <2>1, <2>2, <2>5
  <1>4. FirstTaken(out, T, items, n, A)
    <2> HIDE DEF items
    <2>1. QED BY <1>2, GatheredIs
  <1> HIDE DEF out
  <1>5. /\ ToSet(out) = A \cap {items[i] : i \in 1 .. n}
        /\ \A a, b \in DOMAIN out : a < b =>
              FirstPlace(items, n, out[a]) < FirstPlace(items, n, out[b])
    <2> HIDE DEF items
    <2>1. RankedFirst(out, items, n, A)
      BY <1>2, <1>4, FirstPlaces
    <2>2. QED BY <2>1 DEF RankedFirst
  <1>6. \A i \in 1 .. n : items[i] = docOf[chunks[i]] /\ items[i] \in A
    BY <1>2
  <1> HIDE DEF items
  <1>7. ToSet(out) = {docOf[c] : c \in ToSet(chunks)}
    <2>1. ToSet(chunks) = {chunks[i] : i \in 1 .. n}
      BY <1>2 DEF ToSet
    <2>2. {docOf[c] : c \in ToSet(chunks)} = {items[i] : i \in 1 .. n}
      BY <1>6, <2>1
    <2>3. {items[i] : i \in 1 .. n} \subseteq A
      BY <1>6
    <2>4. QED BY <1>5, <2>2, <2>3
  <1>8. ASSUME NEW d PROVE FirstPlace(items, n, d) = Min({i \in DOMAIN chunks : docOf[chunks[i]] = d})
    <2>1. {i \in 1 .. n : items[i] = d} = {i \in DOMAIN chunks : docOf[chunks[i]] = d}
      BY <1>2, <1>6
    <2>2. QED BY <2>1 DEF FirstPlace
  <1>9. ToSet(out) = {docOf[c] : c \in ToSet(chunks)} /\
        \A a, b \in DOMAIN out : a < b =>
            Min({i \in DOMAIN chunks : docOf[chunks[i]] = out[a]})
              < Min({i \in DOMAIN chunks : docOf[chunks[i]] = out[b]})
    BY <1>5, <1>7, <1>8
  <1>10. QED BY <1>3, <1>9 DEF RankedBy

(***************************************************************************)
(* Scores                                                                  *)
(***************************************************************************)
\* The product of positive numbers is one, and each of them divides it.
Divides(x, y) == \E q \in Nat : y = x * q

LEMMA ProductIs ==
  ASSUME NEW D, IsFiniteSet(D), D \subseteq Nat \ {0}
  PROVE  ProductSet(D) \in Nat \ {0} /\ \A x \in D : Divides(x, ProductSet(D))
  <1> DEFINE one(s) == CHOOSE x \in s : TRUE
             pick == [s \in SUBSET D |-> one(s)]
             P == Nat \ {0}
             step == [x \in D \X P |-> x[1] * x[2]]
             Equation(f) == f = [s \in SUBSET D |-> IF s = {} THEN 1 ELSE one(s) * f[s \ {one(s)}]]
             all == CHOOSE f : Equation(f)
  <1>1. \A s \in SUBSET D : s # {} => pick[s] = one(s) /\ one(s) \in s
    OBVIOUS
  <1> HIDE DEF pick, one
  <1>2. step \in [D \X P -> P]
    <2>1. ASSUME NEW x \in D \X P PROVE x[1] * x[2] \in P
      <3>1. \A i, j \in P : i * j \in P
        OBVIOUS
      <3>2. x[1] \in P /\ x[2] \in P
        OBVIOUS
      <3> HIDE DEF P
      <3>3. QED BY <3>1, <3>2
    <2>2. QED BY <2>1
  <1>3. PICK f : Folds(f, D, P, 1, pick, step)
    <2>1. 1 \in P /\ \A s \in SUBSET D : s # {} => pick[s] \in s
      <3>1. 1 \in P
        OBVIOUS
      <3>2. ASSUME NEW s \in SUBSET D, s # {} PROVE pick[s] \in s
        BY <1>1, <3>2
      <3> HIDE DEF step, P, Equation, all
      <3>3. QED BY <3>1, <3>2
    <2> HIDE DEF step, P
    <2>2. QED BY <1>2, <2>1, FoldExists
  <1>4. f \in [SUBSET D -> P] /\ \A s \in SUBSET D :
           f[s] = IF s = {} THEN 1 ELSE one(s) * f[s \ {one(s)}]
    <2>1. f \in [SUBSET D -> P]
      BY <1>3 DEF Folds
    <2>2. ASSUME NEW s \in SUBSET D PROVE f[s] = IF s = {} THEN 1 ELSE one(s) * f[s \ {one(s)}]
      <3>1. CASE s = {}
        BY <1>3, <3>1 DEF Folds
      <3>2. CASE s # {}
        <4>1. f[s] = step[<<one(s), f[s \ {one(s)}]>>]
          BY <1>1, <1>3, <3>2 DEF Folds
        <4>2. one(s) \in D /\ s \ {one(s)} \in SUBSET D
          BY <1>1, <3>2
        <4>3. <<one(s), f[s \ {one(s)}]>> \in D \X P
          BY <2>1, <4>2
        <4>4. QED BY <3>2, <4>1, <4>3
      <3>3. QED BY <3>1, <3>2
    <2>3. QED BY <2>1, <2>2
  <1>5. Equation(f)
    BY <1>4
  <1>6. Equation(all)
    <2> HIDE DEF Equation
    <2>1. QED BY <1>5
  <1>7. ProductSet(D) = all[D]
    BY DEF ProductSet, FoldSet, MapThenFoldSet, one
  <1> HIDE DEF all
  <1>8. \A s \in SUBSET D : all[s] = IF s = {} THEN 1 ELSE one(s) * all[s \ {one(s)}]
    BY <1>6
  <1> HIDE DEF Equation
  <1>9. \A s \in SUBSET D : IsFiniteSet(s) /\ Cardinality(s) \in Nat
    BY FS_Subset, FS_CardinalityType
  <1> DEFINE Fitting(s) == all[s] \in P /\ \A x \in s : Divides(x, all[s])
             Good == {n \in Nat : \A s \in SUBSET D : Cardinality(s) = n => Fitting(s)}
  <1>10. 0 \in Good
    <2>1. ASSUME NEW s \in SUBSET D, Cardinality(s) = 0 PROVE Fitting(s)
      <3>1. s = {}
        BY <1>9, <2>1, FS_EmptySet
      <3>2. all[s] = 1 /\ 1 \in P
        BY <1>8, <3>1
      <3> HIDE DEF P
      <3>3. QED BY <3>1, <3>2
    <2>2. QED BY <2>1
  <1>11. ASSUME NEW n \in Nat, n \in Good PROVE n + 1 \in Good
    <2>1. ASSUME NEW s \in SUBSET D, Cardinality(s) = n + 1 PROVE Fitting(s)
      <3>1. s # {}
        BY <2>1, <1>9, FS_EmptySet
      <3>2. PICK y, r : y = one(s) /\ r = s \ {one(s)}
        OBVIOUS
      <3>3. y \in s /\ r \in SUBSET D /\ s = r \cup {y} /\ all[s] = y * all[r]
        BY <1>1, <1>8, <3>1, <3>2
      <3>4. Cardinality(r) = n
        <4>1. Cardinality(s \ {y}) = Cardinality(s) - 1
          BY <1>9, <3>3, FS_RemoveElement
        <4>2. QED BY <2>1, <3>2, <4>1
      <3>5. Fitting(r)
        BY <1>11, <3>3, <3>4
      <3> PICK a : a = all[r]
        OBVIOUS
      <3>6. y \in P /\ a \in P /\ all[s] = y * a /\ \A x \in r : Divides(x, a)
        BY <3>3, <3>5
      <3> HIDE DEF Good, Fitting
      <3>7. all[s] \in P
        <4>1. \A i, j \in P : i * j \in P
          OBVIOUS
        <4> HIDE DEF P
        <4>2. QED BY <3>6, <4>1
      <3>8. ASSUME NEW x \in s PROVE Divides(x, all[s])
        <4>1. CASE x = y
          BY <3>6, <4>1 DEF Divides
        <4>2. CASE x \in r
          <5>1. PICK q \in Nat : a = x * q
            BY <3>6, <4>2 DEF Divides
          <5>2. x \in Nat /\ y \in Nat
            BY <3>6
          <5>3. y * (x * q) = x * (y * q) /\ y * q \in Nat
            BY <5>2
          <5>4. all[s] = x * (y * q)
            BY <3>6, <5>1, <5>3
          <5>5. QED BY <5>3, <5>4 DEF Divides
        <4>3. QED BY <3>3, <4>1, <4>2
      <3>9. QED BY <3>7, <3>8 DEF Fitting
    <2>2. QED BY <2>1
  <1>12. Nat \subseteq Good
    <2> HIDE DEF Good
    <2>1. QED BY <1>10, <1>11, Induction
  <1>13. Fitting(D)
    BY <1>9, <1>12
  <1>14. QED BY <1>7, <1>13

\* What a place in a list adds to a score: less the later it is, but more
\* than half of what any other place adds.
LEMMA RankScores ==
  /\ \A a \in 1 .. MaxRanks : RankScore(a) \in Nat \ {0}
  /\ \A a, b, c \in 1 .. MaxRanks : RankScore(a) + RankScore(b) > RankScore(c)
  <1>1. MaxRanks \in Nat /\ MaxRanks <= 61
    BY SearchBounds
  <1> DEFINE D == {60 + r : r \in 1 .. MaxRanks}
  <1>2. IsFiniteSet(D) /\ D \subseteq Nat \ {0}
    <2>1. IsFiniteSet(61 .. 60 + MaxRanks)
      BY <1>1, FS_Interval
    <2>2. D \subseteq 61 .. 60 + MaxRanks
      BY <1>1
    <2>3. QED BY <1>1, <2>1, <2>2, FS_Subset
  <1>3. Scale \in Nat \ {0} /\ \A x \in D : Divides(x, Scale)
    <2> HIDE DEF D
    <2>1. ProductSet(D) \in Nat \ {0} /\ \A x \in D : Divides(x, ProductSet(D))
      BY <1>2, ProductIs
    <2>2. Scale = ProductSet(D)
      BY DEF Scale, D
    <2>3. QED BY <2>1, <2>2
  <1>4. ASSUME NEW a \in 1 .. MaxRanks
        PROVE  RankScore(a) \in Nat \ {0} /\ Scale = (60 + a) * RankScore(a)
    <2>1. PICK q \in Nat : Scale = (60 + a) * q
      <3>1. 60 + a \in D
        OBVIOUS
      <3>2. QED BY <1>3, <3>1 DEF Divides
    <2>2. PICK d : d = 60 + a
      OBVIOUS
    <2>3. d \in Nat \ {0} /\ Scale = d * q
      BY <1>1, <2>1, <2>2
    <2>4. Scale \div d = q
      BY <2>3
    <2>5. q # 0
      BY <1>3, <2>3
    <2>6. QED BY <2>1, <2>2, <2>4, <2>5 DEF RankScore
  <1>5. ASSUME NEW a \in 1 .. MaxRanks
        PROVE  121 * RankScore(a) >= Scale /\ 61 * RankScore(a) <= Scale
    <2> PICK s : s = RankScore(a)
      OBVIOUS
    <2>1. s \in Nat /\ Scale = (60 + a) * s /\ 60 + a \in 61 .. 121
      BY <1>1, <1>4
    <2>2. \A d \in 61 .. 121 : d * s <= 121 * s /\ 61 * s <= d * s
      BY <2>1
    <2>3. QED BY <2>1, <2>2
  <1>6. ASSUME NEW a \in 1 .. MaxRanks, NEW b \in 1 .. MaxRanks, NEW c \in 1 .. MaxRanks
        PROVE  RankScore(a) + RankScore(b) > RankScore(c)
    <2> PICK x, y, z : x = RankScore(a) /\ y = RankScore(b) /\ z = RankScore(c)
      OBVIOUS
    <2>1. x \in Nat /\ y \in Nat /\ z \in Nat \ {0} /\ Scale \in Nat
      BY <1>3, <1>4
    <2>2. 121 * x >= Scale /\ 121 * y >= Scale /\ 61 * z <= Scale
      BY <1>5
    <2>3. x + y > z
      BY <2>1, <2>2
    <2>4. QED BY <2>3
  <1>7. QED BY <1>4, <1>6

\* What one list adds to the score of a chunk.
Added(ranks, c) ==
    IF Contains(ranks, c) THEN RankScore(CHOOSE i \in DOMAIN ranks : ranks[i] = c) ELSE 0

LEMMA AddedIs ==
  ASSUME NEW ranks \in Rankings, NEW c
  PROVE  /\ Added(ranks, c) \in Nat
         /\ c \in ToSet(ranks) => \E i \in 1 .. MaxRanks : Added(ranks, c) = RankScore(i)
         /\ c \notin ToSet(ranks) => Added(ranks, c) = 0
  <1>1. MaxRanks \in Nat
    BY SearchBounds
  <1>2. ranks \in BoundedSeq(1 .. MaxRanks, MaxRanks)
    BY DEF Rankings
  <1>3. PICK n \in Nat : n <= MaxRanks /\ ranks \in [1 .. n -> 1 .. MaxRanks]
    BY <1>1, <1>2, Bounded
  <1>4. DOMAIN ranks = 1 .. n /\ Len(ranks) = n
    BY <1>3
  <1>5. Contains(ranks, c) <=> c \in ToSet(ranks)
    BY <1>4 DEF Contains, ToSet
  <1>6. CASE c \in ToSet(ranks)
    <2> DEFINE at == CHOOSE i \in DOMAIN ranks : ranks[i] = c
    <2>1. \E i \in DOMAIN ranks : ranks[i] = c
      BY <1>6 DEF ToSet
    <2>2. at \in DOMAIN ranks
      BY <2>1
    <2>3. Added(ranks, c) = RankScore(at)
      BY <1>5, <1>6 DEF Added
    <2> HIDE DEF at
    <2>4. at \in 1 .. MaxRanks
      BY <1>1, <1>3, <1>4, <2>2
    <2>5. RankScore(at) \in Nat
      BY <2>4, RankScores
    <2>6. QED BY <1>6, <2>3, <2>4, <2>5
  <1>7. CASE c \notin ToSet(ranks)
    BY <1>5, <1>7 DEF Added
  <1>8. QED BY <1>6, <1>7

\* A score is the sum of what both lists add.
LEMMA ScoreIs ==
  ASSUME NEW v \in Rankings, NEW w \in Rankings, NEW c
  PROVE  Score(<<v, w>>, c) = Added(v, c) + Added(w, c)
  <1> DEFINE lists == <<v, w>>
             D == 1 .. 2
             step == [x \in D \X Nat |-> x[2] + Added(lists[x[1]], c)]
             Equation(f) == f = [s \in SUBSET D |->
                                    IF s = {} THEN 0
                                    ELSE f[s \ {Max(s)}] + Added(lists[Max(s)], c)]
             all == CHOOSE f : Equation(f)
  <1>1. DOMAIN lists = D /\ lists[1] = v /\ lists[2] = w /\ \A i \in D : Added(lists[i], c) \in Nat
    <2>1. DOMAIN lists = D /\ lists[1] = v /\ lists[2] = w
      OBVIOUS
    <2>2. Added(v, c) \in Nat /\ Added(w, c) \in Nat
      BY AddedIs
    <2>3. \A i \in D : i = 1 \/ i = 2
      OBVIOUS
    <2> HIDE DEF lists, D
    <2>4. QED BY <2>1, <2>2, <2>3
  <1> HIDE DEF lists
  <1>2. step \in [D \X Nat -> Nat]
    <2>1. ASSUME NEW x \in D \X Nat PROVE x[2] + Added(lists[x[1]], c) \in Nat
      <3>1. x[1] \in D /\ x[2] \in Nat
        OBVIOUS
      <3>2. Added(lists[x[1]], c) \in Nat
        BY <1>1, <3>1
      <3>3. QED BY <3>1, <3>2
    <2>2. QED BY <2>1
  <1>3. PICK f \in [SUBSET D -> Nat] :
           \A s \in SUBSET D : f[s] = IF s = {} THEN 0 ELSE step[<<Max(s), f[s \ {Max(s)}]>>]
    <2>1. PICK n : n = 2
      OBVIOUS
    <2>2. 0 \in Nat /\ n \in Nat /\ D = 1 .. n
      BY <2>1
    <2>3. PICK f : LeftFolds(f, n, Nat, 0, step)
      <3> HIDE DEF step, Equation, all, D
      <3>1. step \in [(1 .. n) \X Nat -> Nat]
        BY <1>2, <2>2
      <3>2. QED BY <2>2, <3>1, LeftFoldExists
    <2> HIDE DEF step, D
    <2>4. QED BY <2>2, <2>3 DEF LeftFolds
  <1>4. Equation(f)
    <2>1. ASSUME NEW s \in SUBSET D, s # {}
          PROVE  f[s] = f[s \ {Max(s)}] + Added(lists[Max(s)], c)
      <3>1. Max(s) \in D /\ s \ {Max(s)} \in SUBSET D
        BY <2>1, Greatest
      <3>2. f[s \ {Max(s)}] \in Nat
        BY <3>1
      <3>3. step[<<Max(s), f[s \ {Max(s)}]>>] = f[s \ {Max(s)}] + Added(lists[Max(s)], c)
        BY <3>1, <3>2
      <3>4. QED BY <1>3, <2>1, <3>3
    <2>2. ASSUME NEW s \in SUBSET D
          PROVE  f[s] = IF s = {} THEN 0 ELSE f[s \ {Max(s)}] + Added(lists[Max(s)], c)
      <3>1. CASE s = {}
        BY <1>3, <3>1
      <3>2. QED BY <2>1, <3>1
    <2>3. QED BY <2>2
  <1>5. Equation(all)
    <2> HIDE DEF Equation
    <2>1. QED BY <1>4
  <1>6. Score(lists, c) = all[D]
    BY <1>1 DEF Score, Added, FoldLeft, MapThenFoldSet
  <1> HIDE DEF all
  <1>7. all[{}] = 0
    BY <1>5
  <1>8. ASSUME NEW k \in 1 .. 2
        PROVE  all[1 .. k] = all[1 .. (k - 1)] + Added(lists[k], c)
    <2>1. 1 .. k \in SUBSET D /\ 1 .. k # {} /\ Max(1 .. k) = k /\ (1 .. k) \ {Max(1 .. k)} = 1 .. (k - 1)
      <3>1. k \in Nat /\ k > 0 /\ 1 .. k \in SUBSET D
        OBVIOUS
      <3> HIDE DEF D
      <3>2. QED BY <3>1, LastPlace
    <2>2. all[1 .. k] = all[(1 .. k) \ {Max(1 .. k)}] + Added(lists[Max(1 .. k)], c)
      BY <1>5, <2>1
    <2> HIDE DEF Equation, D
    <2>3. QED BY <2>1, <2>2
  <1> HIDE DEF Equation
  <1>9. all[1 .. 1] = 0 + Added(v, c)
    <2>1. 1 .. (1 - 1) = {} /\ 1 \in 1 .. 2
      OBVIOUS
    <2>2. all[1 .. 1] = all[1 .. (1 - 1)] + Added(lists[1], c)
      BY <1>8, <2>1
    <2>3. QED BY <1>1, <1>7, <2>1, <2>2
  <1>10. all[1 .. 2] = all[1 .. 1] + Added(w, c)
    <2>1. 2 - 1 = 1 /\ 2 \in 1 .. 2
      OBVIOUS
    <2>2. all[1 .. 2] = all[1 .. (2 - 1)] + Added(lists[2], c)
      BY <1>8, <2>1
    <2>3. QED BY <1>1, <2>1, <2>2
  <1>11. Added(v, c) \in Nat /\ 0 + Added(v, c) = Added(v, c)
    BY AddedIs
  <1>12. QED BY <1>6, <1>9, <1>10, <1>11 DEF lists

\* The best k by score, ties by id.
Ranked(S, score) ==
    Ordered(S, LAMBDA c, d : score[c] > score[d] \/ (score[c] = score[d] /\ c < d))

FirstOf(ranks, k) == IF k > 0 /\ Len(ranks) > k THEN SubSeq(ranks, 1, k) ELSE ranks

\* ranked lists S in order of score.
ByScore(ranked, S, score) ==
    /\ ranked \in [1 .. Cardinality(S) -> S]
    /\ \A c \in S : \E i \in 1 .. Cardinality(S) : ranked[i] = c
    /\ \A i, j \in 1 .. Cardinality(S) : i < j =>
          score[ranked[i]] >= score[ranked[j]] /\ ranked[i] # ranked[j]

LEMMA RankedByScore ==
  ASSUME NEW S, IsFiniteSet(S), S \subseteq Int, NEW score \in [S -> Int]
  PROVE  Cardinality(S) \in Nat /\ ByScore(Ranked(S, score), S, score)
  <1> DEFINE precedes(c, d) == score[c] > score[d] \/ (score[c] = score[d] /\ c < d)
             R == {p \in S \X S : precedes(p[1], p[2])}
             n == Cardinality(S)
             at(k) == CHOOSE x \in S : Cardinality({y \in S : precedes(y, x)}) = k - 1
             ranked == [k \in 1 .. n |-> at(k)]
  <1>1. \A x, y \in S : <<x, y>> \in R <=> precedes(x, y)
    OBVIOUS
  <1>2. /\ \A x, y \in S : precedes(x, y) \/ x = y \/ precedes(y, x)
        /\ \A x \in S : ~precedes(x, x)
        /\ \A x, y, z \in S : precedes(x, y) /\ precedes(y, z) => precedes(x, z)
    <2>1. \A x \in S : x \in Int /\ score[x] \in Int
      OBVIOUS
    <2>2. QED BY <2>1
  <1>3. \A x, y \in S : precedes(x, y) => score[x] >= score[y] /\ x # y
    <2>1. \A x \in S : x \in Int /\ score[x] \in Int
      OBVIOUS
    <2>2. QED BY <2>1
  <1>4. Ranked(S, score) = ranked
    BY DEF Ranked, Ordered
  <1> HIDE DEF precedes, R
  <1>5. /\ \A x, y \in S : <<x, y>> \in R \/ x = y \/ <<y, x>> \in R
        /\ \A x \in S : <<x, x>> \notin R
        /\ \A x, y, z \in S : <<x, y>> \in R /\ <<y, z>> \in R => <<x, z>> \in R
    BY <1>1, <1>2
  <1> HIDE DEF at, ranked
  <1>6. /\ n \in Nat
        /\ \A k \in 1 .. n : \E x \in S : Cardinality(Ahead(S, R, x)) = k - 1
        /\ \A sorted : Placed(sorted, S, R) =>
              /\ \A x \in S : \E k \in 1 .. n : sorted[k] = x
              /\ \A k, l \in 1 .. n : k < l => <<sorted[k], sorted[l]>> \in R
    BY <1>5, PlacedInOrder
  <1>7. \A x \in S : Ahead(S, R, x) = {y \in S : precedes(y, x)}
    BY <1>1 DEF Ahead
  <1>8. ASSUME NEW k \in 1 .. n PROVE at(k) \in S /\ Cardinality(Ahead(S, R, at(k))) = k - 1
    <2>1. PICK x \in S : Cardinality(Ahead(S, R, x)) = k - 1
      BY <1>6
    <2>2. Cardinality({y \in S : precedes(y, x)}) = k - 1
      BY <1>7, <2>1
    <2>3. at(k) \in S /\ Cardinality({y \in S : precedes(y, at(k))}) = k - 1
      BY <2>2 DEF at
    <2>4. QED BY <1>7, <2>3
  <1>9. ranked \in [1 .. n -> S] /\ \A k \in 1 .. n : ranked[k] = at(k)
    BY <1>8 DEF ranked
  <1>10. Placed(ranked, S, R)
    BY <1>8, <1>9 DEF Placed
  <1>11. /\ \A x \in S : \E k \in 1 .. n : ranked[k] = x
         /\ \A k, l \in 1 .. n : k < l => <<ranked[k], ranked[l]>> \in R
    BY <1>6, <1>10
  <1>12. \A k, l \in 1 .. n : k < l => score[ranked[k]] >= score[ranked[l]] /\ ranked[k] # ranked[l]
    BY <1>1, <1>3, <1>9, <1>11
  <1>13. QED BY <1>4, <1>6, <1>9, <1>11, <1>12 DEF ByScore

\* What RRFMerge makes of it: no other chunk has a better score.
BestOf(out, k, S, score) ==
    /\ \A i \in DOMAIN out : out[i] \in S
    /\ IsInjective(out)
    /\ Len(out) = Min({k, Cardinality(S)})
    /\ \A i \in DOMAIN out : \A c \in S :
          score[c] > score[out[i]] => Contains(SubSeq(out, 1, i - 1), c)
    /\ \A i, j \in DOMAIN out : score[out[i]] > score[out[j]] => i < j

LEMMA FirstAreBest ==
  ASSUME NEW S, NEW score \in [S -> Int], Cardinality(S) \in Nat,
         NEW ranked, ByScore(ranked, S, score), NEW k \in Nat \ {0}
  PROVE  BestOf(FirstOf(ranked, k), k, S, score)
  <1> PICK n, out : n = Cardinality(S) /\ out = FirstOf(ranked, k)
    OBVIOUS
  <1>1. /\ n \in Nat /\ ranked \in [1 .. n -> S]
        /\ \A c \in S : \E i \in 1 .. n : ranked[i] = c
        /\ \A i, j \in 1 .. n : i < j => score[ranked[i]] >= score[ranked[j]] /\ ranked[i] # ranked[j]
    BY DEF ByScore
  <1>2. ranked \in Seq(S) /\ Len(ranked) = n
    BY <1>1
  <1>3. PICK m \in 0 .. n : /\ m = Min({k, n}) /\ out \in Seq(S) /\ Len(out) = m
                            /\ \A i \in 1 .. m : out[i] = ranked[i]
    <2>1. CASE n > k
      <3> PICK z : z = 0
        OBVIOUS
      <3>1. k \in 0 .. Len(ranked) /\ z \in 0 .. k /\ k - z = k /\ z + 1 = 1 /\ \A i \in Int : z + i = i
        BY <1>1, <1>2, <2>1
      <3>2. Copies(Part(ranked, z, k), S, ranked, z, k)
        BY <1>2, <3>1, PartIs
      <3>3. out = Part(ranked, z, k)
        BY <1>2, <2>1, <3>1 DEF FirstOf, Part
      <3>4. out \in Seq(S) /\ Len(out) = k /\ \A i \in 1 .. k : out[i] = ranked[i]
        BY <3>1, <3>2, <3>3 DEF Copies
      <3>5. Min({k, n}) = k
        <4>1. {k, n} \subseteq Int /\ k \in {k, n} /\ \A i \in {k, n} : k <= i
          BY <1>1, <2>1
        <4>2. QED BY <4>1, LeastIs
      <3>6. k \in 0 .. n
        BY <1>2, <3>1
      <3>7. QED BY <3>4, <3>5, <3>6
    <2>2. CASE ~(n > k)
      <3>1. out = ranked
        BY <1>2, <2>2 DEF FirstOf
      <3>2. Min({k, n}) = n
        <4>1. {k, n} \subseteq Int /\ n \in {k, n} /\ \A i \in {k, n} : n <= i
          BY <1>1, <2>2
        <4>2. QED BY <4>1, LeastIs
      <3>3. n \in 0 .. n
        BY <1>1
      <3>4. QED BY <1>2, <3>1, <3>2, <3>3
    <2>3. QED BY <2>1, <2>2
  <1>4. DOMAIN out = 1 .. m /\ m \in Nat /\ \A i \in 1 .. m : i \in 1 .. n
    <2>1. \A s \in Seq(S) : DOMAIN s = 1 .. Len(s)
      OBVIOUS
    <2>2. DOMAIN out = 1 .. m
      BY <1>3, <2>1
    <2>3. QED BY <1>1, <2>2
  <1>5. \A i \in DOMAIN out : out[i] = ranked[i] /\ out[i] \in S /\ score[out[i]] \in Int
    BY <1>1, <1>3, <1>4
  <1>6. IsInjective(out)
    <2>1. ASSUME NEW a \in DOMAIN out, NEW b \in DOMAIN out, a # b PROVE out[a] # out[b]
      <3>1. a \in 1 .. n /\ b \in 1 .. n /\ (a < b \/ b < a)
        BY <1>4, <2>1
      <3>2. ranked[a] # ranked[b]
        BY <1>1, <3>1
      <3>3. QED BY <1>5, <3>2
    <2>2. QED BY <2>1 DEF IsInjective
  <1>7. ASSUME NEW i \in DOMAIN out, NEW c \in S, score[c] > score[out[i]]
        PROVE  Contains(SubSeq(out, 1, i - 1), c)
    <2>1. PICK j \in 1 .. n : ranked[j] = c
      BY <1>1
    <2>2. i \in 1 .. n /\ i \in 1 .. m
      BY <1>4
    <2>3. j < i
      <3>1. CASE i = j
        BY <1>5, <1>7, <2>1, <3>1
      <3>2. CASE i < j
        <4>1. score[ranked[i]] >= score[ranked[j]]
          BY <1>1, <2>1, <2>2, <3>2
        <4>2. score[c] \in Int /\ score[out[i]] \in Int /\ score[out[i]] >= score[c]
          BY <1>5, <2>1, <4>1
        <4>3. QED BY <1>7, <4>2
      <3>3. QED BY <2>1, <2>2, <3>1, <3>2
    <2> PICK z, l : z = 0 /\ l = i - 1
      OBVIOUS
    <2>4. l \in 0 .. Len(out) /\ z \in 0 .. l /\ l - z = l /\ z + 1 = 1 /\ z + j = j /\ j \in 1 .. l
      BY <1>3, <1>4, <2>1, <2>2, <2>3
    <2>5. Copies(Part(out, z, l), S, out, z, l)
      BY <1>3, <2>4, PartIs
    <2>6. Part(out, z, l) = SubSeq(out, 1, i - 1)
      BY <2>4 DEF Part
    <2>7. Part(out, z, l)[j] = out[j] /\ j \in 1 .. Len(Part(out, z, l))
      BY <2>4, <2>5 DEF Copies
    <2>8. out[j] = c
      <3>1. j \in 1 .. m
        BY <2>1, <2>2, <2>3
      <3>2. QED BY <1>3, <2>1, <3>1
    <2>9. QED BY <2>6, <2>7, <2>8 DEF Contains
  <1>8. ASSUME NEW i \in DOMAIN out, NEW j \in DOMAIN out, score[out[i]] > score[out[j]] PROVE i < j
    <2>1. i \in 1 .. n /\ j \in 1 .. n
      BY <1>4
    <2>2. CASE i = j
      BY <1>5, <1>8, <2>2
    <2>3. CASE j < i
      <3>1. score[out[j]] >= score[out[i]]
        BY <1>1, <1>5, <2>1, <2>3
      <3>2. QED BY <1>5, <1>8, <3>1
    <2>4. QED BY <2>1, <2>2, <2>3
  <1>9. BestOf(out, k, S, score)
    BY <1>3, <1>5, <1>6, <1>7, <1>8 DEF BestOf
  <1>10. QED BY <1>9

\* Both orders of the lists are merged to the same.
LEMMA MergeIs ==
  ASSUME NEW v \in Rankings, NEW w \in Rankings, NEW k
  PROVE  RRFMerge(k, <<v, w>>) =
            FirstOf(Ranked(ToSet(v) \cup ToSet(w),
                           [c \in ToSet(v) \cup ToSet(w) |-> Added(v, c) + Added(w, c)]), k)
  <1> DEFINE lists == <<v, w>>
             all == UNION {ToSet(lists[i]) : i \in DOMAIN lists}
             S == ToSet(v) \cup ToSet(w)
  <1>1. all = S
    <2>1. DOMAIN lists = {1, 2} /\ lists[1] = v /\ lists[2] = w
      OBVIOUS
    <2> HIDE DEF lists
    <2>2. \A x : x \in all <=> \E i \in {1, 2} : x \in ToSet(lists[i])
      BY <2>1
    <2>3. QED BY <2>1, <2>2
  <1>2. [c \in all |-> Score(lists, c)] = [c \in S |-> Added(v, c) + Added(w, c)]
    <2>1. \A c : Score(lists, c) = Added(v, c) + Added(w, c)
      BY ScoreIs
    <2> HIDE DEF lists, all, S
    <2>2. QED BY <1>1, <2>1
  <1>3. RRFMerge(k, lists) = FirstOf(Ranked(all, [c \in all |-> Score(lists, c)]), k)
    BY DEF RRFMerge, FirstOf, Ranked
  <1> HIDE DEF all, S
  <1>4. QED BY <1>1, <1>2, <1>3 DEF S

\* Fusion returns the best of what two lists rank, whatever their order, and
\* what both rank before what only one does (RRFMerge).
LEMMA LegsFused ==
  ASSUME NEW v \in Rankings, NEW w \in Rankings, NEW k \in 1 .. MaxRanks
  PROVE  LET legs == <<v, w>>
             out == RRFMerge(k, legs)
             all == ToSet(v) \cup ToSet(w)
             both == ToSet(v) \cap ToSet(w)
             score == [c \in all |-> Score(legs, c)]
         IN  /\ out = RRFMerge(k, Reverse(legs))
             /\ IsInjective(out)
             /\ Len(out) = Min({k, Cardinality(all)})
             /\ \A i \in DOMAIN out : \A c \in all :
                   score[c] > score[out[i]] => Contains(SubSeq(out, 1, i - 1), c)
             /\ \A i, j \in DOMAIN out : out[i] \in both /\ out[j] \notin both => i < j
  <1> DEFINE legs == <<v, w>>
             out == RRFMerge(k, legs)
             all == ToSet(v) \cup ToSet(w)
             both == ToSet(v) \cap ToSet(w)
             score == [c \in all |-> Score(legs, c)]
             sum == [c \in all |-> Added(v, c) + Added(w, c)]
  <1>1. MaxRanks \in Nat /\ k \in Nat \ {0}
    BY SearchBounds
  <1>2. \A c : Added(v, c) \in Nat /\ Added(w, c) \in Nat
    BY AddedIs
  <1>3. score = sum
    <2>1. \A c : Score(legs, c) = Added(v, c) + Added(w, c)
      BY ScoreIs
    <2> HIDE DEF legs, all
    <2>2. QED BY <2>1
  <1>4. out = FirstOf(Ranked(all, sum), k)
    BY MergeIs
  <1>5. out = RRFMerge(k, Reverse(legs))
    <2>1. Reverse(legs) = <<w, v>>
      <3>1. Len(legs) = 2 /\ legs[1] = v /\ legs[2] = w
        OBVIOUS
      <3> HIDE DEF legs
      <3>2. Reverse(legs) = [i \in 1 .. 2 |-> IF i = 1 THEN w ELSE v]
        <4>1. Reverse(legs) = [i \in 1 .. 2 |-> legs[(2 - i) + 1]]
          BY <3>1 DEF Reverse
        <4>2. \A i \in 1 .. 2 : legs[(2 - i) + 1] = IF i = 1 THEN w ELSE v
          <5>1. \A i \in 1 .. 2 : (i = 1 /\ (2 - i) + 1 = 2) \/ (i = 2 /\ (2 - i) + 1 = 1)
            OBVIOUS
          <5>2. QED BY <3>1, <5>1
        <4>3. QED BY <4>1, <4>2
      <3>3. <<w, v>> = [i \in 1 .. 2 |-> IF i = 1 THEN w ELSE v]
        OBVIOUS
      <3>4. QED BY <3>2, <3>3
    <2>2. ToSet(w) \cup ToSet(v) = all
      OBVIOUS
    <2>3. \A c : Added(w, c) + Added(v, c) = Added(v, c) + Added(w, c)
      BY <1>2
    <2>4. RRFMerge(k, <<w, v>>) =
             FirstOf(Ranked(ToSet(w) \cup ToSet(v),
                            [c \in ToSet(w) \cup ToSet(v) |-> Added(w, c) + Added(v, c)]), k)
      BY MergeIs
    <2> HIDE DEF all, out, legs
    <2>5. [c \in ToSet(w) \cup ToSet(v) |-> Added(w, c) + Added(v, c)] = sum
      BY <2>2, <2>3
    <2> HIDE DEF sum
    <2>6. RRFMerge(k, <<w, v>>) = FirstOf(Ranked(all, sum), k)
      BY <2>2, <2>4, <2>5
    <2>7. QED BY <1>4, <2>1, <2>6
  <1>6. all \subseteq 1 .. MaxRanks /\ IsFiniteSet(all)
    <2>1. ASSUME NEW ranks \in Rankings PROVE ToSet(ranks) \subseteq 1 .. MaxRanks
      <3>1. ranks \in BoundedSeq(1 .. MaxRanks, MaxRanks)
        BY DEF Rankings
      <3>2. PICK n \in Nat : ranks \in [1 .. n -> 1 .. MaxRanks]
        BY <1>1, <3>1, Bounded
      <3>3. QED BY <3>2 DEF ToSet
    <2>2. all \subseteq 1 .. MaxRanks
      BY <2>1
    <2>3. IsFiniteSet(1 .. MaxRanks)
      BY <1>1, FS_Interval
    <2> HIDE DEF all
    <2>4. QED BY <2>2, <2>3, FS_Subset
  <1>7. all \subseteq Int /\ sum \in [all -> Int]
    <2>1. all \subseteq Int
      BY <1>6
    <2>2. \A c : Added(v, c) + Added(w, c) \in Int
      BY <1>2
    <2> HIDE DEF all
    <2>3. QED BY <2>1, <2>2
  <1>8. \A c \in all : sum[c] = Added(v, c) + Added(w, c)
    OBVIOUS
  <1> HIDE DEF sum, score, out, all, legs
  <1>9. Cardinality(all) \in Nat /\ ByScore(Ranked(all, sum), all, sum)
    BY <1>6, <1>7, RankedByScore
  <1>10. BestOf(FirstOf(Ranked(all, sum), k), k, all, sum)
    BY <1>1, <1>7, <1>9, FirstAreBest
  <1>11. /\ \A i \in DOMAIN out : out[i] \in all
         /\ IsInjective(out)
         /\ Len(out) = Min({k, Cardinality(all)})
         /\ \A i \in DOMAIN out : \A c \in all :
               sum[c] > sum[out[i]] => Contains(SubSeq(out, 1, i - 1), c)
         /\ \A i, j \in DOMAIN out : sum[out[i]] > sum[out[j]] => i < j
    BY <1>4, <1>10 DEF BestOf
  <1>12. ASSUME NEW c \in both, NEW d \in all, d \notin both PROVE sum[c] > sum[d]
    <2>1. PICK a \in 1 .. MaxRanks, b \in 1 .. MaxRanks :
             Added(v, c) = RankScore(a) /\ Added(w, c) = RankScore(b)
      <3>1. c \in ToSet(v) /\ c \in ToSet(w)
        OBVIOUS
      <3>2. (\E i \in 1 .. MaxRanks : Added(v, c) = RankScore(i))
            /\ (\E i \in 1 .. MaxRanks : Added(w, c) = RankScore(i))
        BY <3>1, AddedIs
      <3>3. QED BY <3>2
    <2>2. PICK e \in 1 .. MaxRanks : sum[d] = RankScore(e)
      <3>1. CASE d \in ToSet(v)
        <4>1. d \notin ToSet(w)
          BY <1>12, <3>1
        <4>2. PICK i \in 1 .. MaxRanks : Added(v, d) = RankScore(i)
          BY <3>1, AddedIs
        <4>3. Added(w, d) = 0
          BY <4>1, AddedIs
        <4>4. Added(v, d) \in Nat /\ sum[d] = Added(v, d)
          BY <1>2, <1>8, <4>3
        <4>5. QED BY <4>2, <4>4
      <3>2. CASE d \notin ToSet(v)
        <4>1. d \in ToSet(w)
          BY <3>2 DEF all
        <4>2. PICK i \in 1 .. MaxRanks : Added(w, d) = RankScore(i)
          BY <4>1, AddedIs
        <4>3. Added(v, d) = 0
          BY <3>2, AddedIs
        <4>4. Added(w, d) \in Nat /\ sum[d] = Added(w, d)
          BY <1>2, <1>8, <4>3
        <4>5. QED BY <4>2, <4>4
      <3>3. QED BY <3>1, <3>2
    <2>3. c \in all
      BY DEF all
    <2>4. sum[c] = RankScore(a) + RankScore(b)
      BY <1>8, <2>1, <2>3
    <2>5. RankScore(a) + RankScore(b) > RankScore(e)
      BY RankScores
    <2>6. QED BY <2>2, <2>4, <2>5
  <1> HIDE DEF both
  <1>13. \A i, j \in DOMAIN out : out[i] \in both /\ out[j] \notin both => i < j
    BY <1>11, <1>12
  <1>14. \A i \in DOMAIN out : \A c \in all :
            score[c] > score[out[i]] => Contains(SubSeq(out, 1, i - 1), c)
    BY <1>3, <1>11
  <1>15. /\ out = RRFMerge(k, Reverse(legs))
         /\ IsInjective(out)
         /\ Len(out) = Min({k, Cardinality(all)})
    BY <1>5, <1>11
  <1>16. QED BY <1>13, <1>14, <1>15 DEF out, all, both, score, legs

\* What an answer shows of its sources is complete, without repetition and
\* in order of rank, for every footer, ranking and pair of ranked lists
\* (parseResponse, retrievedDocuments, RRFMerge).
THEOREM SourcesAreRanked ==
    ASSUME input \in Inputs \cup {NoInput}
    PROVE  SourcesRanked
  <1>1. ASSUME input.kind = "footer"
        PROVE  RankedBy(Citations(input.listed, input.chunks),
                        ToSet(input.listed) \cap 1 .. input.chunks,
                        LAMBDA c : Min({i \in DOMAIN input.listed : input.listed[i] = c}))
    <2>1. input \in [kind : {"footer"}, listed : BoundedSeq(-1 .. 3, 4), chunks : 0 .. 2]
      BY <1>1 DEF Inputs, NoInput
    <2>2. input.listed \in BoundedSeq(-1 .. 3, 4)
      BY <2>1
    <2>3. QED BY <2>2, CitedOnce
  <1>2. ASSUME input.kind = "ranked"
        PROVE  RankedBy(RetrievedDocuments(input.chunks, input.docOf),
                        {input.docOf[c] : c \in ToSet(input.chunks)},
                        LAMBDA d : Min({i \in DOMAIN input.chunks : input.docOf[input.chunks[i]] = d}))
    <2>1. input \in [kind : {"ranked"}, chunks : Rankings, docOf : [1 .. MaxRanks -> {"d1", "d2"}]]
      BY <1>2 DEF Inputs, NoInput
    <2>2. input.chunks \in Rankings /\ input.docOf \in [1 .. MaxRanks -> {"d1", "d2"}]
      BY <2>1
    <2>3. QED BY <2>2, DocumentsOnce
  <1>3. ASSUME input.kind = "legs"
        PROVE  input.vector \in Rankings /\ input.keyword \in Rankings /\ input.k \in 1 .. MaxRanks
    <2>1. input \in [kind : {"legs"}, vector : Rankings, keyword : Rankings, k : 1 .. MaxRanks]
      BY <1>3 DEF Inputs, NoInput
    <2>2. QED BY <2>1
  <1>4. ASSUME input.kind = "legs"
        PROVE  LET legs == <<input.vector, input.keyword>>
                   out == RRFMerge(input.k, legs)
                   all == ToSet(input.vector) \cup ToSet(input.keyword)
                   both == ToSet(input.vector) \cap ToSet(input.keyword)
                   score == [c \in all |-> Score(legs, c)]
               IN  /\ out = RRFMerge(input.k, Reverse(legs))
                   /\ IsInjective(out)
                   /\ Len(out) = Min({input.k, Cardinality(all)})
                   /\ \A i \in DOMAIN out : \A c \in all :
                         score[c] > score[out[i]] => Contains(SubSeq(out, 1, i - 1), c)
                   /\ \A i, j \in DOMAIN out : out[i] \in both /\ out[j] \notin both => i < j
    BY <1>3, <1>4, LegsFused
  <1>5. QED BY <1>1, <1>2, <1>4 DEF SourcesRanked
=============================================================================
