----------------------- MODULE CanonicalCountsProofs -----------------------
(***************************************************************************)
(* What holds of CanonicalCounts for every finite number of documents and  *)
(* texts, every number of runs of each kind, and every bound.              *)
(***************************************************************************)
EXTENDS CanonicalCounts, FiniteSetTheorems, TLAPS

(***************************************************************************)
(* The inductive invariant                                                 *)
(*                                                                         *)
(* A count is charged with what is linked, document by document; with what *)
(* a reversal under way read of its document and will subtract, if that is *)
(* more; and with what each canonicalization has counted and not linked.   *)
(* Charges of the first two kinds are numbered from 1 for each document,   *)
(* so that the greater of the two is their union.                          *)
(***************************************************************************)
Of(e, id, d) == {m \in DOMAIN e : e[m] = id /\ m[1] = d}

\* Reversal q is about to subtract what it read of document d from id.
Reads(q, d, id) == q.pc = "apply" /\ q.doc = d /\ id \in DOMAIN q.count

Held(e, R, id) ==
    {p \in Docs \X (Nat \ {0}) :
        \/ p[2] <= Cardinality(Of(e, id, p[1]))
        \/ \E r \in Reversers : Reads(R[r], p[1], id) /\ p[2] <= R[r].count[id]}

HeldDocs(e, R, id) ==
    {d \in Docs : Of(e, id, d) # {} \/ \E r \in Reversers : Reads(R[r], d, id)}

\* What a canonicalization will link to id.
Links(q, id) == {m \in Mention : q.pc = "link" /\ m \in DOMAIN q.resolved /\ q.resolved[m] = id}

Pending(S, id) == {p \in Resolvers \X Mention : p[2] \in Links(S[p[1]], id)}
PendingRuns(S, id) == {h \in Resolvers : Links(S[h], id) # {}}

Charged(n, A, B) ==
    IsFiniteSet(A) /\ IsFiniteSet(B) /\ n \in Int /\ Cardinality(A) + Cardinality(B) <= n

\* Charges of mentions M, numbered likewise.
Slots(M) == {p \in Docs \X (Nat \ {0}) : p[2] <= Cardinality({m \in M : m[1] = p[1]})}

\* What a merge is about to add covers the mentions it repointed.
AddCovers(q) ==
    q.pc = "delete" =>
       /\ Charged(q.add.mentions, Slots(q.moved), {})
       /\ Charged(q.add.documents, {m[1] : m \in q.moved}, {})

Covers(row, e, R, S, id) ==
    /\ Charged(row.mentions, Held(e, R, id), Pending(S, id))
    /\ Charged(row.documents, HeldDocs(e, R, id), PendingRuns(S, id))

\* A row that there is or once was.
Known(id) == id \in RowId /\ id[2] <= created[id[1]]

RowsFit ==
    /\ \A id \in DOMAIN rows : rows[id] \in [mentions : Nat \ {0}, documents : Int] /\ Known(id)
    /\ \A id, other \in DOMAIN rows : id[1] = other[1] => id = other
    /\ created \in [Texts -> 0 .. MaxRows]

MentionsFit ==
    /\ \A m \in DOMAIN entities : /\ m \in Mention /\ m[3] <= extracted[m[1]]
                                  /\ entities[m] \in DOMAIN rows \cup {NoRow}
    /\ extracted \in [Docs -> 0 .. MaxBatches]

\* A run of canonicalization works on one document's mentions.
ResolverFits(q) ==
    /\ q.pc \in {"idle", "canonicalize", "link"}
    /\ q.pc = "canonicalize" =>
          /\ q.pending \subseteq Mention
          /\ \E d \in Docs : \A m \in q.pending : m[1] = d
    /\ q.pc = "link" =>
          /\ DOMAIN q.resolved \subseteq Mention
          /\ \A m \in DOMAIN q.resolved : Known(q.resolved[m])
          /\ \E d \in Docs : \A m \in DOMAIN q.resolved : m[1] = d

AliaserFits(q) ==
    /\ q.pc \in {"idle", "merge", "count", "delete"}
    /\ q.pc # "idle" =>
          /\ q.ce \in RowId /\ DOMAIN q.from \subseteq RowId \ {q.ce}
          /\ \A c \in DOMAIN q.from : q.from[c] \in {c, q.ce}
    /\ q.pc \in {"count", "delete"} => q.c \in DOMAIN q.from
    /\ q.pc = "delete" => q.add.mentions \in Nat /\ q.add.documents \in Int

\* The mentions of a merge under way stay linked to the row it deletes, and
\* the row they will be linked to stays: the merge's locks.
MergeFits(q) ==
    q.pc \in {"count", "delete"} =>
       /\ q.moved \subseteq LinkedTo(From(q))
       /\ q.moved # {} => To(q) \in DOMAIN rows

MergesFit == \A j \in Aliasers : MergeFits(aliasers[j])

ReverserFits(q) ==
    /\ q.pc \in {"idle", "apply", "clear"}
    /\ q.pc # "idle" => q.doc \in Docs
    /\ q.pc = "apply" => \A id \in DOMAIN q.count : Known(id) /\ q.count[id] \in Nat \ {0}

Lone ==
    \A r, q \in Reversers :
       reversers[r].pc = "apply" /\ reversers[q].pc = "apply" /\ reversers[r].doc = reversers[q].doc
           => r = q

Shape ==
    /\ RowsFit
    /\ MentionsFit
    /\ DOMAIN resolvers = Resolvers /\ \A h \in Resolvers : ResolverFits(resolvers[h])
    /\ DOMAIN aliasers = Aliasers /\ \A j \in Aliasers : AliaserFits(aliasers[j])
    /\ DOMAIN reversers = Reversers /\ \A r \in Reversers : ReverserFits(reversers[r])
    /\ MergesFit
    /\ overlapped \in BOOLEAN

Covered ==
    ~overlapped =>
       /\ Lone
       /\ \A j \in Aliasers : AddCovers(aliasers[j])
       /\ \A id \in DOMAIN rows : Covers(rows[id], entities, reversers, resolvers, id)

IInv == Shape /\ Covered

(***************************************************************************)
(* Charges                                                                 *)
(***************************************************************************)
LEMMA Injected ==
  ASSUME NEW S, NEW T, IsFiniteSet(T), NEW f \in [S -> T], \A x, y \in S : f[x] = f[y] => x = y
  PROVE  IsFiniteSet(S) /\ Cardinality(S) <= Cardinality(T)
  <1>1. f \in Injection(S, T)
    BY DEF Injection, IsInjective
  <1>2. QED BY <1>1, FS_Injection

LEMMA UnionBound ==
  ASSUME NEW S, NEW T, NEW U, IsFiniteSet(S), IsFiniteSet(T), U \subseteq S \cup T
  PROVE  /\ IsFiniteSet(U) /\ Cardinality(U) <= Cardinality(S) + Cardinality(T)
         /\ Cardinality(U) \in Nat /\ Cardinality(S) \in Nat /\ Cardinality(T) \in Nat
  <1>1. Cardinality(S) \in Nat /\ Cardinality(T) \in Nat
    BY FS_CardinalityType
  <1>2. IsFiniteSet(S \cap T) /\ Cardinality(S \cap T) \in Nat
    BY FS_Subset, FS_CardinalityType
  <1>3. /\ IsFiniteSet(S \cup T)
        /\ Cardinality(S \cup T) = Cardinality(S) + Cardinality(T) - Cardinality(S \cap T)
    BY FS_Union
  <1>4. IsFiniteSet(U) /\ Cardinality(U) <= Cardinality(S \cup T) /\ Cardinality(U) \in Nat
    BY <1>3, FS_Subset, FS_CardinalityType
  <1>5. QED BY <1>1, <1>2, <1>3, <1>4

LEMMA DisjointSum ==
  ASSUME NEW S, NEW T, NEW U, IsFiniteSet(U), S \cup T \subseteq U, S \cap T = {}
  PROVE  /\ IsFiniteSet(S) /\ IsFiniteSet(T) /\ Cardinality(S) \in Nat /\ Cardinality(T) \in Nat
         /\ Cardinality(U) \in Nat
         /\ Cardinality(S) + Cardinality(T) <= Cardinality(U)
  <1>1. IsFiniteSet(S) /\ IsFiniteSet(T) /\ IsFiniteSet(S \cup T)
    BY FS_Subset
  <1>2. /\ Cardinality(S) \in Nat /\ Cardinality(T) \in Nat /\ Cardinality(U) \in Nat
        /\ Cardinality(S \cup T) \in Nat
    BY <1>1, FS_CardinalityType
  <1>3. Cardinality(S \cup T) <= Cardinality(U)
    BY FS_Subset
  <1>4. Cardinality(S \cap T) = 0
    BY FS_EmptySet
  <1>5. Cardinality(S \cup T) = Cardinality(S) + Cardinality(T) - Cardinality(S \cap T)
    BY <1>1, FS_Union
  <1>6. QED BY <1>1, <1>2, <1>3, <1>4, <1>5

LEMMA ChargedLess ==
  ASSUME NEW n, NEW A, NEW B, Charged(n, A, B), NEW A2, NEW B2, A2 \subseteq A, B2 \subseteq B
  PROVE  Charged(n, A2, B2)
  <1>1. /\ IsFiniteSet(A2) /\ IsFiniteSet(B2) /\ Cardinality(A2) <= Cardinality(A)
        /\ Cardinality(B2) <= Cardinality(B)
    BY FS_Subset DEF Charged
  <1>2. /\ Cardinality(A) \in Nat /\ Cardinality(B) \in Nat
        /\ Cardinality(A2) \in Nat /\ Cardinality(B2) \in Nat
    BY <1>1, FS_CardinalityType DEF Charged
  <1>3. QED BY <1>1, <1>2 DEF Charged

\* What was pending is held instead.
LEMMA ChargedMoved ==
  ASSUME NEW n, NEW A, NEW B, Charged(n, A, B), NEW A2, NEW B2, NEW X, NEW Y,
         IsFiniteSet(X), Cardinality(X) <= Cardinality(Y),
         A2 \subseteq A \cup X, B2 \cup Y \subseteq B, B2 \cap Y = {}
  PROVE  Charged(n, A2, B2)
  <1>1. IsFiniteSet(A) /\ IsFiniteSet(B) /\ n \in Int /\ Cardinality(A) + Cardinality(B) <= n
    BY DEF Charged
  <1>2. /\ IsFiniteSet(A2) /\ Cardinality(A2) <= Cardinality(A) + Cardinality(X)
        /\ Cardinality(A2) \in Nat /\ Cardinality(A) \in Nat /\ Cardinality(X) \in Nat
    BY <1>1, UnionBound
  <1>3. /\ IsFiniteSet(B2) /\ Cardinality(B2) \in Nat /\ Cardinality(Y) \in Nat
        /\ Cardinality(B) \in Nat /\ Cardinality(B2) + Cardinality(Y) <= Cardinality(B)
    BY <1>1, DisjointSum
  <1>4. QED BY <1>1, <1>2, <1>3 DEF Charged

LEMMA ChargedAdded ==
  ASSUME NEW n, NEW A, NEW B, Charged(n, A, B), NEW k \in Nat, NEW Y, NEW B2,
         IsFiniteSet(Y), Cardinality(Y) <= k, B2 \subseteq B \cup Y
  PROVE  Charged(n + k, A, B2)
  <1>1. IsFiniteSet(A) /\ IsFiniteSet(B) /\ n \in Int /\ Cardinality(A) + Cardinality(B) <= n
    BY DEF Charged
  <1>2. /\ IsFiniteSet(B2) /\ Cardinality(B2) <= Cardinality(B) + Cardinality(Y)
        /\ Cardinality(B2) \in Nat /\ Cardinality(B) \in Nat /\ Cardinality(Y) \in Nat
    BY <1>1, UnionBound
  <1>3. Cardinality(A) \in Nat
    BY <1>1, FS_CardinalityType
  <1>4. QED BY <1>1, <1>2, <1>3 DEF Charged

LEMMA ChargedDropped ==
  ASSUME NEW n, NEW A, NEW B, Charged(n, A, B), NEW k \in Nat, NEW X, NEW A2, NEW B2,
         k <= Cardinality(X), A2 \cup X \subseteq A, A2 \cap X = {}, B2 \subseteq B
  PROVE  Charged(n - k, A2, B2)
  <1>1. IsFiniteSet(A) /\ IsFiniteSet(B) /\ n \in Int /\ Cardinality(A) + Cardinality(B) <= n
    BY DEF Charged
  <1>2. /\ IsFiniteSet(A2) /\ Cardinality(A2) \in Nat /\ Cardinality(X) \in Nat
        /\ Cardinality(A) \in Nat /\ Cardinality(A2) + Cardinality(X) <= Cardinality(A)
    BY <1>1, DisjointSum
  <1>3. /\ IsFiniteSet(B2) /\ Cardinality(B2) <= Cardinality(B) /\ Cardinality(B2) \in Nat
        /\ Cardinality(B) \in Nat
    BY <1>1, FS_Subset, FS_CardinalityType
  <1>4. QED BY <1>1, <1>2, <1>3 DEF Charged

\* One count takes over another, and what it is charged with.
LEMMA ChargedMerged ==
  ASSUME NEW n, NEW A, NEW B, Charged(n, A, B), NEW k, NEW C, NEW D, Charged(k, C, D),
         NEW X, NEW A2, IsFiniteSet(X), Cardinality(X) <= Cardinality(C), A2 \subseteq A \cup X
  PROVE  Charged(n + k, A2, B)
  <1>1. /\ IsFiniteSet(A) /\ IsFiniteSet(B) /\ n \in Int /\ Cardinality(A) + Cardinality(B) <= n
        /\ IsFiniteSet(C) /\ IsFiniteSet(D) /\ k \in Int /\ Cardinality(C) + Cardinality(D) <= k
    BY DEF Charged
  <1>2. /\ IsFiniteSet(A2) /\ Cardinality(A2) <= Cardinality(A) + Cardinality(X)
        /\ Cardinality(A2) \in Nat /\ Cardinality(A) \in Nat /\ Cardinality(X) \in Nat
    BY <1>1, UnionBound
  <1>3. Cardinality(B) \in Nat /\ Cardinality(C) \in Nat /\ Cardinality(D) \in Nat
    BY <1>1, FS_CardinalityType
  <1>4. Cardinality(A2) + Cardinality(B) <= n + k
    BY <1>1, <1>2, <1>3
  <1>5. QED BY <1>1, <1>2, <1>4 DEF Charged

LEMMA NothingCharged == Charged(0, {}, {})
  BY FS_EmptySet DEF Charged

\* Charges of document d: the k of them numbered from a on.
Numbered(d, a, k) == {d} \X ((a + 1) .. (a + k))

LEMMA Block ==
  ASSUME NEW d, NEW a \in Nat, NEW k \in Nat
  PROVE  IsFiniteSet(Numbered(d, a, k)) /\ Cardinality(Numbered(d, a, k)) = k
  <1>1. IsFiniteSet((a + 1) .. (a + k)) /\ Cardinality((a + 1) .. (a + k)) = k
    <2>1. /\ IsFiniteSet((a + 1) .. (a + k))
          /\ Cardinality((a + 1) .. (a + k)) =
                IF a + 1 > a + k THEN 0 ELSE (a + k) - (a + 1) + 1
      BY FS_Interval
    <2>2. QED BY <2>1
  <1>2. IsFiniteSet({d}) /\ Cardinality({d}) = 1
    BY FS_Singleton
  <1>3. /\ IsFiniteSet({d} \X ((a + 1) .. (a + k)))
        /\ Cardinality({d} \X ((a + 1) .. (a + k))) =
              Cardinality({d}) * Cardinality((a + 1) .. (a + k))
    BY <1>1, <1>2, FS_Product
  <1>4. 1 * k = k
    OBVIOUS
  <1>5. QED BY <1>1, <1>2, <1>3, <1>4 DEF Numbered

LEMMA Tagged ==
  ASSUME NEW h, NEW S, IsFiniteSet(S)
  PROVE  IsFiniteSet({h} \X S) /\ Cardinality({h} \X S) = Cardinality(S)
  <1>1. IsFiniteSet({h}) /\ Cardinality({h}) = 1 /\ Cardinality(S) \in Nat
    BY FS_Singleton, FS_CardinalityType
  <1>2. IsFiniteSet({h} \X S) /\ Cardinality({h} \X S) = Cardinality({h}) * Cardinality(S)
    BY <1>1, FS_Product
  <1>3. QED BY <1>1, <1>2

(***************************************************************************)
(* What a row is charged with                                              *)
(***************************************************************************)
LEMMA MentionFinite == IsFiniteSet(Mention)
  <1>1. MaxBatches \in Nat
    BY BoundsAreNat
  <1>2. IsFiniteSet(1 .. MaxBatches)
    BY <1>1, FS_Interval
  <1>3. IsFiniteSet((Docs \X Texts) \X (1 .. MaxBatches))
    BY <1>2, DataIsFinite, FS_Product
  <1> DEFINE f == [m \in Mention |-> <<<<m[1], m[2]>>, m[3]>>]
  <1>4. f \in [Mention -> (Docs \X Texts) \X (1 .. MaxBatches)]
    BY DEF Mention
  <1>5. \A m, n \in Mention : f[m] = f[n] => m = n
    BY DEF Mention
  <1> HIDE DEF f
  <1>6. QED BY <1>3, <1>4, <1>5, Injected

LEMMA OfFinite ==
  ASSUME NEW e, DOMAIN e \subseteq Mention, NEW id, NEW d
  PROVE  IsFiniteSet(Of(e, id, d)) /\ Cardinality(Of(e, id, d)) \in Nat
  BY MentionFinite, FS_Subset, FS_CardinalityType DEF Of

LEMMA LinksFinite ==
  ASSUME NEW q, NEW id
  PROVE  IsFiniteSet(Links(q, id)) /\ Cardinality(Links(q, id)) \in Nat
  BY MentionFinite, FS_Subset, FS_CardinalityType DEF Links

\* Fewer mentions of each document are linked, and nothing but what was
\* linked is to be subtracted.
LEMMA HeldLess ==
  ASSUME NEW e, NEW f, DOMAIN e \subseteq Mention, DOMAIN f \subseteq Mention,
         NEW R, NEW Q, NEW id,
         \A d \in Docs : Of(f, id, d) \subseteq Of(e, id, d),
         \A d \in Docs, r \in Reversers : Reads(Q[r], d, id) =>
            \/ Reads(R[r], d, id) /\ Q[r].count[id] = R[r].count[id]
            \/ Of(e, id, d) # {} /\ Q[r].count[id] = Cardinality(Of(e, id, d))
  PROVE  Held(f, Q, id) \subseteq Held(e, R, id) /\ HeldDocs(f, Q, id) \subseteq HeldDocs(e, R, id)
  <1>1. ASSUME NEW p \in Held(f, Q, id) PROVE p \in Held(e, R, id)
    <2>1. p \in Docs \X (Nat \ {0}) /\ p[1] \in Docs /\ p[2] \in Nat
      BY DEF Held
    <2>2. Of(f, id, p[1]) \subseteq Of(e, id, p[1])
      BY <2>1
    <2>3. /\ Cardinality(Of(f, id, p[1])) \in Nat /\ Cardinality(Of(e, id, p[1])) \in Nat
          /\ Cardinality(Of(f, id, p[1])) <= Cardinality(Of(e, id, p[1]))
      BY <2>2, OfFinite, FS_Subset
    <2>4. CASE p[2] <= Cardinality(Of(f, id, p[1]))
      BY <2>1, <2>3, <2>4 DEF Held
    <2>5. CASE \E r \in Reversers : Reads(Q[r], p[1], id) /\ p[2] <= Q[r].count[id]
      <3>1. PICK r \in Reversers : Reads(Q[r], p[1], id) /\ p[2] <= Q[r].count[id]
        BY <2>5
      <3>2. CASE Reads(R[r], p[1], id) /\ Q[r].count[id] = R[r].count[id]
        BY <2>1, <3>1, <3>2 DEF Held
      <3>3. CASE Q[r].count[id] = Cardinality(Of(e, id, p[1]))
        BY <2>1, <3>1, <3>3 DEF Held
      <3>4. QED BY <2>1, <3>1, <3>2, <3>3
    <2>6. QED BY <2>4, <2>5 DEF Held
  <1>2. ASSUME NEW d \in HeldDocs(f, Q, id) PROVE d \in HeldDocs(e, R, id)
    BY DEF HeldDocs
  <1>3. QED BY <1>1, <1>2

\* Nothing but what was linked is to be subtracted, and no run adds charges.
Falls(e, f, R, Q, S, T, id) ==
    /\ \A d \in Docs : Of(f, id, d) \subseteq Of(e, id, d)
    /\ \A d \in Docs, r \in Reversers : Reads(Q[r], d, id) =>
          \/ Reads(R[r], d, id) /\ Q[r].count[id] = R[r].count[id]
          \/ Of(e, id, d) # {} /\ Q[r].count[id] = Cardinality(Of(e, id, d))
    /\ \A h \in Resolvers : Links(T[h], id) \subseteq Links(S[h], id)

LEMMA CoversKept ==
  ASSUME NEW row, NEW e, NEW f, DOMAIN e \subseteq Mention, DOMAIN f \subseteq Mention,
         NEW R, NEW Q, NEW S, NEW T, NEW id, Covers(row, e, R, S, id), Falls(e, f, R, Q, S, T, id)
  PROVE  Covers(row, f, Q, T, id)
  <1>1. Held(f, Q, id) \subseteq Held(e, R, id) /\ HeldDocs(f, Q, id) \subseteq HeldDocs(e, R, id)
    BY HeldLess DEF Falls
  <1>2. Pending(T, id) \subseteq Pending(S, id) /\ PendingRuns(T, id) \subseteq PendingRuns(S, id)
    BY DEF Pending, PendingRuns, Falls
  <1>3. QED BY <1>1, <1>2, ChargedLess DEF Covers

(***************************************************************************)
(* Runs                                                                    *)
(***************************************************************************)
CreatedGrows ==
    created' \in [Texts -> 0 .. MaxRows] /\ \A t \in Texts : created[t] <= created'[t]

LEMMA StillKnown ==
  ASSUME Shape, CreatedGrows
  PROVE  \A id : Known(id) => Known(id)'
  <1>1. ASSUME NEW id, Known(id) PROVE Known(id)'
    <2>1. id[1] \in Texts /\ id[2] \in Nat /\ id \in RowId /\ id[2] <= created[id[1]]
      BY <1>1 DEF Known, RowId
    <2>2. created[id[1]] <= created'[id[1]] /\ created[id[1]] \in Nat /\ created'[id[1]] \in Nat
      BY <2>1, BoundsAreNat DEF CreatedGrows, Shape, RowsFit
    <2>3. QED BY <2>1, <2>2 DEF Known
  <1>2. QED BY <1>1

\* At most one run of each kind takes a step.
LEMMA RunsFit ==
  ASSUME Shape, CreatedGrows,
         \/ resolvers' = resolvers
         \/ \E h \in Resolvers : \E q : resolvers' = [resolvers EXCEPT ![h] = q] /\ ResolverFits(q)',
         \/ aliasers' = aliasers
         \/ \E j \in Aliasers : \E q : aliasers' = [aliasers EXCEPT ![j] = q] /\ AliaserFits(q),
         \/ reversers' = reversers
         \/ \E r \in Reversers : \E q : reversers' = [reversers EXCEPT ![r] = q] /\ ReverserFits(q)'
  PROVE  /\ DOMAIN resolvers' = Resolvers /\ \A h \in Resolvers : ResolverFits(resolvers[h])'
         /\ DOMAIN aliasers' = Aliasers /\ \A j \in Aliasers : AliaserFits(aliasers[j])'
         /\ DOMAIN reversers' = Reversers /\ \A r \in Reversers : ReverserFits(reversers[r])'
  <1>1. \A q : ResolverFits(q) => ResolverFits(q)'
    BY StillKnown DEF ResolverFits
  <1>2. \A q : ReverserFits(q) => ReverserFits(q)'
    BY StillKnown DEF ReverserFits
  <1>3. DOMAIN resolvers' = Resolvers /\ \A h \in Resolvers : ResolverFits(resolvers[h])'
    <2>1. DOMAIN resolvers' = Resolvers
      BY DEF Shape
    <2>2. ASSUME NEW h \in Resolvers PROVE ResolverFits(resolvers[h])'
      <3>1. PICK p : p = resolvers'[h]
        OBVIOUS
      <3>2. p = resolvers[h] \/ ResolverFits(p)'
        BY <3>1 DEF Shape
      <3>3. ResolverFits(p)'
        BY <1>1, <3>2 DEF Shape
      <3>4. QED BY <3>1, <3>3 DEF ResolverFits
    <2>3. QED BY <2>1, <2>2
  <1>4. DOMAIN aliasers' = Aliasers /\ \A j \in Aliasers : AliaserFits(aliasers[j])'
    <2>1. DOMAIN aliasers' = Aliasers
      BY DEF Shape
    <2>2. ASSUME NEW j \in Aliasers PROVE AliaserFits(aliasers[j])'
      <3>1. PICK p : p = aliasers'[j]
        OBVIOUS
      <3>2. AliaserFits(p)
        BY <3>1 DEF Shape
      <3>3. QED BY <3>1, <3>2 DEF AliaserFits
    <2>3. QED BY <2>1, <2>2
  <1>5. DOMAIN reversers' = Reversers /\ \A r \in Reversers : ReverserFits(reversers[r])'
    <2>1. DOMAIN reversers' = Reversers
      BY DEF Shape
    <2>2. ASSUME NEW r \in Reversers PROVE ReverserFits(reversers[r])'
      <3>1. PICK p : p = reversers'[r]
        OBVIOUS
      <3>2. p = reversers[r] \/ ReverserFits(p)'
        BY <3>1 DEF Shape
      <3>3. ReverserFits(p)'
        BY <1>2, <3>2 DEF Shape
      <3>4. QED BY <3>1, <3>3 DEF ReverserFits
    <2>3. QED BY <2>1, <2>2
  <1>6. QED BY <1>3, <1>4, <1>5

LEMMA IdleFits ==
  /\ Idle.pc = "idle" /\ ResolverFits(Idle) /\ AliaserFits(Idle) /\ ReverserFits(Idle)
  /\ \A id : Links(Idle, id) = {}
  /\ \A d, id : ~Reads(Idle, d, id)
  BY DEF Idle, ResolverFits, AliaserFits, ReverserFits, Links, Reads

\* No other transaction changes what a merge has locked.
LEMMA MergesStay ==
  ASSUME Shape, aliasers' = aliasers,
         \A m \in Locked : m \in DOMAIN entities' /\ entities'[m] = entities[m],
         \A id \in DOMAIN rows : id \in Referred(Aliasers) => id \in DOMAIN rows'
  PROVE  MergesFit'
  <1> SUFFICES ASSUME NEW j \in Aliasers, aliasers[j].pc \in {"count", "delete"}
               PROVE  MergeFits(aliasers[j])'
    BY DEF MergesFit, MergeFits
  <1>1. MergeFits(aliasers[j])
    BY DEF Shape, MergesFit
  <1>2. /\ Repointed(j) = aliasers[j].moved /\ aliasers[j].moved \subseteq Locked
        /\ aliasers[j].moved # {} => To(aliasers[j]) \in Referred(Aliasers)
    BY DEF Repointed, Locked, Referred
  <1>3. From(aliasers[j])' = From(aliasers[j]) /\ To(aliasers[j])' = To(aliasers[j])
    BY DEF From, To
  <1>4. QED BY <1>1, <1>2, <1>3 DEF MergeFits, LinkedTo

LEMMA LockedLinked ==
  ASSUME Shape, NEW m \in Locked
  PROVE  m \in DOMAIN entities /\ m \in Mention /\ entities[m] \in DOMAIN rows
  <1>1. PICK j \in Aliasers : m \in Repointed(j)
    BY DEF Locked
  <1>2. aliasers[j].pc \in {"count", "delete"} /\ m \in aliasers[j].moved
    BY <1>1 DEF Repointed
  <1>3. m \in DOMAIN entities /\ entities[m] = From(aliasers[j])
    BY <1>2 DEF Shape, MergesFit, MergeFits, LinkedTo
  <1>4. From(aliasers[j]) \in RowId
    BY <1>2 DEF Shape, AliaserFits, From
  <1>5. QED BY <1>3, <1>4, NoRowIsNoRow DEF Shape, MentionsFit

LEMMA MergesSame ==
  ASSUME Shape, aliasers' = aliasers, entities' = entities, rows' = rows
  PROVE  MergesFit'
  BY DEF Shape, MergesFit, MergeFits, LinkedTo, From, To

\* A step of a merge that other transactions do not see.
LEMMA MergeGoesOn ==
  ASSUME Shape, NEW j \in Aliasers, NEW q, aliasers' = [aliasers EXCEPT ![j] = q],
         MergeFits(q), entities' = entities, rows' = rows
  PROVE  MergesFit'
  <1>1. \A i \in Aliasers : aliasers'[i] = IF i = j THEN q ELSE aliasers[i]
    BY DEF Shape
  <1>2. \A i \in Aliasers : MergeFits(aliasers[i])
    BY DEF Shape, MergesFit
  <1>3. \A a : MergeFits(a) => MergeFits(a)'
    BY DEF MergeFits, LinkedTo, From, To
  <1>4. ASSUME NEW i \in Aliasers PROVE MergeFits(aliasers[i])'
    <2>1. PICK a : a = aliasers'[i]
      OBVIOUS
    <2>2. MergeFits(a)'
      BY <1>1, <1>2, <1>3, <2>1
    <2>3. QED BY <2>1, <2>2 DEF MergeFits, LinkedTo, From, To
  <1>5. QED BY <1>4 DEF MergesFit

LEMMA SameCreated ==
  ASSUME Shape, created' = created
  PROVE  CreatedGrows
  BY BoundsAreNat DEF Shape, RowsFit, CreatedGrows

(***************************************************************************)
(* Steps that add no charge                                                *)
(***************************************************************************)
LEMMA RowsStay ==
  ASSUME Shape, rows' = rows, created' = created
  PROVE  RowsFit'
  BY DEF Shape, RowsFit, Known

LEMMA ChargesFall ==
  ASSUME IInv, rows' = rows, created' = created, MentionsFit', MergesFit',
         \/ resolvers' = resolvers
         \/ \E h \in Resolvers : \E q : resolvers' = [resolvers EXCEPT ![h] = q] /\ ResolverFits(q)',
         \/ aliasers' = aliasers
         \/ \E j \in Aliasers : \E q : aliasers' = [aliasers EXCEPT ![j] = q] /\ AliaserFits(q),
         \/ reversers' = reversers
         \/ \E r \in Reversers : \E q : reversers' = [reversers EXCEPT ![r] = q] /\ ReverserFits(q)',
         overlapped' \in BOOLEAN, ~overlapped' => ~overlapped /\ Lone',
         ~overlapped => \A j \in Aliasers : AddCovers(aliasers'[j]),
         \A id \in DOMAIN rows, d \in Docs : Of(entities', id, d) \subseteq Of(entities, id, d),
         \A id \in DOMAIN rows, d \in Docs, r \in Reversers : Reads(reversers'[r], d, id) =>
            \/ Reads(reversers[r], d, id) /\ reversers'[r].count[id] = reversers[r].count[id]
            \/ /\ Of(entities, id, d) # {}
               /\ reversers'[r].count[id] = Cardinality(Of(entities, id, d)),
         \A id \in DOMAIN rows, h \in Resolvers : Links(resolvers'[h], id) \subseteq Links(resolvers[h], id)
  PROVE  IInv'
  <1>1. Shape
    BY DEF IInv
  <1>2. Shape'
    BY <1>1, SameCreated, RunsFit, RowsStay DEF Shape
  <1>3. DOMAIN entities \subseteq Mention /\ DOMAIN entities' \subseteq Mention
    BY <1>1, <1>2 DEF Shape, MentionsFit
  <1>4. ASSUME ~overlapped', NEW id \in DOMAIN rows
        PROVE  Covers(rows[id], entities', reversers', resolvers', id)
    <2>1. Covers(rows[id], entities, reversers, resolvers, id)
      BY <1>4 DEF IInv, Covered
    <2>2. Falls(entities, entities', reversers, reversers', resolvers, resolvers', id)
      BY DEF Falls
    <2>3. QED BY <1>3, <2>1, <2>2, CoversKept
  <1>5. ASSUME ~overlapped' PROVE \A j \in Aliasers : AddCovers(aliasers[j])'
    BY <1>5 DEF AddCovers
  <1>6. Covered'
    BY <1>4, <1>5 DEF Covered
  <1>7. QED BY <1>2, <1>6 DEF IInv

\* The runs of alias resolution stay as they are.
LEMMA AddsStay ==
  ASSUME IInv, aliasers' = aliasers
  PROVE  ~overlapped => \A j \in Aliasers : AddCovers(aliasers'[j])
  BY DEF IInv, Covered

LEMMA PersistStep ==
  ASSUME IInv, NEW d \in Docs, PersistBatch(d)
  PROVE  IInv'
  <1>1. PICK g : g = extracted[d] + 1
    OBVIOUS
  <1>2. PICK T \in SUBSET Texts \ {{}} :
           entities' = [m \in DOMAIN entities \cup ({d} \X T \X {g}) |->
                           IF m[3] = g /\ m[1] = d THEN NoRow ELSE entities[m]]
    BY <1>1 DEF PersistBatch
  <1>3. /\ rows' = rows /\ created' = created /\ resolvers' = resolvers /\ aliasers' = aliasers
        /\ reversers' = reversers /\ overlapped' = overlapped
        /\ g <= MaxBatches /\ extracted' = [extracted EXCEPT ![d] = g]
    BY <1>1 DEF PersistBatch
  <1>4. extracted \in [Docs -> 0 .. MaxBatches] /\ overlapped \in BOOLEAN /\ MaxBatches \in Nat
    BY BoundsAreNat DEF IInv, Shape, MentionsFit
  <1>5. g \in 1 .. MaxBatches /\ extracted[d] < g
    BY <1>1, <1>3, <1>4
  <1>6. ASSUME NEW m \in DOMAIN entities'
        PROVE  /\ m \in Mention /\ m[3] <= extracted'[m[1]]
               /\ entities'[m] \in DOMAIN rows \cup {NoRow}
    <2>1. CASE m \in {d} \X T \X {g}
      <3>1. m \in Mention /\ m[1] = d /\ m[3] = g
        BY <1>5, <2>1 DEF Mention
      <3>2. QED BY <1>2, <1>3, <1>4, <1>5, <3>1
    <2>2. CASE m \in DOMAIN entities
      <3>1. /\ m \in Mention /\ m[3] <= extracted[m[1]]
            /\ entities[m] \in DOMAIN rows \cup {NoRow}
        BY <2>2 DEF IInv, Shape, MentionsFit
      <3>2. m[1] \in Docs /\ m[3] \in Nat
        BY <3>1, <1>4 DEF Mention
      <3>3. extracted[m[1]] <= extracted'[m[1]] /\ extracted[m[1]] \in Nat /\ extracted'[m[1]] \in Nat
        BY <1>3, <1>4, <1>5, <3>2
      <3>4. QED BY <1>2, <2>2, <3>1, <3>2, <3>3
    <2>3. QED BY <1>2, <2>1, <2>2
  <1>7. MentionsFit'
    BY <1>3, <1>4, <1>5, <1>6 DEF MentionsFit
  <1>8. \A id \in DOMAIN rows : id # NoRow
    BY NoRowIsNoRow DEF IInv, Shape, RowsFit, Known
  <1>9. ASSUME NEW id \in DOMAIN rows, NEW b \in Docs
        PROVE  Of(entities', id, b) \subseteq Of(entities, id, b)
    BY <1>2, <1>5, <1>8 DEF Of, Mention
  <1>10. ~overlapped' => ~overlapped /\ Lone'
    BY <1>3 DEF IInv, Covered, Lone
  <1>11. MergesFit'
    <2>1. ASSUME NEW m \in Locked PROVE m \in DOMAIN entities' /\ entities'[m] = entities[m]
      <3>1. m \in DOMAIN entities /\ m \in Mention /\ m[3] <= extracted[m[1]]
        BY LockedLinked DEF IInv, Shape, MentionsFit
      <3>2. ~(m[3] = g /\ m[1] = d)
        BY <1>4, <1>5, <3>1 DEF Mention
      <3>3. QED BY <1>2, <3>1, <3>2
    <2>2. QED BY <1>3, <2>1, MergesStay DEF IInv
  <1>12. QED BY <1>3, <1>4, <1>7, <1>9, <1>10, <1>11, AddsStay, ChargesFall DEF Reads

\* Mentions go.
LEMMA MentionsGone ==
  ASSUME Shape, NEW D, entities' = Without(entities, D), rows' = rows, extracted' = extracted
  PROVE  /\ MentionsFit'
         /\ \A id, d : Of(entities', id, d) \subseteq Of(entities, id, d)
  <1>1. /\ DOMAIN entities' \subseteq DOMAIN entities
        /\ \A m \in DOMAIN entities' : entities'[m] = entities[m]
    BY DEF Without, Restrict
  <1>2. QED BY <1>1 DEF Shape, MentionsFit, Of

LEMMA LockedStay ==
  ASSUME Shape, NEW D, D \cap Locked = {}, entities' = Without(entities, D), rows' = rows,
         aliasers' = aliasers
  PROVE  MergesFit'
  <1>1. \A m \in Locked : m \in DOMAIN entities' /\ entities'[m] = entities[m]
    BY LockedLinked DEF Without, Restrict
  <1>2. QED BY <1>1, MergesStay

LEMMA SameMentions ==
  ASSUME Shape, entities' = entities, rows' = rows, extracted' = extracted
  PROVE  /\ MentionsFit'
         /\ \A id, d : Of(entities', id, d) \subseteq Of(entities, id, d)
  BY DEF Shape, MentionsFit

LEMMA ReplaceStep ==
  ASSUME IInv, NEW d \in Docs, ReplaceChunks(d)
  PROVE  IInv'
  <1>1. /\ rows' = rows /\ created' = created /\ resolvers' = resolvers /\ aliasers' = aliasers
        /\ reversers' = reversers /\ overlapped' = overlapped /\ extracted' = extracted
        /\ entities' = Without(entities, MentionsOf(d)) /\ MentionsOf(d) \cap Locked = {}
    BY DEF ReplaceChunks
  <1>2. /\ MentionsFit'
        /\ \A id, b : Of(entities', id, b) \subseteq Of(entities, id, b)
    BY <1>1, MentionsGone DEF IInv
  <1>3. overlapped' \in BOOLEAN /\ (~overlapped' => ~overlapped /\ Lone')
    BY <1>1 DEF IInv, Shape, Covered, Lone
  <1>4. MergesFit'
    BY <1>1, LockedStay DEF IInv
  <1>5. QED BY <1>1, <1>2, <1>3, <1>4, AddsStay, ChargesFall DEF Reads

\* A canonicalization takes a step that counts and links nothing.
LEMMA ResolverStep ==
  ASSUME IInv, NEW h \in Resolvers, NEW q, resolvers' = [resolvers EXCEPT ![h] = q],
         ResolverFits(q), \A id : Links(q, id) = {},
         UNCHANGED <<rows, created, entities, extracted, aliasers, reversers, overlapped>>
  PROVE  IInv'
  <1>1. /\ rows' = rows /\ created' = created /\ aliasers' = aliasers /\ entities' = entities
        /\ reversers' = reversers /\ overlapped' = overlapped /\ extracted' = extracted
    OBVIOUS
  <1>2. /\ MentionsFit'
        /\ \A id, b : Of(entities', id, b) \subseteq Of(entities, id, b)
    BY <1>1, SameMentions DEF IInv
  <1>3. overlapped' \in BOOLEAN /\ (~overlapped' => ~overlapped /\ Lone')
    BY <1>1 DEF IInv, Shape, Covered, Lone
  <1>4. ResolverFits(q)'
    BY <1>1 DEF ResolverFits, Known
  <1>5. \A g \in Resolvers : resolvers'[g] = IF g = h THEN q ELSE resolvers[g]
    BY DEF IInv, Shape
  <1>6. \A id : \A g \in Resolvers : Links(resolvers'[g], id) \subseteq Links(resolvers[g], id)
    BY <1>5
  <1>7. MergesFit'
    BY <1>1, MergesSame DEF IInv
  <1>8. QED BY <1>1, <1>2, <1>3, <1>4, <1>6, <1>7, AddsStay, ChargesFall DEF Reads

LEMMA ListStep ==
  ASSUME IInv, NEW h \in Resolvers, NEW d \in Docs, ResolveList(h, d)
  PROVE  IInv'
  <1>1. PICK P : P = {m \in MentionsOf(d) : entities[m] = NoRow}
    OBVIOUS
  <1>2. P \subseteq Mention /\ \A m \in P : m[1] = d
    BY <1>1 DEF IInv, Shape, MentionsFit, MentionsOf
  <1>3. PICK q : q = [pc |-> "canonicalize", pending |-> P]
    OBVIOUS
  <1>4. ResolverFits(q) /\ \A id : Links(q, id) = {}
    BY <1>2, <1>3 DEF ResolverFits, Links
  <1>5. QED BY <1>1, <1>3, <1>4, ResolverStep DEF ResolveList

LEMMA ResolverLostStep ==
  ASSUME IInv, NEW h \in Resolvers, ResolverLost(h)
  PROVE  IInv'
  BY IdleFits, ResolverStep DEF ResolverLost

\* A step of an alias run that other transactions do not see.
LEMMA AliaserStep ==
  ASSUME IInv, NEW j \in Aliasers, NEW q, aliasers' = [aliasers EXCEPT ![j] = q],
         AliaserFits(q), MergeFits(q), ~overlapped => AddCovers(q),
         UNCHANGED <<rows, created, entities, extracted, resolvers, reversers, overlapped>>
  PROVE  IInv'
  <1>1. /\ rows' = rows /\ created' = created /\ resolvers' = resolvers /\ entities' = entities
        /\ reversers' = reversers /\ overlapped' = overlapped /\ extracted' = extracted
    OBVIOUS
  <1>2. /\ MentionsFit'
        /\ \A id, b : Of(entities', id, b) \subseteq Of(entities, id, b)
    BY <1>1, SameMentions DEF IInv
  <1>3. overlapped' \in BOOLEAN /\ (~overlapped' => ~overlapped /\ Lone')
    BY <1>1 DEF IInv, Shape, Covered, Lone
  <1>4. MergesFit'
    BY <1>1, MergeGoesOn DEF IInv
  <1>5. ~overlapped => \A i \in Aliasers : AddCovers(aliasers'[i])
    BY DEF IInv, Shape, Covered
  <1>6. QED BY <1>1, <1>2, <1>3, <1>4, <1>5, ChargesFall DEF Reads

LEMMA AliasReadStep ==
  ASSUME IInv, NEW j \in Aliasers, AliasRead(j)
  PROVE  IInv'
  <1>1. PICK ce \in DOMAIN rows : \E C \in SUBSET AliasCandidates(ce) :
           \E from \in [C -> C \cup {ce}] :
             /\ \A c \in C : from[c] \in {c, ce}
             /\ aliasers' = [aliasers EXCEPT ![j] = [pc |-> "merge", ce |-> ce, from |-> from]]
    BY DEF AliasRead
  <1>2. PICK C \in SUBSET AliasCandidates(ce) : \E from \in [C -> C \cup {ce}] :
             /\ \A c \in C : from[c] \in {c, ce}
             /\ aliasers' = [aliasers EXCEPT ![j] = [pc |-> "merge", ce |-> ce, from |-> from]]
    BY <1>1
  <1>3. PICK from \in [C -> C \cup {ce}] :
             /\ \A c \in C : from[c] \in {c, ce}
             /\ aliasers' = [aliasers EXCEPT ![j] = [pc |-> "merge", ce |-> ce, from |-> from]]
    BY <1>2
  <1>4. PICK q : q = [pc |-> "merge", ce |-> ce, from |-> from]
    OBVIOUS
  <1>5. DOMAIN rows \subseteq RowId
    BY DEF IInv, Shape, RowsFit, Known
  <1>6. AliaserFits(q) /\ MergeFits(q) /\ AddCovers(q)
    BY <1>3, <1>4, <1>5 DEF AliaserFits, MergeFits, AddCovers, AliasCandidates
  <1>7. QED BY <1>3, <1>4, <1>6, AliaserStep DEF AliasRead

LEMMA MergeRepointStep ==
  ASSUME IInv, NEW j \in Aliasers, MergeRepoint(j)
  PROVE  IInv'
  <1>1. PICK a : a = aliasers[j]
    OBVIOUS
  <1>2. AliaserFits(a) /\ a.pc = "merge"
    BY <1>1 DEF MergeRepoint, IInv, Shape
  <1>3. PICK c \in DOMAIN a.from :
           LET merge == [pc |-> "count", ce |-> a.ce, from |-> a.from, c |-> c,
                         moved |-> LinkedTo(a.from[c])]
               fails == merge.moved # {} /\ To(merge) \notin DOMAIN rows
           IN  aliasers' = [aliasers EXCEPT ![j] = IF fails THEN Idle ELSE merge]
    BY <1>1 DEF MergeRepoint
  <1>4. PICK merge : merge = [pc |-> "count", ce |-> a.ce, from |-> a.from, c |-> c,
                              moved |-> LinkedTo(a.from[c])]
    OBVIOUS
  <1>5. PICK q : q = IF merge.moved # {} /\ To(merge) \notin DOMAIN rows THEN Idle ELSE merge
    OBVIOUS
  <1>6. AliaserFits(merge) /\ AddCovers(merge)
    BY <1>2, <1>4 DEF AliaserFits, AddCovers
  <1>7. From(merge) = a.from[c] /\ merge.moved = LinkedTo(From(merge))
    BY <1>4 DEF From
  <1>8. MergeFits(q)
    BY <1>5, <1>7, IdleFits DEF MergeFits
  <1>9. AliaserFits(q) /\ AddCovers(q)
    BY <1>5, <1>6, IdleFits DEF AddCovers
  <1>10. aliasers' = [aliasers EXCEPT ![j] = q]
    BY <1>3, <1>4, <1>5
  <1>11. QED BY <1>8, <1>9, <1>10, AliaserStep DEF MergeRepoint

\* A row's counts cover any mentions linked to it.
LEMMA LinkedAreSlots ==
  ASSUME NEW e, DOMAIN e \subseteq Mention, NEW R, NEW S, NEW id, NEW row,
         Covers(row, e, R, S, id), NEW M, M \subseteq {m \in DOMAIN e : e[m] = id}
  PROVE  Charged(row.mentions, Slots(M), {}) /\ Charged(row.documents, {m[1] : m \in M}, {})
  <1>1. ASSUME NEW d PROVE Cardinality({m \in M : m[1] = d}) <= Cardinality(Of(e, id, d))
    <2>1. {m \in M : m[1] = d} \subseteq Of(e, id, d)
      BY DEF Of
    <2>2. QED BY <2>1, OfFinite, FS_Subset
  <1>2. ASSUME NEW d
        PROVE  Cardinality({m \in M : m[1] = d}) \in Nat /\ Cardinality(Of(e, id, d)) \in Nat
    <2>1. {m \in M : m[1] = d} \subseteq Of(e, id, d)
      BY DEF Of
    <2>2. QED BY <2>1, OfFinite, FS_Subset, FS_CardinalityType
  <1>3. Slots(M) \subseteq Held(e, R, id)
    <2>1. ASSUME NEW p \in Slots(M) PROVE p \in Held(e, R, id)
      <3>1. /\ p \in Docs \X (Nat \ {0}) /\ p[2] \in Nat
            /\ p[2] <= Cardinality({m \in M : m[1] = p[1]})
        BY DEF Slots
      <3>2. p[2] <= Cardinality(Of(e, id, p[1]))
        BY <1>1, <1>2, <3>1
      <3>3. QED BY <3>1, <3>2 DEF Held
    <2>2. QED BY <2>1
  <1>4. {m[1] : m \in M} \subseteq HeldDocs(e, R, id)
    BY DEF HeldDocs, Of, Mention
  <1>5. QED BY <1>3, <1>4, ChargedLess DEF Covers

LEMMA MergeCountStep ==
  ASSUME IInv, NEW j \in Aliasers, MergeCount(j)
  PROVE  IInv'
  <1>1. PICK a : a = aliasers[j]
    OBVIOUS
  <1>2. PICK add : add = IF From(a) \in DOMAIN rows THEN rows[From(a)]
                         ELSE [mentions |-> 0, documents |-> 0]
    OBVIOUS
  <1>3. PICK q : q = [pc |-> "delete", ce |-> a.ce, from |-> a.from, c |-> a.c,
                      moved |-> a.moved, add |-> add]
    OBVIOUS
  <1>4. a.pc = "count" /\ aliasers' = [aliasers EXCEPT ![j] = q]
    BY <1>1, <1>2, <1>3 DEF MergeCount
  <1>5. AliaserFits(a) /\ MergeFits(a)
    BY <1>1 DEF IInv, Shape, MergesFit
  <1>6. add.mentions \in Nat /\ add.documents \in Int
    BY <1>2 DEF IInv, Shape, RowsFit
  <1>7. AliaserFits(q)
    BY <1>3, <1>4, <1>5, <1>6 DEF AliaserFits
  <1>8. From(q) = From(a) /\ To(q) = To(a)
    BY <1>3 DEF From, To
  <1>9. MergeFits(q)
    BY <1>3, <1>4, <1>5, <1>8 DEF MergeFits
  <1>10. ASSUME ~overlapped PROVE AddCovers(q)
    <2>1. a.moved \subseteq {m \in DOMAIN entities : entities[m] = From(a)}
      BY <1>4, <1>5 DEF MergeFits, LinkedTo
    <2>2. CASE From(a) \in DOMAIN rows
      <3>1. Covers(rows[From(a)], entities, reversers, resolvers, From(a))
        BY <1>10, <2>2 DEF IInv, Covered
      <3>2. DOMAIN entities \subseteq Mention
        BY DEF IInv, Shape, MentionsFit
      <3>3. /\ Charged(rows[From(a)].mentions, Slots(a.moved), {})
            /\ Charged(rows[From(a)].documents, {m[1] : m \in a.moved}, {})
        <4>1. PICK id, row, M : id = From(a) /\ row = rows[id] /\ M = a.moved
          OBVIOUS
        <4>2. M \subseteq {m \in DOMAIN entities : entities[m] = id}
          BY <2>1, <4>1
        <4>3. Covers(row, entities, reversers, resolvers, id)
          BY <3>1, <4>1
        <4>4. Charged(row.mentions, Slots(M), {}) /\ Charged(row.documents, {m[1] : m \in M}, {})
          BY <3>2, <4>2, <4>3, LinkedAreSlots
        <4>5. QED BY <4>1, <4>4
      <3>4. QED BY <1>2, <1>3, <2>2, <3>3 DEF AddCovers
    <2>3. CASE From(a) \notin DOMAIN rows
      <3>1. From(a) # NoRow
        BY <1>4, <1>5, NoRowIsNoRow DEF AliaserFits, From
      <3>2. a.moved = {}
        BY <2>1, <2>3, <3>1 DEF IInv, Shape, MentionsFit
      <3>3. {m[1] : m \in a.moved} = {}
        BY <3>2
      <3>4. Slots(a.moved) = {}
        <4>1. \A d : {m \in a.moved : m[1] = d} = {}
          BY <3>2
        <4>2. \A d : Cardinality({m \in a.moved : m[1] = d}) = 0
          BY <4>1, FS_EmptySet
        <4>3. ASSUME NEW p \in Slots(a.moved) PROVE FALSE
          <5>1. PICK k : k = Cardinality({m \in a.moved : m[1] = p[1]})
            OBVIOUS
          <5>2. p[2] \in Nat \ {0} /\ p[2] <= k
            BY <5>1 DEF Slots
          <5>3. k = 0
            BY <4>2, <5>1
          <5>4. QED BY <5>2, <5>3
        <4>4. QED BY <4>3
      <3>5. q.add = [mentions |-> 0, documents |-> 0] /\ q.moved = a.moved
        BY <1>2, <1>3, <2>3
      <3>6. QED BY <3>3, <3>4, <3>5, NothingCharged DEF AddCovers
    <2>4. QED BY <2>2, <2>3
  <1>11. QED BY <1>4, <1>7, <1>9, <1>10, AliaserStep DEF MergeCount

LEMMA MergeFailsStep ==
  ASSUME IInv, NEW j \in Aliasers, MergeFails(j)
  PROVE  IInv'
  BY IdleFits, AliaserStep DEF MergeFails, MergeFits, AddCovers

LEMMA ReverseReadStep ==
  ASSUME IInv, NEW r \in Reversers, NEW d \in Docs, ReverseRead(r, d)
  PROVE  IInv'
  <1>1. /\ rows' = rows /\ created' = created /\ resolvers' = resolvers /\ entities' = entities
        /\ aliasers' = aliasers /\ extracted' = extracted
        /\ reversers[r].pc = "idle"
        /\ overlapped' = (overlapped \/ \E q \in Reversers :
                             reversers[q].pc = "apply" /\ reversers[q].doc = d)
    BY DEF ReverseRead
  <1>2. PICK C : C = Range(Restrict(entities, MentionsOf(d))) \ {NoRow}
    OBVIOUS
  <1>3. PICK count : count = [id \in C |-> Cardinality(LinkedTo(id) \cap MentionsOf(d))]
    OBVIOUS
  <1>4. PICK q : q = [pc |-> "apply", doc |-> d, count |-> count]
    OBVIOUS
  <1>5. reversers' = [reversers EXCEPT ![r] = q] /\ DOMAIN reversers = Reversers
    BY <1>2, <1>3, <1>4 DEF ReverseRead, IInv, Shape
  <1>6. DOMAIN entities \subseteq Mention
    BY DEF IInv, Shape, MentionsFit
  <1>7. ASSUME NEW id \in C
        PROVE  /\ id \in DOMAIN rows /\ Of(entities, id, d) # {}
               /\ count[id] = Cardinality(Of(entities, id, d)) /\ count[id] \in Nat \ {0}
    <2>1. PICK m \in MentionsOf(d) : entities[m] = id
      BY <1>2 DEF Range, Restrict, MentionsOf
    <2>2. m \in Of(entities, id, d) /\ id \in DOMAIN rows
      BY <1>2, <2>1 DEF Of, MentionsOf, IInv, Shape, MentionsFit
    <2>3. LinkedTo(id) \cap MentionsOf(d) = Of(entities, id, d)
      BY DEF LinkedTo, MentionsOf, Of
    <2>4. count[id] = Cardinality(Of(entities, id, d))
      BY <1>3, <2>3
    <2>5. count[id] # 0 /\ count[id] \in Nat
      BY <1>6, <2>2, <2>4, OfFinite, FS_EmptySet
    <2>6. QED BY <2>2, <2>4, <2>5
  <1>8. ReverserFits(q)'
    <2>1. \A id \in DOMAIN rows : Known(id)'
      BY <1>1 DEF IInv, Shape, RowsFit, Known
    <2>2. QED BY <1>3, <1>4, <1>7, <2>1 DEF ReverserFits
  <1>9. ASSUME NEW id \in DOMAIN rows, NEW b \in Docs, NEW p \in Reversers, Reads(reversers'[p], b, id)
        PROVE  \/ Reads(reversers[p], b, id) /\ reversers'[p].count[id] = reversers[p].count[id]
               \/ /\ Of(entities, id, b) # {}
                  /\ reversers'[p].count[id] = Cardinality(Of(entities, id, b))
    <2>1. CASE p = r
      BY <1>3, <1>4, <1>5, <1>7, <1>9, <2>1 DEF Reads
    <2>2. CASE p # r
      BY <1>5, <1>9, <2>2
    <2>3. QED BY <2>1, <2>2
  <1>10. ASSUME ~overlapped' PROVE ~overlapped /\ Lone'
    <2>1. ~overlapped /\ \A p \in Reversers : ~(reversers[p].pc = "apply" /\ reversers[p].doc = d)
      BY <1>1, <1>10
    <2>2. Lone
      BY <2>1 DEF IInv, Covered
    <2>3. \A p \in Reversers : reversers'[p] = IF p = r THEN q ELSE reversers[p]
      BY <1>5
    <2>4. QED BY <1>4, <2>1, <2>2, <2>3 DEF Lone
  <1>11. /\ MentionsFit'
         /\ \A id, b : Of(entities', id, b) \subseteq Of(entities, id, b)
    BY <1>1, SameMentions DEF IInv
  <1>12. overlapped' \in BOOLEAN
    BY <1>1 DEF IInv, Shape
  <1>13. MergesFit'
    BY <1>1, MergesSame DEF IInv
  <1>14. QED
    BY <1>1, <1>5, <1>8, <1>9, <1>10, <1>11, <1>12, <1>13, AddsStay, ChargesFall

\* A reversal ends.
LEMMA ReverserEnds ==
  ASSUME IInv, NEW r \in Reversers, reversers' = [reversers EXCEPT ![r] = Idle], MentionsFit', MergesFit',
         UNCHANGED <<rows, created, resolvers, aliasers, overlapped>>,
         \A id, b : Of(entities', id, b) \subseteq Of(entities, id, b)
  PROVE  IInv'
  <1>1. \A p \in Reversers : reversers'[p] = IF p = r THEN Idle ELSE reversers[p]
    BY DEF IInv, Shape
  <1>2. ReverserFits(Idle)'
    BY DEF ReverserFits, Idle
  <1>3. \A p \in Reversers : \A b, id : Reads(reversers'[p], b, id) =>
           Reads(reversers[p], b, id) /\ reversers'[p].count[id] = reversers[p].count[id]
    BY <1>1, IdleFits
  <1>4. Lone => Lone'
    BY <1>1, IdleFits DEF Lone
  <1>5. overlapped' \in BOOLEAN /\ (~overlapped' => ~overlapped /\ Lone')
    BY <1>4 DEF IInv, Shape, Covered
  <1>6. /\ rows' = rows /\ created' = created /\ resolvers' = resolvers /\ aliasers' = aliasers
    OBVIOUS
  <1>7. \E p \in Reversers : \E q : reversers' = [reversers EXCEPT ![p] = q] /\ ReverserFits(q)'
    BY <1>2
  <1>8. \A id \in DOMAIN rows, d \in Docs, p \in Reversers : Reads(reversers'[p], d, id) =>
           \/ Reads(reversers[p], d, id) /\ reversers'[p].count[id] = reversers[p].count[id]
           \/ /\ Of(entities, id, d) # {}
              /\ reversers'[p].count[id] = Cardinality(Of(entities, id, d))
    BY <1>3
  <1>9. \A id \in DOMAIN rows, d \in Docs : Of(entities', id, d) \subseteq Of(entities, id, d)
    OBVIOUS
  <1>10. \A id \in DOMAIN rows, h \in Resolvers : Links(resolvers'[h], id) \subseteq Links(resolvers[h], id)
    BY <1>6
  <1>11. QED BY <1>5, <1>6, <1>7, <1>8, <1>9, <1>10, AddsStay, ChargesFall

LEMMA ReverseClearStep ==
  ASSUME IInv, NEW r \in Reversers, ReverseClear(r)
  PROVE  IInv'
  BY MentionsGone, LockedStay, ReverserEnds DEF ReverseClear, IInv

LEMMA ReverserLostStep ==
  ASSUME IInv, NEW r \in Reversers, ReverserLost(r)
  PROVE  IInv'
  BY SameMentions, MergesSame, ReverserEnds DEF ReverserLost, IInv

(***************************************************************************)
(* Linking                                                                 *)
(***************************************************************************)
\* Mentions of one document are linked.
LEMMA HeldMore ==
  ASSUME NEW e, NEW f, DOMAIN e \subseteq Mention, DOMAIN f \subseteq Mention,
         NEW R, NEW id, NEW d, NEW L, IsFiniteSet(L),
         \A b \in Docs : b # d => Of(f, id, b) \subseteq Of(e, id, b),
         Of(f, id, d) \subseteq Of(e, id, d) \cup L
  PROVE  LET a == Cardinality(Of(e, id, d))
         IN  Held(f, R, id) \subseteq Held(e, R, id) \cup Numbered(d, a, Cardinality(L))
  <1> DEFINE a == Cardinality(Of(e, id, d))
  <1>1. a \in Nat /\ Cardinality(L) \in Nat
    BY OfFinite, FS_CardinalityType
  <1>2. ASSUME NEW p \in Held(f, R, id), p \notin Held(e, R, id)
        PROVE  p \in Numbered(d, a, Cardinality(L))
    <2>1. p \in Docs \X (Nat \ {0}) /\ p[1] \in Docs /\ p[2] \in Nat /\ p = <<p[1], p[2]>>
      BY DEF Held
    <2>2. p[2] <= Cardinality(Of(f, id, p[1])) /\ ~(p[2] <= Cardinality(Of(e, id, p[1])))
      BY <1>2, <2>1 DEF Held
    <2>3. Cardinality(Of(f, id, p[1])) \in Nat /\ Cardinality(Of(e, id, p[1])) \in Nat
      BY OfFinite
    <2>4. CASE p[1] = d
      <3>1. Cardinality(Of(f, id, d)) <= a + Cardinality(L)
        BY OfFinite, UnionBound
      <3>2. ~(p[2] <= a) /\ p[2] <= Cardinality(Of(f, id, d)) /\ Cardinality(Of(f, id, d)) \in Nat
        BY <2>2, <2>3, <2>4
      <3>3. p[2] \in (a + 1) .. (a + Cardinality(L))
        BY <1>1, <2>1, <3>1, <3>2
      <3>4. QED BY <2>1, <2>4, <3>3 DEF Numbered
    <2>5. CASE p[1] # d
      <3>1. Of(f, id, p[1]) \subseteq Of(e, id, p[1]) /\ IsFiniteSet(Of(e, id, p[1]))
        BY <2>1, <2>5, OfFinite
      <3>2. Cardinality(Of(f, id, p[1])) <= Cardinality(Of(e, id, p[1]))
        BY <3>1, FS_Subset
      <3>3. QED BY <2>1, <2>2, <2>3, <3>2
    <2>6. QED BY <2>4, <2>5
  <1>3. QED BY <1>2

LEMMA CoversLinked ==
  ASSUME NEW row, NEW e, NEW f, DOMAIN e \subseteq Mention, DOMAIN f \subseteq Mention,
         NEW R, NEW S, NEW h \in Resolvers, NEW id, NEW d, Covers(row, e, R, S, id),
         \A b \in Docs : b # d => Of(f, id, b) \subseteq Of(e, id, b),
         Of(f, id, d) \subseteq Of(e, id, d) \cup Links(S[h], id),
         NEW T, \A g \in Resolvers : T[g] = IF g = h THEN Idle ELSE S[g]
  PROVE  Covers(row, f, R, T, id)
  <1> DEFINE L == Links(S[h], id)
             a == Cardinality(Of(e, id, d))
             X == Numbered(d, a, Cardinality(L))
             Y == {h} \X L
             XD == IF L = {} THEN {} ELSE {d}
             YD == IF L = {} THEN {} ELSE {h}
  <1>1. IsFiniteSet(L) /\ Cardinality(L) \in Nat /\ a \in Nat
    BY LinksFinite, OfFinite
  <1>2. IsFiniteSet(X) /\ Cardinality(X) = Cardinality(L) /\ Cardinality(Y) = Cardinality(L)
    <2>1. IsFiniteSet(X) /\ Cardinality(X) = Cardinality(L)
      <3> HIDE DEF a, L
      <3>1. QED BY <1>1, Block
    <2>2. Cardinality(Y) = Cardinality(L)
      BY <1>1, Tagged
    <2>3. QED BY <2>1, <2>2
  <1>3. Held(f, R, id) \subseteq Held(e, R, id) \cup X
    BY <1>1, HeldMore
  <1>4. Links(Idle, id) = {}
    BY IdleFits
  <1>5. Pending(T, id) \cup Y \subseteq Pending(S, id) /\ Pending(T, id) \cap Y = {}
    BY <1>4 DEF Pending, Links
  <1>6. Charged(row.mentions, Held(f, R, id), Pending(T, id))
    <2> HIDE DEF X, Y
    <2>1. Cardinality(X) <= Cardinality(Y)
      BY <1>1, <1>2
    <2>2. QED BY <1>2, <1>3, <1>5, <2>1, ChargedMoved DEF Covers
  <1>7. HeldDocs(f, R, id) \subseteq HeldDocs(e, R, id) \cup XD
    BY DEF HeldDocs
  <1>8. PendingRuns(T, id) \cup YD \subseteq PendingRuns(S, id) /\ PendingRuns(T, id) \cap YD = {}
    BY <1>4 DEF PendingRuns
  <1>9. IsFiniteSet(XD) /\ Cardinality(XD) <= Cardinality(YD)
    <2>1. CASE L = {}
      BY <2>1, FS_EmptySet
    <2>2. CASE L # {}
      <3>1. XD = {d} /\ YD = {h}
        BY <2>2
      <3>2. /\ IsFiniteSet({d}) /\ Cardinality({d}) = 1
            /\ Cardinality({h}) = 1
        BY FS_Singleton
      <3> HIDE DEF XD, YD
      <3>3. QED BY <3>1, <3>2
    <2>3. QED BY <2>1, <2>2
  <1>10. Charged(row.documents, HeldDocs(f, R, id), PendingRuns(T, id))
    <2> HIDE DEF XD, YD
    <2>1. QED BY <1>7, <1>8, <1>9, ChargedMoved DEF Covers
  <1>11. QED BY <1>6, <1>10 DEF Covers

LEMMA LinkStep ==
  ASSUME IInv, NEW h \in Resolvers, Link(h)
  PROVE  IInv'
  <1>1. PICK resolved : resolved = resolvers[h].resolved
    OBVIOUS
  <1>2. PICK live : live = DOMAIN resolved \cap DOMAIN entities
    OBVIOUS
  <1>3. /\ rows' = rows /\ created' = created /\ reversers' = reversers /\ aliasers' = aliasers
        /\ extracted' = extracted /\ overlapped' = overlapped
        /\ resolvers[h].pc = "link" /\ resolvers' = [resolvers EXCEPT ![h] = Idle]
        /\ live \cap Locked = {}
        /\ entities' = IF \A m \in live : resolved[m] \in DOMAIN rows
                       THEN [m \in DOMAIN entities |->
                                IF m \in live THEN resolved[m] ELSE entities[m]]
                       ELSE entities
    BY <1>1, <1>2 DEF Link
  <1>4. CASE ~ \A m \in live : resolved[m] \in DOMAIN rows
    BY <1>3, <1>4, IdleFits, ResolverStep
  <1>5. CASE \A m \in live : resolved[m] \in DOMAIN rows
    <2>1. entities' = [m \in DOMAIN entities |-> IF m \in live THEN resolved[m] ELSE entities[m]]
      BY <1>3, <1>5
    <2>2. MentionsFit'
      BY <1>3, <1>5, <2>1 DEF IInv, Shape, MentionsFit
    <2>3. ResolverFits(Idle)' /\ CreatedGrows
      BY <1>3, SameCreated DEF ResolverFits, Idle, IInv
    <2>4. Shape'
      <3>1. \A m \in Locked : m \in DOMAIN entities' /\ entities'[m] = entities[m]
        BY <1>3, <2>1, LockedLinked DEF IInv
      <3>2. MergesFit'
        BY <1>3, <3>1, MergesStay DEF IInv
      <3>3. QED BY <1>3, <2>2, <2>3, <3>2, RunsFit, RowsStay DEF IInv, Shape
    <2>5. DOMAIN entities \subseteq Mention /\ DOMAIN entities' \subseteq Mention
      BY <2>1 DEF IInv, Shape, MentionsFit
    <2>6. \A g \in Resolvers : resolvers'[g] = IF g = h THEN Idle ELSE resolvers[g]
      BY <1>3 DEF IInv, Shape
    <2>7. ResolverFits(resolvers[h])
      BY DEF IInv, Shape
    <2>8. PICK d \in Docs : \A m \in DOMAIN resolved : m[1] = d
      BY <1>1, <1>3, <2>7 DEF ResolverFits
    <2>9. ASSUME ~overlapped', NEW id \in DOMAIN rows
          PROVE  Covers(rows[id], entities', reversers', resolvers', id)
      <3>1. Covers(rows[id], entities, reversers, resolvers, id)
        BY <1>3, <2>9 DEF IInv, Covered
      <3>2. \A b \in Docs : b # d => Of(entities', id, b) \subseteq Of(entities, id, b)
        BY <1>2, <2>1, <2>8 DEF Of
      <3>3. Of(entities', id, d) \subseteq Of(entities, id, d) \cup Links(resolvers[h], id)
        <4>1. SUFFICES ASSUME NEW m \in Of(entities', id, d)
                       PROVE  m \in Of(entities, id, d) \cup Links(resolvers[h], id)
          OBVIOUS
        <4>2. m \in DOMAIN entities /\ m \in Mention /\ entities'[m] = id /\ m[1] = d
          BY <2>1, <2>5 DEF Of
        <4>3. CASE m \in live
          BY <1>1, <1>2, <1>3, <2>1, <4>2, <4>3 DEF Links
        <4>4. CASE m \notin live
          BY <2>1, <4>2, <4>4 DEF Of
        <4>5. QED BY <4>3, <4>4
      <3>4. Covers(rows[id], entities', reversers, resolvers', id)
        BY <2>5, <2>6, <3>1, <3>2, <3>3, CoversLinked, ZenonT(60)
      <3>5. QED BY <1>3, <3>4
    <2>10. Covered'
      BY <1>3, <2>9 DEF IInv, Covered, Lone, AddCovers
    <2>11. QED BY <2>4, <2>10 DEF IInv
  <1>6. QED BY <1>4, <1>5

(***************************************************************************)
(* Reversing                                                               *)
(***************************************************************************)
\* A row without what was read of document d covers what is charged to it
\* once the mentions of d are unlinked.
LEMMA CoversReversed ==
  ASSUME IInv, ~overlapped, NEW r \in Reversers, reversers[r].pc = "apply",
         NEW d, d = reversers[r].doc, NEW id \in DOMAIN rows, id \in DOMAIN reversers[r].count,
         NEW f, DOMAIN f \subseteq Mention, Of(f, id, d) = {},
         \A b \in Docs : Of(f, id, b) \subseteq Of(entities, id, b),
         NEW Q, \A p \in Reversers : Q[p] = IF p = r THEN [pc |-> "clear", doc |-> d]
                                            ELSE reversers[p]
  PROVE  Covers([mentions  |-> rows[id].mentions - reversers[r].count[id],
                 documents |-> rows[id].documents - 1], f, Q, resolvers, id)
  <1>1. PICK k : k = reversers[r].count[id]
    OBVIOUS
  <1>2. ReverserFits(reversers[r]) /\ d \in Docs /\ k \in Nat \ {0}
    BY <1>1 DEF IInv, Shape, ReverserFits
  <1>3. Lone /\ Covers(rows[id], entities, reversers, resolvers, id)
    BY DEF IInv, Covered
  <1>4. DOMAIN entities \subseteq Mention
    BY DEF IInv, Shape, MentionsFit
  <1>5. Reads(reversers[r], d, id)
    BY DEF Reads
  <1>6. \A p \in Reversers : \A b : Reads(Q[p], b, id) =>
           p # r /\ b # d /\ Reads(reversers[p], b, id)
    BY <1>3 DEF Reads, Lone
  <1>7. /\ Held(f, Q, id) \subseteq Held(entities, reversers, id)
        /\ HeldDocs(f, Q, id) \subseteq HeldDocs(entities, reversers, id)
    BY <1>4, <1>6, HeldLess
  <1> DEFINE X == Numbered(d, 0, k)
  <1>8. \A p \in Held(f, Q, id) : p[1] # d
    <2>1. ASSUME NEW p \in Held(f, Q, id), p[1] = d PROVE FALSE
      <3>1. p[2] \in Nat \ {0}
        BY DEF Held
      <3>2. Cardinality(Of(f, id, d)) = 0
        BY FS_EmptySet
      <3>3. PICK q \in Reversers : Reads(Q[q], d, id)
        BY <2>1, <3>1, <3>2 DEF Held
      <3>4. QED BY <1>6, <3>3
    <2>2. QED BY <2>1
  <1>9. Held(f, Q, id) \cap X = {}
    BY <1>8 DEF Numbered
  <1>10. X \subseteq Held(entities, reversers, id)
    BY <1>1, <1>2, <1>5 DEF Held, Numbered
  <1>11. k <= Cardinality(X)
    <2> HIDE DEF X
    <2>1. Cardinality(X) = k
      BY <1>2, Block DEF X
    <2>2. QED BY <1>2, <2>1
  <1>12. Charged(rows[id].mentions - k, Held(f, Q, id), Pending(resolvers, id))
    <2> HIDE DEF X
    <2>1. QED BY <1>2, <1>3, <1>7, <1>9, <1>10, <1>11, ChargedDropped DEF Covers
  <1>13. d \in HeldDocs(entities, reversers, id) /\ d \notin HeldDocs(f, Q, id)
    BY <1>2, <1>5, <1>6 DEF HeldDocs
  <1>14. 1 \in Nat /\ 1 <= Cardinality({d})
    <2>1. Cardinality({d}) = 1
      BY FS_Singleton
    <2>2. QED BY <2>1
  <1>15. Charged(rows[id].documents - 1, HeldDocs(f, Q, id), PendingRuns(resolvers, id))
    BY <1>3, <1>7, <1>13, <1>14, ChargedDropped DEF Covers
  <1>16. QED BY <1>1, <1>12, <1>15 DEF Covers

LEMMA ReverseApplyStep ==
  ASSUME IInv, NEW r \in Reversers, ReverseApply(r)
  PROVE  IInv'
  <1>1. PICK d, count : d = reversers[r].doc /\ count = reversers[r].count
    OBVIOUS
  <1>2. PICK counts, empty : /\ counts = Decremented(count)
                             /\ empty = {id \in DOMAIN rows : counts[id].mentions <= 0}
    OBVIOUS
  <1>3. PICK q : q = [pc |-> "clear", doc |-> d]
    OBVIOUS
  <1>4. /\ rows' = Without(counts, empty)
        /\ entities' = [m \in DOMAIN entities |->
                           IF m[1] = d \/ entities[m] \in empty THEN NoRow ELSE entities[m]]
        /\ reversers' = [reversers EXCEPT ![r] = q] /\ reversers[r].pc = "apply"
        /\ \A m \in Locked : m[1] # d /\ entities[m] \notin empty
        /\ empty \cap Referred(Aliasers) = {}
        /\ created' = created /\ extracted' = extracted /\ resolvers' = resolvers
        /\ aliasers' = aliasers /\ overlapped' = overlapped
    BY <1>1, <1>2, <1>3 DEF ReverseApply
  <1>5. /\ DOMAIN rows' = DOMAIN rows \ empty
        /\ \A id \in DOMAIN rows' :
              rows'[id] = IF id \in DOMAIN count
                          THEN [mentions  |-> rows[id].mentions - count[id],
                                documents |-> rows[id].documents - 1]
                          ELSE rows[id]
    BY <1>2, <1>4 DEF Without, Restrict, Decremented
  <1>6. /\ ReverserFits(reversers[r]) /\ d \in Docs
        /\ \A id \in DOMAIN count : count[id] \in Nat \ {0}
    BY <1>1, <1>4 DEF IInv, Shape, ReverserFits
  <1>7. ASSUME NEW id \in DOMAIN rows'
        PROVE  rows'[id] \in [mentions : Nat \ {0}, documents : Int] /\ Known(id)'
    <2>1. /\ id \in DOMAIN rows /\ rows[id] \in [mentions : Nat \ {0}, documents : Int]
          /\ Known(id)'
      BY <1>4, <1>5 DEF IInv, Shape, RowsFit, Known
    <2>2. CASE id \in DOMAIN count
      <3>1. PICK n, k : n = rows[id].mentions /\ k = count[id]
        OBVIOUS
      <3>2. n \in Nat /\ k \in Nat /\ rows[id].documents - 1 \in Int
        BY <1>6, <2>1, <2>2, <3>1
      <3>3. counts[id].mentions = n - k /\ ~(n - k <= 0)
        BY <1>2, <1>5, <2>1, <2>2, <3>1 DEF Decremented
      <3>4. n - k \in Nat \ {0}
        BY <3>2, <3>3
      <3>5. QED BY <1>5, <2>1, <2>2, <3>1, <3>2, <3>4
    <2>3. CASE id \notin DOMAIN count
      BY <1>5, <2>1, <2>3
    <2>4. QED BY <2>2, <2>3
  <1>8. RowsFit'
    BY <1>4, <1>5, <1>7 DEF IInv, Shape, RowsFit
  <1>9. MentionsFit'
    <2>1. ASSUME NEW m \in DOMAIN entities'
          PROVE  /\ m \in Mention /\ m[3] <= extracted'[m[1]]
                 /\ entities'[m] \in DOMAIN rows' \cup {NoRow}
      BY <1>4, <1>5 DEF IInv, Shape, MentionsFit
    <2>2. QED BY <1>4, <2>1 DEF IInv, Shape, MentionsFit
  <1>10. ReverserFits(q)'
    BY <1>3, <1>6 DEF ReverserFits
  <1>11. Shape'
    <2>1. \A m \in Locked : m \in DOMAIN entities' /\ entities'[m] = entities[m]
      BY <1>4, LockedLinked DEF IInv
    <2>2. MergesFit'
      BY <1>4, <1>5, <2>1, MergesStay DEF IInv
    <2>3. QED BY <1>4, <1>8, <1>9, <1>10, <2>2, SameCreated, RunsFit DEF IInv, Shape
  <1>12. DOMAIN entities' \subseteq Mention /\ DOMAIN entities \subseteq Mention
    BY <1>4 DEF IInv, Shape, MentionsFit
  <1>13. \A id \in DOMAIN rows : id # NoRow
    BY NoRowIsNoRow DEF IInv, Shape, RowsFit, Known
  <1>14. \A id \in DOMAIN rows : /\ \A b \in Docs : Of(entities', id, b) \subseteq Of(entities, id, b)
                                 /\ Of(entities', id, d) = {}
    BY <1>4, <1>13 DEF Of
  <1>15. \A p \in Reversers : reversers'[p] = IF p = r THEN q ELSE reversers[p]
    BY <1>4 DEF IInv, Shape
  <1>16. ASSUME ~overlapped', NEW id \in DOMAIN rows'
         PROVE  Covers(rows'[id], entities', reversers', resolvers', id)
    <2>1. id \in DOMAIN rows /\ ~overlapped
      BY <1>4, <1>5, <1>16
    <2>2. CASE id \in DOMAIN count
      <3>1. Covers([mentions  |-> rows[id].mentions - reversers[r].count[id],
                    documents |-> rows[id].documents - 1], entities', reversers', resolvers, id)
        <4>1. \A p \in Reversers : reversers'[p] = IF p = r THEN [pc |-> "clear", doc |-> d]
                                                    ELSE reversers[p]
          BY <1>3, <1>15
        <4>2. /\ DOMAIN entities' \subseteq Mention /\ Of(entities', id, d) = {}
              /\ \A b \in Docs : Of(entities', id, b) \subseteq Of(entities, id, b)
          BY <1>12, <1>14, <2>1
        <4>3. id \in DOMAIN reversers[r].count /\ reversers[r].pc = "apply"
          BY <1>1, <1>4, <2>2
        <4>4. QED BY <1>1, <2>1, <4>1, <4>2, <4>3, CoversReversed
      <3>2. QED BY <1>1, <1>4, <1>5, <1>16, <2>2, <3>1
    <2>3. CASE id \notin DOMAIN count
      <3>1. Covers(rows[id], entities, reversers, resolvers, id)
        BY <2>1 DEF IInv, Covered
      <3>2. Falls(entities, entities', reversers, reversers', resolvers, resolvers', id)
        BY <1>3, <1>4, <1>14, <1>15, <2>1 DEF Falls, Reads
      <3>3. Covers(rows[id], entities', reversers', resolvers', id)
        BY <1>12, <3>1, <3>2, CoversKept
      <3>4. QED BY <1>5, <1>16, <2>3, <3>3
    <2>4. QED BY <2>2, <2>3
  <1>17. ~overlapped' => Lone'
    BY <1>3, <1>4, <1>15 DEF IInv, Covered, Lone
  <1>18. ASSUME ~overlapped' PROVE \A j \in Aliasers : AddCovers(aliasers[j])'
    BY <1>4, <1>18 DEF IInv, Covered, AddCovers
  <1>19. Covered'
    BY <1>16, <1>17, <1>18 DEF Covered
  <1>20. QED BY <1>11, <1>19 DEF IInv

(***************************************************************************)
(* Merging                                                                 *)
(***************************************************************************)
LEMMA HeldMerged ==
  ASSUME NEW e, NEW f, DOMAIN e \subseteq Mention, DOMAIN f \subseteq Mention,
         NEW R, NEW to, NEW M, M \subseteq Mention, IsFiniteSet(Slots(M)),
         \A d \in Docs : Of(f, to, d) \subseteq Of(e, to, d) \cup {m \in M : m[1] = d}
  PROVE  \E X : /\ IsFiniteSet(X) /\ Cardinality(X) <= Cardinality(Slots(M))
                /\ Held(f, R, to) \subseteq Held(e, R, to) \cup X
  <1> DEFINE n(d) == Cardinality(Of(e, to, d))
             k(d) == Cardinality({m \in M : m[1] = d})
  <1>0. \A d : IsFiniteSet({m \in M : m[1] = d})
    <2>1. \A d : {m \in M : m[1] = d} \subseteq Mention
      OBVIOUS
    <2>2. QED BY <2>1, MentionFinite, FS_Subset
  <1>1. \A d : n(d) \in Nat /\ k(d) \in Nat
    BY <1>0, OfFinite, FS_CardinalityType
  <1> HIDE DEF n, k
  <1> DEFINE X == {p \in Docs \X Nat : ~(p[2] <= n(p[1])) /\ p[2] <= n(p[1]) + k(p[1])}
             g == [p \in X |-> <<p[1], p[2] - n(p[1])>>]
  <1>2. \A p \in X : p \in Docs \X Nat /\ p[1] \in Docs /\ p[2] \in Nat /\ p = <<p[1], p[2]>>
    OBVIOUS
  <1>3. ASSUME NEW p \in X PROVE g[p] \in Slots(M)
    <2>1. PICK d, i, a, b : d = p[1] /\ i = p[2] /\ a = n(d) /\ b = k(d)
      OBVIOUS
    <2>2. d \in Docs /\ i \in Nat /\ a \in Nat /\ b \in Nat /\ ~(i <= a) /\ i <= a + b
      BY <1>1, <1>2, <2>1
    <2>3. i - a \in Nat \ {0} /\ i - a <= b
      BY <2>2
    <2>4. g[p] = <<d, i - a>>
      BY <2>1
    <2>5. b = Cardinality({m \in M : m[1] = d})
      BY <2>1 DEF k
    <2> HIDE DEF g, X
    <2>6. QED BY <2>2, <2>3, <2>4, <2>5 DEF Slots
  <1>4. g \in [X -> Slots(M)]
    BY <1>3
  <1>5. ASSUME NEW p \in X, NEW q \in X, g[p] = g[q] PROVE p = q
    <2>1. p[1] = q[1] /\ p[2] - n(p[1]) = q[2] - n(q[1])
      BY <1>5
    <2>2. p[2] = q[2]
      BY <1>1, <1>2, <2>1
    <2>3. QED BY <1>2, <2>1, <2>2
  <1>6. IsFiniteSet(X) /\ Cardinality(X) <= Cardinality(Slots(M))
    <2> HIDE DEF g, X
    <2>1. QED BY <1>4, <1>5, Injected
  <1>7. ASSUME NEW p \in Held(f, R, to), p \notin Held(e, R, to) PROVE p \in X
    <2>1. PICK d, i : d \in Docs /\ i \in Nat \ {0} /\ p = <<d, i>>
      BY DEF Held
    <2>2. i <= Cardinality(Of(f, to, d)) /\ ~(i <= n(d))
      BY <1>7, <2>1 DEF Held, n
    <2>3. /\ Cardinality(Of(f, to, d)) \in Nat
          /\ Cardinality(Of(f, to, d)) <= n(d) + k(d)
      BY <1>0, <2>1, OfFinite, UnionBound DEF n, k
    <2>4. i <= n(d) + k(d)
      BY <1>1, <2>1, <2>2, <2>3
    <2>5. QED BY <2>1, <2>2, <2>4
  <1>8. Held(f, R, to) \subseteq Held(e, R, to) \cup X
    BY <1>7
  <1> HIDE DEF X
  <1>9. QED BY <1>6, <1>8

LEMMA CoversMerged ==
  ASSUME NEW e, NEW f, DOMAIN e \subseteq Mention, DOMAIN f \subseteq Mention,
         NEW R, NEW S, NEW to, NEW row, Covers(row, e, R, S, to),
         NEW M, M \subseteq Mention, NEW add, Charged(add.mentions, Slots(M), {}),
         Charged(add.documents, {m[1] : m \in M}, {}),
         \A d \in Docs : Of(f, to, d) \subseteq Of(e, to, d) \cup {m \in M : m[1] = d}
  PROVE  Covers([mentions  |-> row.mentions + add.mentions,
                 documents |-> row.documents + add.documents], f, R, S, to)
  <1> DEFINE D == {m[1] : m \in M}
  <1>1. IsFiniteSet(Slots(M)) /\ IsFiniteSet(D)
    BY DEF Charged
  <1>2. PICK X : /\ IsFiniteSet(X) /\ Cardinality(X) <= Cardinality(Slots(M))
                 /\ Held(f, R, to) \subseteq Held(e, R, to) \cup X
    BY <1>1, HeldMerged
  <1>3. Charged(row.mentions + add.mentions, Held(f, R, to), Pending(S, to))
    BY <1>2, ChargedMerged DEF Covers
  <1>4. HeldDocs(f, R, to) \subseteq HeldDocs(e, R, to) \cup D
    BY DEF HeldDocs
  <1>5. Cardinality(D) <= Cardinality(D)
    BY <1>1, FS_CardinalityType
  <1>6. Charged(row.documents + add.documents, HeldDocs(f, R, to), PendingRuns(S, to))
    <2> HIDE DEF D
    <2>1. Charged(add.documents, D, {})
      BY DEF D
    <2>2. QED BY <1>1, <1>4, <1>5, <2>1, ChargedMerged DEF Covers
  <1>7. QED BY <1>3, <1>6 DEF Covers

\* The pairs of an alias run are of two texts' rows each, and stay so when
\* one is done.
LEMMA AliasGoesOn ==
  ASSUME NEW a, AliaserFits(a), a.pc = "delete"
  PROVE  AliaserFits(GoesOn(a)) /\ GoesOn(a).pc \in {"idle", "merge"}
  <1>1. PICK rest : rest = DOMAIN a.from \ {a.c}
    OBVIOUS
  <1>2. PICK g : g = Restrict(a.from, rest)
    OBVIOUS
  <1>3. DOMAIN g = rest /\ \A c \in rest : g[c] = a.from[c]
    BY <1>2 DEF Restrict
  <1>4. PICK q : q = [pc |-> "merge", ce |-> a.ce, from |-> g]
    OBVIOUS
  <1>5. AliaserFits(q) /\ q.pc = "merge"
    BY <1>1, <1>3, <1>4 DEF AliaserFits
  <1>6. GoesOn(a) \in {Idle, q}
    BY <1>1, <1>2, <1>4 DEF GoesOn
  <1>7. QED BY <1>5, <1>6, IdleFits

LEMMA MergeDeleteStep ==
  ASSUME IInv, NEW j \in Aliasers, MergeDelete(j)
  PROVE  IInv'
  <1>1. PICK a, from, to, q : a = aliasers[j] /\ from = From(a) /\ to = To(a) /\ q = GoesOn(a)
    OBVIOUS
  <1>2. /\ a.pc = "delete" /\ from \notin Referred(Aliasers \ {j})
        /\ \A i \in Aliasers \ {j} : LinkedTo(from) \cap Repointed(i) = {}
        /\ entities' = [m \in DOMAIN entities |->
                           IF m \in a.moved THEN to
                           ELSE IF entities[m] = from THEN NoRow ELSE entities[m]]
        /\ rows' = Without(Added(to, a.add), {from})
        /\ aliasers' = [aliasers EXCEPT ![j] = q] /\ created' = created /\ extracted' = extracted
        /\ resolvers' = resolvers /\ reversers' = reversers /\ overlapped' = overlapped
    BY <1>1 DEF MergeDelete
  <1>3. AliaserFits(a) /\ MergeFits(a)
    BY <1>1 DEF IInv, Shape, MergesFit
  <1>4. from # to /\ from \in RowId /\ to \in RowId
    BY <1>1, <1>2, <1>3 DEF AliaserFits, From, To
  <1>5. AliaserFits(q) /\ q.pc \in {"idle", "merge"}
    BY <1>1, <1>2, <1>3, AliasGoesOn
  <1>6. a.moved \subseteq LinkedTo(from) /\ (a.moved # {} => to \in DOMAIN rows)
    BY <1>1, <1>2, <1>3 DEF MergeFits
  <1>7. a.add.mentions \in Nat /\ a.add.documents \in Int
    BY <1>2, <1>3 DEF AliaserFits
  <1>8. DOMAIN entities \subseteq Mention /\ DOMAIN entities' \subseteq Mention /\ a.moved \subseteq Mention
    BY <1>2, <1>6 DEF IInv, Shape, MentionsFit, LinkedTo
  <1>9. \A id \in DOMAIN rows : rows[id] \in [mentions : Nat \ {0}, documents : Int] /\ Known(id)'
    BY <1>2 DEF IInv, Shape, RowsFit, Known
  <1>10. /\ DOMAIN rows' = DOMAIN rows \ {from}
         /\ \A id \in DOMAIN rows' : id # to => rows'[id] = rows[id]
         /\ to \in DOMAIN rows =>
               rows'[to] = [mentions  |-> rows[to].mentions + a.add.mentions,
                            documents |-> rows[to].documents + a.add.documents]
    BY <1>2, <1>4 DEF Without, Restrict, Added
  <1>11. ASSUME NEW id \in DOMAIN rows'
         PROVE  rows'[id] \in [mentions : Nat \ {0}, documents : Int] /\ Known(id)'
    <2>1. rows[id] \in [mentions : Nat \ {0}, documents : Int] /\ Known(id)'
      BY <1>9, <1>10
    <2>2. CASE id = to
      <3>1. /\ rows[to].mentions + a.add.mentions \in Nat \ {0}
            /\ rows[to].documents + a.add.documents \in Int
        BY <1>7, <2>1, <2>2
      <3>2. QED BY <1>10, <2>1, <2>2, <3>1
    <2>3. CASE id # to
      BY <1>10, <2>1, <2>3
    <2>4. QED BY <2>2, <2>3
  <1>12. RowsFit'
    BY <1>2, <1>10, <1>11 DEF IInv, Shape, RowsFit
  <1>13. MentionsFit'
    <2>1. ASSUME NEW m \in DOMAIN entities'
          PROVE  /\ m \in Mention /\ m[3] <= extracted'[m[1]]
                 /\ entities'[m] \in DOMAIN rows' \cup {NoRow}
      BY <1>2, <1>4, <1>6, <1>10 DEF IInv, Shape, MentionsFit
    <2>2. QED BY <1>2, <2>1 DEF IInv, Shape, MentionsFit
  <1>14. MergesFit'
    <2>1. ASSUME NEW i \in Aliasers PROVE MergeFits(aliasers[i])'
      <3>1. aliasers'[i] = IF i = j THEN q ELSE aliasers[i]
        BY <1>2 DEF IInv, Shape
      <3>2. CASE i = j
        BY <1>5, <3>1, <3>2 DEF MergeFits
      <3>3. CASE i # j /\ aliasers[i].pc \in {"count", "delete"}
        <4>1. MergeFits(aliasers[i]) /\ aliasers'[i] = aliasers[i]
          BY <3>1, <3>3 DEF IInv, Shape, MergesFit
        <4>2. /\ Repointed(i) = aliasers[i].moved
              /\ aliasers[i].moved # {} => To(aliasers[i]) \in Referred(Aliasers \ {j})
          BY <3>3 DEF Repointed, Referred
        <4>3. \A m \in aliasers[i].moved : m \in DOMAIN entities /\ entities[m] # from
          BY <1>2, <3>3, <4>1, <4>2 DEF MergeFits, LinkedTo
        <4>4. \A m \in aliasers[i].moved : m \in DOMAIN entities' /\ entities'[m] = entities[m]
          BY <1>2, <1>6, <4>3 DEF LinkedTo
        <4>5. /\ From(aliasers[i])' = From(aliasers[i]) /\ To(aliasers[i])' = To(aliasers[i])
          BY <4>1 DEF From, To
        <4>6. aliasers[i].moved # {} => To(aliasers[i]) \in DOMAIN rows'
          BY <1>2, <1>10, <3>3, <4>1, <4>2 DEF MergeFits
        <4>7. QED BY <4>1, <4>4, <4>5, <4>6 DEF MergeFits, LinkedTo
      <3>4. CASE i # j /\ aliasers[i].pc \notin {"count", "delete"}
        BY <3>1, <3>4 DEF MergeFits
      <3>5. QED BY <3>2, <3>3, <3>4
    <2>2. QED BY <2>1 DEF MergesFit
  <1>15. Shape'
    BY <1>2, <1>5, <1>12, <1>13, <1>14, SameCreated, RunsFit DEF IInv, Shape
  <1>16. ASSUME ~overlapped', NEW id \in DOMAIN rows'
         PROVE  Covers(rows'[id], entities', reversers', resolvers', id)
    <2>1. id \in DOMAIN rows /\ id # from /\ ~overlapped /\ id # NoRow
      BY <1>2, <1>9, <1>10, <1>16, NoRowIsNoRow DEF Known
    <2>2. Covers(rows[id], entities, reversers, resolvers, id)
      BY <2>1 DEF IInv, Covered
    <2>3. CASE id = to
      <3>1. \A d \in Docs : Of(entities', to, d) \subseteq Of(entities, to, d) \cup {m \in a.moved : m[1] = d}
        BY <1>2, <2>1, <2>3 DEF Of
      <3>2. /\ Charged(a.add.mentions, Slots(a.moved), {})
            /\ Charged(a.add.documents, {m[1] : m \in a.moved}, {})
        BY <1>1, <1>2, <2>1 DEF IInv, Covered, AddCovers
      <3>3. Covers([mentions  |-> rows[to].mentions + a.add.mentions,
                    documents |-> rows[to].documents + a.add.documents],
                   entities', reversers, resolvers, to)
        BY <1>8, <2>2, <2>3, <3>1, <3>2, CoversMerged
      <3>4. QED BY <1>2, <1>10, <2>1, <2>3, <3>3
    <2>4. CASE id # to
      <3>1. \A d \in Docs : Of(entities', id, d) \subseteq Of(entities, id, d)
        BY <1>2, <2>1, <2>4 DEF Of
      <3>2. Falls(entities, entities', reversers, reversers', resolvers, resolvers', id)
        BY <1>2, <3>1 DEF Falls
      <3>3. Covers(rows[id], entities', reversers', resolvers', id)
        BY <1>8, <2>2, <3>2, CoversKept
      <3>4. QED BY <1>10, <1>16, <2>4, <3>3
    <2>5. QED BY <2>3, <2>4
  <1>17. ASSUME ~overlapped' PROVE Lone' /\ \A i \in Aliasers : AddCovers(aliasers[i])'
    <2>1. ~overlapped /\ Lone'
      BY <1>2, <1>17 DEF IInv, Covered, Lone
    <2>2. ASSUME NEW i \in Aliasers PROVE AddCovers(aliasers'[i])
      <3>1. aliasers'[i] = IF i = j THEN q ELSE aliasers[i]
        BY <1>2 DEF IInv, Shape
      <3>2. AddCovers(q)
        BY <1>5 DEF AddCovers
      <3>3. QED BY <2>1, <3>1, <3>2 DEF IInv, Covered
    <2>3. QED BY <2>1, <2>2 DEF AddCovers
  <1>18. Covered'
    BY <1>16, <1>17 DEF Covered
  <1>19. QED BY <1>15, <1>18 DEF IInv

(***************************************************************************)
(* Counting                                                                *)
(***************************************************************************)
LEMMA CoversCounted ==
  ASSUME NEW row, NEW e, NEW R, NEW S, NEW T, NEW id, Covers(row, e, R, S, id),
         NEW h \in Resolvers, NEW q, \A g \in Resolvers : T[g] = IF g = h THEN q ELSE S[g],
         NEW G, IsFiniteSet(G), Links(q, id) \subseteq G
  PROVE  Covers([mentions  |-> row.mentions + Cardinality(G),
                 documents |-> row.documents + 1], e, R, T, id)
  <1>1. Cardinality(G) \in Nat
    BY FS_CardinalityType
  <1> DEFINE Y == {h} \X G
  <1>2. IsFiniteSet(Y) /\ Cardinality(Y) = Cardinality(G)
    BY Tagged
  <1>3. Pending(T, id) \subseteq Pending(S, id) \cup Y
    BY DEF Pending
  <1>4. Charged(row.mentions + Cardinality(G), Held(e, R, id), Pending(T, id))
    <2> HIDE DEF Y
    <2>1. Cardinality(Y) <= Cardinality(G)
      BY <1>1, <1>2
    <2>2. QED BY <1>1, <1>2, <1>3, <2>1, ChargedAdded DEF Covers
  <1>5. PendingRuns(T, id) \subseteq PendingRuns(S, id) \cup {h}
    BY DEF PendingRuns
  <1>6. IsFiniteSet({h}) /\ Cardinality({h}) = 1
    BY FS_Singleton
  <1>7. Cardinality({h}) <= 1 /\ 1 \in Nat
    BY <1>6
  <1>8. Charged(row.documents + 1, HeldDocs(e, R, id), PendingRuns(T, id))
    BY <1>5, <1>6, <1>7, ChargedAdded DEF Covers
  <1>9. QED BY <1>4, <1>8 DEF Covers

\* Nothing is charged to a row that never was.
LEMMA CoversNew ==
  ASSUME Shape, NEW id, id \in RowId, ~Known(id)
  PROVE  Covers([mentions |-> 0, documents |-> 0], entities, reversers, resolvers, id)
  <1>1. \A m \in DOMAIN entities : entities[m] # id
    BY NoRowIsNoRow DEF Shape, MentionsFit, RowsFit
  <1>2. \A d : Of(entities, id, d) = {}
    BY <1>1 DEF Of
  <1>3. \A r \in Reversers : \A d : ~Reads(reversers[r], d, id)
    BY DEF Shape, ReverserFits, Reads
  <1>4. \A h \in Resolvers : Links(resolvers[h], id) = {}
    BY DEF Shape, ResolverFits, Links
  <1>5. Held(entities, reversers, id) = {}
    <2>1. \A d : Cardinality(Of(entities, id, d)) = 0
      BY <1>2, FS_EmptySet
    <2>2. ASSUME NEW p \in Held(entities, reversers, id) PROVE FALSE
      <3>1. p[2] \in Nat \ {0}
        BY DEF Held
      <3>2. p[2] <= Cardinality(Of(entities, id, p[1]))
        BY <1>3 DEF Held
      <3>3. QED BY <2>1, <3>1, <3>2
    <2>3. QED BY <2>2
  <1>6. HeldDocs(entities, reversers, id) = {}
    BY <1>2, <1>3 DEF HeldDocs
  <1>7. Pending(resolvers, id) = {} /\ PendingRuns(resolvers, id) = {}
    BY <1>4 DEF Pending, PendingRuns
  <1>8. QED BY <1>5, <1>6, <1>7, NothingCharged DEF Covers

LEMMA CanonicalizeStep ==
  ASSUME IInv, NEW h \in Resolvers, Canonicalize(h)
  PROVE  IInv'
  <1> DEFINE pending == resolvers[h].pending
             group(t) == {m \in pending : m[2] = t}
             touched == {m[2] : m \in pending}
             fresh == {t \in touched : \A id \in DOMAIN rows : id[1] # t}
             idOf == [t \in touched |->
                         IF t \in fresh THEN <<t, created[t] + 1>>
                         ELSE CHOOSE id \in DOMAIN rows : id[1] = t]
             old(id) == IF id \in DOMAIN rows THEN rows[id]
                        ELSE [mentions |-> 0, documents |-> 0]
             q == [pc |-> "link", resolved |-> [m \in pending |-> idOf[m[2]]]]
             KnownNext(id) == id \in RowId /\ id[2] <= created'[id[1]]
  <1>1. /\ resolvers[h].pc = "canonicalize"
        /\ \A t \in fresh : created[t] < MaxRows
        /\ created' = [t \in Texts |-> IF t \in fresh THEN created[t] + 1 ELSE created[t]]
        /\ DOMAIN rows' = DOMAIN rows \cup Range(idOf)
        /\ \A id \in DOMAIN rows' :
              rows'[id] = IF id \in Range(idOf)
                          THEN [mentions  |-> old(id).mentions + Cardinality(group(id[1])),
                                documents |-> old(id).documents + 1]
                          ELSE rows[id]
        /\ resolvers' = [resolvers EXCEPT ![h] = q]
        /\ entities' = entities /\ extracted' = extracted /\ aliasers' = aliasers
        /\ reversers' = reversers /\ overlapped' = overlapped
    BY DEF Canonicalize
  <1>2. PICK d \in Docs : \A m \in pending : m[1] = d
    BY <1>1 DEF IInv, Shape, ResolverFits
  <1>3. pending \subseteq Mention /\ touched \subseteq Texts /\ fresh \subseteq touched
    BY <1>1 DEF IInv, Shape, ResolverFits, Mention
  <1>4. \A t \in touched : \E m \in pending : m[2] = t
    OBVIOUS
  <1>5. \A m \in pending : m[2] \in touched
    OBVIOUS
  <1>6. /\ created \in [Texts -> 0 .. MaxRows] /\ MaxRows \in Nat
        /\ \A id \in DOMAIN rows : /\ rows[id] \in [mentions : Nat \ {0}, documents : Int]
                                   /\ Known(id)
        /\ \A id, other \in DOMAIN rows : id[1] = other[1] => id = other
    BY BoundsAreNat DEF IInv, Shape, RowsFit
  <1>7. DOMAIN idOf = touched
    OBVIOUS
  <1>8. ASSUME NEW t \in touched
        PROVE  /\ t \in fresh => idOf[t] = <<t, created[t] + 1>>
               /\ t \notin fresh => idOf[t] \in DOMAIN rows /\ idOf[t][1] = t
    OBVIOUS
  <1>9. DOMAIN q.resolved = pending /\ \A m \in pending : q.resolved[m] = idOf[m[2]]
    OBVIOUS
  <1>10. q.pc = "link"
    OBVIOUS
  <1>11. \A t \in fresh : \A id \in DOMAIN rows : id[1] # t
    OBVIOUS
  <1>12. \A t \in touched : IsFiniteSet(group(t)) /\ group(t) # {}
    <2>1. \A t : group(t) \subseteq Mention
      BY <1>3
    <2>2. \A t \in touched : group(t) # {}
      BY <1>4
    <2>3. QED BY <2>1, <2>2, MentionFinite, FS_Subset
  <1>13. \A m \in pending : m \in group(m[2])
    OBVIOUS
  <1> HIDE DEF pending, group, touched, fresh, idOf, q
  <1>14. CreatedGrows
    <2>1. ASSUME NEW t \in Texts PROVE created'[t] \in 0 .. MaxRows /\ created[t] <= created'[t]
      BY <1>1, <1>6
    <2>2. QED BY <1>1, <2>1 DEF CreatedGrows
  <1>15. ASSUME NEW t \in fresh
         PROVE  /\ idOf[t] \in RowId /\ idOf[t][1] = t /\ idOf[t] = <<t, created[t] + 1>>
                /\ ~Known(idOf[t]) /\ KnownNext(idOf[t])
    <2>1. t \in Texts /\ t \in touched /\ created[t] \in Nat /\ created[t] < MaxRows
      BY <1>1, <1>3, <1>6
    <2>2. created[t] + 1 \in 1 .. MaxRows /\ created'[t] = created[t] + 1
      BY <1>1, <1>6, <2>1
    <2>3. idOf[t] = <<t, created[t] + 1>>
      BY <1>8, <2>1
    <2>4. idOf[t] \in RowId
      BY <2>1, <2>2, <2>3 DEF RowId
    <2>5. ~Known(idOf[t])
      BY <2>1, <2>3 DEF Known
    <2>6. KnownNext(idOf[t])
      BY <2>1, <2>2, <2>3, <2>4
    <2>7. QED BY <2>3, <2>5, <2>6, <2>4
  <1>16. \A id : /\ Known(id) => KnownNext(id)
                 /\ KnownNext(id) => Known(id)'
    BY <1>14, StillKnown DEF IInv, Known
  <1>17. ASSUME NEW t \in touched
         PROVE  idOf[t] \in RowId /\ idOf[t][1] = t /\ KnownNext(idOf[t])
    <2>1. CASE t \in fresh
      BY <1>15, <2>1
    <2>2. CASE t \notin fresh
      <3>1. idOf[t] \in DOMAIN rows /\ idOf[t][1] = t
        BY <1>8, <2>2
      <3>2. QED BY <1>6, <1>16, <3>1 DEF Known
    <2>3. QED BY <2>1, <2>2
  <1>18. ASSUME NEW id \in Range(idOf)
         PROVE  /\ id = idOf[id[1]] /\ id[1] \in touched
                /\ id \notin DOMAIN rows => id[1] \in fresh
    <2>1. PICK t \in touched : id = idOf[t]
      BY <1>7 DEF Range
    <2>2. QED BY <1>8, <1>17, <2>1
  <1>19. \A id \in Range(idOf) : Cardinality(group(id[1])) \in Nat \ {0}
    <2>1. ASSUME NEW id \in Range(idOf) PROVE Cardinality(group(id[1])) \in Nat \ {0}
      <3>1. IsFiniteSet(group(id[1])) /\ group(id[1]) # {}
        BY <1>12, <1>18
      <3>2. Cardinality(group(id[1])) \in Nat /\ Cardinality(group(id[1])) # 0
        BY <3>1, FS_CardinalityType, FS_EmptySet
      <3>3. QED BY <3>2
    <2>2. QED BY <2>1
  <1>20. \A id \in Range(idOf) : old(id).mentions \in Nat /\ old(id).documents \in Int
    BY <1>6
  <1>21. \A id \in DOMAIN rows : old(id) = rows[id]
    OBVIOUS
  <1>22. \A id : id \notin DOMAIN rows => old(id) = [mentions |-> 0, documents |-> 0]
    OBVIOUS
  <1> HIDE DEF old
  <1>23. ASSUME NEW id \in DOMAIN rows'
         PROVE  rows'[id] \in [mentions : Nat \ {0}, documents : Int] /\ Known(id)'
    <2>1. CASE id \in Range(idOf)
      <3>1. PICK n, k, i : /\ n = old(id).mentions /\ k = Cardinality(group(id[1]))
                           /\ i = old(id).documents
        OBVIOUS
      <3>2. n \in Nat /\ k \in Nat \ {0} /\ i \in Int
        BY <1>19, <1>20, <2>1, <3>1
      <3>3. n + k \in Nat \ {0} /\ i + 1 \in Int
        BY <3>2
      <3>4. rows'[id] = [mentions |-> n + k, documents |-> i + 1]
        BY <1>1, <1>23, <2>1, <3>1
      <3>5. Known(id)'
        BY <1>16, <1>17, <1>18, <2>1
      <3>6. QED BY <3>3, <3>4, <3>5
    <2>2. CASE id \notin Range(idOf)
      <3>1. id \in DOMAIN rows /\ rows'[id] = rows[id]
        BY <1>1, <1>23, <2>2
      <3>2. QED BY <1>6, <1>16, <3>1
    <2>3. QED BY <2>1, <2>2
  <1>24. ASSUME NEW id \in DOMAIN rows', NEW other \in DOMAIN rows', id[1] = other[1]
         PROVE  id = other
    <2>1. CASE id \in DOMAIN rows /\ other \in DOMAIN rows
      BY <1>6, <1>24, <2>1
    <2>2. CASE id \in Range(idOf) /\ other \in Range(idOf)
      BY <1>18, <1>24, <2>2
    <2>3. CASE id \in Range(idOf) /\ other \in DOMAIN rows
      <3>1. CASE id \in DOMAIN rows
        BY <1>6, <1>24, <2>3, <3>1
      <3>2. CASE id \notin DOMAIN rows
        BY <1>11, <1>18, <1>24, <2>3, <3>2
      <3>3. QED BY <3>1, <3>2
    <2>4. CASE id \in DOMAIN rows /\ other \in Range(idOf)
      <3>1. CASE other \in DOMAIN rows
        BY <1>6, <1>24, <2>4, <3>1
      <3>2. CASE other \notin DOMAIN rows
        BY <1>11, <1>18, <1>24, <2>4, <3>2
      <3>3. QED BY <3>1, <3>2
    <2>5. QED BY <1>1, <2>1, <2>2, <2>3, <2>4
  <1>25. RowsFit'
    BY <1>14, <1>23, <1>24 DEF RowsFit, CreatedGrows
  <1>26. MentionsFit'
    BY <1>1 DEF IInv, Shape, MentionsFit
  <1>27. PICK run : run = q
    OBVIOUS
  <1>28. ResolverFits(run)'
    <2>1. \A m \in DOMAIN run.resolved : KnownNext(run.resolved[m])
      BY <1>5, <1>9, <1>17, <1>27
    <2>2. \A m \in DOMAIN run.resolved : Known(run.resolved[m])'
      BY <1>16, <2>1
    <2>3. \A m \in DOMAIN run.resolved : m[1] = d
      BY <1>2, <1>9, <1>27
    <2>4. run.pc = "link" /\ DOMAIN run.resolved \subseteq Mention
      BY <1>3, <1>9, <1>10, <1>27
    <2>5. QED BY <2>2, <2>3, <2>4 DEF ResolverFits
  <1>29. Shape'
    <2>1. MergesFit'
      BY <1>1, LockedLinked, MergesStay DEF IInv
    <2>2. QED BY <1>1, <1>14, <1>25, <1>26, <1>28, <1>27, <2>1, RunsFit DEF IInv, Shape
  <1>30. \A g \in Resolvers : resolvers'[g] = IF g = h THEN q ELSE resolvers[g]
    BY <1>1 DEF IInv, Shape
  <1>31. ASSUME NEW id, id \in Range(idOf) PROVE Links(q, id) \subseteq group(id[1])
    <2>1. ASSUME NEW m \in Links(q, id) PROVE m \in group(id[1])
      <3>1. m \in pending /\ idOf[m[2]] = id
        BY <1>9 DEF Links
      <3>2. id[1] = m[2]
        BY <1>5, <1>17, <3>1
      <3>3. QED BY <1>13, <3>1, <3>2
    <2>2. QED BY <2>1
  <1>32. \A id : id \notin Range(idOf) => Links(q, id) = {}
    BY <1>5, <1>7, <1>9 DEF Links, Range
  <1>33. ASSUME ~overlapped', NEW id \in DOMAIN rows'
         PROVE  Covers(rows'[id], entities', reversers', resolvers', id)
    <2>1. \A i \in DOMAIN rows : Covers(rows[i], entities, reversers, resolvers, i)
      BY <1>1, <1>33 DEF IInv, Covered
    <2>2. CASE id \in Range(idOf)
      <3>1. Covers(old(id), entities, reversers, resolvers, id)
        <4>1. CASE id \in DOMAIN rows
          BY <1>21, <2>1, <4>1
        <4>2. CASE id \notin DOMAIN rows
          <5>1. id \in RowId /\ ~Known(id)
            BY <1>15, <1>18, <2>2, <4>2
          <5>2. QED BY <1>22, <4>2, <5>1, CoversNew DEF IInv
        <4>3. QED BY <4>1, <4>2
      <3>2. IsFiniteSet(group(id[1]))
        BY <1>12, <1>18, <2>2
      <3>3. Covers([mentions  |-> old(id).mentions + Cardinality(group(id[1])),
                    documents |-> old(id).documents + 1], entities, reversers, resolvers', id)
        BY <1>30, <1>31, <2>2, <3>1, <3>2, CoversCounted
      <3>4. QED BY <1>1, <1>33, <2>2, <3>3
    <2>3. CASE id \notin Range(idOf)
      <3>1. id \in DOMAIN rows /\ rows'[id] = rows[id]
        BY <1>1, <1>33, <2>3
      <3>2. \A g \in Resolvers : Links(resolvers'[g], id) \subseteq Links(resolvers[g], id)
        BY <1>30, <1>32, <2>3
      <3>3. Falls(entities, entities', reversers, reversers', resolvers, resolvers', id)
        BY <1>1, <3>2 DEF Falls
      <3>4. DOMAIN entities \subseteq Mention /\ entities' = entities
        BY <1>1 DEF IInv, Shape, MentionsFit
      <3>5. Covers(rows[id], entities, reversers, resolvers, id)
        BY <2>1, <3>1
      <3>6. Covers(rows[id], entities', reversers', resolvers', id)
        BY <3>3, <3>4, <3>5, CoversKept
      <3>7. QED BY <3>1, <3>6
    <2>4. QED BY <2>2, <2>3
  <1>34. Covered'
    BY <1>1, <1>33 DEF IInv, Covered, Lone, AddCovers
  <1>35. QED BY <1>29, <1>34 DEF IInv

(***************************************************************************)
(* The invariant                                                           *)
(***************************************************************************)
LEMMA InitInv == Init => IInv
  <1> SUFFICES ASSUME Init PROVE IInv
    OBVIOUS
  <1>1. DOMAIN rows = {} /\ DOMAIN entities = {}
    BY DEF Init, EmptyFcn
  <1>2. RowsFit /\ MentionsFit
    BY <1>1, BoundsAreNat DEF Init, RowsFit, MentionsFit
  <1>3. Shape
    BY <1>2, IdleFits DEF Init, Shape, MergesFit, MergeFits
  <1>4. Lone /\ \A j \in Aliasers : AddCovers(aliasers[j])
    BY IdleFits DEF Init, Lone, AddCovers
  <1>5. QED BY <1>1, <1>3, <1>4 DEF IInv, Covered

LEMMA NextInv == IInv /\ [Next]_vars => IInv'
  <1> SUFFICES ASSUME IInv, [Next]_vars PROVE IInv'
    OBVIOUS
  <1>1. CASE UNCHANGED vars
    <2>1. MergesFit'
      BY <1>1, MergesSame DEF vars, IInv
    <2>2. Shape'
      BY <1>1, <2>1 DEF vars, IInv, Shape, RowsFit, MentionsFit, Known, ResolverFits, AliaserFits,
         ReverserFits
    <2>3. ~overlapped' => \A j \in Aliasers : AddCovers(aliasers[j])'
      BY <1>1 DEF vars, IInv, Covered, AddCovers
    <2>4. Covered'
      BY <1>1, <2>3 DEF vars, IInv, Covered, Lone
    <2>5. QED BY <2>2, <2>4 DEF IInv
  <1>2. CASE \E d \in Docs : PersistBatch(d) \/ ReplaceChunks(d)
    BY <1>2, PersistStep, ReplaceStep
  <1>3. CASE \E h \in Resolvers : Resolve(h)
    BY <1>3, ListStep, CanonicalizeStep, LinkStep, ResolverLostStep DEF Resolve
  <1>4. CASE \E j \in Aliasers : Alias(j)
    BY <1>4, AliasReadStep, MergeRepointStep, MergeCountStep, MergeDeleteStep, MergeFailsStep
    DEF Alias
  <1>5. CASE \E r \in Reversers : Reverse(r)
    BY <1>5, ReverseReadStep, ReverseApplyStep, ReverseClearStep, ReverserLostStep DEF Reverse
  <1>6. QED BY <1>1, <1>2, <1>3, <1>4, <1>5 DEF Next

\* Whatever is lost, repeated or stale between counting, linking, merging and
\* reversing, each row's counts cover the mentions linked to it, what the
\* reversals under way will subtract, and what canonicalizations have counted
\* but not linked, unless two reversals of one document overlapped.
THEOREM Invariant == Spec => []IInv
  <1>1. QED BY InitInv, NextInv, PTL DEF Spec

(***************************************************************************)
(* What it says of the counts and links                                    *)
(***************************************************************************)
\* Number the mentions of each document.
LEMMA LinkedAreHeld ==
  ASSUME NEW e, DOMAIN e \subseteq Mention, NEW R, NEW id, IsFiniteSet(Held(e, R, id))
  PROVE  LET M == {m \in DOMAIN e : e[m] = id}
         IN  IsFiniteSet(M) /\ Cardinality(M) <= Cardinality(Held(e, R, id))
  <1> DEFINE M == {m \in DOMAIN e : e[m] = id}
             n(d) == Cardinality(Of(e, id, d))
  <1>1. \A d : n(d) \in Nat /\ ExistsBijection(1 .. n(d), Of(e, id, d))
    BY OfFinite, FS_CardinalityType
  <1> DEFINE F(d) == CHOOSE f : f \in Bijection(1 .. n(d), Of(e, id, d))
             number(m) == CHOOSE i \in 1 .. n(m[1]) : F(m[1])[i] = m
             g == [m \in M |-> <<m[1], number(m)>>]
  <1>2. \A d : F(d) \in Bijection(1 .. n(d), Of(e, id, d))
    BY <1>1 DEF ExistsBijection
  <1> HIDE DEF F
  <1>3. ASSUME NEW m \in M
        PROVE  m[1] \in Docs /\ number(m) \in 1 .. n(m[1]) /\ F(m[1])[number(m)] = m
    <2>1. m \in Of(e, id, m[1]) /\ m[1] \in Docs
      BY DEF Of, Mention
    <2>2. F(m[1]) \in Surjection(1 .. n(m[1]), Of(e, id, m[1]))
      BY <1>2 DEF Bijection
    <2>3. \E i \in 1 .. n(m[1]) : F(m[1])[i] = m
      BY <2>1, <2>2 DEF Surjection
    <2>4. QED BY <2>1, <2>3
  <1> HIDE DEF number
  <1>4. ASSUME NEW m \in M PROVE g[m] \in Held(e, R, id)
    <2>1. m[1] \in Docs /\ number(m) \in 1 .. n(m[1]) /\ n(m[1]) \in Nat
      BY <1>1, <1>3
    <2>2. number(m) \in Nat \ {0} /\ number(m) <= n(m[1]) /\ g[m] = <<m[1], number(m)>>
      BY <2>1
    <2> HIDE DEF g, M
    <2>3. QED BY <2>1, <2>2 DEF Held
  <1>5. \A m \in M : g[m] = <<m[1], number(m)>>
    OBVIOUS
  <1>6. g \in [M -> Held(e, R, id)]
    BY <1>4
  <1> HIDE DEF g, M
  <1>7. ASSUME NEW m \in M, NEW p \in M, g[m] = g[p] PROVE m = p
    <2>1. m[1] = p[1] /\ number(m) = number(p)
      BY <1>5, <1>7
    <2>2. F(m[1])[number(m)] = m /\ F(p[1])[number(p)] = p
      BY <1>3
    <2>3. QED BY <2>1, <2>2
  <1>8. IsFiniteSet(M) /\ Cardinality(M) <= Cardinality(Held(e, R, id))
    BY <1>6, <1>7, Injected
  <1>9. QED BY <1>8 DEF M

LEMMA CountsFollow == IInv => CountsCoverLinks
  <1> SUFFICES ASSUME IInv PROVE CountsCoverLinks
    OBVIOUS
  <1>1. TypeOK
    BY DEF IInv, Shape, RowsFit, MentionsFit, Known, ResolverFits, AliaserFits, ReverserFits,
       TypeOK, Range
  <1>2. ASSUME ~overlapped, NEW id \in DOMAIN rows
        PROVE  /\ rows[id].mentions >= Cardinality(LinkedTo(id))
               /\ rows[id].documents >= Cardinality({m[1] : m \in LinkedTo(id)})
    <2> DEFINE H == Held(entities, reversers, id)
               P == Pending(resolvers, id)
               HD == HeldDocs(entities, reversers, id)
               PD == PendingRuns(resolvers, id)
               D == {m[1] : m \in LinkedTo(id)}
    <2>1. Charged(rows[id].mentions, H, P) /\ Charged(rows[id].documents, HD, PD)
      BY <1>2 DEF IInv, Covered, Covers
    <2>2. DOMAIN entities \subseteq Mention
      BY DEF IInv, Shape, MentionsFit
    <2>3. IsFiniteSet(LinkedTo(id)) /\ Cardinality(LinkedTo(id)) <= Cardinality(H)
      BY <2>1, <2>2, LinkedAreHeld DEF LinkedTo, Charged
    <2>4. D \subseteq HD
      BY <2>2 DEF LinkedTo, HeldDocs, Of, Mention
    <2> HIDE DEF H, P, HD, PD, D
    <2>5. IsFiniteSet(D) /\ Cardinality(D) <= Cardinality(HD)
      BY <2>1, <2>4, FS_Subset DEF Charged
    <2>6. /\ Cardinality(H) \in Nat /\ Cardinality(P) \in Nat /\ Cardinality(HD) \in Nat
          /\ Cardinality(PD) \in Nat /\ Cardinality(D) \in Nat /\ Cardinality(LinkedTo(id)) \in Nat
      BY <2>1, <2>3, <2>5, FS_CardinalityType DEF Charged
    <2>7. rows[id].mentions >= Cardinality(LinkedTo(id)) /\ rows[id].documents >= Cardinality(D)
      BY <2>1, <2>3, <2>5, <2>6 DEF Charged
    <2>8. QED BY <2>7 DEF D
  <1>3. QED BY <1>1, <1>2 DEF CountsCoverLinks

\* A canonical entity's mention and document counts never fall below what is
\* linked to it (Canonicalize, BulkSetCanonicalEntityID, MergeInto,
\* DecrementForDocument).
THEOREM CountsCover == Spec => []CountsCoverLinks
  <1>1. QED BY Invariant, CountsFollow, PTL

Survive ==
    \A m \in DOMAIN entities \cap DOMAIN entities' :
          (entities[m] # NoRow /\ entities'[m] = NoRow) =>
             \/ \E r \in Reversers : /\ reversers[r].pc = "apply"
                                     /\ reversers'[r].pc = "clear"
                                     /\ reversers[r].doc = m[1]
             \/ \E j \in Aliasers : /\ aliasers[j].pc = "delete"
                                    /\ aliasers'[j].pc # "delete"
                                    /\ entities[m] = From(aliasers[j])
                                    /\ m \notin aliasers[j].moved
             \/ overlapped

\* A row that another document's mention is linked to outlives the reversal.
LEMMA OthersSurvive ==
  ASSUME IInv, ~overlapped, NEW r \in Reversers, ReverseApply(r),
         NEW m \in DOMAIN entities, m[1] # reversers[r].doc, entities[m] # NoRow
  PROVE  entities'[m] # NoRow
  <1>1. PICK d, count, id : d = reversers[r].doc /\ count = reversers[r].count /\ id = entities[m]
    OBVIOUS
  <1>2. PICK counts, empty : /\ counts = Decremented(count)
                             /\ empty = {i \in DOMAIN rows : counts[i].mentions <= 0}
    OBVIOUS
  <1>3. /\ reversers[r].pc = "apply"
        /\ entities' = [p \in DOMAIN entities |->
                           IF p[1] = d \/ entities[p] \in empty THEN NoRow ELSE entities[p]]
    BY <1>1, <1>2 DEF ReverseApply
  <1>4. id \in DOMAIN rows /\ m \in Mention /\ m[1] \in Docs /\ DOMAIN entities \subseteq Mention
    BY <1>1 DEF IInv, Shape, MentionsFit, Mention
  <1>5. rows[id].mentions \in Nat \ {0} /\ id # NoRow
    BY <1>4, NoRowIsNoRow DEF IInv, Shape, RowsFit, Known
  <1>6. CASE id \in DOMAIN count
    <2>1. PICK f : f = [p \in DOMAIN entities |-> IF p[1] = d THEN NoRow ELSE entities[p]]
      OBVIOUS
    <2>2. PICK Q : Q = [p \in Reversers |-> IF p = r THEN [pc |-> "clear", doc |-> d] ELSE reversers[p]]
      OBVIOUS
    <2>3. DOMAIN f \subseteq Mention /\ Of(f, id, d) = {}
      BY <1>4, <1>5, <2>1 DEF Of
    <2>4. \A b \in Docs : Of(f, id, b) \subseteq Of(entities, id, b)
      BY <1>5, <2>1 DEF Of
    <2>5. Covers([mentions  |-> rows[id].mentions - count[id],
                  documents |-> rows[id].documents - 1], f, Q, resolvers, id)
      BY <1>1, <1>3, <1>4, <1>6, <2>2, <2>3, <2>4, CoversReversed
    <2>6. Charged(rows[id].mentions - count[id], Held(f, Q, id), Pending(resolvers, id))
      BY <2>5 DEF Covers
    <2>7. m \in Of(f, id, m[1])
      BY <1>1, <2>1 DEF Of
    <2>8. Cardinality(Of(f, id, m[1])) \in Nat /\ Cardinality(Of(f, id, m[1])) # 0
      BY <2>3, <2>7, OfFinite, FS_EmptySet
    <2>9. <<m[1], 1>> \in Held(f, Q, id)
      BY <1>4, <2>8 DEF Held
    <2>10. Cardinality(Held(f, Q, id)) \in Nat /\ Cardinality(Held(f, Q, id)) # 0
      BY <2>6, <2>9, FS_CardinalityType, FS_EmptySet DEF Charged
    <2>11. Cardinality(Pending(resolvers, id)) \in Nat
      BY <2>6, FS_CardinalityType DEF Charged
    <2>12. PICK k : k = rows[id].mentions - count[id]
      OBVIOUS
    <2>13. k \in Int /\ ~(k <= 0)
      BY <2>6, <2>10, <2>11, <2>12 DEF Charged
    <2>14. counts[id].mentions = k
      BY <1>2, <1>4, <1>6, <2>12 DEF Decremented
    <2>15. QED BY <1>1, <1>2, <1>3, <2>13, <2>14
  <1>7. CASE id \notin DOMAIN count
    <2>1. counts[id] = rows[id]
      BY <1>2, <1>4, <1>7 DEF Decremented
    <2>2. id \notin empty
      BY <1>2, <1>5, <2>1
    <2>3. QED BY <1>1, <1>3, <2>2
  <1>8. QED BY <1>6, <1>7

LEMMA StepSurvives ==
  ASSUME IInv, Next
  PROVE  Survive
  <1>1. \A id \in DOMAIN rows : id # NoRow
    BY NoRowIsNoRow DEF IInv, Shape, RowsFit, Known
  <1>2. CASE entities' = entities
    BY <1>2 DEF Survive
  <1>3. ASSUME NEW d \in Docs, PersistBatch(d) PROVE Survive
    <2>1. PICK g : g = extracted[d] + 1
      OBVIOUS
    <2>2. PICK T : entities' = [m \in DOMAIN entities \cup ({d} \X T \X {g}) |->
                                   IF m[3] = g /\ m[1] = d THEN NoRow ELSE entities[m]]
      BY <1>3, <2>1 DEF PersistBatch
    <2>3. extracted[d] \in Nat
      BY DEF IInv, Shape, MentionsFit
    <2>4. ASSUME NEW m \in DOMAIN entities PROVE ~(m[3] = g /\ m[1] = d)
      <3>1. m[3] \in Nat /\ m[3] <= extracted[m[1]]
        BY BoundsAreNat DEF IInv, Shape, MentionsFit, Mention
      <3>2. QED BY <2>1, <2>3, <3>1
    <2>5. QED BY <2>2, <2>4 DEF Survive
  <1>4. ASSUME NEW D, entities' = Without(entities, D) PROVE Survive
    BY <1>4 DEF Survive, Without, Restrict
  <1>5. ASSUME NEW h \in Resolvers, Link(h) PROVE Survive
    BY <1>1, <1>5 DEF Survive, Link
  <1>6. ASSUME NEW j \in Aliasers, MergeDelete(j) PROVE Survive
    <2>1. /\ AliaserFits(aliasers[j]) /\ aliasers[j].pc = "delete"
          /\ aliasers'[j] = GoesOn(aliasers[j])
      BY <1>6 DEF MergeDelete, IInv, Shape
    <2>2. aliasers'[j].pc # "delete"
      BY <2>1, AliasGoesOn
    <2>3. To(aliasers[j]) # NoRow
      BY <2>1, NoRowIsNoRow DEF AliaserFits, To
    <2>4. entities' = [m \in DOMAIN entities |->
                         IF m \in aliasers[j].moved THEN To(aliasers[j])
                         ELSE IF entities[m] = From(aliasers[j]) THEN NoRow ELSE entities[m]]
      BY <1>6 DEF MergeDelete
    <2>5. QED BY <2>1, <2>2, <2>3, <2>4 DEF Survive
  <1>7. ASSUME NEW r \in Reversers, ReverseApply(r) PROVE Survive
    <2>1. reversers[r].pc = "apply" /\ reversers'[r].pc = "clear"
      BY <1>7 DEF ReverseApply, IInv, Shape
    <2>2. QED BY <1>7, <2>1, OthersSurvive DEF Survive
  <1>8. CASE \E d \in Docs : PersistBatch(d) \/ ReplaceChunks(d)
    BY <1>3, <1>4, <1>8 DEF ReplaceChunks
  <1>9. CASE \E h \in Resolvers : Resolve(h)
    BY <1>2, <1>5, <1>9 DEF Resolve, ResolveList, Canonicalize, ResolverLost
  <1>10. CASE \E j \in Aliasers : Alias(j)
    BY <1>2, <1>6, <1>10 DEF Alias, AliasRead, MergeRepoint, MergeCount, MergeFails
  <1>11. CASE \E r \in Reversers : Reverse(r)
    BY <1>2, <1>4, <1>7, <1>11 DEF Reverse, ReverseRead, ReverseClear, ReverserLost
  <1>12. QED BY <1>8, <1>9, <1>10, <1>11 DEF Next

\* No step but the reversal of its own document unlinks a mention that was
\* not linked behind a merge's back: another document's reversal never deletes
\* the row under it, and a merge keeps every mention it repointed, whatever is
\* linked, merged or reversed between its statements (ReverseApply's DELETE
\* and ON DELETE SET NULL; MergeInto).
THEOREM LinksStay == Spec => LinksSurvive
  <1>1. IInv /\ [Next]_vars => [Survive]_vars
    BY StepSurvives
  <1>2. QED BY <1>1, Invariant, PTL DEF Spec, LinksSurvive, Survive
=============================================================================
