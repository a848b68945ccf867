------------------------- MODULE MCCanonicalCounts -------------------------
(* The instances TLC checks; documents, texts and runs are model values.   *)
EXTENDS CanonicalCounts, TLC

\* No property names a document, a text or a run.
DataSymmetry ==
    Permutations(Docs) \cup Permutations(Texts) \cup Permutations(Resolvers)
      \cup Permutations(Aliasers) \cup Permutations(Reversers)

\* Once two reversals of one document overlapped, the properties of the
\* safety run say nothing more.
NotOverlapped == ~overlapped

\* Bound: the runs under way at once, and the texts whose row was created
\* again, are at most MaxAtOnce together.
MaxAtOnce == 3
Busy(runs) == {x \in DOMAIN runs : runs[x].pc # "idle"}
FewAtOnce ==
    Cardinality(Busy(resolvers)) + Cardinality(Busy(aliasers)) + Cardinality(Busy(reversers))
      + Cardinality({t \in Texts : created[t] > 1}) <= MaxAtOnce
=============================================================================
