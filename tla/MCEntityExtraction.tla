------------------------- MODULE MCEntityExtraction -------------------------
(* The instances TLC checks; the batches are model values.                 *)
EXTENDS EntityExtraction, TLC

\* No property names a batch.
BatchSymmetry == Permutations(Batches)
=============================================================================
