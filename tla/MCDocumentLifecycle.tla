------------------------ MODULE MCDocumentLifecycle ------------------------
(* The instances TLC checks; deliveries and requests are model values.     *)
EXTENDS DocumentLifecycle, TLC

\* Deliveries are interchangeable, and so are requests.
ActorSymmetry == Permutations(Deliveries) \cup Permutations(Requests)
=============================================================================
