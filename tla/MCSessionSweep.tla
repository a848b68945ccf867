--------------------------- MODULE MCSessionSweep ---------------------------
(* The instance TLC checks.  No symmetry: SessionIsSwept is a liveness      *)
(* property.                                                               *)
EXTENDS SessionSweep
=============================================================================
