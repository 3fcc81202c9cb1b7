----------------------------- MODULE MCReviewGate -----------------------------
(* Instances of ReviewGate for TLC; every bound is a constant of its own. *)
EXTENDS ReviewGate
=============================================================================
