---------------------------- MODULE MCReviewPanel ----------------------------
(* The small instance of ReviewPanel that TLC checks. *)
EXTENDS ReviewPanel

\* Every step of a pass that can fail, may.
Outages == {"clear", "probe", "spawn", "save", "seed", "merge", "reap", "leave"}
=============================================================================
