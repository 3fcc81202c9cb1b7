----------------------------- MODULE MCPaneLedger -----------------------------
(* Small instances of PaneLedger for TLC. *)
EXTENDS PaneLedger, TLC

\* Pane ids, phases and processes are interchangeable.
Symmetry == Permutations(Ids) \cup Permutations(Phases) \cup Permutations(Procs)
=============================================================================
