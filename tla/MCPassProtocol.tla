---------------------------- MODULE MCPassProtocol ----------------------------
(* Small instances of PassProtocol for TLC. *)
EXTENDS PassProtocol, TLC

\* Tokens are interchangeable, and so are the processes of each kind.
Symmetry == Permutations(Tokens) \cup Permutations(Drivers) \cup Permutations(Waiters)
=============================================================================
