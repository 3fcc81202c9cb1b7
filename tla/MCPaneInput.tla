----------------------------- MODULE MCPaneInput -----------------------------
(* The small instance of PaneInput that TLC checks. *)
EXTENDS PaneInput
=============================================================================
