----------------------------- MODULE MCRunArchive -----------------------------
\* A driver's commands and the human's clicks, two at a time, over three workspaces.
EXTENDS RunArchive, TLC
=============================================================================
