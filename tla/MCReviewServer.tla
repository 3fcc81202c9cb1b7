---------------------------- MODULE MCReviewServer ----------------------------
\* Three processes, two drivers and two ports.
EXTENDS ReviewServer, TLC
=============================================================================
