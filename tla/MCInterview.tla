----------------------------- MODULE MCInterview -----------------------------
\* The agent, and a thread of the server that answers it.
EXTENDS Interview, TLC
=============================================================================
