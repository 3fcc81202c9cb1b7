----------------------------- MODULE GateDecision -----------------------------
(***************************************************************************)
(* What a run's spec gate promises, with no files, no server and no        *)
(* crashes: one decision register the reviewer and the agent move, which a *)
(* verdict closes for good, and a driver that learns either the outcome as *)
(* it stands or nothing.                                                   *)
(***************************************************************************)
EXTENDS Naturals

VARIABLES state,   \* where the gate is
          turn,    \* verdicts so far, a cancellation not counted
          told     \* the outcome the driver's last command exited with

vars == <<state, turn, told>>

\* LoopState, and those of its states that are verdicts (is_terminal).
States == {"idle", "waiting", "ready", "approved", "cancelled"}
Terminal == {"approved", "cancelled"}

\* WaitOutcome of a state: what `review wait` and `review status` exit with.
Outcomes == {"approved", "cancelled", "changes", "timeout"}
Outcome(s) == CASE s \in Terminal -> s
                [] s = "waiting"  -> "changes"
                [] s \in {"idle", "ready"} -> "timeout"

Init == state = "idle" /\ turn = 0 /\ told = "none"

\* A summary opens the gate for another look.
Open == state \notin Terminal /\ state' = "ready" /\ UNCHANGED <<turn, told>>

RequestChanges == /\ state \notin Terminal
                  /\ state' = "waiting" /\ turn' = turn + 1
                  /\ UNCHANGED told

Approve == /\ state \notin Terminal
           /\ state' = "approved" /\ turn' = turn + 1
           /\ UNCHANGED told

Cancel == state \notin Terminal /\ state' = "cancelled" /\ UNCHANGED <<turn, told>>

\* A command exits with the outcome as it stands, or fails; the next one begins.
Learn == told' \in {Outcome(state), "error"} /\ UNCHANGED <<state, turn>>
Ask == told' = "none" /\ UNCHANGED <<state, turn>>

Next == Open \/ RequestChanges \/ Approve \/ Cancel \/ Learn \/ Ask

Spec == Init /\ [][Next]_vars
=============================================================================
