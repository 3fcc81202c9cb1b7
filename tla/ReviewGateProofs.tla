--------------------------- MODULE ReviewGateProofs ---------------------------
(***************************************************************************)
(* That the review gate is one decision register, for every bound on the   *)
(* requests, faults, crashes and edits: types, the agreement of the live   *)
(* server with its disk, the permanence of an acknowledged verdict, the    *)
(* refinement of GateDecision and the wholeness of a turn. All but the     *)
(* first assume that no run directory is purged under the server, whose    *)
(* memory nothing invalidates. When no write fails, also that a revision   *)
(* is diffed against the one before it, purges included.                   *)
(***************************************************************************)
EXTENDS ReviewGate, TLAPS

Verdicts == {"approved", "cancelled"}

\* The types, and that only a verdict gets as far as its marker.
TypeInv == TypeOK /\ (op.step = "marker" => op.kind \in {"approve", "cancel"})

\* The state of the handlers, the markers and the acknowledgements relative to
\* the disk: what makes the safety properties inductive.
GateInv ==
    /\ LiveServerAgreesWithDisk
    /\ Locked => cell # NoCell
    /\ Locked /\ op.step # "marker" => ~ Terminal(disk)
    /\ op.step = "marker" => disk.state = Verdict(op.kind)
    /\ \A m \in marks : disk.state = m
    /\ AckedVerdictStands

-----------------------------------------------------------------------------
\* A decision turns a review state into a review state.
LEMMA DecidedType ==
    ASSUME NEW rs \in ReviewState, NEW kind \in Kinds
    PROVE  /\ Decided(rs, kind) \in ReviewState
           /\ Decided(rs, kind).state \in {"approved", "cancelled", "waiting", "ready"}
           /\ Decided(rs, kind).state = Verdict(kind)
           /\ kind \in {"approve", "cancel"} => Verdict(kind) \in Verdicts
           /\ Decided(rs, kind) # NoCell
<1>1. CASE kind = "approve"
  BY <1>1 DEF Decided, Verdict, Idle, ReviewState, States, Verdicts, NoCell
<1>2. CASE kind = "cancel"
  BY <1>2 DEF Decided, Verdict, Idle, ReviewState, States, Verdicts, NoCell
<1>3. CASE kind = "changes"
  BY <1>3 DEF Decided, Verdict, Idle, ReviewState, States, Verdicts, NoCell
<1>4. CASE kind = "summary"
  BY <1>4 DEF Decided, Verdict, Idle, ReviewState, States, Verdicts, NoCell
<1> QED BY <1>1, <1>2, <1>3, <1>4 DEF Kinds

\* The request at work has a kind, and its step is none of NoOp's.
LEMMA LockedOp ==
    ASSUME TypeOK, op.step # "none"
    PROVE  /\ op \in [kind : Kinds, step : Steps, base : Nat, staged : Nat]
           /\ op.kind \in Kinds /\ Locked
BY DEF TypeOK, Ops, NoOp, Locked

\* No step leaves the types (every handler, command and crash of the gate).
LEMMA TypeStep == TypeInv /\ [Next]_vars => TypeInv'
<1> SUFFICES ASSUME TypeInv, [Next]_vars PROVE TypeInv' OBVIOUS
<1> USE DEF TypeInv, TypeOK
<1>cell. Cell \in ReviewState
  BY DEF Cell, NoCell, ReviewState
<1>1. ASSUME NEW kind \in Kinds, Begin(kind), submits' \in Nat, posts' \in Nat PROVE TypeInv'
  <2>1. op' \in Ops /\ op'.step # "marker"
    <3>1. CASE kind \in {"changes", "summary"}
      BY <1>1, <3>1 DEF Begin, Ops, NoOp, Steps, Kinds
    <3>2. CASE kind = "approve"
      BY <1>1, <3>2 DEF Begin, Ops, NoOp, Steps, Kinds
    <3>3. CASE kind = "cancel"
      BY <1>1, <3>3 DEF Begin, Ops, NoOp, Steps, Kinds
    <3> QED BY <3>1, <3>2, <3>3 DEF Kinds
  <2> QED BY <1>1, <1>cell, <2>1
        DEF Begin, record, details, baselines, client, ghosts
<1>2. ASSUME NEW kind \in Kinds, Submit(kind) PROVE TypeInv'
  <2>1. submits' \in Nat /\ posts' \in Nat /\ Begin(kind) BY <1>2 DEF Submit
  <2> QED BY <2>1, <1>1
<1>3. CASE PostSummary
  <2>1. submits' \in Nat /\ posts' \in Nat /\ Begin("summary") BY <1>3 DEF PostSummary
  <2> QED BY <2>1, <1>1 DEF Kinds
<1>4. ASSUME NEW r \in Results, WritePrior(r) PROVE TypeInv'
  <2>1. op \in [kind : Kinds, step : Steps, base : Nat, staged : Nat]
    BY <1>4, LockedOp DEF WritePrior
  <2>2. op' \in Ops BY <1>4, <2>1 DEF WritePrior, Ops, Steps
  <2>3. prior' \in Nat BY <1>4 DEF WritePrior, Write
  <2> QED BY <1>4, <2>2, <2>3
        DEF WritePrior, Charge, record, details, client, ghosts
<1>5. ASSUME NEW r \in Results, WriteLastSum(r) PROVE TypeInv'
  <2>1. op \in [kind : Kinds, step : Steps, base : Nat, staged : Nat]
    BY <1>5, LockedOp DEF WriteLastSum
  <2>2. op' \in Ops BY <1>5, <2>1 DEF WriteLastSum, Ops, Steps
  <2>3. lastSum' \in Nat BY <1>5, <2>1 DEF WriteLastSum, Write
  <2> QED BY <1>5, <2>2, <2>3
        DEF WriteLastSum, Charge, record, details, client, ghosts
<1>6. ASSUME NEW r \in Results, WriteDetail(r) PROVE TypeInv'
  <2>1. op \in [kind : Kinds, step : Steps, base : Nat, staged : Nat]
    BY <1>6, LockedOp DEF WriteDetail
  <2>2. op' \in Ops /\ op'.step # "marker"
    <3>1. CASE r = "notWritten" BY <1>6, <3>1 DEF WriteDetail, Answer, Ops, NoOp
    <3>2. CASE r # "notWritten"
      <4>1. op' = [op EXCEPT !.step = IF r = "ok" THEN "commit" ELSE "rollBack",
                             !.staged = IF op.kind = "summary" THEN summary ELSE feedback]
        BY <1>6, <3>2 DEF WriteDetail
      <4>2. PICK s \in {"commit", "rollBack"}, n \in Nat :
               op' = [op EXCEPT !.step = s, !.staged = n]
        BY <4>1
      <4> QED BY <2>1, <4>2 DEF Ops, Steps
    <3> QED BY <3>1, <3>2
  <2>3. cell.turn \in Nat BY DEF ReviewState, NoCell
  <2>4. summary' \in Nat /\ feedback' \in Nat BY <1>6, <2>3 DEF WriteDetail, Write
  <2> QED BY <1>6, <2>2, <2>4
        DEF WriteDetail, Charge, record, baselines, client, ghosts
<1>7. ASSUME NEW r \in Results, RollBack(r) PROVE TypeInv'
  <2>1. op \in [kind : Kinds, step : Steps, base : Nat, staged : Nat]
    BY <1>7, LockedOp DEF RollBack
  <2>2. op' \in Ops /\ op'.step # "marker" BY <1>7 DEF RollBack, Answer, Ops, NoOp
  <2>3. summary' \in Nat /\ feedback' \in Nat BY <1>7, <2>1 DEF RollBack, Write
  <2>4. clean' \in BOOLEAN BY <1>7 DEF RollBack
  <2> QED BY <1>7, <2>2, <2>3, <2>4
        DEF RollBack, Charge, record, baselines, client
<1>8. ASSUME NEW r \in Results, Commit(r) PROVE TypeInv'
  <2>1. op \in [kind : Kinds, step : Steps, base : Nat, staged : Nat] /\ op.kind \in Kinds
    BY <1>8, LockedOp DEF Commit
  <2>2. cell \in ReviewState \/ cell = NoCell OBVIOUS
  <2>3. Decided(cell, op.kind) \in ReviewState
    <3>1. cell.turn \in Nat BY DEF ReviewState, NoCell
    <3> DEFINE rs == [state |-> "idle", turn |-> cell.turn]
    <3>2. rs \in ReviewState BY <3>1 DEF ReviewState, States
    <3>3. Decided(rs, op.kind) \in ReviewState BY <2>1, <3>2, DecidedType
    <3>4. Decided(rs, op.kind) = Decided(cell, op.kind) BY DEF Decided
    <3> QED BY <3>3, <3>4
  <2>4. disk' \in ReviewState BY <1>8, <2>3 DEF Commit, Write
  <2>5. cell' \in ReviewState \cup {NoCell} BY <1>8, <2>3 DEF Commit
  <2>6. op' \in Ops /\ (op'.step = "marker" => op'.kind \in {"approve", "cancel"})
    BY <1>8, <2>1 DEF Commit, Stands, Refused, Answer, Goto, Ops, NoOp, Steps
  <2>7. shown' \in Nat /\ committed' \in Nat /\ acked' = acked /\ clean' = clean
    BY <1>8, <2>1 DEF Commit, Stands, Refused, ghosts
  <2> QED BY <1>8, <2>4, <2>5, <2>6, <2>7
        DEF Commit, Charge, details, baselines, client
<1>9. ASSUME NEW r \in Results, WriteMarker(r) PROVE TypeInv'
  <2>1. op.kind \in {"approve", "cancel"} BY <1>9 DEF WriteMarker
  <2>2. Verdict(op.kind) \in {"approved", "cancelled"}
    BY <2>1, DecidedType DEF Idle, ReviewState, States, Kinds, Verdicts
  <2>3. op' \in Ops /\ op'.step # "marker" BY <1>9 DEF WriteMarker, Answer, Ops, NoOp
  <2>4. marks' \subseteq {"approved", "cancelled"} BY <1>9, <2>2 DEF WriteMarker, Write
  <2>5. acked' \subseteq {"approved", "cancelled"} BY <1>9, <2>2 DEF WriteMarker
  <2>6. up' \in BOOLEAN /\ clean' \in BOOLEAN BY <1>9 DEF WriteMarker
  <2> QED BY <1>9, <2>3, <2>4, <2>5, <2>6
        DEF WriteMarker, Charge, details, baselines, client
<1>10. CASE Crash
  <2>1. op' \in Ops /\ op'.step # "marker" BY <1>10 DEF Crash, Ops, NoOp
  <2>2. clean' \in BOOLEAN BY <1>10 DEF Crash
  <2>3. up' \in BOOLEAN /\ cell' = NoCell /\ faults' = faults + 1 BY <1>10 DEF Crash
  <2> QED BY <1>10, <2>1, <2>2, <2>3 DEF Crash, record, details, baselines, client
<1>11. CASE StartServer
  BY <1>11 DEF StartServer, record, details, baselines, client, ghosts, bounds
<1>12. CASE EditSpec
  BY <1>12 DEF EditSpec, server, record, details, baselines, client, ghosts, bounds
<1>13. CASE PurgeAndRecreate
  BY <1>13 DEF PurgeAndRecreate, server, Idle, ReviewState, States
<1>14. CASE WaitBegin
  BY <1>14 DEF WaitBegin, server, record, details, baselines, ghosts, bounds, Drivers
<1>15. ASSUME NEW rs \in ReviewState, Report(Outcome(rs.state)), server' \in {server, <<up, Cell, op>>}
       PROVE TypeInv'
  <2>1. Outcome(rs.state) \in {"approved", "cancelled", "changes", "timeout"}
    BY DEF Outcome, ReviewState, States
  <2>3. cell' \in {cell, Cell} /\ up' = up /\ op' = op BY <1>15 DEF server
  <2> QED BY <1>15, <1>cell, <2>1, <2>3
        DEF Report, Exit, record, details, baselines, bounds, Drivers
<1>16. CASE WaitFetch
  BY <1>16, <1>15, <1>cell DEF WaitFetch, server
<1>17. CASE WaitPoll
  BY <1>17 DEF WaitPoll, record, details, baselines, client, ghosts, bounds
<1>18. CASE WaitError
  BY <1>18 DEF WaitError, Exit, server, record, details, baselines, ghosts, bounds, Drivers
<1>19. CASE StatusBegin
  BY <1>19 DEF StatusBegin, Exit, server, record, details, baselines, ghosts, bounds, Drivers
<1>20. CASE StatusApproved
  BY <1>20 DEF StatusApproved, Exit, server, record, details, baselines, ghosts, bounds, Drivers
<1>21. CASE StatusState
  BY <1>21, <1>15 DEF StatusState
<1>22. CASE UNCHANGED vars
  BY <1>22 DEF vars, server, record, details, baselines, client, ghosts, bounds
<1> QED
  BY <1>2, <1>3, <1>4, <1>5, <1>6, <1>7, <1>8, <1>9, <1>10, <1>11, <1>12, <1>13, <1>14,
     <1>16, <1>17, <1>18, <1>19, <1>20, <1>21, <1>22
  DEF Next, Handle, Reviewer, Agent, Wait, Status

\* The gate of a fresh run has its types.
LEMMA TypeInit == Init => TypeInv
<1> SUFFICES ASSUME Init PROVE TypeInv OBVIOUS
<1>1. op \in Ops /\ op.step # "marker" BY DEF Init, Ops, NoOp
<1>2. disk \in ReviewState BY DEF Init, Idle, ReviewState, States
<1> QED BY <1>1, <1>2 DEF Init, TypeInv, TypeOK, Drivers

\* Every variable keeps its type in every behaviour, whatever fails or crashes
\* in whichever handler (handle_post_submit, handle_post_summary).
THEOREM TypeCorrect == Spec => []TypeOK
<1>1. TypeInv => TypeOK BY DEF TypeInv
<1> QED BY TypeInit, TypeStep, <1>1, PTL DEF Spec

-----------------------------------------------------------------------------
\* GateInv says nothing but of these; a step that keeps them keeps it.
LEMMA Undisturbed ==
    ASSUME GateInv, UNCHANGED <<cell, op, disk, marks, acked>> PROVE GateInv'
BY DEF GateInv, LiveServerAgreesWithDisk, Locked, AckedVerdictStands, Terminal

\* The state of the gate relative to its files survives every step.
LEMMA GateStep ==
    ASSUME MaxPurges = 0 PROVE TypeInv /\ GateInv /\ [Next]_vars => GateInv'
<1> SUFFICES ASSUME TypeInv, GateInv, [Next]_vars PROVE GateInv' OBVIOUS
<1>cell. Cell = disk
  BY DEF Cell, GateInv, LiveServerAgreesWithDisk
<1>type. TypeOK /\ disk # NoCell
  BY DEF TypeInv, TypeOK, NoCell, ReviewState, States
<1>1. ASSUME NEW kind \in Kinds, Begin(kind), ~ Terminal(Cell) PROVE GateInv'
  <2>1. op' # NoOp => op'.step # "marker" /\ ~ Terminal(disk)
    BY <1>1, <1>cell DEF Begin, NoOp, Kinds
  <2>2. op'.step # "marker" BY <1>1 DEF Begin, NoOp, Kinds
  <2>3. cell' = disk /\ UNCHANGED <<disk, marks, acked>>
    BY <1>1, <1>cell DEF Begin, record, ghosts
  <2> QED BY <2>1, <2>2, <2>3, <1>type
        DEF GateInv, LiveServerAgreesWithDisk, Locked, AckedVerdictStands, Terminal
<1>2. ASSUME NEW kind \in Kinds, Submit(kind) PROVE GateInv'
  BY <1>1, <1>2 DEF Submit
<1>3. CASE PostSummary
  BY <1>1, <1>3 DEF PostSummary, Kinds
\* A step inside the handler, short of its commit.
<1>4. ASSUME UNCHANGED <<cell, disk, marks, acked>>, op.step \notin {"none", "marker"},
             op' = NoOp \/ op'.step # "marker"
      PROVE  GateInv'
  <2>1. Locked BY <1>4 DEF Locked, NoOp
  <2> QED BY <1>4, <2>1
        DEF GateInv, LiveServerAgreesWithDisk, Locked, AckedVerdictStands, Terminal, NoOp
<1>5. ASSUME NEW r \in Results, WritePrior(r) PROVE GateInv'
  <2>1. op'.step # "marker" BY <1>5, LockedOp, <1>type DEF WritePrior
  <2> QED BY <1>5, <2>1, <1>4 DEF WritePrior, record, ghosts
<1>6. ASSUME NEW r \in Results, WriteLastSum(r) PROVE GateInv'
  <2>1. op'.step # "marker" BY <1>6, LockedOp, <1>type DEF WriteLastSum
  <2> QED BY <1>6, <2>1, <1>4 DEF WriteLastSum, record, ghosts
<1>7. ASSUME NEW r \in Results, WriteDetail(r) PROVE GateInv'
  <2>1. op' = NoOp \/ op'.step # "marker"
    BY <1>7, LockedOp, <1>type DEF WriteDetail, Answer
  <2> QED BY <1>7, <2>1, <1>4 DEF WriteDetail, record, ghosts
<1>8. ASSUME NEW r \in Results, RollBack(r) PROVE GateInv'
  BY <1>8, <1>4 DEF RollBack, Answer, record
<1>9. ASSUME NEW r \in Results, Commit(r) PROVE GateInv'
  <2>1. op.kind \in Kinds /\ Locked /\ op \in [kind : Kinds, step : Steps, base : Nat, staged : Nat]
    BY <1>9, LockedOp, <1>type DEF Commit
  <2>2. cell = disk /\ ~ Terminal(disk)
    BY <1>9, <2>1 DEF Commit, GateInv, LiveServerAgreesWithDisk
  <2>3. marks = {} /\ acked = {}
    BY <2>2, <1>type DEF GateInv, AckedVerdictStands, Terminal, TypeOK
  <2>4. UNCHANGED <<marks, acked>> BY <1>9 DEF Commit, Stands, Refused, ghosts
  <2>5. CASE ~ Landed(r)
    <3>1. UNCHANGED <<cell, disk>> BY <1>9, <2>5 DEF Commit, Write
    <3>2. op' = NoOp \/ op'.step # "marker"
      BY <1>9, <2>1, <2>5 DEF Commit, Refused, Answer, Goto
    <3> QED BY <1>9, <2>4, <3>1, <3>2, <1>4 DEF Commit
  <2>6. CASE Landed(r)
    <3> DEFINE next == Decided(cell, op.kind)
    <3>1. cell' = next /\ disk' = next BY <1>9, <2>6 DEF Commit, Write
    <3>2. next.state = Verdict(op.kind) BY <2>1, <2>2, <1>type, DecidedType DEF TypeOK
    <3>3. op' = NoOp \/ (op'.step = "marker" /\ op'.kind = op.kind)
      BY <1>9, <2>1, <2>6 DEF Commit, Stands, Answer, Goto
    <3>4. next # NoCell BY <2>1, <2>2, <1>type, DecidedType DEF TypeOK
    <3> QED BY <2>3, <2>4, <3>1, <3>2, <3>3, <3>4
          DEF GateInv, LiveServerAgreesWithDisk, Locked, AckedVerdictStands, Verdict, NoOp
  <2> QED BY <2>5, <2>6
<1>10. ASSUME NEW r \in Results, WriteMarker(r) PROVE GateInv'
  <2>1. disk.state = Verdict(op.kind) BY <1>10 DEF WriteMarker, GateInv
  <2>2. marks' \subseteq marks \cup {Verdict(op.kind)} BY <1>10 DEF WriteMarker, Write
  <2>3. acked' = acked \cup {Verdict(op.kind)} /\ UNCHANGED <<cell, disk>> /\ op' = NoOp
    BY <1>10 DEF WriteMarker, Answer
  <2> QED BY <2>1, <2>2, <2>3
        DEF GateInv, LiveServerAgreesWithDisk, Locked, AckedVerdictStands, NoOp
<1>11. CASE Crash
  <2>1. cell' = NoCell /\ op' = NoOp /\ UNCHANGED <<disk, marks, acked>>
    BY <1>11 DEF Crash, record
  <2> QED BY <2>1 DEF GateInv, LiveServerAgreesWithDisk, Locked, AckedVerdictStands, NoOp
<1>12. CASE StartServer
  BY <1>12, Undisturbed DEF StartServer, record, ghosts
<1>13. CASE EditSpec
  BY <1>13, Undisturbed DEF EditSpec, server, record, ghosts
<1>14. CASE PurgeAndRecreate
  BY <1>14, <1>type DEF PurgeAndRecreate, TypeOK
<1>15. CASE WaitBegin \/ WaitError \/ StatusBegin \/ StatusApproved
  <2>1. CASE WaitBegin BY <2>1, Undisturbed DEF WaitBegin, server, record, ghosts
  <2>2. CASE WaitError BY <2>2, Undisturbed DEF WaitError, Exit, server, record, ghosts
  <2>3. CASE StatusBegin BY <2>3, Undisturbed DEF StatusBegin, Exit, server, record, ghosts
  <2>4. CASE StatusApproved BY <2>4, Undisturbed DEF StatusApproved, Exit, server, record, ghosts
  <2> QED BY <1>15, <2>1, <2>2, <2>3, <2>4
<1>16. CASE StatusState
  BY <1>16, Undisturbed DEF StatusState, Report, Exit, server, record
<1>17. CASE WaitFetch \/ WaitPoll
  <2>1. cell' = disk /\ op = NoOp /\ UNCHANGED <<op, disk, marks, acked>>
    <3>1. CASE WaitFetch
      BY <3>1, <1>cell DEF WaitFetch, Locked, Report, Exit, record
    <3>2. CASE WaitPoll
      BY <3>2 DEF WaitPoll, Locked, record, ghosts
    <3> QED BY <1>17, <3>1, <3>2
  <2> QED BY <2>1 DEF GateInv, LiveServerAgreesWithDisk, Locked, AckedVerdictStands, NoOp
<1>18. CASE UNCHANGED vars
  BY <1>18, Undisturbed DEF vars, server, record, ghosts
<1> QED
  BY <1>2, <1>3, <1>5, <1>6, <1>7, <1>8, <1>9, <1>10, <1>11, <1>12, <1>13, <1>14, <1>15,
     <1>16, <1>17, <1>18
  DEF Next, Handle, Reviewer, Agent, Wait, Status

\* Nothing has been decided, marked or acknowledged in a fresh run.
LEMMA GateInit == Init => GateInv
BY DEF Init, GateInv, LiveServerAgreesWithDisk, Locked, AckedVerdictStands, NoOp

\* The live server answers what a restarted one would, whichever write failed
\* and wherever it was killed (ReviewState::commit, refuse_undurable).
THEOREM Agreement == ASSUME MaxPurges = 0 PROVE Spec => []LiveServerAgreesWithDisk
<1>1. GateInv => LiveServerAgreesWithDisk BY DEF GateInv
<1>2. TypeInv /\ GateInv /\ [Next]_vars => (TypeInv /\ GateInv)' BY TypeStep, GateStep
<1> QED BY TypeInit, GateInit, <1>1, <1>2, PTL DEF Spec

\* A verdict answered 200 is the recorded one for good (handle_post_submit).
THEOREM AckedStands == ASSUME MaxPurges = 0 PROVE Spec => []AckedVerdictStands
<1>1. GateInv => AckedVerdictStands BY DEF GateInv
<1>2. TypeInv /\ GateInv /\ [Next]_vars => (TypeInv /\ GateInv)' BY TypeStep, GateStep
<1> QED BY TypeInit, GateInit, <1>1, <1>2, PTL DEF Spec

-----------------------------------------------------------------------------
\* The two readings of a state are one table (gate_status_in, review_wait).
LEMMA OneTable == ASSUME NEW s \in States PROVE Gate!Outcome(s) = Outcome(s)
<1>1. CASE s \in {"approved", "cancelled"} BY <1>1 DEF Outcome, Gate!Outcome, Gate!Terminal
<1>2. CASE s = "waiting" BY <1>2 DEF Outcome, Gate!Outcome, Gate!Terminal
<1>3. CASE s \in {"idle", "ready"} BY <1>3 DEF Outcome, Gate!Outcome, Gate!Terminal
<1> QED BY <1>1, <1>2, <1>3 DEF States

\* Every step of the gate is a step of the decision register or none.
LEMMA GateSimulates ==
    ASSUME MaxPurges = 0, TypeInv, GateInv, [Next]_vars
    PROVE  [Gate!Next]_(Gate!vars)
<1> USE DEF Gate!vars
<1>cell. Cell = disk
  BY DEF Cell, GateInv, LiveServerAgreesWithDisk
<1>type. TypeOK BY DEF TypeInv
<1>state. disk \in ReviewState /\ disk.state \in States /\ disk.turn \in Nat
  BY <1>type DEF TypeOK, ReviewState
<1>learn. ASSUME told' \in {Outcome(disk.state), "error"}, UNCHANGED disk
          PROVE  Gate!Next
  BY <1>learn, <1>state, OneTable DEF Gate!Next, Gate!Learn
<1>1. ASSUME NEW kind \in Kinds, Submit(kind) PROVE UNCHANGED <<disk, told>>
  BY <1>1 DEF Submit, Begin, record, client
<1>2. CASE PostSummary
  BY <1>2 DEF PostSummary, Begin, record, client
<1>3. ASSUME NEW r \in Results,
             WritePrior(r) \/ WriteLastSum(r) \/ WriteDetail(r) \/ RollBack(r) \/ WriteMarker(r)
      PROVE  UNCHANGED <<disk, told>>
  BY <1>3 DEF WritePrior, WriteLastSum, WriteDetail, RollBack, WriteMarker, record, client
<1>4. ASSUME NEW r \in Results, Commit(r) PROVE [Gate!Next]_(Gate!vars)
  <2>1. op.kind \in Kinds /\ Locked
    BY <1>4, LockedOp, <1>type DEF Commit
  <2>2. cell = disk /\ disk.state \notin Gate!Terminal
    BY <1>4, <2>1 DEF Commit, GateInv, LiveServerAgreesWithDisk, Terminal, Gate!Terminal
  <2>3. told' = told BY <1>4 DEF Commit, client
  <2>4. CASE ~ Landed(r) BY <1>4, <2>3, <2>4 DEF Commit, Write
  <2>5. CASE Landed(r)
    <3>1. disk' = Decided(disk, op.kind) BY <1>4, <2>2, <2>5 DEF Commit, Write
    <3>2. CASE op.kind = "approve"
      BY <2>2, <2>3, <3>1, <3>2 DEF Decided, Gate!Next, Gate!Approve
    <3>3. CASE op.kind = "cancel"
      BY <2>2, <2>3, <3>1, <3>3 DEF Decided, Gate!Next, Gate!Cancel
    <3>4. CASE op.kind = "changes"
      BY <2>2, <2>3, <3>1, <3>4 DEF Decided, Gate!Next, Gate!RequestChanges
    <3>5. CASE op.kind = "summary"
      BY <2>2, <2>3, <3>1, <3>5 DEF Decided, Gate!Next, Gate!Open
    <3> QED BY <2>1, <3>2, <3>3, <3>4, <3>5 DEF Kinds
  <2> QED BY <2>4, <2>5
<1>5. CASE Crash \/ StartServer \/ EditSpec \/ WaitPoll
  BY <1>5 DEF Crash, StartServer, EditSpec, WaitPoll, record, client
<1>6. CASE PurgeAndRecreate
  BY <1>6, <1>type DEF PurgeAndRecreate, TypeOK
<1>7. CASE WaitBegin
  BY <1>7 DEF WaitBegin, record, Gate!Next, Gate!Ask
<1>8. CASE WaitFetch
  BY <1>8, <1>cell, <1>learn DEF WaitFetch, Report, Exit, record
<1>9. CASE WaitError
  BY <1>9, <1>learn DEF WaitError, Exit, record
\* A marker that exists names the state.
<1>10. CASE StatusBegin
  <2>1. CASE "cancelled" \in marks
    <3>1. Outcome(disk.state) = "cancelled" BY <2>1 DEF GateInv, Outcome
    <3> QED BY <1>10, <2>1, <3>1, <1>learn DEF StatusBegin, Exit, record
  <2>2. CASE "cancelled" \notin marks
    BY <1>10, <2>2 DEF StatusBegin, record, Gate!Next, Gate!Ask
  <2> QED BY <2>1, <2>2
<1>11. CASE StatusApproved
  <2>1. CASE "approved" \in marks
    <3>1. Outcome(disk.state) = "approved" BY <2>1 DEF GateInv, Outcome
    <3> QED BY <1>11, <2>1, <3>1, <1>learn DEF StatusApproved, Exit, record
  <2>2. CASE "approved" \notin marks
    BY <1>11, <2>2 DEF StatusApproved, record
  <2> QED BY <2>1, <2>2
<1>12. CASE StatusState
  BY <1>12, <1>learn DEF StatusState, Report, Exit, record
<1>13. CASE UNCHANGED vars
  BY <1>13 DEF vars, record, client
<1> QED
  BY <1>1, <1>2, <1>3, <1>4, <1>5, <1>6, <1>7, <1>8, <1>9, <1>10, <1>11, <1>12, <1>13
  DEF Next, Handle, Reviewer, Agent, Wait, Status

\* However its writes fail and wherever it is killed, the gate is one decision
\* register that a verdict closes for good and whose readers, with the server or
\* without it, only ever exit with the recorded outcome (is_terminal,
\* ReviewState::commit, gate_status_in, review_wait).
THEOREM Refinement == ASSUME MaxPurges = 0 PROVE Spec => ImplementsGate
<1>1. Init => Gate!Init BY DEF Init, Gate!Init, Idle
<1>2. TypeInv /\ GateInv /\ [Next]_vars => (TypeInv /\ GateInv)' BY TypeStep, GateStep
<1>3. TypeInv /\ GateInv /\ [Next]_vars => [Gate!Next]_(Gate!vars) BY GateSimulates
<1> QED BY TypeInit, GateInit, <1>1, <1>2, <1>3, PTL DEF Spec, ImplementsGate, Gate!Spec

-----------------------------------------------------------------------------
\* What Staged holds back while a turn is neither recorded nor put back, next to
\* the turn and the post that the state file already names.
StagesTurn == op.step \in {"commit", "rollBack"} /\ op.kind \in {"approve", "changes"}
StagesPost == op.step \in {"commit", "rollBack"} /\ op.kind = "summary"
TurnInv ==
    /\ op.step \in {"prior", "lastSum", "detail", "rollBack"} => op.kind # "cancel"
    /\ disk.turn <= feedback
    /\ committed <= summary /\ summary <= posts
    /\ clean /\ ~ StagesTurn => feedback = disk.turn
    /\ clean /\ ~ StagesPost => summary = committed
    /\ StagesTurn => /\ op.step = "commit" => feedback = disk.turn + 1
                     /\ disk.turn <= op.staged
                     /\ clean => op.staged = disk.turn
    /\ StagesPost => /\ op.step = "commit" => summary = posts
                     /\ committed <= op.staged /\ op.staged <= posts
                     /\ clean => op.staged = committed

\* The rolling copy is the revision that was last put in front of the reviewer,
\* and prior.md the one before it, until a turn moves both on.
DiffInv ==
    /\ faults = 0 /\ op.step # "rollBack"
    /\ op.step \in {"prior", "lastSum"} => op.kind \in {"changes", "summary"}
    /\ spec = 0 => lastSum = 0 /\ op.base = 0
    /\ IF op.kind \in {"changes", "summary"} /\ op.step \in {"detail", "commit"}
         THEN lastSum = op.base
         ELSE lastSum = shown
    /\ op.kind = "summary" /\ op.step \in {"lastSum", "detail", "commit"} /\ shown # 0 => prior = shown

\* A refused turn is put back, a killed one is owned up to in `clean`: a turn's
\* text is never behind the state that names it.
LEMMA TurnStep ==
    ASSUME MaxPurges = 0 PROVE TypeInv /\ GateInv /\ TurnInv /\ [Next]_vars => TurnInv'
<1> SUFFICES ASSUME TypeInv, GateInv, TurnInv, [Next]_vars PROVE TurnInv' OBVIOUS
<1> USE DEF TurnInv, StagesTurn, StagesPost
<1>type. /\ TypeOK /\ disk.turn \in Nat /\ disk.state \in States /\ disk \in ReviewState
         /\ feedback \in Nat /\ summary \in Nat /\ committed \in Nat /\ posts \in Nat
         /\ clean \in BOOLEAN
  BY DEF TypeInv, TypeOK, ReviewState
<1>same. ASSUME UNCHANGED <<op, disk, details, committed, posts, clean>> PROVE TurnInv'
  BY <1>same DEF details
<1>1. ASSUME NEW kind \in Kinds, Begin(kind), posts' \in Nat, posts <= posts' PROVE TurnInv'
  <2>1. /\ ~ Locked /\ ~ StagesTurn /\ ~ StagesPost
        /\ UNCHANGED <<disk, details, committed, clean>>
    BY <1>1 DEF Begin, Locked, NoOp, record, ghosts
  <2>2. /\ op'.kind = kind
        /\ op'.step = "commit" => kind = "cancel"
        /\ op'.step \in {"prior", "lastSum", "detail", "rollBack"} => kind # "cancel"
        /\ op'.step # "rollBack"
    BY <1>1 DEF Begin, NoOp, Kinds
  <2>3. ~ StagesTurn' /\ ~ StagesPost'
    BY <2>2
  <2> QED BY <1>1, <1>type, <2>1, <2>2, <2>3 DEF details
<1>2. ASSUME NEW kind \in Kinds, Submit(kind) PROVE TurnInv'
  BY <1>1, <1>2, <1>type DEF Submit
<1>3. CASE PostSummary
  BY <1>1, <1>3, <1>type DEF PostSummary, Kinds
\* A step of a handler that ends no turn and starts none.
<1>4. ASSUME NEW r \in Results, WritePrior(r) \/ WriteLastSum(r) PROVE TurnInv'
  <2>1. op \in [kind : Kinds, step : Steps, base : Nat, staged : Nat]
    BY <1>4, <1>type, LockedOp DEF WritePrior, WriteLastSum
  <2>2. op'.kind = op.kind /\ op'.step \in {"lastSum", "detail"} /\ op.step \in {"prior", "lastSum"}
    BY <1>4, <2>1 DEF WritePrior, WriteLastSum
  <2>3. UNCHANGED <<disk, details, committed, posts, clean>>
    BY <1>4 DEF WritePrior, WriteLastSum, Charge, record, ghosts
  <2> QED BY <2>2, <2>3 DEF details
<1>5. ASSUME NEW r \in Results, WriteDetail(r) PROVE TurnInv'
  <2>1. op \in [kind : Kinds, step : Steps, base : Nat, staged : Nat] /\ Locked
    BY <1>5, <1>type, LockedOp DEF WriteDetail
  <2>2. /\ UNCHANGED <<disk, committed, posts, clean>>
        /\ op.step = "detail" /\ op.kind # "cancel" /\ ~ StagesTurn /\ ~ StagesPost
    BY <1>5 DEF WriteDetail, Charge, record, ghosts
  <2>3. cell = disk BY <2>1 DEF GateInv, LiveServerAgreesWithDisk
  <2>4. CASE r = "notWritten"
    <3>1. op' = NoOp /\ UNCHANGED details
      BY <1>5, <2>4 DEF WriteDetail, Write, Landed, Answer, details
    <3> QED BY <2>2, <3>1 DEF NoOp, details
  <2>5. CASE r # "notWritten"
    <3>1. op' = [op EXCEPT !.step = IF r = "ok" THEN "commit" ELSE "rollBack",
                           !.staged = IF op.kind = "summary" THEN summary ELSE feedback]
      BY <1>5, <2>5 DEF WriteDetail
    <3>2. /\ op'.kind = op.kind /\ op'.step \in {"commit", "rollBack"}
          /\ op'.staged = IF op.kind = "summary" THEN summary ELSE feedback
      BY <2>1, <3>1
    <3>3. CASE op.kind = "summary"
      <4>1. summary' = posts /\ feedback' = feedback
        BY <1>5, <2>5, <3>3 DEF WriteDetail, Write, Landed
      <4> QED BY <1>type, <2>2, <3>2, <3>3, <4>1
    <3>4. CASE op.kind # "summary"
      <4>1. feedback' = disk.turn + 1 /\ summary' = summary
        BY <1>5, <2>3, <2>5, <3>4 DEF WriteDetail, Write, Landed
      <4> QED BY <1>type, <2>1, <2>2, <3>2, <3>4, <4>1 DEF Kinds
    <3> QED BY <3>3, <3>4
  <2> QED BY <2>4, <2>5
<1>6. ASSUME NEW r \in Results, RollBack(r) PROVE TurnInv'
  <2>1. op \in [kind : Kinds, step : Steps, base : Nat, staged : Nat] /\ op.kind # "cancel"
    BY <1>6, <1>type, LockedOp DEF RollBack
  <2>2. /\ UNCHANGED <<disk, committed, posts>> /\ op' = NoOp
        /\ clean' = (clean /\ Landed(r))
    BY <1>6 DEF RollBack, Charge, Answer, record
  <2>3. CASE op.kind = "summary"
    <3>1. summary' = (IF Landed(r) THEN op.staged ELSE summary) /\ feedback' = feedback
      BY <1>6, <2>3 DEF RollBack, Write
    <3> QED BY <1>6, <1>type, <2>2, <2>3, <3>1 DEF RollBack, NoOp
  <2>4. CASE op.kind # "summary"
    <3>1. feedback' = (IF Landed(r) THEN op.staged ELSE feedback) /\ summary' = summary
      BY <1>6, <2>4 DEF RollBack, Write
    <3> QED BY <1>6, <1>type, <2>1, <2>2, <2>4, <3>1 DEF RollBack, NoOp, Kinds
  <2> QED BY <2>3, <2>4
<1>7. ASSUME NEW r \in Results, Commit(r) PROVE TurnInv'
  <2>1. op \in [kind : Kinds, step : Steps, base : Nat, staged : Nat] /\ Locked
    BY <1>7, <1>type, LockedOp DEF Commit
  <2>2. cell = disk BY <2>1 DEF GateInv, LiveServerAgreesWithDisk
  <2>3. UNCHANGED <<details, posts, clean>> /\ op.step = "commit"
    BY <1>7 DEF Commit, Charge, Stands, Refused, ghosts
  <2>4. CASE ~ Landed(r)
    <3>1. disk' = disk /\ committed' = committed
      BY <1>7, <2>4 DEF Commit, Write, Refused, ghosts
    <3>2. IF op.kind = "cancel" THEN op' = NoOp ELSE op' = [op EXCEPT !.step = "rollBack"]
      BY <1>7, <2>4 DEF Commit, Refused, Answer, Goto
    <3>3. CASE op.kind = "cancel" BY <2>3, <3>1, <3>2, <3>3 DEF details, NoOp
    <3>4. CASE op.kind # "cancel"
      <4>1. op'.kind = op.kind /\ op'.step = "rollBack" /\ op'.staged = op.staged
        BY <2>1, <3>2, <3>4
      <4> QED BY <2>3, <3>1, <3>4, <4>1 DEF details
    <3> QED BY <3>3, <3>4
  <2>5. CASE Landed(r)
    <3>1. /\ disk' = Decided(disk, op.kind)
          /\ committed' = IF op.kind = "summary" THEN posts ELSE committed
          /\ op' = NoOp \/ op' = [op EXCEPT !.step = "marker"]
      BY <1>7, <2>2, <2>5 DEF Commit, Write, Stands, Answer, Goto
    <3>2. disk'.turn = IF op.kind \in {"approve", "changes"} THEN disk.turn + 1 ELSE disk.turn
      BY <3>1 DEF Decided
    <3>3. op'.step \in {"none", "marker"}
      BY <2>1, <3>1 DEF NoOp
    <3> QED BY <1>type, <2>1, <2>3, <3>1, <3>2, <3>3 DEF details, Kinds
  <2> QED BY <2>4, <2>5
<1>8. ASSUME NEW r \in Results, WriteMarker(r) PROVE TurnInv'
  <2>1. op' = NoOp /\ op.step = "marker" /\ UNCHANGED <<disk, details, committed, posts, clean>>
    BY <1>8 DEF WriteMarker, Charge, Answer
  <2> QED BY <2>1 DEF NoOp, details
<1>9. CASE Crash
  <2>1. /\ op' = NoOp /\ UNCHANGED <<disk, details, committed, posts>>
        /\ clean' = (clean /\ op.step \notin {"commit", "rollBack"})
    BY <1>9 DEF Crash, record
  <2> QED BY <2>1, <1>type DEF NoOp, details
<1>10. CASE StartServer \/ EditSpec \/ WaitBegin \/ WaitPoll
  BY <1>10, <1>same DEF StartServer, EditSpec, WaitBegin, WaitPoll, server, record, ghosts, bounds
<1>11. CASE WaitFetch \/ WaitError \/ Status
  <2>1. CASE WaitFetch BY <2>1, <1>same DEF WaitFetch, Report, Exit, record, bounds
  <2>2. CASE WaitError BY <2>2, <1>same DEF WaitError, Exit, server, record, ghosts, bounds
  <2>3. CASE StatusBegin BY <2>3, <1>same DEF StatusBegin, Exit, server, record, ghosts, bounds
  <2>4. CASE StatusApproved BY <2>4, <1>same DEF StatusApproved, Exit, server, record, ghosts, bounds
  <2>5. CASE StatusState BY <2>5, <1>same DEF StatusState, Report, Exit, server, record, bounds
  <2> QED BY <1>11, <2>1, <2>2, <2>3, <2>4, <2>5 DEF Status
<1>12. CASE PurgeAndRecreate
  BY <1>12, <1>type DEF PurgeAndRecreate, TypeOK
<1>13. CASE UNCHANGED vars
  BY <1>13, <1>same DEF vars, server, record, ghosts, bounds
<1> QED
  BY <1>2, <1>3, <1>4, <1>5, <1>6, <1>7, <1>8, <1>9, <1>10, <1>11, <1>12, <1>13
  DEF Next, Handle, Reviewer, Agent, Wait

\* A turn is its text and its state, or neither: whoever reads `waiting` or
\* `approved` finds that turn's feedback, whoever reads `ready` the summary, and
\* a refused request leaves no text, whichever writes fail and wherever the
\* server is killed (Staged::write, roll_back, ReviewState::commit).
THEOREM WholeTurns == ASSUME MaxPurges = 0 PROVE Spec => []TurnIsWhole
<1>1. Init => TurnInv
  BY DEF Init, TurnInv, StagesTurn, StagesPost, NoOp, Idle
<1>2. GateInv /\ TypeInv /\ TurnInv => TurnIsWhole
  <2> SUFFICES ASSUME GateInv, TypeInv, TurnInv PROVE TurnIsWhole OBVIOUS
  <2>1. ~ Locked => ~ StagesTurn /\ ~ StagesPost
    BY DEF Locked, StagesTurn, StagesPost, NoOp
  <2> QED BY <2>1 DEF TurnInv, TypeInv, TypeOK, ReviewState, TurnIsWhole, DetailNeverBehind, RefusalLeavesNoTrace
<1>3. TypeInv /\ GateInv /\ TurnInv /\ [Next]_vars => (TypeInv /\ GateInv /\ TurnInv)'
  BY TypeStep, GateStep, TurnStep
<1> QED BY TypeInit, GateInit, <1>1, <1>2, <1>3, PTL DEF Spec

-----------------------------------------------------------------------------
\* With no write failing and no server killed, what every step leaves of the
\* two diff baselines, and what a summary that stands has just shown.
LEMMA DiffStep ==
    ASSUME MaxFaults = 0, TypeInv, DiffInv, [Next]_vars
    PROVE  /\ DiffInv'
           /\ committed' > committed /\ shown # 0 /\ shown' # shown => prior = shown
<1> DEFINE P == DiffInv' /\ (committed' > committed /\ shown # 0 /\ shown' # shown => prior = shown)
<1> SUFFICES P OBVIOUS
<1> USE DEF DiffInv
<1>type. /\ TypeOK /\ committed \in Nat /\ spec \in Nat /\ faults = 0
  BY DEF TypeInv, TypeOK
<1>free. ASSUME NEW r \in Results, Charge(r) PROVE r = "ok" /\ Landed(r) /\ faults' = 0
  BY <1>free, <1>type DEF Charge, Landed
<1>same. ASSUME UNCHANGED <<op, baselines, spec, shown, committed, faults>> PROVE P
  BY <1>same, <1>type DEF baselines
<1>1. ASSUME NEW kind \in Kinds, Begin(kind) PROVE P
  <2>1. UNCHANGED <<baselines, spec, shown, committed, faults>> /\ op = NoOp
    BY <1>1 DEF Begin, ghosts, Locked
  <2>2. /\ op'.base = 0 /\ op'.kind = kind /\ op'.step # "rollBack"
        /\ kind \in {"changes", "summary"} => op'.step = "prior"
    BY <1>1 DEF Begin, NoOp, Kinds
  <2>3. lastSum = shown BY <2>1 DEF NoOp
  <2>4. op'.step \in {"prior", "lastSum"} => op'.kind \in {"changes", "summary"}
    BY <1>1 DEF Begin, NoOp, Kinds
  <2>5. DiffInv'
    BY <1>type, <2>1, <2>2, <2>3, <2>4 DEF baselines
  <2> QED BY <1>type, <2>1, <2>5
<1>2. ASSUME NEW kind \in Kinds, Submit(kind) PROVE P
  BY <1>1, <1>2 DEF Submit
<1>3. CASE PostSummary
  BY <1>1, <1>3 DEF PostSummary, Kinds
<1>4. ASSUME NEW r \in Results, WritePrior(r) PROVE P
  <2>1. op \in [kind : Kinds, step : Steps, base : Nat, staged : Nat]
    BY <1>4, <1>type, LockedOp DEF WritePrior
  <2>2. /\ op'.kind = op.kind /\ op'.step = "lastSum" /\ op'.base = spec
        /\ UNCHANGED <<lastSum, spec, shown, committed>> /\ faults' = 0 /\ op.step = "prior"
        /\ lastSum = shown
    BY <1>4, <1>free, <2>1 DEF WritePrior, ghosts
  <2>3. op.kind = "summary" => prior' = IF lastSum = 0 THEN prior ELSE lastSum
    BY <1>4, <1>free DEF WritePrior, Write
  <2> QED BY <1>type, <2>2, <2>3
<1>5. ASSUME NEW r \in Results, WriteLastSum(r) PROVE P
  <2>1. op \in [kind : Kinds, step : Steps, base : Nat, staged : Nat]
    BY <1>5, <1>type, LockedOp DEF WriteLastSum
  <2>2. /\ op'.kind = op.kind /\ op'.step = "detail"
        /\ op'.base = IF op.kind = "changes" THEN op.base ELSE spec
        /\ UNCHANGED <<prior, spec, shown, committed>> /\ faults' = 0 /\ op.step = "lastSum"
    BY <1>5, <1>free, <2>1 DEF WriteLastSum, ghosts
  <2>3. lastSum' = IF op.kind = "changes" THEN op.base ELSE IF spec = 0 THEN lastSum ELSE spec
    BY <1>5, <1>free DEF WriteLastSum, Write
  <2>4. lastSum' = op'.base
    BY <2>2, <2>3
  <2>5. op.kind \in {"changes", "summary"}
    BY <2>2
  <2> QED BY <1>type, <2>2, <2>3, <2>4, <2>5
<1>6. ASSUME NEW r \in Results, WriteDetail(r) PROVE P
  <2>1. op \in [kind : Kinds, step : Steps, base : Nat, staged : Nat]
    BY <1>6, <1>type, LockedOp DEF WriteDetail
  <2>2. UNCHANGED <<baselines, spec, shown, committed>> /\ op.step = "detail" /\ r = "ok" /\ faults' = 0
    BY <1>6, <1>free DEF WriteDetail, ghosts
  <2>3. op'.kind = op.kind /\ op'.step = "commit" /\ op'.base = op.base
    BY <1>6, <2>1, <2>2 DEF WriteDetail
  <2> QED BY <1>type, <2>2, <2>3 DEF baselines
<1>7. ASSUME NEW r \in Results, RollBack(r) PROVE P
  BY <1>7 DEF RollBack
<1>8. ASSUME NEW r \in Results, Commit(r) PROVE P
  <2>1. op \in [kind : Kinds, step : Steps, base : Nat, staged : Nat]
    BY <1>8, <1>type, LockedOp DEF Commit
  <2>2. /\ UNCHANGED <<baselines, spec>> /\ op.step = "commit" /\ Landed(r) /\ faults' = 0
        /\ shown' = IF op.kind \in {"changes", "summary"} THEN op.base ELSE shown
        /\ committed' = IF op.kind = "summary" THEN posts ELSE committed
        /\ op' = NoOp \/ op' = [op EXCEPT !.step = "marker"]
    BY <1>8, <1>free DEF Commit, Stands, Answer, Goto
  <2>3. op'.step \in {"none", "marker"} /\ op'.base \in {0, op.base}
    BY <2>1, <2>2 DEF NoOp
  <2>4. lastSum' = shown' /\ faults' = 0 /\ (spec' = 0 => lastSum' = 0 /\ op'.base = 0)
    BY <2>2, <2>3 DEF baselines
  <2>5. DiffInv'
    BY <2>3, <2>4
  <2>6. committed' > committed /\ shown # 0 => prior = shown
    BY <1>type, <2>2
  <2> QED BY <2>5, <2>6
<1>9. ASSUME NEW r \in Results, WriteMarker(r) PROVE P
  <2>1. op' = NoOp /\ op.step = "marker" /\ UNCHANGED <<baselines, spec, shown, committed>> /\ faults' = 0
    BY <1>9, <1>free DEF WriteMarker, Answer
  <2> QED BY <1>type, <2>1 DEF NoOp, baselines
<1>10. CASE Crash
  BY <1>10, <1>type DEF Crash
<1>11. CASE EditSpec
  <2>1. spec' = spec + 1 /\ UNCHANGED <<op, baselines, shown, committed, faults>>
    BY <1>11 DEF EditSpec, server, ghosts, bounds
  <2> QED BY <1>type, <2>1 DEF baselines
<1>12. CASE PurgeAndRecreate
  <2>1. /\ op' = op /\ op = NoOp /\ faults' = faults
        /\ prior' = 0 /\ lastSum' = 0 /\ shown' = 0 /\ committed' = 0 /\ spec' = 0
    BY <1>12 DEF PurgeAndRecreate, server, Locked
  <2> QED BY <1>type, <2>1 DEF NoOp
<1>13. CASE StartServer \/ WaitBegin \/ WaitPoll
  BY <1>13, <1>same DEF StartServer, WaitBegin, WaitPoll, server, ghosts, bounds
<1>14. CASE WaitFetch \/ WaitError \/ Status
  <2>1. CASE WaitFetch BY <2>1, <1>same DEF WaitFetch, Report, Exit, bounds
  <2>2. CASE WaitError BY <2>2, <1>same DEF WaitError, Exit, server, ghosts, bounds
  <2>3. CASE StatusBegin BY <2>3, <1>same DEF StatusBegin, Exit, server, ghosts, bounds
  <2>4. CASE StatusApproved BY <2>4, <1>same DEF StatusApproved, Exit, server, ghosts, bounds
  <2>5. CASE StatusState BY <2>5, <1>same DEF StatusState, Report, Exit, server, bounds
  <2> QED BY <1>14, <2>1, <2>2, <2>3, <2>4, <2>5 DEF Status
<1>15. CASE UNCHANGED vars
  BY <1>15, <1>same DEF vars, server, ghosts, bounds
<1> QED
  BY <1>2, <1>3, <1>4, <1>5, <1>6, <1>7, <1>8, <1>9, <1>10, <1>11, <1>12, <1>13, <1>14, <1>15
  DEF Next, Handle, Reviewer, Agent, Wait

\* When no write fails, a revision that is opened for review is diffed against
\* the one the previous turn was about, however edits, requests for changes and
\* summaries alternate, purges of the run directory included
\* (handle_post_submit, handle_post_summary).
THEOREM DiffsAgainstPrevious ==
    ASSUME MaxFaults = 0 PROVE Spec => RevisionDiffsAgainstPrevious
<1>1. Init => DiffInv
  BY DEF Init, DiffInv, NoOp
<1>2. TypeInv /\ DiffInv /\ [Next]_vars => (TypeInv /\ DiffInv)'
  BY TypeStep, DiffStep
<1>3. TypeInv /\ DiffInv /\ [Next]_vars =>
          [committed' > committed /\ shown # 0 /\ shown' # shown => prior = shown]_vars
  BY DiffStep
<1> QED BY TypeInit, <1>1, <1>2, <1>3, PTL DEF Spec, RevisionDiffsAgainstPrevious
=============================================================================
