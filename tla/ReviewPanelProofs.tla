-------------------------- MODULE ReviewPanelProofs --------------------------
(***************************************************************************)
(* For any angles, any number of iterations, commits and panes, and any    *)
(* failures, kills and deaths: the types of ReviewPanel, and its safety    *)
(* properties. PanelInv is about what a reviewer was asked and what of its *)
(* work is where; StrandInv, which rests on it, about which ledger names   *)
(* it, and is the stronger the less has failed.                            *)
(***************************************************************************)
EXTENDS ReviewPanel, TLAPS

USE PanelAssumption DEF PanelAssumption

\* Where a pass is about one angle.
AngleSteps == {"probe", "clear", "spawn", "save", "seed", "look", "judge"}
\* A pass at work has an iteration, a commit and, there, an angle.
PassOK(p) == /\ p \in Passes
             /\ p.at # "idle" => p.iter \in Iters /\ p.head \in Heads
             /\ p.at \in AngleSteps => p.angle \in Angles
TypeInv == TypeOK /\ PassOK(panel)

-----------------------------------------------------------------------------
(* Operators *)

LEMMA FirstIn ==
    ASSUME NEW S, S # {}
    PROVE  First(S) \in S
BY DEF First

LEMMA MarkedTypes ==
    ASSUME NEW l \in Ledger, NEW s, NEW st \in {"Absent", "Running", "Done", "Failed"}
    PROVE  Marked(l, s, st) \in Ledger
BY DEF Marked, Ledger

LEMMA IdleTypes == PassOK(Idle) /\ Blank \in Ledger
<1>1. Empty \in Reviews
  BY DEF Empty, Reviews
<1>2. Idle \in Passes
  BY <1>1 DEF Idle, Passes
<1>3. Blank \in Ledger
  BY DEF Blank, Ledger
<1> QED
  BY <1>2, <1>3 DEF PassOK, Idle, AngleSteps

LEMMA TryTypes ==
    ASSUME NEW step, NEW ok, faults \in Nat, kills \in Nat, deaths \in Nat, Try(step, ok)
    PROVE  faults' \in Nat /\ kills' \in Nat /\ deaths' \in Nat
BY DEF Try

\* What a step may make of the pass: the iteration and its commit stay.
Same(p, q) == /\ PassOK(q) /\ q.at # "idle" /\ q.iter = p.iter /\ q.head = p.head
              /\ q.resumed = p.resumed

LEMMA PassOpens ==
    ASSUME NEW n \in Iters, NEW r \in BOOLEAN, NEW h \in Heads
    PROVE  PassOK([Idle EXCEPT !.at = "turn", !.iter = n, !.resumed = r, !.head = h, !.todo = Angles])
<1> DEFINE p == [Idle EXCEPT !.at = "turn", !.iter = n, !.resumed = r, !.head = h, !.todo = Angles]
<1>1. p \in Passes
  BY IdleTypes DEF PassOK, Passes, Steps
<1>2. p.at = "turn" /\ p.iter = n /\ p.head = h
  BY DEF Idle
<1> QED
  BY <1>1, <1>2 DEF PassOK, AngleSteps

LEMMA PassGoes ==
    ASSUME NEW p, PassOK(p), p.at # "idle", NEW l \in Steps, l \in AngleSteps => p.angle \in Angles
    PROVE  /\ Same(p, [p EXCEPT !.at = l]) /\ [p EXCEPT !.at = l].at = l
           /\ [p EXCEPT !.at = l].harvest = p.harvest /\ [p EXCEPT !.at = l].angle = p.angle
<1> DEFINE q == [p EXCEPT !.at = l]
<1>1. q \in Passes
  BY DEF PassOK, Passes
<1>2. /\ q.at = l /\ q.iter = p.iter /\ q.head = p.head /\ q.angle = p.angle
      /\ q.harvest = p.harvest /\ q.resumed = p.resumed
  BY DEF PassOK, Passes
<1>3. l # "idle"
  BY DEF Steps
<1> QED
  BY <1>1, <1>2, <1>3 DEF PassOK, Same

LEMMA PassWaits ==
    ASSUME NEW p, PassOK(p), p.at # "idle", NEW a \in Angles
    PROVE  LET q == [p EXCEPT !.at = "turn", !.pending = @ \cup {a}]
           IN Same(p, q) /\ q.at = "turn" /\ q.harvest = p.harvest
<1> DEFINE q == [p EXCEPT !.at = "turn", !.pending = @ \cup {a}]
<1>1. q \in Passes
  BY DEF PassOK, Passes, Steps
<1>2. /\ q.at = "turn" /\ q.iter = p.iter /\ q.head = p.head
      /\ q.harvest = p.harvest /\ q.resumed = p.resumed
  BY DEF PassOK, Passes
<1> QED
  BY <1>1, <1>2 DEF PassOK, Same, AngleSteps

LEMMA PassTurns ==
    ASSUME PassOK(panel), panel.at = "turn", NEW a \in Angles, NEW l \in {"probe", "spawn"},
           panel' = [[panel EXCEPT !.angle = a, !.todo = @ \ {a}] EXCEPT !.at = l]
    PROVE  Same(panel, panel') /\ panel'.at = l /\ panel'.angle = a /\ panel'.harvest = panel.harvest
<1> DEFINE q == [panel EXCEPT !.angle = a, !.todo = @ \ {a}]
<1>1. q \in Passes /\ q.angle = a /\ q.iter = panel.iter /\ q.head = panel.head
      /\ q.harvest = panel.harvest /\ q.resumed = panel.resumed /\ q.at = "turn"
  BY DEF PassOK, Passes
<1>2. panel' \in Passes /\ panel'.angle = a /\ panel'.iter = panel.iter /\ panel'.head = panel.head
      /\ panel'.harvest = panel.harvest /\ panel'.resumed = panel.resumed /\ panel'.at = l
  BY <1>1 DEF Passes, Steps
<1> QED
  BY <1>2 DEF PassOK, Same

LEMMA PassBanks ==
    ASSUME PassOK(panel), panel.at = "turn", NEW a \in Angles, NEW i \in Panes \cup {None}
    PROVE  LET t == [[panel EXCEPT !.angle = a, !.todo = @ \ {a}] EXCEPT !.harvest[a] = i]
           IN Same(panel, t) /\ t.at = "turn" /\ t.harvest = [panel.harvest EXCEPT ![a] = i]
<1> DEFINE q == [panel EXCEPT !.angle = a, !.todo = @ \ {a}]
           t == [q EXCEPT !.harvest[a] = i]
<1>1. q \in Passes /\ q.angle = a /\ q.iter = panel.iter /\ q.head = panel.head
      /\ q.harvest = panel.harvest /\ q.resumed = panel.resumed /\ q.at = "turn"
  BY DEF PassOK, Passes
<1>3. [panel.harvest EXCEPT ![a] = i] \in Reviews
  BY DEF PassOK, Passes, Reviews
<1>4. t \in Passes /\ t.angle = a /\ t.iter = panel.iter /\ t.head = panel.head
      /\ t.harvest = [panel.harvest EXCEPT ![a] = i] /\ t.resumed = panel.resumed /\ t.at = "turn"
  BY <1>1, <1>3 DEF Passes
<1> QED
  BY <1>4 DEF PassOK, Same, AngleSteps

LEMMA PassPolls ==
    ASSUME PassOK(panel), panel.at = "poll", NEW a \in Angles, NEW b \in BOOLEAN
    PROVE  LET q == [panel EXCEPT !.angle = a, !.at = "look", !.saw = b]
           IN Same(panel, q) /\ q.at = "look" /\ q.harvest = panel.harvest
<1> DEFINE q == [panel EXCEPT !.angle = a, !.at = "look", !.saw = b]
<1>1. q \in Passes
  BY DEF PassOK, Passes, Steps
<1>2. /\ q.at = "look" /\ q.iter = panel.iter /\ q.head = panel.head /\ q.angle = a
      /\ q.harvest = panel.harvest /\ q.resumed = panel.resumed
  BY DEF PassOK, Passes
<1> QED
  BY <1>1, <1>2 DEF PassOK, Same

\* The pass is through with an angle for this round, or for good.
LEMMA PassSettles ==
    ASSUME PassOK(panel), panel.at \in {"look", "judge"}, NEW i \in Panes \cup {None}
    PROVE  LET t == [Settled EXCEPT !.harvest[panel.angle] = i]
               u == [Settled EXCEPT !.still = @ \cup {panel.angle}]
           IN /\ Same(panel, t) /\ t.at = "poll"
              /\ t.harvest = [panel.harvest EXCEPT ![panel.angle] = i]
              /\ Same(panel, u) /\ u.at = "poll" /\ u.harvest = panel.harvest
<1> DEFINE t == [Settled EXCEPT !.harvest[panel.angle] = i]
           u == [Settled EXCEPT !.still = @ \cup {panel.angle}]
<1>1. panel.angle \in Angles /\ panel \in Passes
  BY DEF PassOK, AngleSteps
<1>2. Settled \in Passes /\ Settled.iter = panel.iter /\ Settled.head = panel.head
      /\ Settled.harvest = panel.harvest /\ Settled.resumed = panel.resumed
      /\ Settled.at = "poll"
  BY <1>1 DEF Settled, Passes, Steps
<1>3. [panel.harvest EXCEPT ![panel.angle] = i] \in Reviews
  BY <1>1 DEF Passes, Reviews
<1>4. t \in Passes /\ t.iter = panel.iter /\ t.head = panel.head /\ t.resumed = panel.resumed
      /\ t.harvest = [panel.harvest EXCEPT ![panel.angle] = i] /\ t.at = "poll"
  BY <1>2, <1>3 DEF Passes
<1>5. u \in Passes /\ u.iter = panel.iter /\ u.head = panel.head /\ u.resumed = panel.resumed
      /\ u.harvest = panel.harvest /\ u.at = "poll"
  BY <1>1, <1>2 DEF Passes
<1> QED
  BY <1>4, <1>5 DEF PassOK, Same, AngleSteps

LEMMA PassRounds ==
    ASSUME NEW p, PassOK(p), p.at = "poll"
    PROVE  LET q == [p EXCEPT !.pending = p.still, !.still = {}]
           IN Same(p, q) /\ q.at = "poll" /\ q.harvest = p.harvest
<1> DEFINE q == [p EXCEPT !.pending = p.still, !.still = {}]
<1>1. q \in Passes
  BY DEF PassOK, Passes
<1>2. /\ q.at = "poll" /\ q.iter = p.iter /\ q.head = p.head
      /\ q.harvest = p.harvest /\ q.resumed = p.resumed
  BY DEF PassOK, Passes
<1> QED
  BY <1>1, <1>2 DEF PassOK, Same, AngleSteps

-----------------------------------------------------------------------------
(* How each step moves the pass *)

\* A harvest grows by what the file of one angle holds.
Harvested == \/ panel'.harvest = panel.harvest
             \/ \E a \in Angles :
                   panel'.harvest = [panel.harvest EXCEPT ![a] = findings[<<panel.iter, a>>]]
Moved == Same(panel, panel') /\ Harvested

LEMMA SlotIn ==
    ASSUME PassOK(panel), panel.at \in AngleSteps
    PROVE  Slot \in Slots /\ panel.angle \in Angles
BY DEF PassOK, AngleSteps, Slot, Slots

LEMMA TurnMoves ==
    ASSUME TypeInv, Turn
    PROVE  /\ Moved /\ copy' \in Ledger /\ panel'.at \in {"turn", "poll", "probe", "spawn"}
           /\ panel'.at = "probe" => copy' = copy /\ Slot' \in Slots /\ findings[Slot'] = None
<1>0. PassOK(panel) /\ panel.at = "turn" /\ copy \in Ledger /\ panel.todo \subseteq Angles
      /\ findings \in [Slots -> Panes \cup {None}]
  BY DEF TypeInv, TypeOK, Turn, At, PassOK, Passes
<1>1. CASE panel.todo = {}
  <2>1. "poll" \in Steps /\ "poll" \notin AngleSteps
    BY DEF Steps, AngleSteps
  <2>2. panel' = [panel EXCEPT !.at = "poll"] /\ copy' = copy
    BY <1>1 DEF Turn, Goto
  <2> QED
    BY <1>0, <2>1, <2>2, PassGoes DEF Moved, Harvested
<1>2. CASE panel.todo # {}
  <2> DEFINE a == First(panel.todo)
             s == <<panel.iter, a>>
             q == [panel EXCEPT !.angle = a, !.todo = @ \ {a}]
  <2>1. a \in Angles /\ s \in Slots /\ findings[s] \in Panes \cup {None}
    BY <1>0, <1>2, FirstIn DEF PassOK, Slots
  <2> HIDE DEF a
  <2>2. \/ panel' = [q EXCEPT !.harvest[a] = findings[s]] /\ copy' = Marked(copy, s, "Done")
        \/ /\ \/ panel' = [q EXCEPT !.at = "probe"] /\ findings[s] = None
              \/ panel' = [q EXCEPT !.at = "spawn"]
           /\ copy' = copy
    BY <1>2 DEF Turn, Delivered, a
  <2>3. CASE panel' = [q EXCEPT !.harvest[a] = findings[s]] /\ copy' = Marked(copy, s, "Done")
    <3> DEFINE t == [q EXCEPT !.harvest[a] = findings[s]]
    <3>0. /\ Same(panel, t) /\ t.harvest = [panel.harvest EXCEPT ![a] = findings[s]]
          /\ t.at = "turn"
      BY <1>0, <2>1, PassBanks
    <3>1. /\ Same(panel, panel') /\ panel'.harvest = [panel.harvest EXCEPT ![a] = findings[s]]
          /\ panel'.at = "turn"
      BY <2>3, <3>0
    <3> QED
      BY <1>0, <2>1, <2>3, <3>1, MarkedTypes DEF Moved, Harvested
  <2>4. CASE /\ \/ panel' = [q EXCEPT !.at = "probe"] /\ findings[s] = None
                \/ panel' = [q EXCEPT !.at = "spawn"]
             /\ copy' = copy
    <3>0. PICK l \in {"probe", "spawn"} :
              panel' = [q EXCEPT !.at = l] /\ (l = "probe" => findings[s] = None)
      BY <2>4
    <3>1. /\ Same(panel, panel') /\ panel'.harvest = panel.harvest
          /\ panel'.at = l /\ panel'.angle = a
      BY <1>0, <2>1, <3>0, PassTurns
    <3>2. Slot' = s
      BY <3>1 DEF Same, Slot
    <3> QED
      BY <1>0, <2>1, <2>4, <3>0, <3>1, <3>2 DEF Moved, Harvested
  <2> QED
    BY <2>2, <2>3, <2>4
<1> QED
  BY <1>1, <1>2

\* A step to one of two places.
LEMMA Goes ==
    ASSUME TypeInv, panel.at # "idle", NEW l \in Steps, Goto(l),
           l \in AngleSteps => panel.at \in AngleSteps
    PROVE  Moved /\ panel'.at = l /\ panel'.harvest = panel.harvest /\ panel'.angle = panel.angle /\ Slot' = Slot
<1>1. PassOK(panel) /\ (l \in AngleSteps => panel.angle \in Angles)
  BY DEF TypeInv, PassOK
<1>2. panel' = [panel EXCEPT !.at = l]
  BY DEF Goto
<1> QED
  BY <1>1, <1>2, PassGoes DEF Moved, Harvested, Same, Slot

LEMMA ProbeMoves ==
    ASSUME TypeInv, Probe
    PROVE  /\ Moved /\ copy' \in Ledger /\ panel'.at \in {"turn", "clear"}
           /\ panel'.at = "clear" => Slot' = Slot /\ Slot \in Slots
<1>0. panel.at = "probe" /\ PassOK(panel) /\ copy \in Ledger
  BY DEF Probe, At, TypeInv, TypeOK
<1>1. Slot \in Slots /\ panel.angle \in Angles
  BY <1>0, SlotIn DEF AngleSteps
<1>2. \/ /\ panel' = [panel EXCEPT !.at = "turn", !.pending = @ \cup {panel.angle}]
         /\ copy' = copy
      \/ /\ Goto("clear")
         /\ copy' = [copy EXCEPT !.status[Slot] = "Absent", !.pane[Slot] = None,
                                 !.retired = @ \cup ({copy.pane[Slot]} \ {None})]
  BY DEF Probe
<1>3. CASE panel' = [panel EXCEPT !.at = "turn", !.pending = @ \cup {panel.angle}] /\ copy' = copy
  BY <1>0, <1>1, <1>3, PassWaits DEF Moved, Harvested
<1>4. CASE /\ Goto("clear")
           /\ copy' = [copy EXCEPT !.status[Slot] = "Absent", !.pane[Slot] = None,
                                   !.retired = @ \cup ({copy.pane[Slot]} \ {None})]
  <2>1. Moved /\ panel'.at = "clear" /\ Slot' = Slot
    BY <1>0, <1>4, Goes DEF Steps, AngleSteps
  <2>2. copy.pane[Slot] \in Panes \cup {None}
    BY <1>0, <1>1 DEF Ledger
  <2>3. copy' \in Ledger
    BY <1>0, <1>4, <2>2 DEF Ledger
  <2> QED
    BY <1>1, <2>1, <2>3
<1> QED
  BY <1>2, <1>3, <1>4

LEMMA ClearMoves ==
    ASSUME TypeInv, Clear
    PROVE  Moved /\ panel'.at \in {"spawn", "leave"}
<1>0. panel.at = "clear"
  BY DEF Clear, At
<1>1. PICK l \in {"spawn", "leave"} : Goto(l)
  BY DEF Clear
<1> QED
  BY <1>0, <1>1, Goes DEF Steps, AngleSteps

LEMMA SpawnMoves ==
    ASSUME TypeInv, Spawn
    PROVE  Moved /\ panel'.at \in {"save", "leave"} /\ Slot' = Slot
<1>0. panel.at = "spawn"
  BY DEF Spawn, At
<1>1. PICK l \in {"save", "leave"} : Goto(l)
  BY DEF Spawn
<1> QED
  BY <1>0, <1>1, Goes DEF Steps, AngleSteps

LEMMA SaveMoves ==
    ASSUME TypeInv, NEW l \in Steps, NEW next \in {"seed", "merge", "leave"}, SaveWhole(l, next),
           next = "seed" => l = "save"
    PROVE  Moved /\ panel'.at \in {next, "leave"} /\ Slot' = Slot
<1>0. panel.at = l /\ l # "idle"
  BY DEF SaveWhole, At, Steps
<1>1. PICK t \in {next, "leave"} : Goto(t)
  BY DEF SaveWhole
<1>2. t \in Steps /\ (t \in AngleSteps => l \in AngleSteps)
  BY DEF Steps, AngleSteps
<1> QED
  BY <1>0, <1>1, <1>2, Goes

LEMMA SeedMoves ==
    ASSUME TypeInv, Seed
    PROVE  Moved /\ panel'.at \in {"turn", "leave"}
<1>0. panel.at = "seed" /\ PassOK(panel)
  BY DEF Seed, At, TypeInv
<1>1. panel.angle \in Angles
  BY <1>0, SlotIn DEF AngleSteps
<1>2. \/ panel' = [panel EXCEPT !.at = "turn", !.pending = @ \cup {panel.angle}]
      \/ Goto("leave")
  BY DEF Seed
<1>3. CASE panel' = [panel EXCEPT !.at = "turn", !.pending = @ \cup {panel.angle}]
  BY <1>0, <1>1, <1>3, PassWaits DEF Moved, Harvested
<1>4. CASE Goto("leave")
  BY <1>0, <1>4, Goes DEF Steps, AngleSteps
<1> QED
  BY <1>2, <1>3, <1>4

LEMMA PollMoves ==
    ASSUME TypeInv, Poll
    PROVE  Moved /\ panel'.at = "look"
<1>0. panel.at = "poll" /\ PassOK(panel) /\ panel.pending \subseteq Angles /\ panel.pending # {}
  BY DEF Poll, At, TypeInv, PassOK, Passes
<1>1. First(panel.pending) \in Angles
  BY <1>0, FirstIn
<1> DEFINE q(b) == [panel EXCEPT !.angle = First(panel.pending), !.at = "look", !.saw = b]
<1>2. PICK b \in BOOLEAN : panel' = q(b)
  BY DEF Poll
<1>3. Same(panel, q(b)) /\ q(b).harvest = panel.harvest
  BY <1>0, <1>1, PassPolls
<1> QED
  BY <1>2, <1>3 DEF Moved, Harvested

LEMMA LookMoves ==
    ASSUME TypeInv, Look
    PROVE  Moved /\ panel'.at \in {"poll", "judge"} /\ copy' \in Ledger
<1>0. panel.at = "look" /\ PassOK(panel) /\ copy \in Ledger
      /\ findings \in [Slots -> Panes \cup {None}]
  BY DEF Look, At, TypeInv, TypeOK
<1>1. Slot \in Slots /\ panel.angle \in Angles
  BY <1>0, SlotIn DEF AngleSteps
<1>2. \/ /\ panel' = [Settled EXCEPT !.harvest[panel.angle] = findings[Slot]]
         /\ copy' = Marked(copy, Slot, "Done")
      \/ Goto("judge") /\ copy' = copy
  BY DEF Look
<1>3. CASE /\ panel' = [Settled EXCEPT !.harvest[panel.angle] = findings[Slot]]
           /\ copy' = Marked(copy, Slot, "Done")
  <2> DEFINE t == [Settled EXCEPT !.harvest[panel.angle] = findings[Slot]]
  <2>0. findings[Slot] \in Panes \cup {None} /\ panel.at \in {"look", "judge"}
    BY <1>0, <1>1
  <2>1. /\ Same(panel, t) /\ t.at = "poll"
        /\ t.harvest = [panel.harvest EXCEPT ![panel.angle] = findings[Slot]]
    BY <1>0, <2>0, PassSettles
  <2> QED
    BY <1>0, <1>1, <1>3, <2>1, MarkedTypes DEF Moved, Harvested, Slot
<1>4. CASE Goto("judge") /\ copy' = copy
  BY <1>0, <1>4, Goes DEF Steps, AngleSteps
<1> QED
  BY <1>2, <1>3, <1>4

LEMMA JudgeMoves ==
    ASSUME TypeInv, Judge
    PROVE  Moved /\ panel'.at = "poll" /\ copy' \in Ledger
<1>0. panel.at = "judge" /\ PassOK(panel) /\ copy \in Ledger
      /\ findings \in [Slots -> Panes \cup {None}]
  BY DEF Judge, At, TypeInv, TypeOK
<1>1. Slot \in Slots /\ panel.angle \in Angles
  BY <1>0, SlotIn DEF AngleSteps
<1>2. \/ /\ panel' = [Settled EXCEPT !.harvest[panel.angle] = findings[Slot]]
         /\ copy' = Marked(copy, Slot, "Failed")
      \/ panel' = [Settled EXCEPT !.still = @ \cup {panel.angle}] /\ copy' = copy
  BY DEF Judge
<1>3. CASE /\ panel' = [Settled EXCEPT !.harvest[panel.angle] = findings[Slot]]
           /\ copy' = Marked(copy, Slot, "Failed")
  <2> DEFINE t == [Settled EXCEPT !.harvest[panel.angle] = findings[Slot]]
  <2>0. findings[Slot] \in Panes \cup {None} /\ panel.at \in {"look", "judge"}
    BY <1>0, <1>1
  <2>1. /\ Same(panel, t) /\ t.at = "poll"
        /\ t.harvest = [panel.harvest EXCEPT ![panel.angle] = findings[Slot]]
    BY <1>0, <2>0, PassSettles
  <2> QED
    BY <1>0, <1>1, <1>3, <2>1, MarkedTypes DEF Moved, Harvested, Slot
<1>4. CASE panel' = [Settled EXCEPT !.still = @ \cup {panel.angle}] /\ copy' = copy
  <2>1. Same(panel, panel') /\ panel'.harvest = panel.harvest /\ panel'.at = "poll"
    BY <1>0, <1>4, PassSettles, None \in Panes \cup {None}
  <2> QED
    BY <1>0, <1>4, <2>1 DEF Moved, Harvested
<1> QED
  BY <1>2, <1>3, <1>4

LEMMA RoundMoves ==
    ASSUME TypeInv, EndRound
    PROVE  Moved /\ panel'.at \in {"poll", "drain", "timeout"}
<1>0. panel.at = "poll" /\ PassOK(panel)
  BY DEF EndRound, At, TypeInv
<1>1. \/ panel' = [panel EXCEPT !.pending = panel.still, !.still = {}]
      \/ Goto("drain") \/ Goto("timeout")
  BY DEF EndRound
<1>2. CASE panel' = [panel EXCEPT !.pending = panel.still, !.still = {}]
  BY <1>0, <1>2, PassRounds DEF Moved, Harvested
<1>3. CASE Goto("drain") \/ Goto("timeout")
  BY <1>0, <1>3, Goes DEF Steps, AngleSteps
<1> QED
  BY <1>1, <1>2, <1>3

LEMMA LastMoves ==
    ASSUME TypeInv, Merge \/ Reap
    PROVE  Moved /\ panel'.at \in {"reap", "leave"} /\ (panel'.at = "reap" => Merge)
<1>0. panel.at \in {"merge", "reap"}
  BY DEF Merge, Reap, At
<1>1. PICK l \in {"reap", "leave"} : Goto(l) /\ (l = "reap" => Merge)
  BY DEF Merge, Reap
<1> QED
  BY <1>0, <1>1, Goes DEF Steps, AngleSteps

\* Every step of a pass but its last.
LEMMA PassMoves ==
    ASSUME TypeInv, PanelStep
    PROVE  Moved \/ (Leave /\ panel' = Idle)
<1>1. CASE SaveReviewer \/ TimeOut \/ Drain
  BY <1>1, SaveMoves DEF SaveReviewer, TimeOut, Drain, Steps
<1>2. CASE Leave
  BY <1>2 DEF Leave
<1> QED
  BY <1>1, <1>2, TurnMoves, ProbeMoves, ClearMoves, SpawnMoves, SeedMoves, PollMoves,
     LookMoves, JudgeMoves, RoundMoves, LastMoves DEF PanelStep

-----------------------------------------------------------------------------
(* The types *)

LEMMA TypeInit == Init => TypeInv
<1> SUFFICES ASSUME Init PROVE TypeInv
  OBVIOUS
<1>1. findings \in [Slots -> Panes \cup {None}] /\ headrec \in [Iters -> Heads \cup {None}]
  BY DEF Init
<1>2. agents \in [Panes -> Agents]
  BY DEF Init, Agents, Unused
<1>3. merged \in Verdicts
  BY DEF Init, NoVerdict, Verdicts, Reviews, Empty
<1>4. PassOK(panel) /\ disk \in Ledger /\ copy \in Ledger
  BY IdleTypes DEF Init
<1>5. head \in Heads /\ reissued \subseteq Iters /\ faults \in Nat /\ kills \in Nat /\ deaths \in Nat
  BY DEF Init, Heads
<1> QED
  BY <1>1, <1>2, <1>3, <1>4, <1>5 DEF TypeInv, TypeOK, PassOK

\* What is not the pass.
FilesOK == /\ headrec \in [Iters -> Heads \cup {None}] /\ reissued \subseteq Iters
           /\ findings \in [Slots -> Panes \cup {None}] /\ merged \in Verdicts
LedgersOK == disk \in Ledger /\ copy \in Ledger
AgentsOK == agents \in [Panes -> Agents]
CountsOK == faults \in Nat /\ kills \in Nat /\ deaths \in Nat
LEMMA Parts ==
    TypeInv <=> FilesOK /\ LedgersOK /\ AgentsOK /\ CountsOK /\ PassOK(panel) /\ head \in Heads
BY DEF TypeInv, TypeOK, PassOK, FilesOK, LedgersOK, AgentsOK, CountsOK

LEMMA Rebuilt ==
    ASSUME FilesOK', LedgersOK', AgentsOK', CountsOK', PassOK(panel'), head' \in Heads
    PROVE  TypeInv'
BY DEF TypeInv, TypeOK, PassOK, FilesOK, LedgersOK, AgentsOK, CountsOK

LEMMA StepFiles ==
    ASSUME TypeInv, PanelStep
    PROVE  FilesOK'
<1>0. /\ headrec \in [Iters -> Heads \cup {None}] /\ reissued \subseteq Iters
      /\ findings \in [Slots -> Panes \cup {None}] /\ merged \in Verdicts
  BY DEF TypeInv, TypeOK
<1>1. CASE Clear
  <2>1. findings' \in [Slots -> Panes \cup {None}]
    BY <1>0, <1>1 DEF Clear
  <2> QED
    BY <1>0, <1>1, <2>1 DEF Clear, heads, FilesOK
<1>2. CASE Merge
  <2>1. /\ panel.iter \in Iters \cup {0} /\ panel.head \in Heads \cup {None}
        /\ panel.harvest \in Reviews
    BY DEF TypeInv, PassOK, Passes
  <2>2. merged' \in Verdicts
    BY <1>0, <1>2, <2>1 DEF Merge, Verdicts
  <2> QED
    BY <1>0, <1>2, <2>2 DEF Merge, heads, FilesOK
<1>3. CASE ~ (Clear \/ Merge)
  <2>1. UNCHANGED <<headrec, reissued, findings, merged>>
    BY <1>3 DEF PanelStep, Turn, Probe, Spawn, SaveReviewer, Seed, Poll, Look, Judge, EndRound,
       TimeOut, Drain, SaveWhole, Reap, Leave, files, heads
  <2> QED
    BY <1>0, <2>1 DEF FilesOK
<1> QED
  BY <1>1, <1>2, <1>3

LEMMA StepLedgers ==
    ASSUME TypeInv, PanelStep
    PROVE  LedgersOK'
<1>0. disk \in Ledger /\ copy \in Ledger
  BY DEF TypeInv, TypeOK
<1>1. CASE Turn \/ Probe \/ Look \/ Judge
  <2>1. copy' \in Ledger
    BY <1>1, TurnMoves, ProbeMoves, LookMoves, JudgeMoves
  <2>2. disk' = disk
    BY <1>1 DEF Turn, Probe, Look, Judge, files
  <2> QED
    BY <1>0, <2>1, <2>2 DEF LedgersOK
<1>2. CASE Spawn
  <2>1. \/ copy' = copy
        \/ \E i \in Panes : copy' = [copy EXCEPT !.status[Slot] = "Running", !.pane[Slot] = i]
    BY <1>2 DEF Spawn
  <2>2. \A i \in Panes : [copy EXCEPT !.status[Slot] = "Running", !.pane[Slot] = i] \in Ledger
    BY <1>0 DEF Ledger
  <2> QED
    BY <1>0, <1>2, <2>1, <2>2 DEF Spawn, files, LedgersOK
<1>3. CASE SaveReviewer \/ TimeOut \/ Drain
  BY <1>0, <1>3 DEF SaveReviewer, TimeOut, Drain, SaveWhole, LedgersOK
<1>4. CASE Seed
  <2>1. copy' \in Ledger
    BY <1>0, <1>4 DEF Seed, Ledger
  <2> QED
    BY <1>0, <1>4, <2>1 DEF Seed, files, LedgersOK
<1>5. CASE Reap
  <2> DEFINE rest == [disk EXCEPT !.retired = {},
                         !.pane = [s \in Slots |-> IF s[1] = panel.iter THEN None ELSE @[s]]]
  <2>1. rest \in Ledger
    BY <1>0 DEF Ledger
  <2>2. disk' \in {rest, disk} /\ copy' \in {rest, disk}
    BY <1>5 DEF Reap
  <2> QED
    BY <1>0, <2>1, <2>2 DEF LedgersOK
<1>6. CASE Leave
  <2>1. Transplant(disk, copy) \in Ledger
    BY <1>0 DEF Transplant, Ledger
  <2> QED
    BY <1>0, <1>6, <2>1, IdleTypes DEF Leave, LedgersOK
<1>7. CASE Clear \/ Poll \/ EndRound \/ Merge
  BY <1>0, <1>7 DEF Clear, Poll, EndRound, Merge, files, LedgersOK
<1> QED
  BY <1>1, <1>2, <1>3, <1>4, <1>5, <1>6, <1>7 DEF PanelStep

LEMMA StepAgents ==
    ASSUME TypeInv, PanelStep
    PROVE  AgentsOK'
<1>0. agents \in [Panes -> Agents] /\ panel \in Passes
  BY DEF TypeInv, TypeOK
<1>1. CASE Spawn
  <2> DEFINE new == [iter |-> panel.iter, angle |-> panel.angle, head |-> None, at |-> "ready"]
  <2>1. new \in Agents
    BY <1>0 DEF Passes, Agents
  <2>2. agents' = agents \/ \E i \in Panes : agents' = [agents EXCEPT ![i] = new]
    BY <1>1 DEF Spawn
  <2> QED
    BY <1>0, <2>1, <2>2 DEF AgentsOK
<1>2. CASE Seed
  <2>1. panel.head \in Heads \cup {None}
    BY <1>0 DEF Passes
  <2>2. \/ agents' = agents
        \/ agents' = [agents EXCEPT ![copy.pane[Slot]].head = panel.head,
                                    ![copy.pane[Slot]].at = "working"]
    BY <1>2 DEF Seed
  <2> QED
    BY <1>0, <2>1, <2>2 DEF AgentsOK, Agents
<1>3. CASE Reap
  <2>1. PICK ok \in BOOLEAN :
           agents' = [i \in Panes |->
              IF ok /\ i \in ({disk.pane[<<panel.iter, a>>] : a \in Angles} \ {None}) \cup disk.retired
              THEN [agents[i] EXCEPT !.at = "gone"] ELSE agents[i]]
    BY <1>3 DEF Reap
  <2>2. \A i \in Panes : [agents[i] EXCEPT !.at = "gone"] \in Agents /\ agents[i] \in Agents
    BY <1>0 DEF Agents
  <2> QED
    BY <2>1, <2>2 DEF AgentsOK
<1>4. CASE ~ (Spawn \/ Seed \/ Reap)
  <2>1. agents' = agents
    BY <1>4 DEF PanelStep, Turn, Probe, Clear, SaveReviewer, Poll, Look, Judge, EndRound,
       TimeOut, Drain, SaveWhole, Merge, Leave
  <2> QED
    BY <1>0, <2>1 DEF AgentsOK
<1> QED
  BY <1>1, <1>2, <1>3, <1>4

LEMMA StepCounts ==
    ASSUME TypeInv, PanelStep
    PROVE  CountsOK' /\ head' = head
<1>0. faults \in Nat /\ kills \in Nat /\ deaths \in Nat
  BY DEF TypeInv, TypeOK
<1>1. UNCHANGED bounds \/ \E step, ok : Try(step, ok)
  <2>1. CASE Probe \/ Clear \/ SaveReviewer \/ TimeOut \/ Drain \/ Merge \/ Reap \/ Leave
    BY <2>1 DEF Probe, Clear, SaveReviewer, TimeOut, Drain, SaveWhole, Merge, Reap, Leave
  <2>2. CASE Turn \/ Spawn \/ Seed \/ Poll \/ Look \/ Judge \/ EndRound
    BY <2>2 DEF Turn, Spawn, Seed, Poll, Look, Judge, EndRound
  <2> QED
    BY <2>1, <2>2 DEF PanelStep
<1>2. head' = head
  BY DEF PanelStep, Turn, Probe, Clear, Spawn, SaveReviewer, Seed, Poll, Look, Judge, EndRound,
     TimeOut, Drain, SaveWhole, Merge, Reap, Leave
<1> QED
  BY <1>0, <1>1, <1>2, TryTypes DEF CountsOK, bounds

LEMMA TypeStep == TypeInv /\ [Next]_vars => TypeInv'
<1> SUFFICES ASSUME TypeInv, [Next]_vars PROVE TypeInv'
  OBVIOUS
<1>0. FilesOK /\ LedgersOK /\ AgentsOK /\ CountsOK /\ PassOK(panel) /\ head \in Heads
  BY Parts
<1>1. CASE PanelStep
  <2>1. PassOK(panel')
    BY <1>1, PassMoves, IdleTypes DEF Moved, Same
  <2>2. FilesOK' /\ LedgersOK' /\ AgentsOK'
    BY <1>1, StepFiles, StepLedgers, StepAgents
  <2>3. CountsOK' /\ head' \in Heads
    BY <1>0, <1>1, StepCounts
  <2> QED
    BY <2>1, <2>2, <2>3, Rebuilt
<1> USE DEF FilesOK, LedgersOK, AgentsOK, CountsOK
<1>2. ASSUME NEW fresh \in BOOLEAN, Open(fresh) PROVE TypeInv'
  <2>1. PICK n \in Iters, resumed \in BOOLEAN :
            /\ headrec' = headrec \/ headrec' = [headrec EXCEPT ![n] = head]
            /\ reissued' = reissued \cup {n} \/ reissued' = reissued
            /\ panel' = [Idle EXCEPT !.at = "turn", !.iter = n, !.resumed = resumed,
                                     !.head = head, !.todo = Angles]
    BY <1>2 DEF Open
  <2>2. PassOK(panel')
    BY <1>0, <2>1, PassOpens
  <2>3. FilesOK'
    BY <1>0, <1>2, <2>1 DEF Open
  <2>4. (LedgersOK /\ AgentsOK /\ CountsOK)' /\ head' \in Heads
    BY <1>0, <1>2 DEF Open, bounds
  <2> QED
    BY <2>2, <2>3, <2>4, Rebuilt
<1>3. CASE Kill
  <2>1. PassOK(panel') /\ LedgersOK' /\ CountsOK'
    BY <1>0, <1>3, IdleTypes DEF Kill, files
  <2>2. FilesOK' /\ AgentsOK' /\ head' \in Heads
    BY <1>0, <1>3 DEF Kill, files, heads
  <2> QED
    BY <2>1, <2>2, Rebuilt
<1>4. ASSUME NEW i \in Panes, ReviewerStep(i) PROVE TypeInv'
  <2>1. CASE Submit(i)
    <3>1. FilesOK'
      BY <1>0, <2>1 DEF Submit, heads
    <3>2. (LedgersOK /\ AgentsOK /\ CountsOK)' /\ PassOK(panel') /\ head' \in Heads
      BY <1>0, <2>1 DEF Submit, bounds
    <3> QED
      BY <3>1, <3>2, Rebuilt
  <2>2. ASSUME NEW from, NEW to \in {"none", "ready", "working", "stopped", "gone"},
               Become(i, from, to), UNCHANGED deaths \/ deaths' = deaths + 1
        PROVE  TypeInv'
    <3>1. AgentsOK'
      BY <1>0, <2>2 DEF Become, Agents
    <3>2. (FilesOK /\ LedgersOK /\ CountsOK)' /\ PassOK(panel') /\ head' \in Heads
      BY <1>0, <2>2 DEF Become, files, heads
    <3> QED
      BY <3>1, <3>2, Rebuilt
  <2> QED
    BY <1>4, <2>1, <2>2 DEF ReviewerStep, Stop, Wake, Die
<1>5. CASE Commit
  <2>1. head' \in Heads
    BY <1>0, <1>5 DEF Commit, Heads
  <2>2. (FilesOK /\ LedgersOK /\ AgentsOK /\ CountsOK)' /\ PassOK(panel')
    BY <1>0, <1>5 DEF Commit, files, heads, bounds
  <2> QED
    BY <2>1, <2>2, Rebuilt
<1>6. CASE UNCHANGED vars
  <2>1. (FilesOK /\ LedgersOK /\ AgentsOK /\ CountsOK)' /\ PassOK(panel') /\ head' \in Heads
    BY <1>0, <1>6 DEF vars, files, heads, bounds
  <2> QED
    BY <2>1, Rebuilt
<1> QED
  BY <1>1, <1>2, <1>3, <1>4, <1>5, <1>6 DEF Next

\* Every file and record holds what the code writes there.
THEOREM TypeCorrect == Spec => []TypeOK
<1>1. TypeInv => TypeOK
  BY DEF TypeInv
<1> QED
  BY <1>1, TypeInit, TypeStep, PTL DEF Spec
-----------------------------------------------------------------------------
(* The invariant *)

\* A reviewer that exists has a slot, and one at work was asked.
Stamped ==
    \A i \in Panes :
       /\ agents[i].at # "none" => SlotOf(i) \in Slots
       /\ agents[i].at = "none" => agents[i].iter = 0 /\ agents[i].head = None
       /\ agents[i].at \in {"working", "stopped"} => agents[i].head # None
\* Between its launch and its seed a reviewer is registered and was not asked.
Seeding ==
    panel.at \in {"save", "seed"} =>
       /\ copy.pane[Slot] \in Panes
       /\ agents[copy.pane[Slot]].iter = panel.iter /\ agents[copy.pane[Slot]].head = None
\* A review is by a reviewer of that iteration which was asked.
By(who, i, n) == i # None => who[i].iter = n /\ who[i].head # None
Owned == /\ \A s \in Slots : By(agents, findings[s], s[1])
         /\ \A a \in Angles : By(agents, panel.harvest[a], panel.iter)
         /\ \A a \in Angles : By(agents, merged.reviews[a], merged.iter)
\* A registered pane holds a reviewer of that iteration, a retired one a reviewer.
Holds(who, l) == /\ \A s \in Slots : l.pane[s] # None => who[l.pane[s]].iter = s[1]
                 /\ \A i \in l.retired : who[i].at # "none"
Registered == Holds(agents, disk) /\ Holds(agents, copy)
\* Every reviewer was asked about the commit of its iteration's head record, and
\* a pass runs for that commit.
OneHead == /\ \A i \in Panes : agents[i].head # None /\ agents[i].iter \notin reissued =>
                 agents[i].head = headrec[agents[i].iter]
           /\ panel.at # "idle" => panel.head = headrec[panel.iter]
\* A reviewer is Done where its findings are on disk, and the slot a pass is about
\* to clear is not Done.
Banked == /\ \A s \in Slots : disk.status[s] = "Done" \/ copy.status[s] = "Done" => findings[s] # None
          /\ panel.at \in {"probe", "clear"} => disk.status[Slot] # "Done"
          /\ panel.at = "clear" => copy.status[Slot] # "Done"
\* A pass that reaps has merged its iteration.
Reaping == panel.at = "reap" => merged.iter = panel.iter
\* A clean verdict is earned: every configured angle delivered a review.
CleanIsEarned == merged.clean => \A a \in Angles : merged.reviews[a] # None
PanelInv == /\ TypeInv /\ Stamped /\ Seeding /\ Owned /\ Registered /\ OneHead
            /\ Banked /\ Reaping /\ VerdictsAreCurrent /\ CleanIsEarned

LEMMA InvInit == Init => PanelInv
<1> SUFFICES ASSUME Init PROVE PanelInv
  OBVIOUS
<1>1. TypeInv
  BY TypeInit
<1>2. Stamped
  BY DEF Init, Stamped, Unused
<1>3. Seeding /\ Reaping /\ panel.at = "idle"
  BY DEF Init, Seeding, Reaping, Idle
<1>4. Owned
  BY DEF Init, Owned, By, Idle, Empty, NoVerdict
<1>5. Registered
  BY DEF Init, Registered, Holds, Blank
<1>6. OneHead
  BY <1>3 DEF Init, OneHead, Unused
<1>7. Banked
  BY <1>3 DEF Init, Banked, Blank
<1>8. VerdictsAreCurrent /\ CleanIsEarned
  BY DEF Init, VerdictsAreCurrent, CleanIsEarned, NoVerdict, Empty
<1> QED
  BY <1>1, <1>2, <1>3, <1>4, <1>5, <1>6, <1>7, <1>8 DEF PanelInv

\* A reviewer keeps its slot, and the commit once it was asked about one.
Kept(i) == /\ agents[i].at # "none" => agents'[i].iter = agents[i].iter /\ agents'[i].angle = agents[i].angle
                                       /\ agents'[i].at # "none"
           /\ agents[i].head # None => agents'[i].head = agents[i].head

LEMMA OnlyThese ==
    ASSUME [Next]_vars
    PROVE  \/ agents' = agents \/ Spawn \/ Seed \/ Reap
           \/ \E i \in Panes : \E from, to : Become(i, from, to) /\ to \in {"stopped", "working", "gone"}
                                           /\ (to # "gone" => from \subseteq {"working", "stopped"})
                                           /\ from \subseteq {"ready", "working", "stopped"}
<1>1. CASE PanelStep /\ ~ (Spawn \/ Seed \/ Reap)
  BY <1>1 DEF PanelStep, Turn, Probe, Clear, SaveReviewer, Poll, Look, Judge, EndRound,
     TimeOut, Drain, SaveWhole, Merge, Leave
<1>2. CASE Open(TRUE) \/ Open(FALSE) \/ Kill \/ Commit \/ UNCHANGED vars \/ \E i \in Panes : Submit(i)
  BY <1>2 DEF Open, Kill, Commit, vars, Submit
<1>3. CASE \E i \in Panes : Stop(i) \/ Wake(i) \/ Die(i)
  BY <1>3 DEF Stop, Wake, Die
<1> QED
  BY <1>1, <1>2, <1>3 DEF Next, ReviewerStep

\* Agents, seeds
LEMMA AgentStep ==
    ASSUME PanelInv, [Next]_vars
    PROVE  Stamped' /\ \A i \in Panes : Kept(i)
<1>0. Stamped /\ agents \in [Panes -> Agents] /\ PassOK(panel)
  BY DEF PanelInv, TypeInv, TypeOK
<1> USE DEF Stamped, Kept, SlotOf, Slots
<1>1. CASE agents' = agents
  BY <1>0, <1>1
<1>2. CASE Spawn
  <2>1. panel.iter \in Iters /\ panel.angle \in Angles
    BY <1>0, <1>2 DEF Spawn, At, PassOK, AngleSteps
  <2>2. CASE agents' = agents
    BY <1>0, <2>2
  <2>3. ASSUME NEW i \in Panes, agents[i] = Unused,
               agents' = [agents EXCEPT ![i] = [iter |-> panel.iter, angle |-> panel.angle,
                                                head |-> None, at |-> "ready"]]
        PROVE  Stamped' /\ \A j \in Panes : Kept(j)
    BY <1>0, <2>1, <2>3 DEF Unused
  <2> QED
    BY <1>2, <2>2, <2>3 DEF Spawn
<1>3. CASE Seed
  <2> DEFINE i == copy.pane[Slot]
  <2>1. panel.at = "seed" /\ panel.head \in Heads
    BY <1>0, <1>3 DEF Seed, At, PassOK
  <2>2. i \in Panes /\ agents[i].head = None
    BY <2>1 DEF PanelInv, Seeding
  <2>3. CASE agents' = agents
    BY <1>0, <2>3
  <2>4. CASE Alive(i) /\ agents' = [agents EXCEPT ![i].head = panel.head, ![i].at = "working"]
    <3> HIDE DEF i
    <3>1. agents[i].at # "none"
      BY <2>4 DEF Alive
    <3>2. /\ agents'[i].head = panel.head /\ agents'[i].at = "working"
          /\ agents'[i].iter = agents[i].iter /\ agents'[i].angle = agents[i].angle
          /\ \A j \in Panes : j # i => agents'[j] = agents[j]
      BY <1>0, <2>2, <2>4 DEF Agents
    <3>3. panel.head # None
      BY <2>1 DEF Heads
    <3> QED
      BY <1>0, <2>2, <3>1, <3>2, <3>3
  <2> QED
    BY <1>3, <2>3, <2>4 DEF Seed
<1>4. CASE Reap
  <2> DEFINE closed == ({disk.pane[<<panel.iter, a>>] : a \in Angles} \ {None}) \cup disk.retired
  <2>1. panel.iter \in Iters /\ disk \in Ledger /\ Holds(agents, disk)
    BY <1>0, <1>4 DEF Reap, At, PassOK, PanelInv, TypeInv, TypeOK, Registered
  <2>2. \A i \in closed : agents[i].at # "none"
    <3>1. ASSUME NEW a \in Angles, disk.pane[<<panel.iter, a>>] # None
          PROVE  agents[disk.pane[<<panel.iter, a>>]].at # "none"
      <4>1. disk.pane[<<panel.iter, a>>] \in Panes
        BY <2>1, <3>1 DEF Ledger
      <4>2. agents[disk.pane[<<panel.iter, a>>]].iter = panel.iter
        BY <2>1, <3>1 DEF Holds, Slots
      <4>3. 0 \notin Iters
        BY DEF Iters
      <4> QED
        BY <1>0, <2>1, <4>1, <4>2, <4>3
    <3> QED
      BY <2>1, <3>1 DEF Holds
  <2>3. \A i \in Panes : agents'[i] = agents[i] \/
             (agents[i].at # "none" /\ agents'[i] = [agents[i] EXCEPT !.at = "gone"])
    <3>1. PICK ok \in BOOLEAN :
             agents' = [i \in Panes |-> IF ok /\ i \in closed
                                        THEN [agents[i] EXCEPT !.at = "gone"] ELSE agents[i]]
      BY <1>4 DEF Reap
    <3> QED
      BY <1>0, <2>2, <3>1
  <2> HIDE DEF closed
  <2>4. ASSUME NEW i \in Panes
        PROVE  /\ agents'[i].iter = agents[i].iter /\ agents'[i].angle = agents[i].angle
               /\ agents'[i].head = agents[i].head
               /\ agents'[i].at = agents[i].at \/ (agents[i].at # "none" /\ agents'[i].at = "gone")
    <3>1. agents[i] \in Agents
      BY <1>0
    <3>2. CASE agents'[i] = agents[i]
      BY <3>2
    <3>3. CASE agents[i].at # "none" /\ agents'[i] = [agents[i] EXCEPT !.at = "gone"]
      BY <3>1, <3>3 DEF Agents
    <3> QED
      BY <2>3, <3>2, <3>3
  <2> QED
    BY <1>0, <2>4
<1>5. ASSUME NEW i \in Panes, NEW from, NEW to, Become(i, from, to),
             to \in {"stopped", "working", "gone"},
             to # "gone" => from \subseteq {"working", "stopped"},
             from \subseteq {"ready", "working", "stopped"}
      PROVE  Stamped' /\ \A j \in Panes : Kept(j)
  <2>1. agents[i].at \in {"ready", "working", "stopped"} /\ (to # "gone" => agents[i].at \in {"working", "stopped"})
    BY <1>5 DEF Become
  <2>2. /\ agents'[i].at = to /\ agents'[i].head = agents[i].head
        /\ agents'[i].iter = agents[i].iter /\ agents'[i].angle = agents[i].angle
        /\ \A j \in Panes : j # i => agents'[j] = agents[j]
    BY <1>0, <1>5 DEF Become, Agents
  <2> QED
    BY <1>0, <1>5, <2>1, <2>2
<1> QED
  BY <1>1, <1>2, <1>3, <1>4, <1>5, OnlyThese

\* Nothing of the pass, of its ledgers or of its verdict changes.
Quiet == UNCHANGED <<panel, copy, disk, headrec, reissued, merged>>

LEMMA StepKinds ==
    ASSUME [Next]_vars
    PROVE  \/ PanelStep \/ Open(TRUE) \/ Open(FALSE) \/ Kill
           \/ Quiet /\ (findings' = findings \/ \E i \in Panes : Submit(i))
BY DEF Next, ReviewerStep, Submit, Stop, Wake, Die, Become, Commit, vars, files, heads, Quiet

\* A pass that opens an iteration has that iteration and HEAD, and nothing yet.
LEMMA OpenMoves ==
    ASSUME NEW fresh, Open(fresh)
    PROVE  \E n \in Iters, resumed \in BOOLEAN :
              /\ panel'.iter = n /\ panel'.at = "turn" /\ panel'.harvest = Empty
              /\ panel'.head = head
              /\ resumed => Rejoins(disk, n) /\ UNCHANGED <<headrec, reissued>>
              /\ ~ resumed => /\ NextIter(disk, n) /\ headrec' = [headrec EXCEPT ![n] = head]
                              /\ reissued' = IF AskedIn(n) THEN reissued \cup {n} ELSE reissued
<1>1. PICK n \in Iters, resumed \in BOOLEAN :
          /\ panel' = [Idle EXCEPT !.at = "turn", !.iter = n, !.resumed = resumed,
                                   !.head = head, !.todo = Angles]
          /\ resumed => Rejoins(disk, n) /\ UNCHANGED headrec
          /\ ~ resumed => NextIter(disk, n) /\ headrec' = [headrec EXCEPT ![n] = head]
          /\ reissued' = IF ~ resumed /\ AskedIn(n) THEN reissued \cup {n} ELSE reissued
  BY DEF Open
<1>2. panel'.iter = n /\ panel'.at = "turn" /\ panel'.harvest = Empty /\ panel'.head = head
  BY <1>1 DEF Idle
<1> QED
  BY <1>1, <1>2

LEMMA SeedingStep ==
    ASSUME PanelInv, [Next]_vars
    PROVE  Seeding'
<1>0. TypeInv /\ Seeding /\ PassOK(panel) /\ copy \in Ledger /\ \A i \in Panes : Kept(i)
      /\ agents \in [Panes -> Agents]
  BY AgentStep DEF PanelInv, TypeInv, TypeOK
<1>1. CASE Spawn
  <2>1. Slot \in Slots /\ Slot' = Slot
    BY <1>0, <1>1, SlotIn, SpawnMoves DEF Spawn, At, AngleSteps
  <2>2. CASE panel'.at = "leave"
    BY <2>2 DEF Seeding
  <2>3. CASE panel'.at # "leave"
    <3>1. PICK i \in Panes :
             /\ agents' = [agents EXCEPT ![i] = [iter |-> panel.iter, angle |-> panel.angle,
                                                 head |-> None, at |-> "ready"]]
             /\ copy' = [copy EXCEPT !.status[Slot] = "Running", !.pane[Slot] = i]
      <4>1. panel' # [panel EXCEPT !.at = "leave"]
        BY <2>3, <1>0 DEF PassOK, Passes
      <4> QED
        BY <1>1, <4>1 DEF Spawn, Goto
    <3>2. copy'.pane[Slot] = i /\ agents'[i].iter = panel.iter /\ agents'[i].head = None
      BY <1>0, <2>1, <3>1 DEF Ledger
    <3>3. panel'.iter = panel.iter
      BY <1>0, <1>1, SpawnMoves DEF Moved, Same
    <3> QED
      BY <2>1, <3>2, <3>3 DEF Seeding
  <2> QED
    BY <2>2, <2>3
<1>2. CASE SaveReviewer
  <2>1. Slot' = Slot /\ panel'.iter = panel.iter
    BY <1>0, <1>2, SaveMoves DEF SaveReviewer, Moved, Same, Steps
  <2>2. panel.at = "save" /\ copy' = copy /\ agents' = agents
    BY <1>2 DEF SaveReviewer, SaveWhole, At
  <2> QED
    BY <1>0, <2>1, <2>2 DEF Seeding
<1>3. CASE PanelStep /\ ~ (Spawn \/ SaveReviewer)
  <2>1. panel'.at \notin {"save", "seed"}
    <3>1. CASE TimeOut \/ Drain
      BY <1>0, <3>1, SaveMoves DEF TimeOut, Drain, Steps
    <3>2. CASE Leave
      BY <3>2 DEF Leave, Idle
    <3> QED
      BY <1>0, <1>3, <3>1, <3>2, TurnMoves, ProbeMoves, ClearMoves, SeedMoves, PollMoves,
         LookMoves, JudgeMoves, RoundMoves, LastMoves DEF PanelStep
  <2> QED
    BY <2>1 DEF Seeding
<1>4. CASE Open(TRUE) \/ Open(FALSE) \/ Kill
  <2>1. CASE Open(TRUE) \/ Open(FALSE)
    <3>1. panel'.at = "turn"
      BY <2>1, OpenMoves
    <3> QED
      BY <3>1 DEF Seeding
  <2>2. CASE Kill
    <3>1. panel'.at = "idle"
      BY <2>2 DEF Kill, Idle
    <3> QED
      BY <3>1 DEF Seeding
  <2> QED
    BY <1>4, <2>1, <2>2
<1>5. CASE Quiet
  <2>1. CASE agents' = agents
    BY <1>0, <1>5, <2>1 DEF Quiet, Seeding, Slot
  <2>2. ASSUME NEW i \in Panes, NEW from, NEW to, Become(i, from, to)
        PROVE  Seeding'
    <3>1. \A j \in Panes : agents'[j].head = agents[j].head /\ agents'[j].iter = agents[j].iter
      BY <1>0, <2>2 DEF Become, Agents
    <3> QED
      BY <1>0, <1>5, <3>1 DEF Quiet, Seeding, Slot
  <2>3. CASE Spawn \/ Seed \/ Reap
    <3>1. panel.at \notin {"save"} /\ panel' = panel
      BY <1>5, <2>3 DEF Quiet, Spawn, Seed, Reap, At
    <3>2. CASE Spawn
      BY <1>0, <3>1, <3>2, SpawnMoves DEF Spawn, At
    <3>3. CASE Seed
      BY <1>0, <3>1, <3>3, SeedMoves DEF Seed, At
    <3>4. CASE Reap
      BY <3>1, <3>4 DEF Reap, At, Seeding
    <3> QED
      BY <2>3, <3>2, <3>3, <3>4
  <2> QED
    BY <2>1, <2>2, <2>3, OnlyThese
<1> QED
  BY <1>1, <1>2, <1>3, <1>4, <1>5, StepKinds

\* A review stays by that reviewer.
LEMMA ByStays ==
    ASSUME PanelInv, [Next]_vars, NEW i \in Panes \cup {None}, NEW n \in Iters \cup {0}, By(agents, i, n)
    PROVE  By(agents', i, n)
<1>1. CASE i = None
  BY <1>1 DEF By
<1>2. CASE i \in Panes /\ i # None
  <2>1. Kept(i) /\ Stamped
    BY <1>2, AgentStep DEF PanelInv
  <2>2. agents[i].iter = n /\ agents[i].head # None /\ agents[i].at # "none"
    BY <1>2, <2>1 DEF By, Stamped
  <2> QED
    BY <2>1, <2>2 DEF By, Kept
<1> QED
  BY <1>1, <1>2

LEMMA OwnedStep ==
    ASSUME PanelInv, [Next]_vars
    PROVE  Owned'
<1>0. /\ TypeInv /\ Owned /\ Stamped /\ PassOK(panel) /\ agents \in [Panes -> Agents]
      /\ findings \in [Slots -> Panes \cup {None}] /\ panel.harvest \in Reviews
      /\ merged \in Verdicts
  BY DEF PanelInv, TypeInv, TypeOK, PassOK, Passes
<1>1. \A s \in Slots : By(agents', findings'[s], s[1])
  <2> SUFFICES ASSUME NEW s \in Slots PROVE By(agents', findings'[s], s[1])
    OBVIOUS
  <2>1. By(agents', findings[s], s[1]) /\ s[1] \in Iters
    BY <1>0, ByStays DEF Owned, Slots
  <2>2. CASE findings' = findings
    BY <2>1, <2>2 DEF By
  <2>3. CASE Clear
    <3>1. findings'[s] \in {findings[s], None}
      BY <1>0, <2>3 DEF Clear
    <3> QED
      BY <2>1, <3>1 DEF By
  <2>4. ASSUME NEW i \in Panes, Submit(i) PROVE By(agents', findings'[s], s[1])
    <3>1. findings'[s] = findings[s] \/ (findings'[s] = i /\ s = SlotOf(i))
      BY <1>0, <2>4 DEF Submit
    <3>2. agents[i].at = "working" /\ agents' = agents
      BY <2>4 DEF Submit
    <3>3. CASE findings'[s] = findings[s]
      BY <2>1, <3>3 DEF By
    <3>4. CASE findings'[s] = i /\ s = SlotOf(i)
      BY <1>0, <3>2, <3>4 DEF Stamped, By, SlotOf
    <3> QED
      BY <3>1, <3>3, <3>4
  <2>5. findings' = findings \/ Clear \/ \E i \in Panes : Submit(i)
    BY StepKinds DEF PanelStep, Turn, Probe, Spawn, SaveReviewer, Seed, Poll, Look, Judge, EndRound,
       TimeOut, Drain, SaveWhole, Merge, Reap, Leave, Open, Kill, files
  <2> QED
    BY <2>2, <2>3, <2>4, <2>5
<1>2. \A a \in Angles : By(agents', panel'.harvest[a], panel'.iter)
  <2> SUFFICES ASSUME NEW a \in Angles PROVE By(agents', panel'.harvest[a], panel'.iter)
    OBVIOUS
  <2>1. panel.harvest[a] \in Panes \cup {None} /\ panel.iter \in Iters \cup {0}
    BY <1>0 DEF Reviews, PassOK, Passes
  <2>2. By(agents, panel.harvest[a], panel.iter)
    BY <1>0 DEF Owned
  <2>3. /\ panel.harvest[a] # None => agents'[panel.harvest[a]].iter = panel.iter
                                      /\ agents'[panel.harvest[a]].head # None
    BY <2>1, <2>2, ByStays DEF By
  <2>4. CASE panel'.iter = panel.iter /\ panel'.harvest = panel.harvest
    BY <2>3, <2>4 DEF By
  <2>5. CASE panel'.harvest = Empty
    BY <2>5 DEF By, Empty
  <2>6. ASSUME NEW b \in Angles, panel.iter \in Iters, panel'.iter = panel.iter,
               panel'.harvest = [panel.harvest EXCEPT ![b] = findings[<<panel.iter, b>>]]
        PROVE  By(agents', panel'.harvest[a], panel'.iter)
    <3>1. CASE a = b
      <4> DEFINE i == findings[<<panel.iter, b>>]
      <4>1. i \in Panes \cup {None} /\ By(agents, i, panel.iter)
        BY <1>0, <2>6 DEF Owned, Slots
      <4>2. i # None => agents'[i].iter = panel.iter /\ agents'[i].head # None
        BY <2>1, <4>1, ByStays DEF By
      <4>3. panel'.harvest[a] = i
        BY <1>0, <2>6, <3>1 DEF Reviews
      <4> QED
        BY <2>6, <4>2, <4>3 DEF By
    <3>2. CASE a # b
      <4>1. panel'.harvest[a] = panel.harvest[a]
        BY <1>0, <2>6, <3>2 DEF Reviews
      <4> QED
        BY <2>3, <2>6, <4>1 DEF By
    <3> QED
      BY <3>1, <3>2
  <2>7. CASE PanelStep
    <3>1. CASE Moved
      <4>1. panel'.iter = panel.iter /\ panel'.at # "idle" /\ PassOK(panel') /\ panel.iter \in Iters
        BY <3>1 DEF Moved, Same, PassOK
      <4> QED
        BY <2>4, <2>6, <3>1, <4>1 DEF Moved, Harvested
    <3>2. CASE panel' = Idle
      BY <2>5, <3>2 DEF Idle
    <3> QED
      BY <1>0, <2>7, <3>1, <3>2, PassMoves
  <2>8. CASE Open(TRUE) \/ Open(FALSE) \/ Kill
    <3>1. CASE Open(TRUE) \/ Open(FALSE)
      BY <2>5, <3>1, OpenMoves
    <3>2. CASE Kill
      BY <2>5, <3>2 DEF Kill, Idle
    <3> QED
      BY <2>8, <3>1, <3>2
  <2>9. CASE Quiet
    BY <2>4, <2>9 DEF Quiet
  <2> QED
    BY <2>7, <2>8, <2>9, StepKinds
<1>3. \A a \in Angles : By(agents', merged'.reviews[a], merged'.iter)
  <2> SUFFICES ASSUME NEW a \in Angles PROVE By(agents', merged'.reviews[a], merged'.iter)
    OBVIOUS
  <2>1. CASE merged' = merged
    <3>1. /\ merged.reviews[a] \in Panes \cup {None} /\ merged.iter \in Iters \cup {0}
          /\ By(agents, merged.reviews[a], merged.iter)
      BY <1>0 DEF Verdicts, Reviews, Owned
    <3> QED
      BY <2>1, <3>1, ByStays DEF By
  <2>2. CASE Merge /\ merged' # merged
    <3>1. /\ panel.harvest[a] \in Panes \cup {None} /\ panel.iter \in Iters \cup {0}
          /\ By(agents, panel.harvest[a], panel.iter)
      BY <1>0 DEF Reviews, PassOK, Passes, Owned
    <3>2. merged'.reviews = panel.harvest /\ merged'.iter = panel.iter /\ agents' = agents
      BY <2>2 DEF Merge
    <3> QED
      BY <3>1, <3>2 DEF By
  <2>3. merged' = merged \/ Merge
    BY StepKinds DEF PanelStep, Turn, Probe, Clear, Spawn, SaveReviewer, Seed, Poll, Look, Judge,
       EndRound, TimeOut, Drain, SaveWhole, Reap, Leave, Open, Kill, files, Quiet
  <2> QED
    BY <2>1, <2>2, <2>3
<1> QED
  BY <1>1, <1>2, <1>3 DEF Owned, By

\* What a ledger registers stays what it is.
LEMMA HoldsStays ==
    ASSUME PanelInv, [Next]_vars, NEW l \in Ledger, Holds(agents, l)
    PROVE  Holds(agents', l)
<1>0. Stamped /\ \A i \in Panes : Kept(i)
  BY AgentStep DEF PanelInv
<1>1. ASSUME NEW s \in Slots, l.pane[s] # None
      PROVE  agents'[l.pane[s]].iter = s[1]
  <2>1. l.pane[s] \in Panes /\ s[1] # 0
    BY <1>1 DEF Ledger, Slots, Iters
  <2>2. agents[l.pane[s]].iter = s[1]
    BY <1>1 DEF Holds
  <2> QED
    BY <1>0, <2>1, <2>2 DEF Stamped, Kept
<1>2. ASSUME NEW i \in l.retired
      PROVE  agents'[i].at # "none"
  <2>1. i \in Panes
    BY <1>2 DEF Ledger
  <2> QED
    BY <1>0, <1>2, <2>1 DEF Holds, Kept
<1> QED
  BY <1>1, <1>2 DEF Holds

LEMMA MarkedHolds ==
    ASSUME NEW who, NEW l \in Ledger, NEW s, NEW st, Holds(who, l)
    PROVE  Holds(who, Marked(l, s, st))
<1>1. Marked(l, s, st).pane = l.pane /\ Marked(l, s, st).retired = l.retired
  BY DEF Marked, Ledger
<1> QED
  BY <1>1 DEF Holds

LEMMA RegisteredStep ==
    ASSUME PanelInv, [Next]_vars
    PROVE  Registered'
<1>0. /\ TypeInv /\ Seeding /\ Stamped /\ PassOK(panel) /\ disk \in Ledger /\ copy \in Ledger
      /\ agents \in [Panes -> Agents]
      /\ Holds(agents, disk) /\ Holds(agents, copy)
      /\ Holds(agents', disk) /\ Holds(agents', copy)
  BY HoldsStays DEF PanelInv, TypeInv, TypeOK, Registered
<1> SUFFICES Holds(agents', disk') /\ Holds(agents', copy')
  BY DEF Registered, Holds
<1>1. CASE UNCHANGED <<disk, copy>>
  BY <1>0, <1>1
<1>2. CASE Turn \/ Look \/ Judge
  <2>1. copy' = copy \/ \E s, st : copy' = Marked(copy, s, st)
    BY <1>2 DEF Turn, Look, Judge
  <2>2. disk' = disk
    BY <1>2 DEF Turn, Look, Judge, files
  <2>3. Holds(agents', copy')
    BY <1>0, <2>1, MarkedHolds
  <2> QED
    BY <1>0, <2>2, <2>3
<1>3. CASE Probe
  <2>1. Slot \in Slots
    BY <1>0, <1>3, SlotIn DEF Probe, At, AngleSteps
  <2>2. copy' = copy \/
          copy' = [copy EXCEPT !.status[Slot] = "Absent", !.pane[Slot] = None,
                               !.retired = @ \cup ({copy.pane[Slot]} \ {None})]
    BY <1>3 DEF Probe
  <2>3. disk' = disk
    BY <1>3 DEF Probe, files
  <2>4. CASE copy' = [copy EXCEPT !.status[Slot] = "Absent", !.pane[Slot] = None,
                                  !.retired = @ \cup ({copy.pane[Slot]} \ {None})]
    <3>1. /\ \A s \in Slots : copy'.pane[s] \in {copy.pane[s], None}
          /\ copy'.retired = copy.retired \cup ({copy.pane[Slot]} \ {None})
      BY <1>0, <2>1, <2>4 DEF Ledger
    <3>2. copy.pane[Slot] # None => agents'[copy.pane[Slot]].at # "none"
      <4>1. SUFFICES ASSUME copy.pane[Slot] # None PROVE agents'[copy.pane[Slot]].at # "none"
        OBVIOUS
      <4>2. copy.pane[Slot] \in Panes /\ Slot[1] # 0
        BY <1>0, <2>1, <4>1 DEF Ledger, Slots, Iters
      <4>3. agents[copy.pane[Slot]].iter # 0
        BY <1>0, <2>1, <4>1, <4>2 DEF Holds
      <4> QED
        BY <1>0, <4>2, <4>3, AgentStep DEF Stamped, Kept
    <3> QED
      BY <1>0, <2>3, <3>1, <3>2 DEF Holds
  <2> QED
    BY <1>0, <2>2, <2>3, <2>4
<1>4. CASE Spawn
  <2>1. Slot \in Slots /\ Slot[1] = panel.iter
    BY <1>0, <1>4, SlotIn DEF Spawn, At, AngleSteps, Slot
  <2>2. disk' = disk
    BY <1>4 DEF Spawn, files
  <2>3. ASSUME NEW i \in Panes,
               agents' = [agents EXCEPT ![i] = [iter |-> panel.iter, angle |-> panel.angle,
                                                head |-> None, at |-> "ready"]],
               copy' = [copy EXCEPT !.status[Slot] = "Running", !.pane[Slot] = i]
        PROVE  Holds(agents', copy')
    <3>1. agents'[i].iter = panel.iter
      BY <1>0, <2>3
    <3>2. /\ copy'.pane[Slot] = i /\ copy'.retired = copy.retired
          /\ \A s \in Slots : s # Slot => copy'.pane[s] = copy.pane[s]
      BY <1>0, <2>1, <2>3 DEF Ledger
    <3> QED
      BY <1>0, <2>1, <3>1, <3>2 DEF Holds
  <2>4. CASE copy' = copy
    BY <1>0, <2>2, <2>4
  <2> QED
    BY <1>0, <1>4, <2>2, <2>3, <2>4 DEF Spawn
<1>5. CASE SaveReviewer \/ TimeOut \/ Drain
  <2>1. disk' \in {disk, copy} /\ copy' = copy
    BY <1>5 DEF SaveReviewer, TimeOut, Drain, SaveWhole
  <2> QED
    BY <1>0, <2>1
<1>6. CASE Seed
  <2>1. copy' = copy \/ copy' = [copy EXCEPT !.status[Slot] = "Failed"]
    BY <1>6 DEF Seed
  <2>2. copy'.pane = copy.pane /\ copy'.retired = copy.retired
    BY <1>0, <2>1 DEF Ledger
  <2>3. disk' = disk
    BY <1>6 DEF Seed, files
  <2> QED
    BY <1>0, <2>2, <2>3 DEF Holds
<1>7. CASE Reap
  <2> DEFINE rest == [disk EXCEPT !.retired = {},
                        !.pane = [s \in Slots |-> IF s[1] = panel.iter THEN None ELSE @[s]]]
  <2>1. rest.retired = {} /\ \A s \in Slots : rest.pane[s] \in {disk.pane[s], None}
    BY <1>0 DEF Ledger
  <2>2. disk' \in {rest, disk} /\ copy' \in {rest, disk}
    BY <1>7 DEF Reap
  <2>3. Holds(agents', rest)
    BY <1>0, <2>1 DEF Holds
  <2> HIDE DEF rest
  <2> QED
    BY <1>0, <2>2, <2>3
<1>8. Holds(agents', Blank)
  BY DEF Holds, Blank
<1>9. CASE Leave
  <2> DEFINE t == Transplant(disk, copy)
  <2>1. t.pane = copy.pane /\ t.retired = disk.retired \cup copy.retired
    BY <1>0 DEF Transplant, Ledger
  <2>2. Holds(agents', t)
    BY <1>0, <2>1 DEF Holds
  <2>3. disk' \in {t, disk} /\ copy' = Blank
    BY <1>9 DEF Leave
  <2> HIDE DEF t
  <2> QED
    BY <1>0, <1>8, <2>2, <2>3
<1>10. CASE Clear \/ Poll \/ EndRound \/ Merge \/ Quiet
  BY <1>0, <1>10 DEF Clear, Poll, EndRound, Merge, files, Quiet
<1>11. CASE Open(TRUE) \/ Open(FALSE)
  BY <1>0, <1>11 DEF Open
<1>12. CASE Kill
  BY <1>0, <1>8, <1>12 DEF Kill, files
<1> QED
  BY <1>2, <1>3, <1>4, <1>5, <1>6, <1>7, <1>9, <1>10, <1>11, <1>12, StepKinds DEF PanelStep

\* Only a seed asks a reviewer.
LEMMA AskedBefore ==
    ASSUME PanelInv, [Next]_vars, ~ Seed, NEW i \in Panes, agents'[i].head # None
    PROVE  agents'[i].head = agents[i].head /\ agents'[i].iter = agents[i].iter
<1>0. agents \in [Panes -> Agents] /\ panel \in Passes
  BY DEF PanelInv, TypeInv, TypeOK
<1>1. CASE agents' = agents
  BY <1>1
<1>2. CASE Spawn
  <2>1. ASSUME NEW j \in Panes,
               agents' = [agents EXCEPT ![j] = [iter |-> panel.iter, angle |-> panel.angle,
                                                head |-> None, at |-> "ready"]]
        PROVE  j # i /\ agents'[i] = agents[i]
    BY <1>0, <2>1
  <2> QED
    BY <1>1, <1>2, <2>1 DEF Spawn
<1>3. CASE Reap
  <2>1. agents'[i] \in {agents[i], [agents[i] EXCEPT !.at = "gone"]}
    BY <1>3 DEF Reap
  <2>2. agents[i] \in Agents
    BY <1>0
  <2>3. [agents[i] EXCEPT !.at = "gone"].head = agents[i].head
        /\ [agents[i] EXCEPT !.at = "gone"].iter = agents[i].iter
    BY <2>2 DEF Agents
  <2> QED
    BY <2>1, <2>3
<1>4. ASSUME NEW j \in Panes, NEW from, NEW to, Become(j, from, to)
      PROVE  agents'[i].head = agents[i].head /\ agents'[i].iter = agents[i].iter
  BY <1>0, <1>4 DEF Become, Agents
<1> QED
  BY <1>1, <1>2, <1>3, <1>4, OnlyThese

LEMMA OneHeadStep ==
    ASSUME PanelInv, [Next]_vars
    PROVE  OneHead'
<1>0. /\ TypeInv /\ OneHead /\ Seeding /\ Stamped /\ PassOK(panel) /\ agents \in [Panes -> Agents]
      /\ headrec \in [Iters -> Heads \cup {None}] /\ reissued \subseteq Iters
  BY DEF PanelInv, TypeInv, TypeOK
<1>1. ASSUME NEW fresh \in BOOLEAN, Open(fresh) PROVE OneHead'
  <2>1. PICK n \in Iters, resumed \in BOOLEAN :
              /\ panel'.iter = n /\ panel'.head = head
              /\ resumed => Rejoins(disk, n) /\ UNCHANGED <<headrec, reissued>>
              /\ ~ resumed => /\ NextIter(disk, n) /\ headrec' = [headrec EXCEPT ![n] = head]
                              /\ reissued' = IF AskedIn(n) THEN reissued \cup {n} ELSE reissued
    BY <1>1, OpenMoves
  <2>2. agents' = agents
    BY <1>1 DEF Open
  <2>3. CASE resumed
    BY <1>0, <2>1, <2>2, <2>3 DEF OneHead, Rejoins
  <2>4. CASE ~ resumed
    <3>1. panel'.head = headrec'[panel'.iter]
      BY <1>0, <2>1, <2>4
    <3>2. ASSUME NEW i \in Panes, agents'[i].head # None, agents'[i].iter \notin reissued'
          PROVE  agents'[i].head = headrec'[agents'[i].iter]
      <4>1. agents[i].head # None /\ agents[i].iter # n /\ agents[i].iter \notin reissued
        BY <2>1, <2>2, <2>4, <3>2 DEF AskedIn
      <4>2. agents[i].iter \in Iters
        <5>1. agents[i].iter \in Iters \cup {0} /\ agents[i].at # "none"
          BY <1>0, <4>1 DEF Agents, Stamped
        <5> QED
          BY <1>0, <5>1 DEF Stamped, SlotOf, Slots
      <4>3. headrec'[agents[i].iter] = headrec[agents[i].iter]
        BY <1>0, <2>1, <2>4, <4>1, <4>2
      <4> QED
        BY <1>0, <2>2, <4>1, <4>3 DEF OneHead
    <3> QED
      BY <3>1, <3>2 DEF OneHead
  <2> QED
    BY <2>3, <2>4
<1>2. ASSUME headrec' = headrec, reissued' = reissued,
             \A i \in Panes : agents'[i].head # None =>
                \/ agents'[i].head = agents[i].head /\ agents'[i].iter = agents[i].iter
                \/ agents'[i].head = headrec[agents'[i].iter]
      PROVE  \A i \in Panes : agents'[i].head # None /\ agents'[i].iter \notin reissued' =>
                agents'[i].head = headrec'[agents'[i].iter]
  BY <1>0, <1>2 DEF OneHead
<1>3. CASE ~ (Open(TRUE) \/ Open(FALSE))
  <2>1. headrec' = headrec /\ reissued' = reissued
    <3>1. CASE PanelStep
      BY <3>1 DEF PanelStep, Turn, Probe, Clear, Spawn, SaveReviewer, Seed, Poll, Look, Judge,
         EndRound, TimeOut, Drain, SaveWhole, Merge, Reap, Leave, files, heads
    <3>2. CASE Kill \/ Quiet
      BY <3>2 DEF Kill, Quiet, files, heads
    <3> QED
      BY <1>3, <3>1, <3>2, StepKinds
  <2>2. panel'.at # "idle" => panel'.head = headrec'[panel'.iter]
    <3>1. CASE PanelStep
      <4>1. CASE Moved
        <5>1. panel'.iter = panel.iter /\ panel'.head = panel.head
          BY <4>1 DEF Moved, Same
        <5>2. panel.at # "idle"
          BY <3>1 DEF PanelStep, Turn, Probe, Clear, Spawn, SaveReviewer, Seed, Poll, Look, Judge,
             EndRound, TimeOut, Drain, SaveWhole, Merge, Reap, Leave, At
        <5> QED
          BY <1>0, <2>1, <5>1, <5>2 DEF OneHead
      <4>2. CASE panel' = Idle
        BY <4>2 DEF Idle
      <4> QED
        BY <1>0, <3>1, <4>1, <4>2, PassMoves
    <3>2. CASE Kill
      BY <3>2 DEF Kill, Idle
    <3>3. CASE Quiet
      BY <1>0, <2>1, <3>3 DEF Quiet, OneHead
    <3> QED
      BY <1>3, <3>1, <3>2, <3>3, StepKinds
  <2>3. \A i \in Panes : agents'[i].head # None =>
                \/ agents'[i].head = agents[i].head /\ agents'[i].iter = agents[i].iter
                \/ agents'[i].head = headrec[agents'[i].iter]
    <3>1. CASE ~ Seed
      BY <3>1, AskedBefore
    <3>2. CASE Seed
      <4> DEFINE i == copy.pane[Slot]
      <4>1. panel.at = "seed" /\ panel.head = headrec[panel.iter]
        BY <1>0, <3>2 DEF Seed, At, OneHead
      <4>2. i \in Panes /\ agents[i].iter = panel.iter
        BY <1>0, <4>1 DEF Seeding
      <4>3. CASE agents' = agents
        BY <4>3
      <4>4. CASE agents' = [agents EXCEPT ![i].head = panel.head, ![i].at = "working"]
        <5> HIDE DEF i
        <5>1. agents'[i].head = panel.head /\ agents'[i].iter = agents[i].iter
              /\ \A j \in Panes : j # i => agents'[j] = agents[j]
          BY <1>0, <4>2, <4>4 DEF Agents
        <5> QED
          BY <4>1, <4>2, <5>1
      <4> QED
        BY <3>2, <4>3, <4>4 DEF Seed
    <3> QED
      BY <3>1, <3>2
  <2> QED
    BY <1>2, <2>1, <2>2, <2>3 DEF OneHead
<1> QED
  BY <1>1, <1>3

\* Where a step may mark a reviewer Done, and where it may lose a file.
LEMMA MarkedStatus ==
    ASSUME NEW l \in Ledger, NEW s \in Slots, NEW st \in {"Absent", "Running", "Done", "Failed"},
           NEW t \in Slots, Marked(l, s, st).status[t] = "Done"
    PROVE  l.status[t] = "Done" \/ (t = s /\ st = "Done")
BY DEF Marked, Ledger

LEMMA BankedStep ==
    ASSUME PanelInv, [Next]_vars
    PROVE  Banked'
<1>0. /\ TypeInv /\ Banked /\ Stamped /\ PassOK(panel) /\ disk \in Ledger /\ copy \in Ledger
      /\ findings \in [Slots -> Panes \cup {None}]
  BY DEF PanelInv, TypeInv, TypeOK
<1> DEFINE Backed(l, f) == \A s \in Slots : l.status[s] = "Done" => f[s] # None
<1>a. Backed(disk, findings) /\ Backed(copy, findings)
  BY <1>0 DEF Banked
<1>b. ASSUME Backed(disk', findings'), Backed(copy', findings'), panel'.at \notin {"probe", "clear"}
      PROVE  Banked'
  BY <1>b DEF Banked
<1>1. CASE Turn
  <2>1. panel.at = "turn" /\ disk' = disk /\ findings' = findings
    BY <1>1 DEF Turn, At, files
  <2>2. Backed(copy', findings')
    <3>1. CASE copy' = copy
      BY <1>a, <2>1, <3>1
    <3>2. ASSUME panel.todo # {}, NEW s, s = <<panel.iter, First(panel.todo)>>,
                 copy' = Marked(copy, s, "Done"), Delivered(s)
          PROVE  Backed(copy', findings')
      <4>1. s \in Slots
        BY <1>0, <2>1, <3>2, FirstIn DEF PassOK, Passes, Slots
      <4> QED
        BY <1>0, <1>a, <2>1, <3>2, <4>1, MarkedStatus DEF Delivered
    <3> QED
      BY <1>1, <3>1, <3>2 DEF Turn
  <2>3. panel'.at \in {"turn", "poll", "probe", "spawn"}
    BY <1>0, <1>1, TurnMoves
  <2>4. panel'.at = "probe" => Slot' \in Slots /\ findings[Slot'] = None
    BY <1>0, <1>1, TurnMoves
  <2>5. panel'.at = "probe" => disk'.status[Slot'] # "Done"
    BY <1>a, <2>1, <2>4
  <2> QED
    BY <1>a, <2>1, <2>2, <2>3, <2>5 DEF Banked
<1>2. CASE Probe
  <2>1. panel.at = "probe" /\ disk' = disk /\ findings' = findings /\ Slot \in Slots
    BY <1>0, <1>2, SlotIn DEF Probe, At, files, AngleSteps
  <2>2. disk.status[Slot] # "Done"
    BY <1>0, <2>1 DEF Banked
  <2>3. panel'.at \in {"turn", "clear"} /\ (panel'.at = "clear" => Slot' = Slot)
    BY <1>0, <1>2, ProbeMoves
  <2>4. \/ copy' = copy /\ panel' = [panel EXCEPT !.at = "turn", !.pending = @ \cup {panel.angle}]
        \/ copy' = [copy EXCEPT !.status[Slot] = "Absent", !.pane[Slot] = None,
                                !.retired = @ \cup ({copy.pane[Slot]} \ {None})]
    BY <1>2 DEF Probe
  <2>5. CASE copy' = copy /\ panel' = [panel EXCEPT !.at = "turn", !.pending = @ \cup {panel.angle}]
    <3>1. panel'.at = "turn"
      BY <1>0, <2>5 DEF PassOK, Passes
    <3> QED
      BY <1>a, <1>b, <2>1, <2>5, <3>1
  <2>6. CASE copy' = [copy EXCEPT !.status[Slot] = "Absent", !.pane[Slot] = None,
                                  !.retired = @ \cup ({copy.pane[Slot]} \ {None})]
    <3>1. /\ copy'.status[Slot] = "Absent"
          /\ \A s \in Slots : s # Slot => copy'.status[s] = copy.status[s]
      BY <1>0, <2>1, <2>6 DEF Ledger
    <3>2. Backed(copy', findings')
      BY <1>a, <2>1, <3>1
    <3> QED
      BY <1>a, <2>1, <2>2, <2>3, <3>1, <3>2 DEF Banked
  <2> QED
    BY <2>4, <2>5, <2>6
<1>3. CASE Clear
  <2>1. panel.at = "clear" /\ disk' = disk /\ copy' = copy /\ Slot \in Slots
    BY <1>0, <1>3, SlotIn DEF Clear, At, AngleSteps
  <2>2. disk.status[Slot] # "Done" /\ copy.status[Slot] # "Done"
    BY <1>0, <2>1 DEF Banked
  <2>3. \A s \in Slots : s # Slot => findings'[s] = findings[s]
    BY <1>0, <1>3 DEF Clear
  <2>4. panel'.at \in {"spawn", "leave"}
    BY <1>0, <1>3, ClearMoves
  <2> QED
    BY <1>a, <1>b, <2>1, <2>2, <2>3, <2>4
<1>4. CASE Spawn \/ Seed
  <2>1. disk' = disk /\ findings' = findings
    BY <1>4 DEF Spawn, Seed, files
  <2>2. panel'.at \notin {"probe", "clear"}
    BY <1>0, <1>4, SpawnMoves, SeedMoves
  <2>3. Slot \in Slots
    BY <1>0, <1>4, SlotIn DEF Spawn, Seed, At, AngleSteps
  <2>4. \/ copy' = copy \/ copy' = [copy EXCEPT !.status[Slot] = "Failed"]
        \/ \E i : copy' = [copy EXCEPT !.status[Slot] = "Running", !.pane[Slot] = i]
    <3>1. CASE Spawn
      BY <3>1 DEF Spawn
    <3>2. CASE Seed
      BY <3>2 DEF Seed
    <3> QED
      BY <1>4, <3>1, <3>2
  <2>5. \A s \in Slots : copy'.status[s] \in {copy.status[s], "Failed", "Running"}
    <3>1. copy.status \in [Slots -> {"Absent", "Running", "Done", "Failed"}]
      BY <1>0 DEF Ledger
    <3>2. \/ copy'.status = copy.status
          \/ copy'.status = [copy.status EXCEPT ![Slot] = "Failed"]
          \/ copy'.status = [copy.status EXCEPT ![Slot] = "Running"]
      BY <1>0, <2>4 DEF Ledger
    <3> QED
      BY <2>3, <3>1, <3>2
  <2> QED
    BY <1>a, <1>b, <2>1, <2>2, <2>5
<1>5. CASE SaveReviewer \/ TimeOut \/ Drain
  <2>1. disk' \in {disk, copy} /\ copy' = copy /\ findings' = findings
    BY <1>5 DEF SaveReviewer, TimeOut, Drain, SaveWhole
  <2>2. panel'.at \notin {"probe", "clear"}
    BY <1>0, <1>5, SaveMoves DEF SaveReviewer, TimeOut, Drain, Steps
  <2> QED
    BY <1>a, <1>b, <2>1, <2>2
<1>6. CASE Look \/ Judge
  <2>1. disk' = disk /\ findings' = findings /\ Slot \in Slots
    BY <1>0, <1>6, SlotIn DEF Look, Judge, At, files, AngleSteps
  <2>2. panel'.at \notin {"probe", "clear"}
    BY <1>0, <1>6, LookMoves, JudgeMoves
  <2>3. \/ copy' = copy \/ copy' = Marked(copy, Slot, "Failed")
        \/ copy' = Marked(copy, Slot, "Done") /\ Delivered(Slot)
    BY <1>6 DEF Look, Judge
  <2>4. Backed(copy', findings')
    <3>1. CASE copy' = copy
      BY <1>a, <2>1, <3>1
    <3>2. CASE copy' = Marked(copy, Slot, "Failed")
      BY <1>0, <1>a, <2>1, <3>2, MarkedStatus
    <3>3. CASE copy' = Marked(copy, Slot, "Done") /\ Delivered(Slot)
      BY <1>0, <1>a, <2>1, <3>3, MarkedStatus DEF Delivered
    <3> QED
      BY <2>3, <3>1, <3>2, <3>3
  <2> QED
    BY <1>a, <1>b, <2>1, <2>2, <2>4
<1>7. CASE Poll \/ EndRound \/ Merge
  <2>1. disk' = disk /\ findings' = findings /\ copy' = copy
    BY <1>7 DEF Poll, EndRound, Merge, files
  <2>2. panel'.at \notin {"probe", "clear"}
    BY <1>0, <1>7, PollMoves, RoundMoves, LastMoves
  <2> QED
    BY <1>a, <1>b, <2>1, <2>2
<1>8. CASE Reap
  <2> DEFINE rest == [disk EXCEPT !.retired = {},
                        !.pane = [s \in Slots |-> IF s[1] = panel.iter THEN None ELSE @[s]]]
  <2>1. rest.status = disk.status
    BY <1>0 DEF Ledger
  <2>2. disk' \in {rest, disk} /\ copy' \in {rest, disk} /\ findings' = findings
    BY <1>8 DEF Reap
  <2>3. disk'.status = disk.status /\ copy'.status = disk.status
    BY <2>1, <2>2
  <2>4. panel'.at \notin {"probe", "clear"}
    BY <1>0, <1>8, LastMoves
  <2> QED
    BY <1>a, <1>b, <2>2, <2>3, <2>4
<1>9. CASE Leave
  <2>1. Transplant(disk, copy).status = copy.status
    BY <1>0 DEF Transplant, Ledger
  <2>2. disk' \in {Transplant(disk, copy), disk} /\ copy' = Blank /\ findings' = findings
        /\ panel' = Idle
    BY <1>9 DEF Leave
  <2>3. disk'.status \in {copy.status, disk.status} /\ \A s \in Slots : copy'.status[s] = "Absent"
    BY <2>1, <2>2 DEF Blank
  <2>4. panel'.at = "idle"
    BY <2>2 DEF Idle
  <2> QED
    BY <1>a, <1>b, <2>2, <2>3, <2>4
<1>10. CASE Open(TRUE) \/ Open(FALSE)
  <2>1. panel'.at = "turn"
    BY <1>10, OpenMoves
  <2>2. disk' = disk /\ copy' = disk /\ findings' = findings
    BY <1>10 DEF Open
  <2> QED
    BY <1>a, <1>b, <2>1, <2>2
<1>11. CASE Kill
  <2>1. panel'.at = "idle"
    BY <1>11 DEF Kill, Idle
  <2>2. disk' = disk /\ findings' = findings /\ \A s \in Slots : copy'.status[s] = "Absent"
    BY <1>11 DEF Kill, files, Blank
  <2> QED
    BY <1>a, <1>b, <2>1, <2>2
<1>12. CASE Quiet /\ findings' = findings
  BY <1>0, <1>12 DEF Quiet, Banked, Slot
<1>13. ASSUME Quiet, NEW i \in Panes, Submit(i) PROVE Banked'
  <2>1. \A s \in Slots : findings'[s] \in {findings[s], i}
    BY <1>0, <1>13 DEF Submit
  <2>2. \A s \in Slots : findings[s] # None => findings'[s] # None
    BY <2>1 DEF Panes
  <2> QED
    BY <1>0, <1>13, <2>2 DEF Quiet, Banked, Slot
<1> QED
  BY <1>1, <1>2, <1>3, <1>4, <1>5, <1>6, <1>7, <1>8, <1>9, <1>10, <1>11, <1>12, <1>13,
     StepKinds DEF PanelStep

LEMMA ReapingStep ==
    ASSUME PanelInv, [Next]_vars
    PROVE  Reaping'
<1>0. TypeInv /\ Reaping /\ PassOK(panel)
  BY DEF PanelInv, TypeInv
<1>1. CASE PanelStep /\ panel'.at = "reap"
  <2>1. Merge
    <3>1. CASE SaveReviewer \/ TimeOut \/ Drain
      BY <1>0, <1>1, <3>1, SaveMoves DEF SaveReviewer, TimeOut, Drain, Steps
    <3>2. CASE Leave
      BY <1>1, <3>2 DEF Leave, Idle
    <3> QED
      BY <1>0, <1>1, <3>1, <3>2, TurnMoves, ProbeMoves, ClearMoves, SpawnMoves, SeedMoves, PollMoves,
         LookMoves, JudgeMoves, RoundMoves, LastMoves DEF PanelStep
  <2>2. panel'.iter = panel.iter /\ panel' = [panel EXCEPT !.at = "reap"]
    <3>1. panel' = [panel EXCEPT !.at = "reap"] \/ panel' = [panel EXCEPT !.at = "leave"]
      BY <2>1 DEF Merge, Goto
    <3>2. [panel EXCEPT !.at = "leave"].at = "leave" /\ [panel EXCEPT !.at = "reap"].iter = panel.iter
      BY <1>0 DEF PassOK, Passes
    <3> QED
      BY <1>1, <3>1, <3>2
  <2>3. merged'.iter = panel.iter
    <3>1. PICK ok \in BOOLEAN, clean \in BOOLEAN :
             /\ ok => merged' = [iter |-> panel.iter, head |-> panel.head,
                                 reviews |-> panel.harvest, clean |-> clean]
             /\ Goto(IF ok THEN "reap" ELSE "leave")
      BY <2>1 DEF Merge
    <3>2. ok
      BY <1>0, <1>1, <3>1 DEF Goto, PassOK, Passes
    <3> QED
      BY <3>1, <3>2
  <2> QED
    BY <2>2, <2>3 DEF Reaping
<1>2. CASE panel'.at # "reap"
  BY <1>2 DEF Reaping
<1>3. CASE Open(TRUE) \/ Open(FALSE)
  BY <1>3, OpenMoves DEF Reaping
<1>4. CASE Kill
  <2>1. panel'.at = "idle"
    BY <1>4 DEF Kill, Idle
  <2> QED
    BY <2>1 DEF Reaping
<1>5. CASE Quiet
  BY <1>0, <1>5 DEF Quiet, Reaping
<1> QED
  BY <1>1, <1>2, <1>3, <1>4, <1>5, StepKinds

LEMMA VerdictStep ==
    ASSUME PanelInv, [Next]_vars
    PROVE  VerdictsAreCurrent' /\ CleanIsEarned'
<1>0. /\ TypeInv /\ Owned /\ OneHead /\ Stamped /\ PassOK(panel) /\ VerdictsAreCurrent /\ CleanIsEarned
      /\ merged \in Verdicts /\ panel.harvest \in Reviews
  BY DEF PanelInv, TypeInv, TypeOK, PassOK, Passes
<1>1. CASE Merge /\ merged' # merged
  <2>1. PICK clean \in BOOLEAN :
           /\ MayBeClean(panel.harvest, clean)
           /\ merged' = [iter |-> panel.iter, head |-> panel.head,
                         reviews |-> panel.harvest, clean |-> clean]
    BY <1>1 DEF Merge
  <2>2. agents' = agents /\ reissued' = reissued /\ panel.at # "idle"
    BY <1>1 DEF Merge, heads, At
  <2>3. ASSUME merged'.iter \notin reissued', NEW a \in Angles, merged'.reviews[a] # None
        PROVE  agents'[merged'.reviews[a]].head = merged'.head
    <3> DEFINE i == panel.harvest[a]
    <3>1. i \in Panes /\ agents[i].iter = panel.iter /\ agents[i].head # None
      BY <1>0, <2>1, <2>3 DEF Owned, By, Reviews
    <3> HIDE DEF i
    <3>2. agents[i].head = headrec[panel.iter] /\ panel.head = headrec[panel.iter]
      BY <1>0, <2>1, <2>2, <2>3, <3>1 DEF OneHead
    <3> QED
      BY <2>1, <2>2, <3>2 DEF i
  <2>4. VerdictsAreCurrent'
    BY <2>3 DEF VerdictsAreCurrent
  <2> QED
    BY <2>1, <2>4 DEF CleanIsEarned, MayBeClean
<1>2. CASE merged' = merged
  <2>1. reissued \subseteq reissued'
    <3>1. CASE PanelStep \/ Kill \/ Quiet
      BY <3>1 DEF PanelStep, Turn, Probe, Clear, Spawn, SaveReviewer, Seed, Poll, Look, Judge,
         EndRound, TimeOut, Drain, SaveWhole, Merge, Reap, Leave, Kill, Quiet, files, heads
    <3>2. CASE Open(TRUE) \/ Open(FALSE)
      BY <3>2, OpenMoves
    <3> QED
      BY <3>1, <3>2, StepKinds
  <2>2. ASSUME merged.iter \notin reissued', NEW a \in Angles, merged.reviews[a] # None
        PROVE  agents'[merged.reviews[a]].head = merged.head
    <3> DEFINE i == merged.reviews[a]
    <3>1. i \in Panes /\ agents[i].head # None
      BY <1>0, <2>2 DEF Verdicts, Reviews, Owned, By
    <3>2. agents[i].head = merged.head
      BY <1>0, <2>1, <2>2 DEF VerdictsAreCurrent
    <3>3. Kept(i)
      BY <3>1, AgentStep
    <3> QED
      BY <3>1, <3>2, <3>3 DEF Kept
  <2>3. VerdictsAreCurrent'
    BY <1>2, <2>2 DEF VerdictsAreCurrent
  <2> QED
    BY <1>0, <1>2, <2>3 DEF CleanIsEarned
<1>3. merged' = merged \/ Merge
  BY StepKinds DEF PanelStep, Turn, Probe, Clear, Spawn, SaveReviewer, Seed, Poll, Look, Judge,
     EndRound, TimeOut, Drain, SaveWhole, Reap, Leave, Open, Kill, files, Quiet
<1> QED
  BY <1>1, <1>2, <1>3

LEMMA InvStep == PanelInv /\ [Next]_vars => PanelInv'
<1> SUFFICES ASSUME PanelInv, [Next]_vars PROVE PanelInv'
  OBVIOUS
<1>1. TypeInv'
  BY TypeStep DEF PanelInv
<1> QED
  BY <1>1, AgentStep, SeedingStep, OwnedStep, RegisteredStep, OneHeadStep, BankedStep, ReapingStep,
     VerdictStep DEF PanelInv

THEOREM InvHolds == Spec => []PanelInv
BY InvInit, InvStep, PTL DEF Spec

\* For any angles, iterations, commits and panes, and any kills, deaths and
\* failures: every verdict merged came from a reviewer that was asked about the
\* commit the pass ran for, unless the iteration's number was reissued.
THEOREM VerdictsCurrent == Spec => []VerdictsAreCurrent
<1>1. PanelInv => VerdictsAreCurrent
  BY DEF PanelInv
<1> QED
  BY <1>1, InvHolds, PTL

\* A clean verdict is earned by every configured angle.
THEOREM CleanEarned == Spec => []CleanIsEarned
<1>1. PanelInv => CleanIsEarned
  BY DEF PanelInv
<1> QED
  BY <1>1, InvHolds, PTL

\* A reviewer is Done in state.json only when its findings are on disk.
THEOREM DoneBanked == Spec => []DoneIsBanked
<1>1. PanelInv => DoneIsBanked
  BY DEF PanelInv, Banked, DoneIsBanked
<1> QED
  BY <1>1, InvHolds, PTL

\* A pass closes a reviewer's pane only when its iteration is merged, or another
\* reviewer replaced it.
THEOREM ReapFollows == Spec => ReapFollowsVerdict
<1>1. ASSUME PanelInv, [Next]_vars, NEW i \in Panes,
             At("reap"), Alive(i), agents'[i].at = "gone", panel' # panel
      PROVE  merged.iter = agents[i].iter \/ i \in disk.retired
  <2>0. /\ panel.at = "reap" /\ merged.iter = panel.iter /\ TypeInv /\ disk \in Ledger
        /\ agents \in [Panes -> Agents] /\ panel.iter \in Iters /\ Holds(agents, disk)
    BY <1>1 DEF At, PanelInv, Reaping, TypeInv, TypeOK, PassOK, Registered
  <2>1. Reap \/ Kill
    BY <1>1, <2>0, StepKinds DEF PanelStep, Turn, Probe, Clear, Spawn, SaveReviewer, Seed, Poll, Look,
       Judge, EndRound, TimeOut, Drain, SaveWhole, Merge, Leave, Open, At, Quiet
  <2>2. agents[i].at # "gone"
    BY <1>1 DEF Alive
  <2>3. i \in ({disk.pane[<<panel.iter, a>>] : a \in Angles} \ {None}) \cup disk.retired
    BY <1>1, <2>1, <2>2 DEF Reap, Kill
  <2>4. ASSUME NEW a \in Angles, i = disk.pane[<<panel.iter, a>>], i # None
        PROVE  agents[i].iter = panel.iter
    <3>1. <<panel.iter, a>> \in Slots
      BY <2>0 DEF Slots
    <3> QED
      BY <2>0, <2>4, <3>1 DEF Holds
  <2> QED
    BY <2>0, <2>3, <2>4
<1>2. PanelInv /\ [Next]_vars =>
         [\A i \in Panes : At("reap") /\ Alive(i) /\ agents'[i].at = "gone" /\ panel' # panel =>
             merged.iter = agents[i].iter \/ i \in disk.retired]_vars
  BY <1>1
<1> QED
  BY <1>2, InvHolds, PTL DEF Spec, ReapFollowsVerdict

-----------------------------------------------------------------------------
(* Who is recorded where *)

RecordsPane(l, i) == i \in l.retired \/ \E s \in Slots : l.pane[s] = i
\* A ledger names every reviewer that is alive.
KnownTo(who, l) == \A i \in Panes : who[i].at \in {"ready", "working", "stopped"} => RecordsPane(l, i)
\* A slot without a reviewer names no pane.
Bare(l) == \A s \in Slots : l.status[s] = "Absent" => l.pane[s] = None

\* A reviewer is spawned only where the copy names no pane: a resume has dropped
\* the one there was, a fresh iteration never had one.
Fresh(n, a) == copy.status[<<n, a>>] = "Absent"
SpawnsFree ==
    /\ panel.at \in {"clear", "spawn"} => copy.pane[Slot] = None
    /\ panel.at \in {"probe", "clear"} => panel.resumed
    /\ ~ panel.resumed /\ panel.at \in {"turn", "spawn", "save", "seed"} =>
          \A a \in panel.todo : Fresh(panel.iter, a) /\ (panel.at # "turn" => a # panel.angle)

\* With no kill and one failure at most, the copy of a running pass names every
\* reviewer alive. So does the disk between passes, and once a pass has drained; and
\* while nothing has failed, everywhere but between a spawn and its save.
Recorded ==
    kills = 0 /\ faults <= 1 =>
       /\ panel.at # "idle" => KnownTo(agents, copy)
       /\ panel.at \in {"idle", "merge", "reap"} \/ (faults = 0 /\ panel.at # "save") => KnownTo(agents, disk)

StrandInv == Bare(disk) /\ Bare(copy) /\ SpawnsFree /\ Recorded

\* Where a step only moves the pass on, its fields stay.
LEMMA GoesFields ==
    ASSUME TypeInv, NEW l, Goto(l)
    PROVE  panel'.at = l /\ panel'.todo = panel.todo /\ panel'.resumed = panel.resumed
           /\ panel'.angle = panel.angle /\ panel'.iter = panel.iter /\ Slot' = Slot
<1>1. panel' = [panel EXCEPT !.at = l] /\ panel \in Passes
  BY DEF Goto, TypeInv, TypeOK
<1>2. panel'.at = l /\ panel'.todo = panel.todo /\ panel'.resumed = panel.resumed
      /\ panel'.angle = panel.angle /\ panel'.iter = panel.iter
  BY <1>1 DEF Passes
<1> QED
  BY <1>2 DEF Slot

\* A mark changes no pane, and registers nobody.
LEMMA MarkedBare ==
    ASSUME NEW l \in Ledger, NEW s, NEW st \in {"Running", "Done", "Failed"}
    PROVE  /\ Marked(l, s, st).pane = l.pane /\ Marked(l, s, st).retired = l.retired
           /\ Bare(l) => Bare(Marked(l, s, st))
<1>1. Marked(l, s, st).pane = l.pane /\ Marked(l, s, st).retired = l.retired
  BY DEF Marked, Ledger
<1>2. \A t \in Slots : Marked(l, s, st).status[t] = "Absent" => l.status[t] = "Absent"
  BY DEF Marked, Ledger
<1> QED
  BY <1>1, <1>2 DEF Bare

\* How the copy changes.
LEMMA CopyMoves ==
    ASSUME TypeInv, [Next]_vars
    PROVE  \/ copy' \in {copy, Blank, disk} /\ ~ Probe /\ ~ Spawn
           \/ (Turn \/ Look \/ Judge) /\ \E s, st : /\ st \in {"Running", "Done", "Failed"}
                                                   /\ copy' = Marked(copy, s, st)
           \/ Probe \/ Spawn \/ Seed \/ Reap
<1>1. CASE Turn \/ Look \/ Judge
  <2>1. copy' = copy \/ \E s, st : st \in {"Running", "Done", "Failed"} /\ copy' = Marked(copy, s, st)
    BY <1>1 DEF Turn, Look, Judge
  <2>2. ~ Probe /\ ~ Spawn
    BY <1>1 DEF Turn, Look, Judge, Probe, Spawn, At
  <2> QED
    BY <1>1, <2>1, <2>2
<1>2. CASE Clear \/ SaveReviewer \/ TimeOut \/ Drain \/ Poll \/ EndRound \/ Merge \/ Leave
  <2>1. copy' \in {copy, Blank}
    BY <1>2 DEF Clear, SaveReviewer, TimeOut, Drain, SaveWhole, Poll, EndRound, Merge, Leave
  <2>2. ~ Probe /\ ~ Spawn
    BY <1>2 DEF Clear, SaveReviewer, TimeOut, Drain, SaveWhole, Poll, EndRound, Merge, Leave, Probe, Spawn, At
  <2> QED
    BY <2>1, <2>2
<1>3. CASE Open(TRUE) \/ Open(FALSE)
  BY <1>3 DEF Open, Probe, Spawn, At
<1>4. CASE Kill \/ Quiet
  BY <1>4 DEF Kill, Quiet
<1> QED
  BY <1>1, <1>2, <1>3, <1>4, StepKinds DEF PanelStep

LEMMA BareStep ==
    ASSUME TypeInv, Bare(disk), Bare(copy), [Next]_vars
    PROVE  Bare(disk') /\ Bare(copy')
<1>0. disk \in Ledger /\ copy \in Ledger /\ PassOK(panel)
  BY DEF TypeInv, TypeOK
<1>blank. Bare(Blank)
  BY DEF Bare, Blank
<1> DEFINE rest == [disk EXCEPT !.retired = {},
                      !.pane = [s \in Slots |-> IF s[1] = panel.iter THEN None ELSE @[s]]]
<1>rest. Bare(rest)
  BY <1>0 DEF Bare, Ledger
<1>1. Bare(copy')
  <2>1. CASE copy' \in {copy, Blank, disk}
    BY <1>blank, <2>1
  <2>2. CASE \E s, st : st \in {"Running", "Done", "Failed"} /\ copy' = Marked(copy, s, st)
    BY <1>0, <2>2, MarkedBare
  <2>3. CASE Probe
    <3>1. Slot \in Slots
      BY <1>0, <2>3, SlotIn DEF Probe, At, AngleSteps
    <3>2. CASE copy' = [copy EXCEPT !.status[Slot] = "Absent", !.pane[Slot] = None,
                                    !.retired = @ \cup ({copy.pane[Slot]} \ {None})]
      BY <1>0, <3>1, <3>2 DEF Bare, Ledger
    <3> QED
      BY <2>3, <3>2 DEF Probe
  <2>4. CASE Spawn
    <3>1. Slot \in Slots
      BY <1>0, <2>4, SlotIn DEF Spawn, At, AngleSteps
    <3>2. ASSUME NEW i, copy' = [copy EXCEPT !.status[Slot] = "Running", !.pane[Slot] = i]
          PROVE  Bare(copy')
      BY <1>0, <3>1, <3>2 DEF Bare, Ledger
    <3> QED
      BY <2>4, <3>2 DEF Spawn
  <2>5. CASE Seed
    <3>1. copy' = copy \/ copy' = [copy EXCEPT !.status[Slot] = "Failed"]
      BY <2>5 DEF Seed
    <3> QED
      BY <1>0, <3>1 DEF Bare, Ledger
  <2>6. CASE Reap
    <3>1. copy' \in {rest, disk}
      BY <2>6 DEF Reap
    <3> QED
      BY <1>rest, <3>1
  <2> QED
    BY <2>1, <2>2, <2>3, <2>4, <2>5, <2>6, CopyMoves
<1>2. Bare(disk')
  <2>1. CASE SaveReviewer \/ TimeOut \/ Drain
    <3>1. disk' \in {disk, copy}
      BY <2>1 DEF SaveReviewer, TimeOut, Drain, SaveWhole
    <3> QED
      BY <3>1
  <2>2. CASE Reap
    <3>1. disk' \in {rest, disk}
      BY <2>2 DEF Reap
    <3> QED
      BY <1>rest, <3>1
  <2>3. CASE Leave
    <3>1. Bare(Transplant(disk, copy))
      BY <1>0 DEF Transplant, Bare, Ledger
    <3>2. disk' \in {Transplant(disk, copy), disk}
      BY <2>3 DEF Leave
    <3> QED
      BY <3>1, <3>2
  <2>4. CASE Turn \/ Probe \/ Clear \/ Spawn \/ Seed \/ Poll \/ Look \/ Judge \/ EndRound \/ Merge
             \/ Open(TRUE) \/ Open(FALSE) \/ Kill \/ Quiet
    BY <2>4 DEF Turn, Probe, Clear, Spawn, Seed, Poll, Look, Judge, EndRound, Merge, Open, Kill, Quiet, files
  <2> QED
    BY <2>1, <2>2, <2>3, <2>4, StepKinds DEF PanelStep
<1> QED
  BY <1>1, <1>2

LEMMA SpawnsFreeStep ==
    ASSUME TypeInv, Bare(disk), Bare(copy), SpawnsFree, [Next]_vars
    PROVE  SpawnsFree'
<1>0. disk \in Ledger /\ copy \in Ledger /\ PassOK(panel) /\ panel \in Passes
  BY DEF TypeInv, TypeOK, PassOK
<1>1. CASE Turn
  <2>0. panel.at = "turn" /\ panel.iter \in Iters /\ panel.todo \subseteq Angles
    BY <1>0, <1>1 DEF Turn, At, PassOK, Passes
  <2>1. CASE panel.todo = {}
    <3>1. panel'.at = "poll"
      BY <1>1, <2>1, GoesFields DEF Turn
    <3> QED
      BY <3>1 DEF SpawnsFree
  <2>2. CASE panel.todo # {}
    <3> DEFINE a == First(panel.todo)
               s == <<panel.iter, a>>
               q == [panel EXCEPT !.angle = a, !.todo = @ \ {a}]
    <3>1. a \in panel.todo /\ s \in Slots
      BY <2>0, <2>2, FirstIn DEF Slots
    <3> HIDE DEF a
    <3>2. /\ q \in Passes /\ q.angle = a /\ q.todo = panel.todo \ {a} /\ q.iter = panel.iter
          /\ q.resumed = panel.resumed /\ q.at = "turn"
      BY <1>0, <2>0, <3>1 DEF Passes
    <3>3. \/ panel.resumed /\ panel' = [q EXCEPT !.harvest[a] = findings[s]]
          \/ panel.resumed /\ panel' = [q EXCEPT !.at = "probe"]
          \/ ~ panel.resumed /\ panel' = [q EXCEPT !.at = "spawn"] /\ copy' = copy
      BY <1>1, <2>2 DEF Turn, a
    <3> HIDE DEF q
    <3>4. CASE panel.resumed /\ panel' = [q EXCEPT !.harvest[a] = findings[s]]
      <4>1. panel'.at = "turn" /\ panel'.resumed = panel.resumed
        BY <3>2, <3>4 DEF Passes
      <4> QED
        BY <3>4, <4>1 DEF SpawnsFree
    <3>5. CASE panel.resumed /\ panel' = [q EXCEPT !.at = "probe"]
      <4>1. panel'.at = "probe" /\ panel'.resumed = panel.resumed
        BY <3>2, <3>5 DEF Passes
      <4> QED
        BY <3>5, <4>1 DEF SpawnsFree
    <3>6. CASE ~ panel.resumed /\ panel' = [q EXCEPT !.at = "spawn"] /\ copy' = copy
      <4>1. /\ panel'.at = "spawn" /\ panel'.resumed = panel.resumed /\ panel'.angle = a
            /\ panel'.todo = panel.todo \ {a} /\ panel'.iter = panel.iter
        BY <3>2, <3>6 DEF Passes
      <4>2. Slot' = s
        BY <4>1 DEF Slot
      <4>3. \A b \in panel.todo : Fresh(panel.iter, b)
        BY <2>0, <3>6 DEF SpawnsFree
      <4>4. copy'.pane[Slot'] = None
        BY <3>1, <3>6, <4>2, <4>3 DEF Fresh, Bare
      <4>5. \A b \in panel'.todo : copy'.status[<<panel'.iter, b>>] = "Absent" /\ b # panel'.angle
        BY <3>6, <4>1, <4>3 DEF Fresh
      <4> QED
        BY <4>1, <4>4, <4>5 DEF SpawnsFree, Fresh
    <3> QED
      BY <3>3, <3>4, <3>5, <3>6
  <2> QED
    BY <2>1, <2>2
<1>2. CASE Probe
  <2>0. panel.at = "probe" /\ panel.resumed /\ Slot \in Slots
    BY <1>0, <1>2, SlotIn DEF Probe, At, SpawnsFree, AngleSteps
  <2>1. \/ panel' = [panel EXCEPT !.at = "turn", !.pending = @ \cup {panel.angle}]
        \/ /\ Goto("clear")
           /\ copy' = [copy EXCEPT !.status[Slot] = "Absent", !.pane[Slot] = None,
                                   !.retired = @ \cup ({copy.pane[Slot]} \ {None})]
    BY <1>2 DEF Probe
  <2>2. CASE panel' = [panel EXCEPT !.at = "turn", !.pending = @ \cup {panel.angle}]
    <3>1. panel'.at = "turn" /\ panel'.resumed = panel.resumed
      BY <1>0, <2>2 DEF Passes
    <3> QED
      BY <2>0, <3>1 DEF SpawnsFree
  <2>3. CASE /\ Goto("clear")
             /\ copy' = [copy EXCEPT !.status[Slot] = "Absent", !.pane[Slot] = None,
                                     !.retired = @ \cup ({copy.pane[Slot]} \ {None})]
    <3>1. panel'.at = "clear" /\ panel'.resumed = panel.resumed /\ Slot' = Slot
      BY <2>3, GoesFields
    <3>2. copy'.pane[Slot] = None
      BY <1>0, <2>0, <2>3 DEF Ledger
    <3> QED
      BY <2>0, <3>1, <3>2 DEF SpawnsFree
  <2> QED
    BY <2>1, <2>2, <2>3
<1>3. CASE Clear
  <2>1. panel.at = "clear" /\ copy' = copy /\ (Goto("spawn") \/ Goto("leave"))
    BY <1>3 DEF Clear, At
  <2>2. panel.resumed /\ copy.pane[Slot] = None
    BY <2>1 DEF SpawnsFree
  <2>3. panel'.at \in {"spawn", "leave"} /\ panel'.resumed = panel.resumed /\ Slot' = Slot
    BY <2>1, GoesFields
  <2> QED
    BY <2>1, <2>2, <2>3 DEF SpawnsFree
<1>4. CASE Spawn
  <2>0. panel.at = "spawn" /\ Slot \in Slots
    BY <1>0, <1>4, SlotIn DEF Spawn, At, AngleSteps
  <2>1. \/ Goto("leave")
        \/ Goto("save") /\ \E i : copy' = [copy EXCEPT !.status[Slot] = "Running", !.pane[Slot] = i]
    BY <1>4 DEF Spawn
  <2>2. CASE Goto("leave")
    <3>1. panel'.at = "leave"
      BY <2>2, GoesFields
    <3> QED
      BY <3>1 DEF SpawnsFree
  <2>3. CASE Goto("save") /\ \E i : copy' = [copy EXCEPT !.status[Slot] = "Running", !.pane[Slot] = i]
    <3>1. /\ panel'.at = "save" /\ panel'.resumed = panel.resumed /\ panel'.todo = panel.todo
          /\ panel'.iter = panel.iter /\ panel'.angle = panel.angle
      BY <2>3, GoesFields
    <3>2. \A t \in Slots : t # Slot => copy'.status[t] = copy.status[t]
      BY <1>0, <2>0, <2>3 DEF Ledger
    <3>3. ASSUME ~ panel.resumed, NEW b \in panel.todo
          PROVE  copy'.status[<<panel.iter, b>>] = "Absent" /\ b # panel.angle
      <4>1. Fresh(panel.iter, b) /\ b # panel.angle
        BY <2>0, <3>3 DEF SpawnsFree
      <4>2. <<panel.iter, b>> \in Slots /\ <<panel.iter, b>> # Slot
        BY <1>0, <2>0, <4>1 DEF PassOK, Passes, Slots, Slot
      <4> QED
        BY <3>2, <4>1, <4>2 DEF Fresh
    <3> QED
      BY <3>1, <3>3 DEF SpawnsFree, Fresh
  <2> QED
    BY <2>1, <2>2, <2>3
<1>5. CASE SaveReviewer
  <2>1. panel.at = "save" /\ copy' = copy /\ (Goto("seed") \/ Goto("leave"))
    BY <1>5 DEF SaveReviewer, SaveWhole, At
  <2>2. /\ panel'.at \in {"seed", "leave"} /\ panel'.resumed = panel.resumed /\ panel'.todo = panel.todo
        /\ panel'.iter = panel.iter /\ panel'.angle = panel.angle
    BY <2>1, GoesFields
  <2> QED
    BY <2>1, <2>2 DEF SpawnsFree, Fresh
<1>6. CASE Seed
  <2>0. panel.at = "seed"
    BY <1>6 DEF Seed, At
  <2>1. \/ Goto("leave")
        \/ copy' = copy /\ panel' = [panel EXCEPT !.at = "turn", !.pending = @ \cup {panel.angle}]
    BY <1>6 DEF Seed
  <2>2. CASE Goto("leave")
    <3>1. panel'.at = "leave"
      BY <2>2, GoesFields
    <3> QED
      BY <3>1 DEF SpawnsFree
  <2>3. CASE copy' = copy /\ panel' = [panel EXCEPT !.at = "turn", !.pending = @ \cup {panel.angle}]
    <3>1. /\ panel'.at = "turn" /\ panel'.resumed = panel.resumed /\ panel'.todo = panel.todo
          /\ panel'.iter = panel.iter
      BY <1>0, <2>3 DEF Passes
    <3> QED
      BY <2>0, <2>3, <3>1 DEF SpawnsFree, Fresh
  <2> QED
    BY <2>1, <2>2, <2>3
<1>7. CASE Poll \/ Look \/ Judge \/ EndRound \/ TimeOut \/ Drain \/ Merge \/ Reap \/ Leave \/ Kill
  <2>1. panel'.at \notin {"turn", "probe", "clear", "spawn", "save", "seed"}
    <3>1. CASE TimeOut \/ Drain
      BY <3>1, SaveMoves DEF TimeOut, Drain, Steps
    <3>2. CASE Leave \/ Kill
      BY <3>2 DEF Leave, Kill, Idle
    <3> QED
      BY <1>7, <3>1, <3>2, PollMoves, LookMoves, JudgeMoves, RoundMoves, LastMoves
  <2> QED
    BY <2>1 DEF SpawnsFree
<1>8. CASE Open(TRUE) \/ Open(FALSE)
  <2>1. PICK n \in Iters, resumed \in BOOLEAN :
          /\ panel' = [Idle EXCEPT !.at = "turn", !.iter = n, !.resumed = resumed,
                                   !.head = head, !.todo = Angles]
          /\ ~ resumed => NextIter(disk, n)
    BY <1>8 DEF Open
  <2>2. panel'.at = "turn" /\ panel'.iter = n /\ panel'.resumed = resumed /\ panel'.todo = Angles
    BY <2>1 DEF Idle
  <2>3. copy' = disk
    BY <1>8 DEF Open
  <2>4. ~ resumed => \A a \in Angles : disk.status[<<n, a>>] = "Absent"
    BY <2>1 DEF NextIter, Opened, Iters
  <2> QED
    BY <2>2, <2>3, <2>4 DEF SpawnsFree, Fresh
<1>9. CASE Quiet
  BY <1>9 DEF Quiet, SpawnsFree, Fresh, Slot
<1> QED
  BY <1>1, <1>2, <1>3, <1>4, <1>5, <1>6, <1>7, <1>8, <1>9, StepKinds DEF PanelStep

\* No count goes down.
LEMMA CountsGrow ==
    ASSUME TypeInv, [Next]_vars
    PROVE  /\ faults \in Nat /\ kills \in Nat /\ faults' \in {faults, faults + 1}
           /\ kills' \in {kills, kills + 1} /\ (Kill => kills' = kills + 1)
           /\ ~ Kill => kills' = kills
<1>0. faults \in Nat /\ kills \in Nat /\ deaths \in Nat
  BY DEF TypeInv, TypeOK
<1>1. CASE PanelStep
  <2>1. UNCHANGED bounds \/ \E step, ok : Try(step, ok)
    <3>1. CASE Probe \/ Clear \/ SaveReviewer \/ TimeOut \/ Drain \/ Merge \/ Reap \/ Leave
      BY <3>1 DEF Probe, Clear, SaveReviewer, TimeOut, Drain, SaveWhole, Merge, Reap, Leave
    <3>2. CASE Turn \/ Spawn \/ Seed \/ Poll \/ Look \/ Judge \/ EndRound
      BY <3>2 DEF Turn, Spawn, Seed, Poll, Look, Judge, EndRound
    <3> QED
      BY <1>1, <3>1, <3>2 DEF PanelStep
  <2>2. faults' \in {faults, faults + 1} /\ kills' = kills
    BY <2>1 DEF Try, bounds
  <2> QED
    BY <1>0, <2>2 DEF Kill
<1>2. CASE Kill
  BY <1>0, <1>2 DEF Kill
<1>3. CASE ~ PanelStep /\ ~ Kill
  <2>1. faults' = faults /\ kills' = kills
    BY <1>3 DEF Next, ReviewerStep, Submit, Stop, Wake, Die, Become, Commit, Open, vars, bounds
  <2> QED
    BY <1>0, <1>3, <2>1
<1> QED
  BY <1>1, <1>2, <1>3

\* Only a spawn brings a reviewer to life.
LEMMA NoneRises ==
    ASSUME TypeInv, [Next]_vars, ~ Spawn, NEW i \in Panes, Alive(i)'
    PROVE  Alive(i)
<1>0. agents \in [Panes -> Agents]
  BY DEF TypeInv, TypeOK
<1>1. CASE agents' = agents
  BY <1>1 DEF Alive
<1>2. CASE Seed
  <2> DEFINE j == copy.pane[Slot]
  <2>1. agents' = agents
        \/ (Alive(j) /\ agents' = [agents EXCEPT ![j].head = panel.head, ![j].at = "working"])
    BY <1>2 DEF Seed
  <2> HIDE DEF j
  <2>2. (i = j /\ Alive(j)) \/ agents'[i] = agents[i]
    BY <1>0, <2>1
  <2> QED
    BY <2>2 DEF Alive
<1>3. CASE Reap
  <2>1. agents'[i] = agents[i] \/ agents'[i] = [agents[i] EXCEPT !.at = "gone"]
    BY <1>3 DEF Reap
  <2>2. agents[i] \in Agents
    BY <1>0
  <2>3. agents'[i] = agents[i] \/ agents'[i].at = "gone"
    BY <2>1, <2>2 DEF Agents
  <2> QED
    BY <2>3 DEF Alive
<1>4. ASSUME NEW k \in Panes, NEW from, NEW to, Become(k, from, to), from \subseteq {"ready", "working", "stopped"}
      PROVE  Alive(i)
  <2>1. agents' = [agents EXCEPT ![k].at = to] /\ agents[k].at \in from
    BY <1>4 DEF Become
  <2>2. i = k \/ agents'[i] = agents[i]
    BY <1>0, <2>1
  <2> QED
    BY <1>4, <2>1, <2>2 DEF Alive
<1> QED
  BY <1>1, <1>2, <1>3, <1>4, OnlyThese

\* So a ledger that names them all still does, if it keeps its names.
Names(l, m) == \A i \in Panes : RecordsPane(l, i) => RecordsPane(m, i)
LEMMA StillKnown ==
    ASSUME TypeInv, [Next]_vars, ~ Spawn, NEW l, NEW m, KnownTo(agents, l), Names(l, m)
    PROVE  KnownTo(agents', m)
<1> SUFFICES ASSUME NEW i \in Panes, agents'[i].at \in {"ready", "working", "stopped"}
             PROVE  RecordsPane(m, i)
  BY DEF KnownTo
<1>1. Alive(i)'
  BY DEF Alive
<1>2. Alive(i)
  BY <1>1, NoneRises
<1>3. agents[i].at \in {"ready", "working", "stopped"}
  BY <1>2 DEF Alive
<1> QED
  BY <1>3 DEF KnownTo, Names

\* What keeps the names of a ledger.
LEMMA NamesKept ==
    /\ \A l : Names(l, l)
    /\ \A l, m : m.pane = l.pane /\ l.retired \subseteq m.retired => Names(l, m)
BY DEF Names, RecordsPane

\* The copy names the reviewers for as long as the pass runs.
LEMMA CopyKnows ==
    ASSUME TypeInv, SpawnsFree, [Next]_vars, panel.at # "idle", KnownTo(agents, copy), panel'.at # "idle",
           Reap => KnownTo(agents, disk)
    PROVE  KnownTo(agents', copy')
<1>0. copy \in Ledger /\ disk \in Ledger /\ agents \in [Panes -> Agents] /\ PassOK(panel)
  BY DEF TypeInv, TypeOK
<1>1. CASE Spawn
  <2>0. panel.at = "spawn" /\ Slot \in Slots /\ copy.pane[Slot] = None
    BY <1>0, <1>1, SlotIn DEF Spawn, At, AngleSteps, SpawnsFree
  <2>1. CASE agents' = agents /\ copy' = copy
    BY <2>1
  <2>2. ASSUME NEW i \in Panes,
               agents' = [agents EXCEPT ![i] = [iter |-> panel.iter, angle |-> panel.angle,
                                                head |-> None, at |-> "ready"]],
               copy' = [copy EXCEPT !.status[Slot] = "Running", !.pane[Slot] = i]
        PROVE  KnownTo(agents', copy')
    <3>1. copy'.pane[Slot] = i /\ copy'.retired = copy.retired
          /\ \A s \in Slots : s # Slot => copy'.pane[s] = copy.pane[s]
      BY <1>0, <2>0, <2>2 DEF Ledger
    <3> SUFFICES ASSUME NEW j \in Panes, agents'[j].at \in {"ready", "working", "stopped"}
                 PROVE  RecordsPane(copy', j)
      BY DEF KnownTo
    <3>2. CASE j = i
      BY <2>0, <3>1, <3>2 DEF RecordsPane
    <3>3. CASE j # i
      <4>1. agents'[j] = agents[j]
        BY <1>0, <2>2, <3>3
      <4>2. RecordsPane(copy, j)
        BY <4>1 DEF KnownTo
      <4>3. j # None
        BY DEF Panes
      <4> QED
        BY <2>0, <3>1, <4>2, <4>3 DEF RecordsPane
    <3> QED
      BY <3>2, <3>3
  <2> QED
    BY <1>1, <2>1, <2>2 DEF Spawn
<1>2. CASE Probe
  <2>0. Slot \in Slots /\ ~ Spawn
    BY <1>0, <1>2, SlotIn DEF Probe, Spawn, At, AngleSteps
  <2>1. CASE copy' = copy
    BY <2>0, <2>1, StillKnown, NamesKept
  <2>2. CASE copy' = [copy EXCEPT !.status[Slot] = "Absent", !.pane[Slot] = None,
                                  !.retired = @ \cup ({copy.pane[Slot]} \ {None})]
    <3>1. /\ copy'.retired = copy.retired \cup ({copy.pane[Slot]} \ {None})
          /\ \A s \in Slots : s # Slot => copy'.pane[s] = copy.pane[s]
      BY <1>0, <2>0, <2>2 DEF Ledger
    <3>2. Names(copy, copy')
      BY <3>1 DEF Names, RecordsPane, Panes
    <3> QED
      BY <2>0, <3>2, StillKnown
  <2> QED
    BY <1>2, <2>1, <2>2 DEF Probe
<1>3. CASE Seed
  <2>1. copy' = copy \/ copy' = [copy EXCEPT !.status[Slot] = "Failed"]
    BY <1>3 DEF Seed
  <2>2. copy'.pane = copy.pane /\ copy'.retired = copy.retired
    BY <1>0, <2>1 DEF Ledger
  <2>3. ~ Spawn
    BY <1>3 DEF Seed, Spawn, At
  <2> QED
    BY <2>2, <2>3, StillKnown, NamesKept
<1>4. CASE (Turn \/ Look \/ Judge) /\ \E s, st : /\ st \in {"Running", "Done", "Failed"}
                                                /\ copy' = Marked(copy, s, st)
  <2>1. copy'.pane = copy.pane /\ copy'.retired = copy.retired
    BY <1>0, <1>4, MarkedBare
  <2>2. ~ Spawn
    BY <1>4 DEF Turn, Look, Judge, Spawn, At
  <2> QED
    BY <2>1, <2>2, StillKnown, NamesKept
<1>5. CASE Reap
  <2> DEFINE held == {disk.pane[<<panel.iter, a>>] : a \in Angles} \ {None}
             rest == [disk EXCEPT !.retired = {},
                        !.pane = [s \in Slots |-> IF s[1] = panel.iter THEN None ELSE @[s]]]
  <2>1. ~ Spawn
    BY <1>5 DEF Reap, Spawn, At
  <2>2. PICK ok \in BOOLEAN :
           /\ agents' = [i \in Panes |-> IF ok /\ i \in held \cup disk.retired
                                         THEN [agents[i] EXCEPT !.at = "gone"] ELSE agents[i]]
           /\ copy' = IF ok THEN rest ELSE disk
    BY <1>5 DEF Reap
  <2>3. CASE ~ ok
    BY <1>5, <2>1, <2>2, <2>3, StillKnown, NamesKept
  <2>4. CASE ok
    <3>1. rest.retired = {} /\ \A s \in Slots : rest.pane[s] = IF s[1] = panel.iter THEN None ELSE disk.pane[s]
      BY <1>0 DEF Ledger
    <3> HIDE DEF rest, held
    <3> SUFFICES ASSUME NEW i \in Panes, agents'[i].at \in {"ready", "working", "stopped"}
                 PROVE  RecordsPane(rest, i)
      BY <2>2, <2>4 DEF KnownTo
    <3>2. i \notin held \cup disk.retired /\ agents'[i] = agents[i]
      <4>1. agents[i] \in Agents
        BY <1>0
      <4>2. [agents[i] EXCEPT !.at = "gone"].at = "gone"
        BY <4>1 DEF Agents
      <4> QED
        BY <2>2, <2>4, <4>2
    <3>3. PICK s \in Slots : disk.pane[s] = i
      BY <1>5, <3>2 DEF KnownTo, RecordsPane
    <3>4. s[1] # panel.iter
      <4>1. s = <<s[1], s[2]>> /\ s[2] \in Angles /\ i # None
        BY DEF Slots, Panes
      <4> QED
        BY <3>2, <3>3, <4>1 DEF held
    <3>5. rest.pane[s] = i
      BY <3>1, <3>3, <3>4
    <3> QED
      BY <3>5 DEF RecordsPane
  <2> QED
    BY <2>3, <2>4
<1>6. CASE copy' \in {copy, Blank, disk} /\ ~ Probe /\ ~ Spawn /\ ~ Reap /\ ~ Seed
           /\ ~ ((Turn \/ Look \/ Judge) /\ \E s, st : /\ st \in {"Running", "Done", "Failed"}
                                                      /\ copy' = Marked(copy, s, st))
  <2>1. copy' = copy
    <3>1. ~ Open(TRUE) /\ ~ Open(FALSE) /\ ~ Leave /\ ~ Kill
      <4>1. ~ Open(TRUE) /\ ~ Open(FALSE)
        BY DEF Open, At
      <4>2. Idle.at = "idle"
        BY DEF Idle
      <4>3. ~ Leave /\ ~ Kill
        BY <4>2 DEF Leave, Kill
      <4> QED
        BY <4>1, <4>3
    <3>2. CASE Turn \/ Look \/ Judge
      <4>1. copy' = copy \/ \E s, st : st \in {"Running", "Done", "Failed"} /\ copy' = Marked(copy, s, st)
        BY <3>2 DEF Turn, Look, Judge
      <4> QED
        BY <1>6, <3>2, <4>1
    <3>3. CASE Clear \/ SaveReviewer \/ TimeOut \/ Drain \/ Poll \/ EndRound \/ Merge \/ Quiet
      BY <3>3 DEF Clear, SaveReviewer, TimeOut, Drain, SaveWhole, Poll, EndRound, Merge, Quiet
    <3> QED
      BY <1>6, <3>1, <3>2, <3>3, StepKinds DEF PanelStep
  <2> QED
    BY <1>6, <2>1, StillKnown, NamesKept
<1> QED
  BY <1>1, <1>2, <1>3, <1>4, <1>5, <1>6, CopyMoves

\* The disk: it changes with a save, a reap and the last save of a pass.
LEMMA DiskMoves ==
    ASSUME TypeInv, [Next]_vars
    PROVE  \/ UNCHANGED disk
           \/ (SaveReviewer \/ TimeOut \/ Drain) /\ disk' = copy
           \/ Reap /\ disk' = copy'
           \/ Leave /\ disk' = Transplant(disk, copy)
<1>1. CASE SaveReviewer \/ TimeOut \/ Drain
  BY <1>1 DEF SaveReviewer, TimeOut, Drain, SaveWhole
<1>2. CASE Reap
  BY <1>2 DEF Reap
<1>3. CASE Leave
  BY <1>3 DEF Leave
<1>4. CASE Turn \/ Probe \/ Clear \/ Spawn \/ Seed \/ Poll \/ Look \/ Judge \/ EndRound \/ Merge
           \/ Open(TRUE) \/ Open(FALSE) \/ Kill \/ Quiet
  BY <1>4 DEF Turn, Probe, Clear, Spawn, Seed, Poll, Look, Judge, EndRound, Merge, Open, Kill, Quiet, files
<1> QED
  BY <1>1, <1>2, <1>3, <1>4, StepKinds DEF PanelStep

\* A step that fails is counted, and goes to its end.
LEMMA SaveOrLeave ==
    ASSUME NEW l, NEW next, SaveWhole(l, next), faults \in Nat
    PROVE  \/ disk' = copy /\ faults' = faults /\ Goto(next)
           \/ disk' = disk /\ faults' = faults + 1 /\ Goto("leave")
BY DEF SaveWhole, Try

LEMMA RecordedStep ==
    ASSUME PanelInv, SpawnsFree, Recorded, [Next]_vars
    PROVE  Recorded'
<1> SUFFICES ASSUME kills' = 0, faults' <= 1
             PROVE  /\ panel'.at # "idle" => KnownTo(agents', copy')
                    /\ panel'.at \in {"idle", "merge", "reap"} \/ (faults' = 0 /\ panel'.at # "save")
                          => KnownTo(agents', disk')
  BY DEF Recorded, KnownTo
<1>0. /\ TypeInv /\ faults \in Nat /\ kills = 0 /\ faults <= 1 /\ ~ Kill /\ faults' \in {faults, faults + 1}
      /\ disk \in Ledger /\ copy \in Ledger /\ PassOK(panel)
  <2>1. TypeInv /\ disk \in Ledger /\ copy \in Ledger /\ PassOK(panel)
    BY DEF PanelInv, TypeInv, TypeOK
  <2>2. /\ faults \in Nat /\ kills \in Nat /\ faults' \in {faults, faults + 1}
        /\ kills' \in {kills, kills + 1} /\ (Kill => kills' = kills + 1)
    BY <2>1, CountsGrow
  <2> QED
    BY <2>1, <2>2
<1>1. /\ panel.at # "idle" => KnownTo(agents, copy)
      /\ panel.at \in {"idle", "merge", "reap"} => KnownTo(agents, disk)
      /\ faults = 0 /\ panel.at # "save" => KnownTo(agents, disk)
  BY <1>0 DEF Recorded
<1>2. panel.at # "idle" /\ panel'.at # "idle" => KnownTo(agents', copy')
  <2>1. Reap => KnownTo(agents, disk)
    BY <1>1 DEF Reap, At
  <2> QED
    BY <1>0, <1>1, <2>1, CopyKnows
<1>3. panel.at = "idle" /\ panel'.at # "idle" => KnownTo(agents', copy')
  <2> SUFFICES ASSUME panel.at = "idle", panel'.at # "idle" PROVE KnownTo(agents', copy')
    OBVIOUS
  <2>1. Open(TRUE) \/ Open(FALSE)
    BY <1>0, StepKinds DEF PanelStep, Turn, Probe, Clear, Spawn, SaveReviewer, Seed, Poll, Look, Judge,
       EndRound, TimeOut, Drain, SaveWhole, Merge, Reap, Leave, At, Quiet
  <2>2. copy' = disk /\ agents' = agents
    BY <2>1 DEF Open
  <2> QED
    BY <1>1, <2>2
\* A disk that knew them, and did not change.
<1>same. ASSUME UNCHANGED disk, ~ Spawn, KnownTo(agents, disk) PROVE KnownTo(agents', disk')
  BY <1>0, <1>same, StillKnown, NamesKept
<1>4. CASE SaveReviewer \/ TimeOut \/ Drain
  <2>1. agents' = agents /\ panel.at # "idle"
    BY <1>4 DEF SaveReviewer, TimeOut, Drain, SaveWhole, At
  <2>2. \/ disk' = copy /\ faults' = faults
        \/ disk' = disk /\ faults' = faults + 1 /\ Goto("leave")
    BY <1>0, <1>4, SaveOrLeave DEF SaveReviewer, TimeOut, Drain
  <2>3. CASE disk' = copy
    BY <1>1, <1>2, <2>1, <2>3
  <2>4. CASE disk' = disk /\ faults' = faults + 1 /\ Goto("leave")
    <3>1. panel'.at = "leave" /\ faults' # 0
      BY <1>0, <2>4, GoesFields
    <3>2. KnownTo(agents', copy')
      BY <1>2, <2>1, <3>1
    <3> QED
      BY <3>1, <3>2
  <2> QED
    BY <2>2, <2>3, <2>4
<1>5. CASE Reap
  <2>1. panel'.at \notin {"idle"} /\ panel.at = "reap"
    <3>1. Moved
      BY <1>0, <1>5, LastMoves
    <3> QED
      BY <1>5, <3>1 DEF Reap, At, Moved, Same
  <2>2. KnownTo(agents', copy')
    BY <1>2, <2>1
  <2>3. disk' = copy' \/ disk' = disk
    BY <1>5 DEF Reap
  <2>4. CASE disk' = disk
    <3>1. ~ Spawn
      BY <1>5 DEF Reap, Spawn, At
    <3> QED
      BY <1>1, <1>same, <2>1, <2>2, <2>4, <3>1
  <2> QED
    BY <2>2, <2>3, <2>4
<1>6. CASE Leave
  <2>1. panel'.at = "idle" /\ panel.at = "leave" /\ agents' = agents
    BY <1>6 DEF Leave, At, Idle
  <2>2. \/ disk' = Transplant(disk, copy)
        \/ disk' = disk /\ faults' = faults + 1
    BY <1>6 DEF Leave, Try
  <2>3. CASE disk' = Transplant(disk, copy)
    <3>1. disk'.pane = copy.pane /\ copy.retired \subseteq disk'.retired
      BY <1>0, <2>3 DEF Transplant, Ledger
    <3>2. KnownTo(agents', disk')
      BY <1>1, <2>1, <3>1, NamesKept DEF KnownTo, Names
    <3> QED
      BY <2>1, <3>2
  <2>4. CASE disk' = disk /\ faults' = faults + 1
    <3>1. faults = 0
      BY <1>0, <2>4
    <3> QED
      BY <1>1, <2>1, <2>4, <3>1
  <2> QED
    BY <2>2, <2>3, <2>4
<1>7. CASE Open(TRUE) \/ Open(FALSE)
  <2>1. disk' = disk /\ agents' = agents /\ panel.at = "idle" /\ panel'.at = "turn"
    BY <1>7, OpenMoves DEF Open, At
  <2> QED
    BY <1>1, <1>3, <2>1
<1>8. CASE Quiet
  <2>1. disk' = disk /\ panel' = panel /\ copy' = copy
    BY <1>8 DEF Quiet
  <2>2. CASE Spawn
    BY <1>8, <2>2, SpawnMoves, <1>0 DEF Quiet, Spawn, At
  <2>3. CASE ~ Spawn
    <3>1. ASSUME panel'.at \in {"idle", "merge", "reap"} \/ (faults' = 0 /\ panel'.at # "save")
          PROVE  KnownTo(agents, disk)
      <4>1. faults' = 0 => faults = 0
        BY <1>0
      <4> QED
        BY <1>1, <2>1, <3>1, <4>1
    <3> QED
      BY <1>2, <1>same, <2>1, <2>3, <3>1
  <2> QED
    BY <2>2, <2>3
<1>9. CASE Spawn
  <2>1. disk' = disk /\ panel.at = "spawn"
    BY <1>9 DEF Spawn, At, files
  <2>2. panel'.at \in {"save", "leave"}
    BY <1>0, <1>9, SpawnMoves
  <2>3. CASE panel'.at = "save"
    BY <1>2, <2>1, <2>3
  <2>4. CASE panel'.at = "leave"
    <3>1. agents' = agents
      <4>1. ~ Goto("save")
        BY <1>0, <2>4, GoesFields
      <4> QED
        BY <1>9, <4>1 DEF Spawn
    <3>2. faults' = 0 => faults = 0
      BY <1>0
    <3> QED
      BY <1>1, <1>2, <2>1, <2>4, <3>1, <3>2
  <2> QED
    BY <2>2, <2>3, <2>4
<1>10. CASE Merge
  <2>1. disk' = disk /\ panel.at = "merge" /\ ~ Spawn
    BY <1>10 DEF Merge, At, Spawn
  <2>2. KnownTo(agents', disk')
    BY <1>1, <1>same, <2>1
  <2> QED
    BY <1>2, <2>1, <2>2
<1>11. CASE Turn \/ Probe \/ Clear \/ Seed \/ Poll \/ Look \/ Judge \/ EndRound
  <2>1. disk' = disk /\ panel.at \notin {"idle", "save"} /\ ~ Spawn
    BY <1>11 DEF Turn, Probe, Clear, Seed, Poll, Look, Judge, EndRound, At, Spawn, files
  <2>2. panel'.at \notin {"idle", "merge", "reap"}
    BY <1>0, <1>11, TurnMoves, ProbeMoves, ClearMoves, SeedMoves, PollMoves, LookMoves, JudgeMoves, RoundMoves
  <2>3. faults' = 0 => faults = 0
    BY <1>0
  <2> QED
    BY <1>1, <1>2, <1>same, <2>1, <2>2, <2>3
<1> QED
  BY <1>0, <1>4, <1>5, <1>6, <1>7, <1>8, <1>9, <1>10, <1>11, StepKinds DEF PanelStep

LEMMA StrandStep == PanelInv /\ StrandInv /\ [Next]_vars => StrandInv'
<1> SUFFICES ASSUME PanelInv, StrandInv, [Next]_vars PROVE StrandInv'
  OBVIOUS
<1>1. TypeInv /\ Bare(disk) /\ Bare(copy) /\ SpawnsFree /\ Recorded
  BY DEF PanelInv, StrandInv
<1>2. Bare(disk') /\ Bare(copy')
  BY <1>1, BareStep
<1>3. SpawnsFree'
  BY <1>1, SpawnsFreeStep
<1>4. Recorded'
  BY <1>1, RecordedStep
<1>5. Bare(disk)' /\ Bare(copy)'
  BY <1>2 DEF Bare
<1> QED
  BY <1>3, <1>4, <1>5 DEF StrandInv

\* Between passes, with none of them killed and one step failed at most, a reviewer
\* that is left alive is one that state.json names, registered or retired: however
\* often panels are opened, resumed and their reviewers replaced, none is left that
\* cleanup could not close.
THEOREM NoneStranded == Spec => []NoStrandedReviewer
<1>1. Init => StrandInv
  <2> SUFFICES ASSUME Init PROVE StrandInv
    OBVIOUS
  <2>1. disk = Blank /\ copy = Blank /\ panel.at = "idle" /\ agents = [i \in Panes |-> Unused]
    BY DEF Init, Idle
  <2>2. Bare(Blank)
    BY DEF Bare, Blank
  <2>3. KnownTo(agents, disk)
    BY <2>1 DEF KnownTo, Unused
  <2> QED
    BY <2>1, <2>2, <2>3 DEF StrandInv, SpawnsFree, Recorded
<1>2. StrandInv => NoStrandedReviewer
  <2> SUFFICES ASSUME StrandInv, panel.at = "idle", kills = 0, faults <= 1, NEW i \in Panes, Alive(i)
               PROVE  i \in disk.retired \/ \E s \in Slots : disk.pane[s] = i
    BY DEF NoStrandedReviewer, At
  <2>1. KnownTo(agents, disk)
    BY DEF StrandInv, Recorded
  <2> QED
    BY <2>1 DEF KnownTo, RecordsPane, Alive
<1> QED
  BY <1>1, <1>2, StrandStep, InvHolds, PTL DEF Spec
=============================================================================
