--------------------------- MODULE PaneLedgerProofs ---------------------------
(***************************************************************************)
(* For any phases, pane ids and processes, any set of commands, pane ids   *)
(* reissued or not, and any number of failures and kills: the types of     *)
(* PaneLedger, and that nothing but cleanup closes the root shell; with    *)
(* ids never reissued, that nothing closes a pane that drovr did not open. *)
(* Then, for the commands that hold the lock, unless one is killed or a    *)
(* third call fails: no live pane is lost sight of, no agent of a phase    *)
(* runs twice, and PaneLedger implements PaneRegistry.                     *)
(***************************************************************************)
EXTENDS PaneLedger, TLAPS

USE LedgerAssumption DEF LedgerAssumption

\* What a command's task says of itself at each step: it is about a phase, it
\* has a pane in hand where it needs one, and that pane is not the root shell
\* wherever it may go on to close it.
TaskInv(t, c) ==
    /\ t.at # "idle" /\ t.kind # "cleanup" => t.ph \in Phases
    /\ t.at \in {"list", "closeAll", "closeEach"} <=> t.kind = "cleanup"
    /\ t.at = "persist" => t.kind = "start"
    /\ t.at \in {"launch", "commit", "release"} => t.pane \in Panes
    /\ t.at \in {"ready", "discard", "surrender", "giveBack", "close", "reapClose"} => t.pane \in Ids
    /\ t.created => /\ t.pane \in Ids
                    /\ t.at \in {"launch", "commit", "ready", "discard", "surrender", "giveBack", "close"}
    /\ t.kind = "rehydrate" /\ t.at \in {"launch", "commit"} => t.pane \in Ids
    /\ t.kind = "rehydrate" /\ t.at = "tab" => c.pane[t.ph] = None
    /\ t.at \in {"reapLock", "reapClose", "release"} => t.todo \subseteq Phases
    /\ t.at = "sweep" => t.todo \subseteq Panes \ {Root}
    /\ t.at \in {"sweep", "sweepSave"} => t.gone \subseteq Panes
    /\ t.gone # {} => t.at \in {"sweep", "sweepSave", "closeAll", "closeEach"}
LedgerInv == TypeOK /\ \A p \in Procs : TaskInv(task[p], copy[p])

-----------------------------------------------------------------------------
\* The edits of state.json keep its shape (retire_pane, set_pane, mark_reaped,
\* forget_retired_panes and the status of a starting phase).
LEMMA EditTypes ==
    ASSUME NEW l \in Ledger, NEW ph \in Phases, NEW i \in Panes
    PROVE  /\ Retire(l, i) \in Ledger /\ Register(l, ph, i) \in Ledger
           /\ Released(l, ph, i) \in Ledger
           /\ [l EXCEPT !.status[ph] = "Running"] \in Ledger
           /\ [l EXCEPT !.status[ph] = "Done"] \in Ledger
<1> USE DEF Ledger
<1>1. Retire(l, i) \in Ledger
  BY DEF Retire
<1>2. Register(l, ph, i) \in Ledger
  BY DEF Register
<1>3. Released(l, ph, i) \in Ledger
  BY DEF Released
<1>4. [l EXCEPT !.status[ph] = "Running"] \in Ledger
  OBVIOUS
<1>5. [l EXCEPT !.status[ph] = "Done"] \in Ledger
  OBVIOUS
<1> QED
  BY <1>1, <1>2, <1>3, <1>4, <1>5

LEMMA ForgetTypes ==
    ASSUME NEW l \in Ledger, NEW S
    PROVE  [l EXCEPT !.retired = @ \ S] \in Ledger
BY DEF Ledger

LEMMA BlankType == Blank \in Ledger
BY DEF Blank, Ledger

LEMMA IdleType == Idle \in Tasks
BY DEF Idle, Tasks
-----------------------------------------------------------------------------
(* The invariant by its parts, and what the shared pieces of an action do *)

HerdrOK == live \subseteq Panes /\ human \subseteq live /\ issued \subseteq Ids
           /\ agent \in [Panes -> Phases \cup {None}]
LocalsOK == task \in [Procs -> Tasks] /\ copy \in [Procs -> Ledger]
            /\ \A p \in Procs : TaskInv(task[p], copy[p])
LockOK == lock \in Procs \cup {Nobody}
BoundsOK == faults \in Nat /\ kills \in Nat

LEMMA Parts == LedgerInv <=> HerdrOK /\ LocalsOK /\ LockOK /\ BoundsOK /\ disk \in Ledger
BY DEF LedgerInv, TypeOK, HerdrOK, LocalsOK, LockOK, BoundsOK

LEMMA Rebuilt ==
    ASSUME HerdrOK', LocalsOK', LockOK', BoundsOK', disk' \in Ledger
    PROVE  LedgerInv'
BY DEF LedgerInv, TypeOK, HerdrOK, LocalsOK, LockOK, BoundsOK

\* Closing panes, opening one and leaving herdr alone keep herdr's types.
LEMMA ClosingTypes ==
    ASSUME HerdrOK, NEW S, Closing(S)
    PROVE  HerdrOK'
BY DEF HerdrOK, Closing

LEMMA OpeningTypes ==
    ASSUME HerdrOK, NEW i \in Ids, Opening(i), human' = human \/ human' = human \cup {i}
    PROVE  HerdrOK'
BY DEF HerdrOK, Opening, Panes

LEMMA HerdrSame ==
    ASSUME HerdrOK, UNCHANGED herdr
    PROVE  HerdrOK'
BY DEF HerdrOK, herdr

LEMMA TryTypes ==
    ASSUME BoundsOK, NEW ok, Try(ok)
    PROVE  BoundsOK'
BY DEF BoundsOK, Try

\* A step that gives one command a new task and copy of good types.
LEMMA LocalStep ==
    ASSUME LocalsOK, NEW p \in Procs, NEW t \in Tasks, NEW c \in Ledger, TaskInv(t, c),
           task' = [task EXCEPT ![p] = t], copy' = [copy EXCEPT ![p] = c]
    PROVE  LocalsOK'
BY DEF LocalsOK

LEMMA LocalSame ==
    ASSUME LocalsOK, UNCHANGED locals
    PROVE  LocalsOK'
BY DEF LocalsOK, locals

LEMMA IdleInv == TaskInv(Idle, Blank)
BY DEF TaskInv, Idle

LEMMA ExitTypes ==
    ASSUME LocalsOK, LockOK, NEW p \in Procs, Exit(p)
    PROVE  LocalsOK' /\ LockOK'
<1>1. LocalsOK'
  BY LocalStep, IdleInv, IdleType, BlankType DEF Exit
<1>2. LockOK'
  BY DEF Exit, LockOK
<1> QED BY <1>1, <1>2

\* A step inside a command that moves its task on and keeps its copy.
LEMMA MoveStep ==
    ASSUME LocalsOK, NEW p \in Procs, NEW t \in Tasks, TaskInv(t, copy[p]),
           task' = [task EXCEPT ![p] = t], copy' = copy
    PROVE  LocalsOK'
<1>1. copy[p] \in Ledger /\ copy' = [copy EXCEPT ![p] = copy[p]]
  BY DEF LocalsOK
<1> QED BY <1>1, LocalStep

LEMMA GotoStep ==
    ASSUME LocalsOK, NEW p \in Procs, NEW l \in Steps, Goto(p, l), copy' = copy,
           TaskInv([task[p] EXCEPT !.at = l], copy[p])
    PROVE  LocalsOK'
<1> DEFINE t == [task[p] EXCEPT !.at = l]
<1>1. task[p] \in Tasks
  BY DEF LocalsOK
<1>2. t \in Tasks
  BY <1>1 DEF Tasks
<1>3. task' = [task EXCEPT ![p] = t]
  BY <1>1 DEF Goto, LocalsOK
<1> QED BY <1>2, <1>3, MoveStep

-----------------------------------------------------------------------------
(* Every action keeps the invariant *)

\* A run under way satisfies it.
LEMMA InitInv == Init => LedgerInv
<1> SUFFICES ASSUME Init PROVE LedgerInv
  OBVIOUS
<1>1. disk \in Ledger
  <2>1. PICK held \in [Phases -> Panes \cup {None}], retired \in SUBSET {Root} :
           disk = [Blank EXCEPT !.pane = held, !.retired = retired,
                     !.status = [ph \in Phases |-> IF held[ph] = None THEN "Pending" ELSE "Running"],
                     !.ran = {ph \in Phases : held[ph] # None}]
    BY DEF Init
  <2> QED BY <2>1 DEF Ledger, Panes, Blank
<1>2. HerdrOK
  <2>1. Held(disk) \subseteq Panes
    BY <1>1 DEF Held, Ledger
  <2>2. agent \in [Panes -> Phases \cup {None}]
    <3>1. PICK held \in [Phases -> Panes \cup {None}] :
             agent = [i \in Panes |-> IF \E ph \in Phases : held[ph] = i
                                        THEN CHOOSE ph \in Phases : held[ph] = i ELSE None]
      BY DEF Init
    <3>2. \A i \in Panes : (\E ph \in Phases : held[ph] = i)
                              => (CHOOSE ph \in Phases : held[ph] = i) \in Phases
      OBVIOUS
    <3> QED BY <3>1, <3>2
  <2> QED BY <2>1, <2>2 DEF HerdrOK, Init, Panes
<1>3. LocalsOK
  BY IdleType, BlankType, IdleInv DEF Init, LocalsOK
<1> QED BY <1>1, <1>2, <1>3, Parts DEF Init, LockOK, BoundsOK

\* The first step of a command: a new task about a phase, and a fresh copy.
LEMMA BeginInv ==
    ASSUME LedgerInv, NEW p \in Procs, BeginStep(p)
    PROVE  LedgerInv'
<1> USE Parts
<1>1. ASSUME NEW ph \in Phases, NEW kind \in {"start", "rehydrate", "reap"},
             NEW l \in {"persist", "tab", "peek"}, Begin(p, kind, ph, l),
             l = "persist" => kind = "start",
             kind = "rehydrate" /\ l = "tab" => disk.pane[ph] = None,
             lock' \in {lock, p}
      PROVE LedgerInv'
  <2> DEFINE b == [Idle EXCEPT !.at = l, !.kind = kind, !.ph = ph]
  <2>1. b \in Tasks
    BY <1>1 DEF Idle, Tasks, Steps, Begin
  <2>2. TaskInv(b, disk)
    BY <1>1 DEF Idle, TaskInv
  <2>3. LocalsOK'
    BY <1>1, <2>1, <2>2, LocalStep DEF Begin
  <2> QED BY <1>1, <2>3, HerdrSame, Rebuilt DEF Begin, LockOK, BoundsOK, bounds
<1>2. ASSUME NEW ph \in Phases, StartBegin(p, ph) PROVE LedgerInv'
  BY <1>1, <1>2 DEF StartBegin
<1>3. ASSUME NEW ph \in Phases, RehydrateBegin(p, ph) PROVE LedgerInv'
  BY <1>1, <1>3 DEF RehydrateBegin, Rehydratable
<1>4. ASSUME NEW ph \in Phases, ReapBegin(p, ph) PROVE LedgerInv'
  BY <1>1, <1>4 DEF ReapBegin
<1>5. CASE CleanupBegin(p)
  <2> DEFINE b == [Idle EXCEPT !.at = "list", !.kind = "cleanup", !.ph = None]
  <2>1. b \in Tasks
    BY <1>5 DEF Idle, Tasks, Steps, CleanupBegin, Begin
  <2>2. TaskInv(b, disk)
    BY DEF Idle, TaskInv
  <2>3. LocalsOK'
    BY <1>5, <2>1, <2>2, LocalStep DEF CleanupBegin, Begin
  <2> QED BY <1>5, <2>3, HerdrSame, Rebuilt DEF CleanupBegin, Begin, LockOK, BoundsOK, bounds
<1> QED BY <1>2, <1>3, <1>4, <1>5 DEF BeginStep

LEMMA SaveTypes ==
    ASSUME disk \in Ledger, NEW l \in Ledger, NEW ok, Save(ok, l)
    PROVE  disk' \in Ledger
BY DEF Save

\* The steps of `phase start` alone.
LEMMA StartInv ==
    ASSUME LedgerInv, NEW p \in Procs, StartStep(p)
    PROVE  LedgerInv'
<1> USE Parts
<1>0. task[p] \in Tasks /\ copy[p] \in Ledger /\ TaskInv(task[p], copy[p])
  BY DEF LocalsOK
<1>1. CASE StartPersist(p)
  <2> DEFINE l == [copy[p] EXCEPT !.status[task[p].ph] = "Running"]
             t == [task[p] EXCEPT !.at = "tab"]
  <2>1. PICK ok \in BOOLEAN :
           /\ Try(ok) /\ Save(ok, l)
           /\ IF ok THEN copy' = [copy EXCEPT ![p] = l] /\ Goto(p, "tab") /\ UNCHANGED lock
                    ELSE Exit(p)
    BY <1>1 DEF StartPersist
  <2>2. task[p].ph \in Phases /\ task[p].at = "persist"
    BY <1>0, <1>1 DEF TaskInv, StartPersist, At
  <2>3. l \in Ledger
    BY <1>0, <2>2 DEF Ledger
  <2>4. LocalsOK' /\ LockOK'
    <3>1. CASE ok
      <4>1. t \in Tasks
        BY <1>0 DEF Tasks, Steps
      <4>2. TaskInv(t, l)
        BY <1>0, <2>2 DEF Tasks, TaskInv
      <4>3. task' = [task EXCEPT ![p] = t]
        BY <2>1, <3>1 DEF Goto, LocalsOK
      <4>4. LocalsOK'
        <5> HIDE DEF t, l
        <5> QED BY <2>1, <2>3, <3>1, <4>1, <4>2, <4>3, LocalStep
      <4> QED BY <2>1, <3>1, <4>4 DEF LockOK
    <3>2. CASE ~ ok
      BY <2>1, <3>2, ExitTypes
    <3> QED BY <3>1, <3>2
  <2>5. disk' \in Ledger /\ BoundsOK'
    <3> HIDE DEF l
    <3> QED BY <2>1, <2>3, SaveTypes, TryTypes
  <2>6. HerdrOK'
    BY <1>1, HerdrSame DEF StartPersist
  <2> QED BY <2>4, <2>5, <2>6, Rebuilt
<1>2. CASE StartConfigFails(p)
  BY <1>2, ExitTypes, TryTypes, HerdrSame, Rebuilt DEF StartConfigFails
<1>3. CASE StartCommit(p)
  <2> DEFINE l == Register([copy[p] EXCEPT !.status[task[p].ph] = "Running"],
                           task[p].ph, task[p].pane)
             t == [task[p] EXCEPT !.at = "peek", !.pane = None, !.created = FALSE]
  <2>1. PICK ok \in BOOLEAN :
           /\ Try(ok) /\ Save(ok, l)
           /\ IF ok THEN /\ copy' = [copy EXCEPT ![p] = l]
                         /\ task' = [task EXCEPT ![p].at = "peek", ![p].pane = None,
                                                 ![p].created = FALSE]
                         /\ UNCHANGED lock
                    ELSE Exit(p)
    BY <1>3 DEF StartCommit
  <2>2. task[p].ph \in Phases /\ task[p].pane \in Panes /\ task[p].at = "commit"
    BY <1>0, <1>3 DEF TaskInv, StartCommit, At
  <2>3. l \in Ledger
    BY <1>0, <2>2, EditTypes
  <2>4. LocalsOK' /\ LockOK'
    <3>1. CASE ok
      <4>1. t \in Tasks
        BY <1>0 DEF Tasks, Steps
      <4>2. TaskInv(t, l)
        BY <1>0, <2>2 DEF Tasks, TaskInv
      <4>3. task' = [task EXCEPT ![p] = t]
        BY <2>1, <3>1 DEF LocalsOK
      <4>4. LocalsOK'
        <5> HIDE DEF t, l
        <5> QED BY <2>1, <2>3, <3>1, <4>1, <4>2, <4>3, LocalStep
      <4> QED BY <2>1, <3>1, <4>4 DEF LockOK
    <3>2. CASE ~ ok
      BY <2>1, <3>2, ExitTypes
    <3> QED BY <3>1, <3>2
  <2>5. disk' \in Ledger /\ BoundsOK'
    <3> HIDE DEF l
    <3> QED BY <2>1, <2>3, SaveTypes, TryTypes
  <2>6. HerdrOK'
    BY <1>3, HerdrSame DEF StartCommit
  <2> QED BY <2>4, <2>5, <2>6, Rebuilt
<1> QED BY <1>1, <1>2, <1>3 DEF StartStep

\* The steps a start and a rehydrate share.
LEMMA LaunchInv ==
    ASSUME LedgerInv, NEW p \in Procs, LaunchStep(p)
    PROVE  LedgerInv'
<1> USE Parts
<1>0. task[p] \in Tasks /\ copy[p] \in Ledger /\ TaskInv(task[p], copy[p])
  BY DEF LocalsOK
<1>1. CASE Tab(p)
  <2> DEFINE own == copy[p].pane[task[p].ph]
  <2>0. task[p].ph \in Phases /\ task[p].at = "tab" /\ task[p].created = FALSE
    BY <1>0, <1>1 DEF TaskInv, Tab, At, Tasks
  <2>1. CASE /\ own # None
             /\ task' = [task EXCEPT ![p].at = "launch", ![p].pane = own]
             /\ UNCHANGED <<herdr, lock, copy, bounds>>
    <3> DEFINE t == [task[p] EXCEPT !.at = "launch", !.pane = own]
    <3>1. t \in Tasks
      BY <1>0, <2>0, <2>1 DEF Tasks, Steps, Ledger
    <3>2. TaskInv(t, copy[p])
      BY <1>0, <2>0, <2>1 DEF Tasks, TaskInv, Ledger
    <3>3. task' = [task EXCEPT ![p] = t]
      BY <2>1 DEF LocalsOK
    <3>4. LocalsOK'
      <4> HIDE DEF t
      <4> QED BY <2>1, <3>1, <3>2, <3>3, MoveStep
    <3> QED BY <1>1, <2>1, <3>4, HerdrSame, Rebuilt DEF Tab, LockOK, BoundsOK, bounds
  <2>2. ASSUME NEW i \in Ids, Opening(i), UNCHANGED <<human, lock, copy, bounds>>,
               task' = [task EXCEPT ![p].at = "launch", ![p].pane = i, ![p].created = TRUE]
        PROVE LedgerInv'
    <3> DEFINE t == [task[p] EXCEPT !.at = "launch", !.pane = i, !.created = TRUE]
    <3>1. t \in Tasks
      BY <1>0 DEF Tasks, Steps, Panes
    <3>2. TaskInv(t, copy[p])
      BY <1>0, <2>0 DEF Tasks, TaskInv, Panes
    <3>3. task' = [task EXCEPT ![p] = t]
      BY <2>2 DEF LocalsOK
    <3>4. LocalsOK'
      <4> HIDE DEF t
      <4> QED BY <2>2, <3>1, <3>2, <3>3, MoveStep
    <3> QED BY <1>1, <2>2, <3>4, OpeningTypes, Rebuilt DEF Tab, LockOK, BoundsOK, bounds
  <2>3. CASE /\ IF Openable = {} THEN UNCHANGED bounds ELSE Try(FALSE)
             /\ Exit(p) /\ UNCHANGED herdr
    <3>1. BoundsOK'
      BY <2>3, TryTypes DEF BoundsOK, bounds
    <3> QED BY <1>1, <2>3, <3>1, ExitTypes, HerdrSame, Rebuilt DEF Tab
  <2> QED BY <1>1, <2>1, <2>2, <2>3 DEF Tab
<1>2. CASE Launch(p)
  <2>1. task[p].at = "launch" /\ task[p].ph \in Phases
    BY <1>0, <1>2 DEF TaskInv, Launch, At
  <2>2. TaskInv([task[p] EXCEPT !.at = "commit"], copy[p])
    BY <1>0, <2>1 DEF TaskInv, Tasks
  <2>3. LocalsOK'
    BY <1>2, <2>2, GotoStep DEF Launch, Steps
  <2>4. HerdrOK'
    BY <1>2, <2>1 DEF Launch, HerdrOK
  <2> QED BY <1>2, <2>3, <2>4, Rebuilt DEF Launch, LockOK, BoundsOK, bounds
<1>3. CASE LaunchFails(p)
  <2>1. LocalsOK' /\ LockOK'
    <3>1. CASE task[p].created
      <4>1. TaskInv([task[p] EXCEPT !.at = "discard"], copy[p])
        BY <1>0, <1>3, <3>1 DEF TaskInv, Tasks, LaunchFails, At
      <4>2. LocalsOK'
        BY <1>3, <3>1, <4>1, GotoStep DEF LaunchFails, Steps
      <4> QED BY <1>3, <3>1, <4>2 DEF LaunchFails, LockOK
    <3>2. CASE ~ task[p].created
      BY <1>3, <3>2, ExitTypes DEF LaunchFails
    <3> QED BY <3>1, <3>2
  <2>2. BoundsOK'
    BY <1>3, TryTypes DEF LaunchFails, BoundsOK, bounds
  <2> QED BY <1>3, <2>1, <2>2, HerdrSame, Rebuilt DEF LaunchFails
<1>4. CASE Discard(p)
  <2>1. task[p].pane \in Ids /\ task[p].at = "discard"
    BY <1>0, <1>4 DEF TaskInv, Discard, At
  <2>2. TaskInv([task[p] EXCEPT !.at = "close"], copy[p])
    BY <1>0, <2>1 DEF TaskInv, Tasks
  <2>3. LocalsOK'
    BY <1>4, <2>2, GotoStep DEF Discard, Steps
  <2>4. Retire(copy[p], task[p].pane) \in Ledger
    BY <1>0, <2>1 DEF Retire, Ledger, Panes
  <2>5. disk' \in Ledger /\ BoundsOK'
    BY <1>4, <2>4, SaveTypes, TryTypes DEF Discard
  <2> QED BY <1>4, <2>3, <2>5, HerdrSame, Rebuilt DEF Discard, LockOK
<1>5. CASE CloseAndFail(p)
  <2>1. PICK ok \in BOOLEAN : TryClose(ok, task[p].pane)
    BY <1>5 DEF CloseAndFail
  <2>2. HerdrOK' /\ BoundsOK'
    BY <2>1, ClosingTypes, HerdrSame, TryTypes DEF TryClose
  <2> QED BY <1>5, <2>2, ExitTypes, Rebuilt DEF CloseAndFail
<1> QED BY <1>1, <1>2, <1>3, <1>4, <1>5 DEF LaunchStep

\* The steps of `phase rehydrate` once its agent has been launched.
LEMMA RehydrateInv ==
    ASSUME LedgerInv, NEW p \in Procs, RehydrateStep(p)
    PROVE  LedgerInv'
<1> USE Parts
<1>0. task[p] \in Tasks /\ copy[p] \in Ledger /\ TaskInv(task[p], copy[p])
  BY DEF LocalsOK
<1>1. CASE RehydrateCommit(p)
  <2>1. PICK ok \in BOOLEAN :
           /\ Try(ok) /\ Save(ok, Register(copy[p], task[p].ph, task[p].pane))
           /\ Goto(p, IF ok THEN "ready" ELSE "surrender")
    BY <1>1 DEF RehydrateCommit
  <2> DEFINE l == IF ok THEN "ready" ELSE "surrender"
  <2>2. task[p].ph \in Phases /\ task[p].pane \in Panes
    BY <1>0, <1>1 DEF TaskInv, RehydrateCommit, At
  <2>3. TaskInv([task[p] EXCEPT !.at = l], copy[p])
    BY <1>0, <1>1 DEF TaskInv, Tasks, RehydrateCommit, At
  <2>4. LocalsOK'
    BY <1>1, <2>1, <2>3, GotoStep DEF RehydrateCommit, Steps
  <2>5. Register(copy[p], task[p].ph, task[p].pane) \in Ledger
    BY <1>0, <2>2, EditTypes
  <2>6. disk' \in Ledger /\ BoundsOK'
    BY <2>1, <2>5, SaveTypes, TryTypes
  <2> QED BY <1>1, <2>4, <2>6, HerdrSame, Rebuilt DEF RehydrateCommit, LockOK
<1>2. CASE Surrender(p)
  <2>1. task[p].pane \in Ids /\ task[p].at = "surrender"
    BY <1>0, <1>2 DEF TaskInv, Surrender, At
  <2>2. TaskInv([task[p] EXCEPT !.at = "close"], copy[p])
    BY <1>0, <2>1 DEF TaskInv, Tasks
  <2>3. LocalsOK'
    BY <1>2, <2>2, GotoStep DEF Surrender, Steps
  <2>4. Retire(disk, task[p].pane) \in Ledger
    BY <2>1 DEF Retire, Ledger, Panes
  <2>5. disk' \in Ledger /\ BoundsOK'
    BY <1>2, <2>4, SaveTypes, TryTypes DEF Surrender
  <2> QED BY <1>2, <2>3, <2>5, HerdrSame, Rebuilt DEF Surrender, LockOK
<1>3. CASE RehydrateReady(p)
  <2>1. LocalsOK' /\ LockOK'
    <3>1. CASE Exit(p)
      BY <3>1, ExitTypes
    <3>2. CASE Goto(p, "giveBack") /\ UNCHANGED <<lock, copy>>
      <4>1. TaskInv([task[p] EXCEPT !.at = "giveBack"], copy[p])
        BY <1>0, <1>3 DEF TaskInv, Tasks, RehydrateReady, At
      <4>2. LocalsOK'
        BY <3>2, <4>1, GotoStep DEF Steps
      <4> QED BY <3>2, <4>2 DEF LockOK
    <3> QED BY <1>3, <3>1, <3>2 DEF RehydrateReady
  <2> QED BY <1>3, <2>1, HerdrSame, Rebuilt DEF RehydrateReady, BoundsOK, bounds
<1>4. CASE GiveBack(p)
  <2>1. task[p].pane \in Ids /\ task[p].at = "giveBack" /\ task[p].ph \in Phases
    BY <1>0, <1>4 DEF TaskInv, GiveBack, At
  <2>2. TaskInv([task[p] EXCEPT !.at = "close"], copy[p])
    BY <1>0, <2>1 DEF TaskInv, Tasks
  <2>3. LocalsOK'
    BY <1>4, <2>2, GotoStep DEF GiveBack, Steps
  <2>4. Released(disk, task[p].ph, task[p].pane) \in Ledger
    BY <2>1, EditTypes DEF Panes
  <2>5. disk' \in Ledger /\ BoundsOK'
    BY <1>4, <2>4, SaveTypes, TryTypes DEF GiveBack
  <2> QED BY <1>4, <2>3, <2>5, HerdrSame, Rebuilt DEF GiveBack, LockOK
<1> QED BY <1>1, <1>2, <1>3, <1>4 DEF RehydrateStep

\* The end of a sweep: the phases to reap are known, from a copy of good shape.
LEMMA SweepDoneTypes ==
    ASSUME LocalsOK, LockOK, NEW p \in Procs, NEW known \in Ledger,
           task[p].ph \in Phases, task[p].kind # "cleanup", task[p].created = FALSE,
           SweepDone(p, known), copy' \in {copy, [copy EXCEPT ![p] = known]}
    PROVE  LocalsOK' /\ LockOK'
<1> DEFINE t == [task[p] EXCEPT !.at = "reapLock", !.todo = ToReap(p, known), !.gone = {}]
<1>0. task[p] \in Tasks /\ copy[p] \in Ledger
  BY DEF LocalsOK
<1>1. ToReap(p, known) \subseteq Phases
  BY DEF ToReap, SupersededBy
<1>2. t \in Tasks
  BY <1>0, <1>1 DEF Tasks, Steps
<1>3. TaskInv(t, copy[p]) /\ TaskInv(t, known)
  BY <1>0, <1>1 DEF TaskInv, Tasks
<1>4. task' = [task EXCEPT ![p] = t]
  BY DEF SweepDone, LocalsOK
<1>5. LocalsOK'
  <2> HIDE DEF t
  <2>1. CASE copy' = copy
    BY <2>1, <1>2, <1>3, <1>4, MoveStep
  <2>2. CASE copy' = [copy EXCEPT ![p] = known]
    BY <2>2, <1>2, <1>3, <1>4, LocalStep
  <2> QED BY <2>1, <2>2
<1> QED BY <1>5 DEF SweepDone, LockOK

\* The steps of the sweep of the retired panes.
LEMMA SweepInv ==
    ASSUME LedgerInv, NEW p \in Procs, SweepStep(p)
    PROVE  LedgerInv'
<1> USE Parts
<1>0. /\ task[p] \in Tasks /\ copy[p] \in Ledger /\ TaskInv(task[p], copy[p])
      /\ task[p].ph \in Phases /\ task[p].kind # "cleanup" /\ task[p].created = FALSE
  BY DEF LocalsOK, TaskInv, Tasks, SweepStep, SweepPeek, SweepLock, SweepClose, SweepSave, At
<1>1. CASE SweepPeek(p)
  <2>1. LocalsOK' /\ LockOK'
    <3>1. CASE Exit(p)
      BY <3>1, ExitTypes
    <3>2. CASE SweepDone(p, copy[p]) /\ UNCHANGED copy
      BY <1>0, <3>2, SweepDoneTypes
    <3>3. CASE Goto(p, "sweepLock") /\ UNCHANGED <<lock, copy>>
      <4>1. TaskInv([task[p] EXCEPT !.at = "sweepLock"], copy[p])
        BY <1>0, <1>1 DEF TaskInv, Tasks, SweepPeek, At
      <4>2. LocalsOK'
        BY <3>3, <4>1, GotoStep DEF Steps
      <4> QED BY <3>3, <4>2 DEF LockOK
    <3> QED BY <1>1, <3>1, <3>2, <3>3 DEF SweepPeek
  <2> QED BY <1>1, <2>1, HerdrSame, Rebuilt DEF SweepPeek, BoundsOK, bounds
<1>2. CASE SweepLock(p)
  <2>1. LocalsOK' /\ LockOK'
    <3>1. CASE SweepDone(p, copy[p]) /\ UNCHANGED copy
      BY <1>0, <3>1, SweepDoneTypes
    <3>2. CASE /\ lock' = p
               /\ copy' = [copy EXCEPT ![p] = disk]
               /\ task' = [task EXCEPT ![p].at = "sweep", ![p].todo = ReapableRetired(disk)]
      <4> DEFINE t == [task[p] EXCEPT !.at = "sweep", !.todo = ReapableRetired(disk)]
      <4>1. ReapableRetired(disk) \subseteq Panes \ {Root}
        BY DEF ReapableRetired, Ledger
      <4>2. t \in Tasks
        BY <1>0, <4>1 DEF Tasks, Steps
      <4>3. TaskInv(t, disk)
        BY <1>0, <1>2, <4>1 DEF TaskInv, Tasks, SweepLock, At
      <4>4. task' = [task EXCEPT ![p] = t]
        BY <3>2 DEF LocalsOK
      <4>5. LocalsOK'
        <5> HIDE DEF t
        <5> QED BY <3>2, <4>2, <4>3, <4>4, LocalStep
      <4> QED BY <3>2, <4>5 DEF LockOK
    <3> QED BY <1>2, <3>1, <3>2 DEF SweepLock
  <2> QED BY <1>2, <2>1, HerdrSame, Rebuilt DEF SweepLock, BoundsOK, bounds
<1>3. CASE SweepClose(p)
  <2>1. PICK i \in task[p].todo, ok \in BOOLEAN :
           /\ Try(ok)
           /\ IF ok THEN Closing({i}) ELSE UNCHANGED herdr
           /\ task' = [task EXCEPT ![p].todo = @ \ {i},
                                   ![p].gone = IF ok THEN @ \cup {i} ELSE @,
                                   ![p].at = IF task[p].todo = {i} THEN "sweepSave" ELSE @]
    BY <1>3 DEF SweepClose
  <2> DEFINE t == [task[p] EXCEPT !.todo = @ \ {i}, !.gone = IF ok THEN @ \cup {i} ELSE @,
                                  !.at = IF task[p].todo = {i} THEN "sweepSave" ELSE @]
  <2>2. task[p].at = "sweep" /\ task[p].todo \subseteq Panes \ {Root} /\ task[p].gone \subseteq Panes
    BY <1>0, <1>3 DEF TaskInv, SweepClose, At
  <2>3. t \in Tasks
    BY <1>0, <2>2 DEF Tasks, Steps
  <2>4. TaskInv(t, copy[p])
    BY <1>0, <2>2 DEF Tasks, TaskInv
  <2>5. task' = [task EXCEPT ![p] = t]
    BY <2>1 DEF LocalsOK
  <2>6. LocalsOK'
    <3> HIDE DEF t
    <3> QED BY <1>3, <2>3, <2>4, <2>5, MoveStep DEF SweepClose
  <2>7. HerdrOK' /\ BoundsOK'
    BY <2>1, ClosingTypes, HerdrSame, TryTypes
  <2> QED BY <1>3, <2>6, <2>7, Rebuilt DEF SweepClose, LockOK
<1>4. CASE SweepSave(p)
  <2> DEFINE l == [disk EXCEPT !.retired = @ \ task[p].gone]
  <2>1. PICK ok \in BOOLEAN :
           /\ IF task[p].gone = {} THEN ok /\ UNCHANGED bounds ELSE Try(ok)
           /\ Save(ok, l)
           /\ LET known == IF ok /\ task[p].gone # {} THEN l ELSE copy[p] IN
                 copy' = [copy EXCEPT ![p] = known] /\ SweepDone(p, known)
    BY <1>4 DEF SweepSave
  <2> DEFINE known == IF ok /\ task[p].gone # {} THEN l ELSE copy[p]
  <2>2. l \in Ledger /\ known \in Ledger
    BY <1>0, ForgetTypes
  <2>3. disk' \in Ledger /\ BoundsOK'
    <3> HIDE DEF l
    <3> QED BY <2>1, <2>2, SaveTypes, TryTypes DEF BoundsOK, bounds
  <2>4. LocalsOK' /\ LockOK'
    <3>1. copy' = [copy EXCEPT ![p] = known] /\ SweepDone(p, known)
      BY <2>1
    <3> HIDE DEF known, l
    <3> QED BY <1>0, <2>2, <3>1, SweepDoneTypes
  <2> QED BY <1>4, <2>3, <2>4, HerdrSame, Rebuilt DEF SweepSave
<1> QED BY <1>1, <1>2, <1>3, <1>4 DEF SweepStep

\* The steps of the reaps.
LEMMA ReapInv ==
    ASSUME LedgerInv, NEW p \in Procs, ReapStep(p)
    PROVE  LedgerInv'
<1> USE Parts
<1>0. /\ task[p] \in Tasks /\ copy[p] \in Ledger /\ TaskInv(task[p], copy[p])
      /\ task[p].ph \in Phases /\ task[p].kind # "cleanup" /\ task[p].created = FALSE
  BY DEF LocalsOK, TaskInv, Tasks, ReapStep, ReapLock, ReapClose, ReapRelease, ReapOver, At
<1>1. ASSUME NEW ph, ReapNext(p, ph), UNCHANGED copy,
             task[p].todo \ {ph} \subseteq Phases, task[p].gone = {}
      PROVE LocalsOK' /\ LockOK'
  <2> DEFINE t == [task[p] EXCEPT !.at = "reapLock", !.pane = None, !.todo = @ \ {ph}]
  <2>1. t \in Tasks
    BY <1>0 DEF Tasks, Steps
  <2>2. TaskInv(t, copy[p])
    BY <1>0, <1>1 DEF Tasks, TaskInv
  <2>3. task' = [task EXCEPT ![p] = t]
    BY <1>1 DEF ReapNext, LocalsOK
  <2>4. LocalsOK'
    <3> HIDE DEF t
    <3> QED BY <1>1, <2>1, <2>2, <2>3, MoveStep
  <2> QED BY <1>1, <2>4 DEF ReapNext, LockOK
<1>2. CASE ReapOver(p)
  BY <1>2, ExitTypes, HerdrSame, Rebuilt DEF ReapOver, BoundsOK, bounds
<1>3. CASE ReapLock(p)
  <2>1. PICK ph \in task[p].todo :
          IF lock # Nobody \/ ~ Reapable(disk, ph)
            THEN ReapNext(p, ph)
            ELSE /\ lock' = p
                 /\ task' = [task EXCEPT ![p].at = "reapClose", ![p].pane = disk.pane[ph],
                                         ![p].todo = @ \ {ph}, ![p].ph = ph]
    BY <1>3 DEF ReapLock
  <2>2. task[p].at = "reapLock" /\ task[p].todo \subseteq Phases /\ task[p].gone = {}
    BY <1>0, <1>3 DEF TaskInv, ReapLock, At
  <2>3. LocalsOK' /\ LockOK'
    <3>1. CASE lock # Nobody \/ ~ Reapable(disk, ph)
      BY <1>1, <1>3, <2>1, <2>2, <3>1 DEF ReapLock
    <3>2. CASE ~ (lock # Nobody \/ ~ Reapable(disk, ph))
      <4> DEFINE t == [task[p] EXCEPT !.at = "reapClose", !.pane = disk.pane[ph],
                                      !.todo = @ \ {ph}, !.ph = ph]
      <4>1. disk.pane[ph] \in Ids
        BY <2>2, <3>2 DEF Reapable, Ledger, Panes
      <4>2. t \in Tasks
        BY <1>0, <2>2, <4>1 DEF Tasks, Steps, Panes
      <4>3. TaskInv(t, copy[p])
        BY <1>0, <2>2, <4>1 DEF Tasks, TaskInv
      <4>4. task' = [task EXCEPT ![p] = t]
        BY <2>1, <3>2 DEF LocalsOK
      <4>5. LocalsOK'
        <5> HIDE DEF t
        <5> QED BY <1>3, <4>2, <4>3, <4>4, MoveStep DEF ReapLock
      <4> QED BY <2>1, <3>2, <4>5 DEF LockOK
    <3> QED BY <3>1, <3>2
  <2> QED BY <1>3, <2>3, HerdrSame, Rebuilt DEF ReapLock, BoundsOK, bounds
<1>4. CASE ReapClose(p)
  <2>1. PICK ok \in BOOLEAN :
           /\ Try(ok)
           /\ IF ok THEN Closing({task[p].pane}) /\ Goto(p, "release") /\ UNCHANGED lock
                    ELSE ReapNext(p, task[p].ph) /\ UNCHANGED herdr
    BY <1>4 DEF ReapClose
  <2>2. HerdrOK' /\ BoundsOK'
    BY <2>1, ClosingTypes, HerdrSame, TryTypes
  <2>3. /\ task[p].at = "reapClose" /\ task[p].todo \subseteq Phases
        /\ task[p].gone = {} /\ task[p].pane \in Ids
    BY <1>0, <1>4 DEF TaskInv, ReapClose, At
  <2>4. LocalsOK' /\ LockOK'
    <3>1. CASE ok
      <4>1. TaskInv([task[p] EXCEPT !.at = "release"], copy[p])
        BY <1>0, <2>3 DEF TaskInv, Tasks, Panes
      <4>2. LocalsOK'
        BY <1>4, <2>1, <3>1, <4>1, GotoStep DEF Steps, ReapClose
      <4> QED BY <2>1, <3>1, <4>2 DEF LockOK
    <3>2. CASE ~ ok
      BY <1>1, <1>4, <2>1, <2>3, <3>2 DEF ReapClose
    <3> QED BY <3>1, <3>2
  <2> QED BY <1>4, <2>2, <2>4, Rebuilt DEF ReapClose
<1>5. CASE ReapRelease(p)
  <2>1. /\ task[p].at = "release" /\ task[p].todo \subseteq Phases
        /\ task[p].gone = {} /\ task[p].pane \in Panes
    BY <1>0, <1>5 DEF TaskInv, ReapRelease, At
  <2>2. LocalsOK' /\ LockOK'
    BY <1>1, <1>5, <2>1 DEF ReapRelease
  <2>3. Released(disk, task[p].ph, task[p].pane) \in Ledger
    BY <1>0, <2>1, EditTypes
  <2>4. disk' \in Ledger /\ BoundsOK'
    BY <1>5, <2>3, SaveTypes, TryTypes DEF ReapRelease
  <2> QED BY <1>5, <2>2, <2>4, HerdrSame, Rebuilt DEF ReapRelease
<1> QED BY <1>2, <1>3, <1>4, <1>5 DEF ReapStep

\* The steps of `cleanup`: the listing, and what it closes.
LEMMA CleanupInv ==
    ASSUME LedgerInv, NEW p \in Procs, CleanupStep(p)
    PROVE  LedgerInv'
<1> USE Parts
<1>1. CASE CleanupCloseAll(p)
  <2>1. HerdrOK' /\ BoundsOK'
    BY <1>1, ClosingTypes, HerdrSame, TryTypes DEF CleanupCloseAll
  <2> QED BY <1>1, <2>1, ExitTypes, Rebuilt DEF CleanupCloseAll
<1>2. CASE CleanupCloseEach(p)
  <2>1. ASSUME NEW i \in task[p].todo, NEW ok \in BOOLEAN, TryClose(ok, i),
               task' = [task EXCEPT ![p].todo = @ \ {i}], UNCHANGED <<lock, copy>>
        PROVE LedgerInv'
    <3> DEFINE t == [task[p] EXCEPT !.todo = @ \ {i}]
    <3>1. task[p] \in Tasks /\ TaskInv(task[p], copy[p]) /\ task[p].at = "closeEach"
      BY <1>2 DEF LocalsOK, CleanupCloseEach, At
    <3>2. t \in Tasks
      BY <3>1 DEF Tasks
    <3>3. TaskInv(t, copy[p])
      BY <3>1 DEF Tasks, TaskInv
    <3>4. task' = [task EXCEPT ![p] = t]
      BY <2>1 DEF LocalsOK
    <3>5. LocalsOK'
      <4> HIDE DEF t
      <4> QED BY <2>1, <3>2, <3>3, <3>4, MoveStep
    <3>6. HerdrOK' /\ BoundsOK'
      BY <2>1, ClosingTypes, HerdrSame, TryTypes DEF TryClose
    <3> QED BY <1>2, <2>1, <3>5, <3>6, Rebuilt DEF CleanupCloseEach, LockOK
  <2>2. CASE Exit(p) /\ UNCHANGED <<herdr, bounds>>
    BY <1>2, <2>2, ExitTypes, HerdrSame, Rebuilt DEF CleanupCloseEach, BoundsOK, bounds
  <2> QED BY <1>2, <2>1, <2>2 DEF CleanupCloseEach
<1>3. CASE CleanupList(p)
  <2>1. PICK l \in {"closeAll", "closeEach"}, ok \in BOOLEAN :
           /\ Try(ok)
           /\ task' = [task EXCEPT ![p].gone = live, ![p].at = l,
                                   ![p].todo = Ours(copy[p]) \cap live]
    BY <1>3 DEF CleanupList
  <2> DEFINE t == [task[p] EXCEPT !.gone = live, !.at = l, !.todo = Ours(copy[p]) \cap live]
  <2>2. /\ task[p] \in Tasks /\ TaskInv(task[p], copy[p]) /\ task[p].at = "list"
        /\ live \subseteq Panes
    BY <1>3 DEF LocalsOK, HerdrOK, CleanupList, At
  <2>3. t \in Tasks
    BY <2>1, <2>2 DEF Tasks, Steps
  <2>4. TaskInv(t, Blank)
    BY <2>1, <2>2 DEF Tasks, TaskInv
  <2>5. task' = [task EXCEPT ![p] = t]
    BY <2>1 DEF LocalsOK
  <2>6. LocalsOK'
    <3> HIDE DEF t
    <3> QED BY <1>3, <2>3, <2>4, <2>5, BlankType, LocalStep DEF CleanupList
  <2>7. BoundsOK'
    BY <2>1, TryTypes
  <2> QED BY <1>3, <2>6, <2>7, HerdrSame, Rebuilt DEF CleanupList, LockOK
<1> QED BY <1>1, <1>2, <1>3 DEF CleanupStep

\* What happens around the commands: completions, re-entries, the human, kills.
LEMMA AroundInv ==
    ASSUME LedgerInv,
           \/ \E p \in Procs : Kill(p)
           \/ \E ph \in Phases : Complete(ph) \/ Reopen(ph)
           \/ HumanOpens \/ HumanCloses
    PROVE  LedgerInv'
<1> USE Parts
<1>1. ASSUME NEW p \in Procs, Kill(p) PROVE LedgerInv'
  <2>1. BoundsOK'
    BY <1>1 DEF Kill, BoundsOK
  <2> QED BY <1>1, <2>1, ExitTypes, HerdrSame, Rebuilt DEF Kill
<1>2. ASSUME NEW ph \in Phases, Complete(ph) PROVE LedgerInv'
  <2>1. disk' \in Ledger
    BY <1>2, EditTypes DEF Complete, Ledger
  <2> QED BY <1>2, <2>1, HerdrSame, LocalSame, Rebuilt DEF Complete, LockOK, BoundsOK, bounds
<1>3. ASSUME NEW ph \in Phases, Reopen(ph) PROVE LedgerInv'
  <2>1. disk' \in Ledger
    BY <1>3, EditTypes DEF Reopen, Ledger
  <2> QED BY <1>3, <2>1, HerdrSame, LocalSame, Rebuilt DEF Reopen, LockOK, BoundsOK, bounds
<1>4. CASE HumanOpens
  BY <1>4, OpeningTypes, LocalSame, Rebuilt DEF HumanOpens, LockOK, BoundsOK, bounds
<1>5. CASE HumanCloses
  BY <1>5, ClosingTypes, LocalSame, Rebuilt DEF HumanCloses, LockOK, BoundsOK, bounds
<1> QED BY <1>1, <1>2, <1>3, <1>4, <1>5

LEMMA LedgerStep == LedgerInv /\ [Next]_vars => LedgerInv'
<1> SUFFICES ASSUME LedgerInv, [Next]_vars PROVE LedgerInv'
  OBVIOUS
<1>1. ASSUME NEW p \in Procs, BeginStep(p) \/ Step(p) PROVE LedgerInv'
  BY <1>1, BeginInv, StartInv, LaunchInv, RehydrateInv, SweepInv, ReapInv, CleanupInv DEF Step
<1>2. CASE UNCHANGED vars
  BY <1>2, Parts, HerdrSame, LocalSame, Rebuilt DEF vars, LockOK, BoundsOK, bounds
<1> QED BY <1>1, <1>2, AroundInv DEF Next

\* TypeOK in every behaviour: a pane id in hand where one is used, whatever
\* failed, died or was closed in between.
THEOREM TypeCorrect == Spec => []TypeOK
<1>1. LedgerInv => TypeOK
  BY DEF LedgerInv
<1> QED BY <1>1, InitInv, LedgerStep, PTL DEF Spec

-----------------------------------------------------------------------------
(* The root shell *)

\* Outside cleanup, no step of a command and no human's closes it.
LEMMA RootStep ==
    ASSUME LedgerInv, [Next]_vars, Root \in live, Root \notin live'
    PROVE  \E p \in Procs : task[p].at \in {"closeAll", "closeEach"}
<1> USE Parts
<1>1. ASSUME NEW p \in Procs, BeginStep(p) PROVE FALSE
  BY <1>1 DEF BeginStep, StartBegin, RehydrateBegin, ReapBegin, CleanupBegin, Begin, herdr
<1>2. ASSUME NEW p \in Procs, StartStep(p) PROVE FALSE
  BY <1>2 DEF StartStep, StartPersist, StartConfigFails, StartCommit, herdr
<1>3. ASSUME NEW p \in Procs, LaunchStep(p) PROVE FALSE
  <2>1. CASE CloseAndFail(p)
    <3>1. task[p].pane \in Ids
      BY <2>1 DEF CloseAndFail, At, LocalsOK, TaskInv
    <3> QED BY <2>1, <3>1 DEF CloseAndFail, TryClose, Closing, herdr
  <2> QED BY <1>3, <2>1 DEF LaunchStep, Tab, Opening, Launch, LaunchFails, Discard, herdr
<1>4. ASSUME NEW p \in Procs, RehydrateStep(p) PROVE FALSE
  BY <1>4 DEF RehydrateStep, RehydrateCommit, Surrender, RehydrateReady, GiveBack, herdr
<1>5. ASSUME NEW p \in Procs, SweepStep(p) PROVE FALSE
  <2>1. CASE SweepClose(p)
    <3>1. task[p].todo \subseteq Panes \ {Root}
      BY <2>1 DEF SweepClose, At, LocalsOK, TaskInv
    <3> QED BY <2>1, <3>1 DEF SweepClose, Closing, herdr
  <2> QED BY <1>5, <2>1 DEF SweepStep, SweepPeek, SweepLock, SweepSave, herdr
<1>6. ASSUME NEW p \in Procs, ReapStep(p) PROVE FALSE
  <2>1. CASE ReapClose(p)
    <3>1. task[p].pane \in Ids
      BY <2>1 DEF ReapClose, At, LocalsOK, TaskInv
    <3> QED BY <2>1, <3>1 DEF ReapClose, Closing, herdr
  <2> QED BY <1>6, <2>1 DEF ReapStep, ReapLock, ReapRelease, ReapOver, herdr
<1>7. ASSUME NEW p \in Procs, CleanupStep(p)
      PROVE task[p].at \in {"closeAll", "closeEach"}
  BY <1>7 DEF CleanupStep, CleanupList, CleanupCloseAll, CleanupCloseEach, At, herdr
<1>8. ASSUME NEW p \in Procs, Kill(p) PROVE FALSE
  BY <1>8 DEF Kill, herdr
<1>9. ASSUME NEW ph \in Phases, Complete(ph) \/ Reopen(ph) PROVE FALSE
  BY <1>9 DEF Complete, Reopen, herdr
<1>10. ~ HumanOpens /\ ~ HumanCloses
  BY DEF HumanOpens, HumanCloses, Opening, Closing
<1>11. CASE UNCHANGED vars
  BY <1>11 DEF vars, herdr
<1> QED
  BY <1>1, <1>2, <1>3, <1>4, <1>5, <1>6, <1>7, <1>8, <1>9, <1>10, <1>11 DEF Next, Step

\* RootSurvives in every behaviour: only cleanup closes the root shell, even
\* where an older drovr recorded it as a phase's pane or retired it.
THEOREM RootStays == Spec => RootSurvives
<1>1. LedgerInv /\ [Next]_vars =>
        [(Root \in live /\ Root \notin live')
            => \E p \in Procs : task[p].at \in {"closeAll", "closeEach"}]_vars
  BY RootStep
<1> QED BY <1>1, InitInv, LedgerStep, PTL DEF Spec, RootSurvives

-----------------------------------------------------------------------------
(* What is drovr's: ids are never handed out twice *)

\* The ids drovr was handed, less what is the human's. No step shrinks it.
Drovr == (issued \cup {Root}) \ human
Recorded(l) == Held(l) \cup l.retired

\* What a command in hand of task t may close.
TaskOwn(t, drovr) ==
    /\ t.pane # None => t.pane \in drovr
    /\ t.at \in {"sweep", "closeEach"} => t.todo \subseteq drovr
    /\ t.at = "closeAll" => t.gone \subseteq drovr

\* Everything a command may go on to close is drovr's: what state.json records,
\* also in a copy made long ago, the pane in hand, and the panes it has listed.
OwnInv ==
    /\ human \subseteq issued
    /\ Recorded(disk) \subseteq Drovr
    /\ \A p \in Procs : Recorded(copy[p]) \subseteq Drovr /\ TaskOwn(task[p], Drovr)

\* What the edits of state.json add to what it records is the pane they name.
LEMMA EditOwn ==
    ASSUME NEW l \in Ledger, NEW ph \in Phases, NEW i
    PROVE  /\ Recorded(Retire(l, i)) \subseteq Recorded(l) \cup {i}
           /\ Recorded(Register(l, ph, i)) \subseteq Recorded(l) \cup {i}
           /\ Recorded(Released(l, ph, i)) \subseteq Recorded(l) \cup {i}
           /\ \A s : Recorded([l EXCEPT !.status[ph] = s]) = Recorded(l)
           /\ \A S : Recorded([l EXCEPT !.retired = @ \ S]) \subseteq Recorded(l)
           /\ ReapableRetired(l) \subseteq Recorded(l)
           /\ l.pane[ph] # None => l.pane[ph] \in Recorded(l)
BY DEF Recorded, Held, Retire, Register, Released, Ledger, ReapableRetired

LEMMA BlankOwn == Recorded(Blank) = {}
BY DEF Recorded, Held, Blank

\* Closing panes, and opening one whose id was never issued, take nothing away.
LEMMA DrovrGrows ==
    ASSUME LedgerInv, ~Reuse, human \subseteq issued,
           \/ UNCHANGED <<human, issued>>
           \/ \E S : Closing(S)
           \/ \E i \in Ids : Opening(i) /\ human' \in {human, human \cup {i}}
    PROVE  Drovr \subseteq Drovr' /\ human' \subseteq issued'
<1>1. CASE UNCHANGED <<human, issued>>
  BY <1>1 DEF Drovr
<1>2. ASSUME NEW S, Closing(S) PROVE Drovr \subseteq Drovr' /\ human' \subseteq issued'
  BY <1>2 DEF Drovr, Closing
<1>3. ASSUME NEW i \in Ids, Opening(i), human' \in {human, human \cup {i}}
      PROVE  Drovr \subseteq Drovr' /\ human' \subseteq issued'
  BY <1>3 DEF Drovr, Opening, Openable
<1> QED BY <1>1, <1>2, <1>3

\* A command's step, by what it leaves in the file, in the copy and in hand.
LEMMA OwnStep ==
    ASSUME LedgerInv, OwnInv, Drovr \subseteq Drovr', human' \subseteq issued',
           Recorded(disk') \subseteq Drovr', NEW p \in Procs,
           NEW t, TaskOwn(t, Drovr'), task' = [task EXCEPT ![p] = t],
           NEW c, Recorded(c) \subseteq Drovr', copy' = [copy EXCEPT ![p] = c]
    PROVE  OwnInv'
BY DEF OwnInv, TaskOwn, LedgerInv, TypeOK

\* The same for a step that keeps the copy.
LEMMA OwnMove ==
    ASSUME LedgerInv, OwnInv, Drovr \subseteq Drovr', human' \subseteq issued',
           Recorded(disk') \subseteq Drovr', NEW p \in Procs,
           NEW t, TaskOwn(t, Drovr'), task' = [task EXCEPT ![p] = t], copy' = copy
    PROVE  OwnInv'
BY DEF OwnInv, TaskOwn, LedgerInv, TypeOK

LEMMA OwnExit ==
    ASSUME LedgerInv, OwnInv, Drovr \subseteq Drovr', human' \subseteq issued',
           Recorded(disk') \subseteq Drovr', NEW p \in Procs, Exit(p)
    PROVE  OwnInv'
<1>1. TaskOwn(Idle, Drovr')
  BY DEF TaskOwn, Idle
<1> QED BY <1>1, BlankOwn, OwnStep DEF Exit

-----------------------------------------------------------------------------
(* Every action keeps to what is drovr's *)

\* The first step of a command.
LEMMA OwnBegins ==
    ASSUME LedgerInv, ~Reuse, OwnInv, NEW p \in Procs, BeginStep(p)
    PROVE  OwnInv'
<1>0. UNCHANGED <<human, issued, disk>> /\ Drovr' = Drovr
  BY DEF BeginStep, StartBegin, RehydrateBegin, ReapBegin, CleanupBegin, Begin, herdr, Drovr
<1>1. ASSUME NEW ph, NEW kind, NEW l \in {"persist", "tab", "peek", "list"}, Begin(p, kind, ph, l) PROVE OwnInv'
  <2>1. TaskOwn([Idle EXCEPT !.at = l, !.kind = kind, !.ph = ph], Drovr')
    BY <1>1 DEF TaskOwn, Idle
  <2> QED BY <1>0, <1>1, <2>1, OwnStep DEF OwnInv, Begin
<1> QED BY <1>1 DEF BeginStep, StartBegin, RehydrateBegin, ReapBegin, CleanupBegin

\* phase start, and the launch it shares with rehydrate.
LEMMA OwnStarts ==
    ASSUME LedgerInv, ~Reuse, OwnInv, NEW p \in Procs, StartStep(p) \/ LaunchStep(p)
    PROVE  OwnInv'
<1>0. /\ task[p] \in Tasks /\ copy[p] \in Ledger /\ disk \in Ledger /\ TaskInv(task[p], copy[p])
      /\ Recorded(copy[p]) \subseteq Drovr /\ Recorded(disk) \subseteq Drovr
      /\ TaskOwn(task[p], Drovr) /\ human \subseteq issued
      /\ task \in [Procs -> Tasks]
  BY DEF LedgerInv, TypeOK, OwnInv
<1>1. Drovr \subseteq Drovr' /\ human' \subseteq issued'
  BY <1>0, DrovrGrows DEF StartStep, StartPersist, StartConfigFails, StartCommit, LaunchStep, Tab, Launch,
                          LaunchFails, Discard, CloseAndFail, TryClose, herdr
<1>2. CASE StartPersist(p)
  <2> DEFINE l == [copy[p] EXCEPT !.status[task[p].ph] = "Running"]
  <2>1. task[p].ph \in Phases /\ task[p].at = "persist"
    BY <1>0, <1>2 DEF TaskInv, StartPersist, At
  <2>2. Recorded(l) \subseteq Drovr'
    <3>1. Recorded(l) = Recorded(copy[p])
      BY <1>0, <2>1 DEF Recorded, Held, Ledger
    <3> QED BY <1>0, <1>1, <3>1
  <2>3. TaskOwn([task[p] EXCEPT !.at = "tab"], Drovr')
    BY <1>0, <1>1 DEF TaskOwn, Tasks
  <2> HIDE DEF l
  <2>4. Recorded(disk') \subseteq Drovr'
    BY <1>0, <1>1, <1>2, <2>2 DEF StartPersist, Save, l
  <2>5. CASE copy' = [copy EXCEPT ![p] = l] /\ Goto(p, "tab")
    <3>1. task' = [task EXCEPT ![p] = [task[p] EXCEPT !.at = "tab"]]
      BY <1>0, <2>5 DEF Goto
    <3> QED BY <1>1, <2>2, <2>3, <2>4, <2>5, <3>1, OwnStep
  <2> QED BY <1>1, <1>2, <2>4, <2>5, OwnExit DEF StartPersist, l
<1>3. CASE StartConfigFails(p)
  BY <1>0, <1>1, <1>3, OwnExit DEF StartConfigFails
<1>4. CASE StartCommit(p)
  <2> DEFINE l == Register([copy[p] EXCEPT !.status[task[p].ph] = "Running"], task[p].ph, task[p].pane)
             t == [task[p] EXCEPT !.at = "peek", !.pane = None, !.created = FALSE]
  <2>1. task[p].ph \in Phases /\ task[p].pane \in Panes
    BY <1>0, <1>4 DEF TaskInv, StartCommit, At
  <2>2. Recorded(l) \subseteq Drovr'
    <3> DEFINE m == [copy[p] EXCEPT !.status[task[p].ph] = "Running"]
    <3>1. m \in Ledger
      BY <1>0, <2>1, EditTypes
    <3>2. Recorded(m) = Recorded(copy[p])
      BY <1>0, <2>1 DEF Recorded, Held, Ledger
    <3>3. task[p].pane \in Drovr
      BY <1>0, <2>1 DEF TaskOwn, Panes
    <3> HIDE DEF m
    <3>4. Recorded(Register(m, task[p].ph, task[p].pane)) \subseteq Drovr
      BY <1>0, <2>1, <3>1, <3>2, <3>3, EditOwn
    <3> QED BY <1>1, <3>4 DEF m
  <2>3. TaskOwn(t, Drovr')
    BY <1>0, <1>1 DEF TaskOwn, Tasks
  <2> HIDE DEF l
  <2>4. Recorded(disk') \subseteq Drovr'
    BY <1>0, <1>1, <1>4, <2>2 DEF StartCommit, Save, l
  <2>5. CASE copy' = [copy EXCEPT ![p] = l] /\ ~Exit(p)
    <3>1. task' = [task EXCEPT ![p] = t]
      BY <1>0, <1>4, <2>5 DEF StartCommit
    <3> QED BY <1>1, <2>2, <2>3, <2>4, <2>5, <3>1, OwnStep
  <2> QED BY <1>1, <1>4, <2>4, <2>5, OwnExit DEF StartCommit, l
<1>5. CASE Tab(p)
  <2>0. task[p].ph \in Phases /\ disk' = disk
    BY <1>0, <1>5 DEF TaskInv, Tab, At
  <2>1. ASSUME NEW i \in Drovr', NEW b \in BOOLEAN,
               task' = [task EXCEPT ![p] = [task[p] EXCEPT !.at = "launch", !.pane = i, !.created = b]],
               copy' = copy
        PROVE OwnInv'
    <3>1. TaskOwn([task[p] EXCEPT !.at = "launch", !.pane = i, !.created = b], Drovr')
      BY <1>0 DEF TaskOwn, Tasks
    <3> QED BY <1>0, <1>1, <2>0, <2>1, <3>1, OwnMove
  <2>2. CASE /\ copy[p].pane[task[p].ph] # None /\ copy' = copy
             /\ task' = [task EXCEPT ![p].at = "launch", ![p].pane = copy[p].pane[task[p].ph]]
    <3>1. copy[p].pane[task[p].ph] \in Drovr'
      BY <1>0, <1>1, <2>0, <2>2, EditOwn
    <3>2. task' = [task EXCEPT ![p] = [task[p] EXCEPT !.at = "launch", !.pane = copy[p].pane[task[p].ph],
                                                      !.created = task[p].created]]
      BY <1>0, <2>2 DEF Tasks
    <3> QED BY <1>0, <2>1, <2>2, <3>1, <3>2 DEF Tasks
  <2>3. ASSUME NEW i \in Ids, Opening(i), UNCHANGED <<human, copy>>,
               task' = [task EXCEPT ![p].at = "launch", ![p].pane = i, ![p].created = TRUE]
        PROVE OwnInv'
    <3>1. i \in Drovr'
      BY <1>0, <2>3 DEF Opening, Openable, Drovr
    <3> QED BY <1>0, <2>1, <2>3, <3>1
  <2>4. CASE Exit(p)
    BY <1>0, <1>1, <2>0, <2>4, OwnExit
  <2> QED BY <1>5, <2>2, <2>3, <2>4 DEF Tab
<1>6. ASSUME NEW l, Goto(p, l), l \notin {"sweep", "closeEach", "closeAll"}, copy' = copy,
             Recorded(disk') \subseteq Drovr'
      PROVE OwnInv'
  <2>1. TaskOwn([task[p] EXCEPT !.at = l], Drovr')
    BY <1>0, <1>1, <1>6 DEF TaskOwn, Tasks
  <2> QED BY <1>0, <1>1, <1>6, <2>1, OwnMove DEF Goto
<1>7. CASE Launch(p) \/ LaunchFails(p)
  BY <1>0, <1>1, <1>6, <1>7, OwnExit DEF Launch, LaunchFails
<1>8. CASE Discard(p)
  <2>1. task[p].pane \in Drovr
    BY <1>0, <1>8 DEF Discard, At, TaskInv, TaskOwn
  <2>2. Recorded(disk') \subseteq Drovr'
    <3>1. Recorded(Retire(copy[p], task[p].pane)) \subseteq Drovr
      BY <1>0, <2>1 DEF Recorded, Retire, Held, Ledger
    <3> QED BY <1>0, <1>1, <1>8, <3>1 DEF Discard, Save
  <2> QED BY <1>6, <1>8, <2>2 DEF Discard
<1>9. CASE CloseAndFail(p)
  BY <1>0, <1>1, <1>9, OwnExit DEF CloseAndFail
<1> QED BY <1>2, <1>3, <1>4, <1>5, <1>7, <1>8, <1>9 DEF StartStep, LaunchStep

\* phase rehydrate.
LEMMA OwnRehydrates ==
    ASSUME LedgerInv, ~Reuse, OwnInv, NEW p \in Procs, RehydrateStep(p)
    PROVE  OwnInv'
<1>0. /\ task[p] \in Tasks /\ copy[p] \in Ledger /\ disk \in Ledger /\ TaskInv(task[p], copy[p])
      /\ Recorded(copy[p]) \subseteq Drovr /\ Recorded(disk) \subseteq Drovr
      /\ TaskOwn(task[p], Drovr) /\ human \subseteq issued
      /\ task \in [Procs -> Tasks]
  BY DEF LedgerInv, TypeOK, OwnInv
<1>1. Drovr \subseteq Drovr' /\ human' \subseteq issued'
  BY <1>0, DrovrGrows DEF RehydrateStep, RehydrateCommit, Surrender, RehydrateReady, GiveBack, herdr
<1>2. ASSUME NEW l \in {"ready", "surrender", "close", "giveBack"}, Goto(p, l), copy' = copy,
             Recorded(disk') \subseteq Drovr'
      PROVE OwnInv'
  <2>1. TaskOwn([task[p] EXCEPT !.at = l], Drovr')
    BY <1>0, <1>1, <1>2 DEF TaskOwn, Tasks
  <2> QED BY <1>0, <1>1, <1>2, <2>1, OwnMove DEF Goto
<1>3. ASSUME task[p].pane \in Panes, task[p].ph \in Phases
      PROVE  /\ Recorded(Register(copy[p], task[p].ph, task[p].pane)) \subseteq Drovr'
             /\ Recorded(Retire(disk, task[p].pane)) \subseteq Drovr'
             /\ Recorded(Released(disk, task[p].ph, task[p].pane)) \subseteq Drovr'
             /\ Recorded(disk) \subseteq Drovr'
  <2>1. task[p].pane \in Drovr
    BY <1>0, <1>3 DEF TaskOwn, Panes
  <2> QED BY <1>0, <1>1, <1>3, <2>1, EditOwn
<1>4. CASE RehydrateCommit(p)
  <2>1. task[p].pane \in Panes /\ task[p].ph \in Phases
    BY <1>0, <1>4 DEF TaskInv, RehydrateCommit, At
  <2> QED BY <1>2, <1>3, <1>4, <2>1 DEF RehydrateCommit, Save
<1>5. CASE Surrender(p)
  <2>1. task[p].pane \in Panes /\ task[p].ph \in Phases
    BY <1>0, <1>5 DEF TaskInv, Surrender, At, Tasks, Panes
  <2> QED BY <1>2, <1>3, <1>5, <2>1 DEF Surrender, Save
<1>6. CASE GiveBack(p)
  <2>1. task[p].pane \in Panes /\ task[p].ph \in Phases
    BY <1>0, <1>6 DEF TaskInv, GiveBack, At, Tasks, Panes
  <2> QED BY <1>2, <1>3, <1>6, <2>1 DEF GiveBack, Save
<1>7. CASE RehydrateReady(p)
  BY <1>0, <1>1, <1>2, <1>7, OwnExit DEF RehydrateReady
<1> QED BY <1>4, <1>5, <1>6, <1>7 DEF RehydrateStep

\* The sweep of the retired panes.
LEMMA OwnSweeps ==
    ASSUME LedgerInv, ~Reuse, OwnInv, NEW p \in Procs, SweepStep(p)
    PROVE  OwnInv'
<1>0. /\ task[p] \in Tasks /\ copy[p] \in Ledger /\ disk \in Ledger /\ TaskInv(task[p], copy[p])
      /\ Recorded(copy[p]) \subseteq Drovr /\ Recorded(disk) \subseteq Drovr
      /\ TaskOwn(task[p], Drovr) /\ human \subseteq issued
      /\ task \in [Procs -> Tasks] /\ copy \in [Procs -> Ledger]
  BY DEF LedgerInv, TypeOK, OwnInv
<1>1. Drovr \subseteq Drovr' /\ human' \subseteq issued'
  BY <1>0, DrovrGrows DEF SweepStep, SweepPeek, SweepLock, SweepClose, SweepSave, herdr
<1>2. ASSUME NEW c, SweepDone(p, c) PROVE \E t : TaskOwn(t, Drovr') /\ task' = [task EXCEPT ![p] = t]
  <2> DEFINE t == [task[p] EXCEPT !.at = "reapLock", !.todo = ToReap(p, c), !.gone = {}]
  <2>1. TaskOwn(t, Drovr')
    BY <1>0, <1>1 DEF TaskOwn, Tasks
  <2>2. task' = [task EXCEPT ![p] = t]
    BY <1>0, <1>2 DEF SweepDone
  <2> HIDE DEF t
  <2> QED BY <2>1, <2>2
<1>3. CASE SweepPeek(p)
  <2>1. disk' = disk
    BY <1>3 DEF SweepPeek
  <2>2. CASE Goto(p, "sweepLock") /\ copy' = copy
    <3>1. TaskOwn([task[p] EXCEPT !.at = "sweepLock"], Drovr')
      BY <1>0, <1>1 DEF TaskOwn, Tasks
    <3> QED BY <1>0, <1>1, <2>1, <2>2, <3>1, OwnMove DEF Goto
  <2>3. CASE SweepDone(p, copy[p]) /\ copy' = copy
    BY <1>0, <1>1, <1>2, <2>1, <2>3, OwnMove
  <2> QED BY <1>0, <1>1, <1>3, <2>1, <2>2, <2>3, OwnExit DEF SweepPeek
<1>4. CASE SweepLock(p)
  <2>1. disk' = disk
    BY <1>4 DEF SweepLock
  <2>2. CASE SweepDone(p, copy[p]) /\ copy' = copy
    BY <1>0, <1>1, <1>2, <2>1, <2>2, OwnMove
  <2>3. CASE /\ copy' = [copy EXCEPT ![p] = disk]
             /\ task' = [task EXCEPT ![p].at = "sweep", ![p].todo = ReapableRetired(disk)]
    <3> DEFINE t == [task[p] EXCEPT !.at = "sweep", !.todo = ReapableRetired(disk)]
    <3>1. ReapableRetired(disk) \subseteq Drovr'
      BY <1>0, <1>1 DEF ReapableRetired, Recorded
    <3>2. TaskOwn(t, Drovr')
      BY <1>0, <1>1, <3>1 DEF TaskOwn, Tasks
    <3>3. task' = [task EXCEPT ![p] = t]
      BY <1>0, <2>3
    <3> HIDE DEF t
    <3> QED BY <1>0, <1>1, <2>1, <2>3, <3>2, <3>3, OwnStep
  <2> QED BY <1>4, <2>2, <2>3 DEF SweepLock
<1>5. CASE SweepClose(p)
  <2>1. PICK i \in task[p].todo, ok \in BOOLEAN :
           task' = [task EXCEPT ![p].todo = @ \ {i},
                                ![p].gone = IF ok THEN @ \cup {i} ELSE @,
                                ![p].at = IF task[p].todo = {i} THEN "sweepSave" ELSE @]
    BY <1>5 DEF SweepClose
  <2> DEFINE t == [task[p] EXCEPT !.todo = @ \ {i}, !.gone = IF ok THEN @ \cup {i} ELSE @,
                                  !.at = IF task[p].todo = {i} THEN "sweepSave" ELSE @]
  <2>2. TaskOwn(t, Drovr')
    BY <1>0, <1>1, <1>5 DEF TaskOwn, Tasks, SweepClose, At
  <2>3. task' = [task EXCEPT ![p] = t]
    BY <1>0, <2>1
  <2> HIDE DEF t
  <2> QED BY <1>0, <1>1, <1>5, <2>2, <2>3, OwnMove DEF SweepClose
<1>6. CASE SweepSave(p)
  <2> DEFINE l == [disk EXCEPT !.retired = @ \ task[p].gone]
  <2>1. Recorded(l) \subseteq Drovr'
    BY <1>0, <1>1 DEF Recorded, Held, Ledger
  <2> HIDE DEF l
  <2>2. Recorded(disk') \subseteq Drovr'
    BY <1>0, <1>1, <1>6, <2>1 DEF SweepSave, Save, l
  <2>3. PICK c \in {l, copy[p]} : copy' = [copy EXCEPT ![p] = c] /\ SweepDone(p, c)
    BY <1>6 DEF SweepSave, l
  <2>4. Recorded(c) \subseteq Drovr'
    BY <1>0, <1>1, <2>1
  <2> QED BY <1>1, <1>2, <2>2, <2>3, <2>4, OwnStep
<1> QED BY <1>3, <1>4, <1>5, <1>6 DEF SweepStep

\* The reaps, and cleanup.
LEMMA OwnReaps ==
    ASSUME LedgerInv, ~Reuse, OwnInv, NEW p \in Procs, ReapStep(p) \/ CleanupStep(p)
    PROVE  OwnInv'
<1>0. /\ task[p] \in Tasks /\ copy[p] \in Ledger /\ disk \in Ledger /\ TaskInv(task[p], copy[p])
      /\ Recorded(copy[p]) \subseteq Drovr /\ Recorded(disk) \subseteq Drovr
      /\ TaskOwn(task[p], Drovr) /\ human \subseteq issued
      /\ task \in [Procs -> Tasks]
  BY DEF LedgerInv, TypeOK, OwnInv
<1>1. Drovr \subseteq Drovr' /\ human' \subseteq issued'
  BY <1>0, DrovrGrows DEF ReapStep, ReapLock, ReapClose, ReapRelease, ReapOver, CleanupStep,
                          CleanupList, CleanupCloseAll, CleanupCloseEach, TryClose, herdr
<1>2. ASSUME NEW ph, ReapNext(p, ph), copy' = copy, Recorded(disk') \subseteq Drovr' PROVE OwnInv'
  <2>1. TaskOwn([task[p] EXCEPT !.at = "reapLock", !.pane = None, !.todo = @ \ {ph}], Drovr')
    BY <1>0, <1>1 DEF TaskOwn, Tasks
  <2>2. task' = [task EXCEPT ![p] = [task[p] EXCEPT !.at = "reapLock", !.pane = None, !.todo = @ \ {ph}]]
    BY <1>0, <1>2 DEF ReapNext
  <2> QED BY <1>1, <1>2, <2>1, <2>2, OwnMove
<1>3. CASE ReapLock(p)
  <2>0. disk' = disk /\ copy' = copy
    BY <1>3 DEF ReapLock
  <2>1. PICK ph \in task[p].todo :
          IF lock # Nobody \/ ~ Reapable(disk, ph)
            THEN ReapNext(p, ph)
            ELSE /\ lock' = p
                 /\ task' = [task EXCEPT ![p].at = "reapClose", ![p].pane = disk.pane[ph],
                                         ![p].todo = @ \ {ph}, ![p].ph = ph]
    BY <1>3 DEF ReapLock
  <2>2. CASE ReapNext(p, ph)
    BY <1>0, <1>1, <1>2, <2>0, <2>2
  <2>3. CASE ~ReapNext(p, ph)
    <3> DEFINE t == [task[p] EXCEPT !.at = "reapClose", !.pane = disk.pane[ph], !.todo = @ \ {ph}, !.ph = ph]
    <3>1. ph \in Phases /\ Reapable(disk, ph)
      BY <1>0, <1>3, <2>1, <2>3 DEF TaskInv, ReapLock, At
    <3>2. disk.pane[ph] \in Drovr'
      BY <1>0, <1>1, <3>1, EditOwn DEF Reapable
    <3>3. TaskOwn(t, Drovr')
      BY <1>0, <1>1, <3>2 DEF TaskOwn, Tasks
    <3>4. task' = [task EXCEPT ![p] = t]
      BY <1>0, <2>1, <2>3
    <3> HIDE DEF t
    <3> QED BY <1>0, <1>1, <2>0, <3>3, <3>4, OwnMove
  <2> QED BY <2>2, <2>3
<1>4. CASE ReapClose(p)
  <2>0. disk' = disk /\ copy' = copy
    BY <1>4 DEF ReapClose
  <2>1. CASE Goto(p, "release")
    <3>1. TaskOwn([task[p] EXCEPT !.at = "release"], Drovr')
      BY <1>0, <1>1 DEF TaskOwn, Tasks
    <3> QED BY <1>0, <1>1, <2>0, <2>1, <3>1, OwnMove DEF Goto
  <2> QED BY <1>0, <1>1, <1>2, <1>4, <2>0, <2>1 DEF ReapClose
<1>5. CASE ReapRelease(p)
  <2>1. task[p].pane \in Drovr /\ task[p].ph \in Phases
    BY <1>0, <1>5 DEF TaskInv, ReapRelease, At, Tasks, Panes, TaskOwn
  <2>2. Recorded(Released(disk, task[p].ph, task[p].pane)) \subseteq Drovr'
    BY <1>0, <1>1, <2>1, EditOwn
  <2> QED BY <1>0, <1>1, <1>2, <1>5, <2>2 DEF ReapRelease, Save
<1>6. CASE ReapOver(p) \/ CleanupCloseAll(p)
  BY <1>0, <1>1, <1>6, OwnExit DEF ReapOver, CleanupCloseAll
<1>7. CASE CleanupCloseEach(p)
  <2>0. disk' = disk
    BY <1>7 DEF CleanupCloseEach
  <2>1. ASSUME NEW i, task' = [task EXCEPT ![p].todo = @ \ {i}], copy' = copy PROVE OwnInv'
    <3>1. TaskOwn([task[p] EXCEPT !.todo = @ \ {i}], Drovr')
      BY <1>0, <1>1 DEF TaskOwn, Tasks
    <3>2. task' = [task EXCEPT ![p] = [task[p] EXCEPT !.todo = @ \ {i}]]
      BY <1>0, <2>1
    <3> QED BY <1>0, <1>1, <2>0, <2>1, <3>1, <3>2, OwnMove
  <2> QED BY <1>0, <1>1, <1>7, <2>0, <2>1, OwnExit DEF CleanupCloseEach
<1>8. CASE CleanupList(p)
  <2>1. Ours(copy[p]) \subseteq Drovr'
    BY <1>0, <1>1 DEF Ours, Recorded, Drovr, LedgerInv, TypeOK
  <2>2. PICK l \in {"closeAll", "closeEach"} :
           /\ l = "closeAll" => live \subseteq Ours(copy[p])
           /\ task' = [task EXCEPT ![p].gone = live, ![p].at = l,
                                   ![p].todo = Ours(copy[p]) \cap live]
    BY <1>8 DEF CleanupList
  <2> DEFINE t == [task[p] EXCEPT !.gone = live, !.at = l, !.todo = Ours(copy[p]) \cap live]
  <2>3. TaskOwn(t, Drovr')
    BY <1>0, <1>1, <2>1, <2>2 DEF TaskOwn, Tasks
  <2>4. task' = [task EXCEPT ![p] = t]
    BY <1>0, <2>2
  <2>5. disk' = disk /\ copy' = [copy EXCEPT ![p] = Blank] /\ Recorded(Blank) \subseteq Drovr'
    BY <1>8, BlankOwn DEF CleanupList
  <2> HIDE DEF t
  <2> QED BY <1>0, <1>1, <2>3, <2>4, <2>5, OwnStep
<1> QED BY <1>3, <1>4, <1>5, <1>6, <1>7, <1>8 DEF ReapStep, CleanupStep

\* A run under way records nothing but what it was handed.
LEMMA OwnInit == Init => OwnInv
<1> SUFFICES ASSUME Init PROVE OwnInv
  OBVIOUS
<1>1. Recorded(disk) \subseteq Held(disk) \cup {Root} /\ human = {}
  <2>1. PICK held \in [Phases -> Panes \cup {None}], retired \in SUBSET {Root} :
           disk = [Blank EXCEPT !.pane = held, !.retired = retired,
                     !.status = [ph \in Phases |-> IF held[ph] = None THEN "Pending" ELSE "Running"],
                     !.ran = {ph \in Phases : held[ph] # None}]
    BY DEF Init
  <2>2. disk.retired \subseteq {Root}
    BY <2>1 DEF Blank
  <2> QED BY <2>2 DEF Init, Recorded
<1>2. issued = Held(disk) \ {Root}
  BY DEF Init
<1>3. Recorded(disk) \subseteq Drovr
  BY <1>1, <1>2 DEF Drovr
<1>4. TaskOwn(Idle, Drovr)
  BY DEF TaskOwn, Idle
<1> QED BY <1>1, <1>3, <1>4, BlankOwn DEF Init, OwnInv

\* A step outside the commands.
LEMMA OwnSame ==
    ASSUME OwnInv, UNCHANGED locals, Drovr \subseteq Drovr', human' \subseteq issued',
           Recorded(disk') \subseteq Recorded(disk)
    PROVE  OwnInv'
BY DEF OwnInv, TaskOwn, locals

\* Every step of a command, and what happens around them, keeps it.
LEMMA OwnNext == LedgerInv /\ ~Reuse /\ OwnInv /\ [Next]_vars => OwnInv'
<1> SUFFICES ASSUME LedgerInv, ~Reuse, OwnInv, [Next]_vars PROVE OwnInv'
  OBVIOUS
<1>0. human \subseteq issued /\ Recorded(disk) \subseteq Drovr /\ disk \in Ledger
  BY DEF OwnInv, LedgerInv, TypeOK
<1>1. ASSUME NEW p \in Procs, BeginStep(p) \/ Step(p) PROVE OwnInv'
  BY <1>1, OwnBegins, OwnStarts, OwnRehydrates, OwnSweeps, OwnReaps DEF Step
<1>2. ASSUME NEW p \in Procs, Kill(p) PROVE OwnInv'
  <2>1. Drovr \subseteq Drovr' /\ human' \subseteq issued' /\ disk' = disk /\ Exit(p)
    BY <1>0, <1>2, DrovrGrows DEF Kill, herdr
  <2> QED BY <1>0, <2>1, OwnExit
<1>3. ASSUME NEW ph \in Phases, Complete(ph) \/ Reopen(ph) PROVE OwnInv'
  <2>1. Drovr \subseteq Drovr' /\ human' \subseteq issued' /\ UNCHANGED locals
    BY <1>0, <1>3, DrovrGrows DEF Complete, Reopen, herdr
  <2>2. Recorded(disk') = Recorded(disk)
    BY <1>0, <1>3 DEF Complete, Reopen, Recorded, Held, Ledger
  <2> QED BY <2>1, <2>2, OwnSame
<1>4. CASE HumanOpens \/ HumanCloses
  <2>1. UNCHANGED <<disk, locals>>
    BY <1>4 DEF HumanOpens, HumanCloses
  <2>2. Drovr \subseteq Drovr' /\ human' \subseteq issued'
    BY <1>0, <1>4, DrovrGrows DEF HumanOpens, HumanCloses
  <2> QED BY <2>1, <2>2, OwnSame
<1>5. CASE UNCHANGED vars
  BY <1>0, <1>5, DrovrGrows, OwnSame DEF vars, herdr
<1> QED BY <1>1, <1>2, <1>3, <1>4, <1>5 DEF Next

\* A step of a command closes only what it was known to own beforehand.
LEMMA ClosesStep ==
    ASSUME LedgerInv, OwnInv, [Next]_vars, NEW p \in Procs, task[p].at # "idle",
           task'[p] # task[p], NEW i \in human, i \notin human'
    PROVE  task[p].at = "closeAll" /\ i \notin task[p].gone
<1>0. task \in [Procs -> Tasks] /\ TaskOwn(task[p], Drovr) /\ i \notin Drovr
      /\ TaskInv(task[p], copy[p])
  BY DEF LedgerInv, TypeOK, OwnInv, Drovr
<1>1. ASSUME NEW q \in Procs, BeginStep(q) PROVE FALSE
  BY <1>1 DEF BeginStep, StartBegin, RehydrateBegin, ReapBegin, CleanupBegin, Begin, herdr
<1>2. ASSUME NEW q \in Procs, StartStep(q) \/ RehydrateStep(q) PROVE FALSE
  BY <1>2 DEF StartStep, StartPersist, StartConfigFails, StartCommit, RehydrateStep, RehydrateCommit,
              Surrender, RehydrateReady, GiveBack, herdr
<1>3. ASSUME NEW q \in Procs, LaunchStep(q) PROVE FALSE
  <2>1. CASE CloseAndFail(q)
    <3>1. q = p
      BY <1>0, <2>1 DEF CloseAndFail, Exit
    <3>2. task[p].pane \in Drovr
      BY <1>0, <2>1, <3>1 DEF CloseAndFail, At, TaskInv, TaskOwn
    <3> QED BY <1>0, <2>1, <3>1, <3>2 DEF CloseAndFail, TryClose, Closing, herdr
  <2> QED BY <1>3, <2>1 DEF LaunchStep, Tab, Opening, Launch, LaunchFails, Discard, herdr
<1>4. ASSUME NEW q \in Procs, SweepStep(q) PROVE FALSE
  <2>1. CASE SweepClose(q)
    <3>1. q = p
      BY <1>0, <2>1 DEF SweepClose
    <3>2. task[p].todo \subseteq Drovr
      BY <1>0, <2>1, <3>1 DEF SweepClose, At, TaskOwn
    <3> QED BY <1>0, <2>1, <3>1, <3>2 DEF SweepClose, Closing, herdr
  <2> QED BY <1>4, <2>1 DEF SweepStep, SweepPeek, SweepLock, SweepSave, herdr
<1>5. ASSUME NEW q \in Procs, ReapStep(q) PROVE FALSE
  <2>1. CASE ReapClose(q)
    <3>1. q = p
      BY <1>0, <2>1 DEF ReapClose, ReapNext, Goto
    <3>2. task[p].pane \in Drovr
      BY <1>0, <2>1, <3>1 DEF ReapClose, At, TaskInv, TaskOwn
    <3> QED BY <1>0, <2>1, <3>1, <3>2 DEF ReapClose, Closing, herdr
  <2> QED BY <1>5, <2>1 DEF ReapStep, ReapLock, ReapRelease, ReapOver, herdr
<1>6. ASSUME NEW q \in Procs, CleanupStep(q) PROVE task[p].at = "closeAll" /\ i \notin task[p].gone
  <2>1. q = p
    BY <1>0, <1>6 DEF CleanupStep, CleanupList, CleanupCloseAll, CleanupCloseEach, Exit
  <2>2. CASE CleanupCloseAll(p)
    BY <1>0, <2>2 DEF CleanupCloseAll, At, TaskOwn
  <2>3. CASE CleanupCloseEach(p)
    <3>1. task[p].todo \subseteq Drovr
      BY <1>0, <2>3 DEF CleanupCloseEach, At, TaskOwn
    <3> QED BY <1>0, <2>3, <3>1 DEF CleanupCloseEach, TryClose, Closing, herdr
  <2>4. ~ CleanupList(p)
    BY DEF CleanupList, herdr
  <2> QED BY <1>6, <2>1, <2>2, <2>3, <2>4 DEF CleanupStep
<1>7. ASSUME NEW q \in Procs, Kill(q) PROVE FALSE
  BY <1>7 DEF Kill, herdr
<1>8. ASSUME NEW ph \in Phases, Complete(ph) \/ Reopen(ph) PROVE FALSE
  BY <1>8 DEF Complete, Reopen, herdr
<1>9. ~ HumanOpens /\ ~ HumanCloses /\ ~ UNCHANGED vars
  BY DEF HumanOpens, HumanCloses, vars, locals
<1> QED
  BY <1>1, <1>2, <1>3, <1>4, <1>5, <1>6, <1>7, <1>8, <1>9 DEF Next, Step

\* "never close what you cannot prove is yours", for every command, with any
\* number of kills and failures, as long as herdr does not reissue a pane id:
\* only cleanup's workspace close can take a pane of the human's down, and only
\* one she opened after cleanup had listed the workspace (close_run_panes,
\* reap_retired, phase_reap, surrender_unrecordable_pane).
THEOREM ClosesOurs == ASSUME ~Reuse PROVE Spec => ClosesOnlyOurs
<1>1. LedgerInv /\ OwnInv /\ [Next]_vars =>
        [\A p \in Procs : task[p].at # "idle" /\ task'[p] # task[p]
            => \A i \in human \ human' : (task[p].at = "closeAll" /\ i \notin task[p].gone)]_vars
  BY ClosesStep
<1>2. Init => LedgerInv /\ OwnInv
  BY InitInv, OwnInit
<1>3. LedgerInv /\ OwnInv /\ [Next]_vars => LedgerInv' /\ OwnInv'
  BY LedgerStep, OwnNext
<1> QED BY <1>1, <1>2, <1>3, PTL DEF Spec, ClosesOnlyOurs

-----------------------------------------------------------------------------
(* One lock: rehydrate, reap and cleanup side by side, as ledger_locked runs them *)

\* No `phase start`, which takes no lock; nobody killed; and at most two of a
\* command's calls fail: a pane whose launch, record and close all fail is lost,
\* which discard_unlaunched_pane and surrender_unrecordable_pane can only report.
LockedUse == "start" \notin Commands /\ ~Reuse /\ MaxKills = 0 /\ MaxFaults <= 2

UnderLock == {"tab", "launch", "commit", "ready", "discard", "surrender", "giveBack", "close",
              "sweep", "sweepSave", "reapClose", "release"}
LockInv == \A p \in Procs : task[p].at \in UnderLock <=> lock = p

SamePanes(l, m) == l.pane = m.pane /\ l.retired = m.retired

\* What the holder of the lock knows: its copy is the file's but for the
\* statuses, the pane it opened is new, the pane it reaps or gives back is the
\* one recorded, the panes it forgets are gone, and how much has gone wrong.
HandInv(t, c) ==
    /\ t.kind # "start"
    /\ t.pane # None => t.at \in UnderLock \ {"tab", "sweep", "sweepSave"}
    /\ t.at \in {"tab", "launch", "commit", "discard"} => SamePanes(c, disk)
    /\ t.at \in {"tab", "launch", "commit"} => t.kind = "rehydrate" /\ disk.pane[t.ph] = None
    /\ t.at = "launch" => t.created
    /\ t.at \in {"launch", "discard"} => agent[t.pane] = None
    /\ t.at \in {"ready", "giveBack", "reapClose", "release"} => disk.pane[t.ph] = t.pane
    /\ t.at = "discard" /\ t.pane \in live => faults >= 1
    /\ t.at = "surrender" => faults >= 1
    /\ t.at = "close" /\ t.pane \in live =>
          \/ disk.pane[t.ph] = t.pane
          \/ t.pane \in disk.retired
          \/ faults >= 2
    /\ t.at \in {"sweep", "sweepSave"} => t.gone \cap live = {} /\ t.gone \subseteq issued

\* An agent's pane is the one recorded for its phase, a retired one, or in the
\* hands of the command that launched it and has yet to record it.
AgentInv ==
    \A i \in Panes : agent[i] # None =>
        /\ i \in live
        /\ \/ disk.pane[agent[i]] = i
           \/ i \in disk.retired
           \/ \E p \in Procs : /\ task[p].pane = i /\ task[p].ph = agent[i]
                               /\ task[p].at \in {"commit", "surrender", "close"}

IssuedInv == live \subseteq issued \cup {Root} /\ kills = 0 /\ faults <= 2

LockedInv == /\ LockInv /\ IssuedInv /\ NoStrandedPane /\ AgentInv
             /\ \A p \in Procs : HandInv(task[p], copy[p])

\* Only p moves.
Others(p) == \A q \in Procs \ {p} : task'[q] = task[q] /\ copy'[q] = copy[q]

\* A step that edits no registration, opens no pane of drovr's and launches no
\* agent: the processes that wait for the lock, cleanup and the human do no more.
Calm ==
    /\ disk'.pane = disk.pane /\ disk'.retired = disk.retired
    /\ issued \subseteq issued' /\ live' \subseteq issued' \cup {Root}
    /\ live' \cap (issued \cup {Root}) \subseteq live
    /\ live' \ human' \subseteq live \ human
    /\ \A i \in Panes : agent'[i] # None => agent'[i] = agent[i] /\ i \in live'
    /\ faults <= faults' /\ faults' <= 2 /\ kills' = 0 /\ faults' \in Nat

\* A command that waits for the lock changes nothing that is held under it.
LEMMA TryCalm ==
    ASSUME LedgerInv, LockedUse, IssuedInv, \/ UNCHANGED bounds
                                            \/ \E ok \in BOOLEAN : Try(ok)
    PROVE  faults <= faults' /\ faults' <= 2 /\ kills' = 0 /\ faults' \in Nat
BY DEF LedgerInv, TypeOK, LockedUse, IssuedInv, Try, bounds

\* Nor does a workspace that a person rearranges outside any command.
LEMMA HerdrCalm ==
    ASSUME LedgerInv, LockedUse, OwnInv, IssuedInv, AgentInv,
           disk'.pane = disk.pane /\ disk'.retired = disk.retired,
           faults <= faults' /\ faults' <= 2 /\ kills' = 0 /\ faults' \in Nat,
           \/ UNCHANGED herdr
           \/ \E S : Closing(S)
           \/ HumanOpens
    PROVE  Calm
<1> USE DEF LedgerInv, TypeOK, LockedUse, OwnInv, IssuedInv, AgentInv, Calm, Panes
<1>1. CASE UNCHANGED herdr
  BY <1>1 DEF herdr
<1>2. ASSUME NEW S, Closing(S) PROVE Calm
  BY <1>2 DEF Closing
<1>3. CASE HumanOpens
  BY <1>3 DEF HumanOpens, Opening, Openable
<1> QED BY <1>1, <1>2, <1>3

\* A bystander, and the holder too, keeps what it knows through a calm step.
LEMMA HandCalm ==
    ASSUME LedgerInv, OwnInv, Calm, NEW q \in Procs, HandInv(task[q], copy[q]),
           task'[q] = task[q], copy'[q] = copy[q]
    PROVE  HandInv(task[q], copy[q])'
<1>1. task[q] \in Tasks /\ TaskInv(task[q], copy[q]) /\ TaskOwn(task[q], Drovr)
  BY DEF LedgerInv, TypeOK, OwnInv
<1>2. task[q].pane \in live' /\ task[q].pane # None => task[q].pane \in live
  BY <1>1 DEF TaskOwn, Drovr, Calm
<1>3. task[q].pane \in Panes => (agent[task[q].pane] = None => agent'[task[q].pane] = None)
  BY DEF Calm
<1>4. task[q].at \in {"launch", "discard"} => agent'[task[q].pane] = None
  BY <1>1, <1>3 DEF HandInv, TaskInv, Panes
<1>5. task[q].at \in {"sweep", "sweepSave"} => task[q].gone \cap live' = {} /\ task[q].gone \subseteq issued'
  BY DEF HandInv, Calm
<1>6. task[q].at \in {"discard", "close"} /\ task[q].pane \in live' => task[q].pane \in live
  BY <1>1, <1>2 DEF TaskInv
<1>7. faults \in Nat /\ faults' >= faults /\ faults' \in Nat
  BY DEF Calm, LedgerInv, TypeOK
<1>8. disk'.pane = disk.pane /\ disk'.retired = disk.retired
  BY DEF Calm
<1> QED BY <1>4, <1>5, <1>6, <1>7, <1>8 DEF HandInv, SamePanes

\* What a process that does not hold the lock says of itself, no edit disturbs.
LEMMA HandFree ==
    ASSUME NEW q \in Procs, HandInv(task[q], copy[q]), task[q].at \notin UnderLock,
           task'[q] = task[q], copy'[q] = copy[q]
    PROVE  HandInv(task[q], copy[q])'
BY DEF HandInv, UnderLock

LEMMA LockMoves ==
    ASSUME LockInv, NEW p \in Procs, Others(p),
           \/ lock' = lock /\ (task'[p].at \in UnderLock <=> task[p].at \in UnderLock)
           \/ lock' = p /\ lock = Nobody /\ task'[p].at \in UnderLock
           \/ lock' = (IF lock = p THEN Nobody ELSE lock) /\ task'[p].at \notin UnderLock
    PROVE  LockInv'
BY DEF LockInv, Others, Nobody

\* A calm step of a command. The pane it had in hand is still in hand, or is
\* gone, or is on record.
LEMMA CalmStep ==
    ASSUME LedgerInv, OwnInv, LockedInv, Calm, LockInv', NEW p \in Procs, Others(p),
           HandInv(task[p], copy[p])',
           \/ task[p].pane \notin live'
           \/ /\ task'[p].pane = task[p].pane /\ task'[p].ph = task[p].ph
              /\ task[p].at \in {"commit", "surrender", "close"}
                    => task'[p].at \in {"commit", "surrender", "close"}
           \/ task[p].pane \in disk.retired
           \/ task[p].ph \in Phases /\ disk.pane[task[p].ph] = task[p].pane
    PROVE  LockedInv'
<1>1. \A q \in Procs : HandInv(task[q], copy[q])'
  BY HandCalm DEF LockedInv, Others
<1>2. IssuedInv'
  BY DEF Calm, IssuedInv
<1>3. NoStrandedPane'
  <2> SUFFICES ASSUME NEW i \in live', i \notin human'
               PROVE  i \in Ours(disk') \/ \E q \in Procs : task'[q].pane = i
    BY DEF NoStrandedPane
  <2>1. i \in live /\ i \notin human /\ Ours(disk') = Ours(disk)
    BY DEF Calm, Ours, Held
  <2>2. task[p].pane = i => i \in Ours(disk) \/ task'[p].pane = i
    <3>1. i # None
      BY <2>1 DEF LedgerInv, TypeOK, Panes
    <3> QED BY <3>1 DEF Ours, Held
  <2>3. i \in Ours(disk) \/ \E q \in Procs : task[q].pane = i
    BY <2>1 DEF LockedInv, NoStrandedPane
  <2> QED BY <2>1, <2>2, <2>3 DEF Others
<1>4. AgentInv'
  <2> SUFFICES ASSUME NEW i \in Panes, agent'[i] # None
               PROVE  /\ i \in live'
                      /\ \/ disk'.pane[agent'[i]] = i
                         \/ i \in disk'.retired
                         \/ \E q \in Procs : /\ task'[q].pane = i /\ task'[q].ph = agent'[i]
                                             /\ task'[q].at \in {"commit", "surrender", "close"}
    BY DEF AgentInv
  <2>1. agent'[i] = agent[i] /\ i \in live' /\ disk'.pane = disk.pane /\ disk'.retired = disk.retired
    BY DEF Calm
  <2>2. CASE disk.pane[agent[i]] = i \/ i \in disk.retired
    BY <2>1, <2>2
  <2>3. ASSUME NEW q \in Procs, task[q].pane = i, task[q].ph = agent[i],
               task[q].at \in {"commit", "surrender", "close"}
        PROVE  \/ disk.pane[agent[i]] = i
               \/ i \in disk.retired
               \/ \E r \in Procs : /\ task'[r].pane = i /\ task'[r].ph = agent[i]
                                   /\ task'[r].at \in {"commit", "surrender", "close"}
    BY <2>1, <2>3 DEF Others
  <2> QED BY <2>1, <2>2, <2>3 DEF LockedInv, AgentInv
<1> QED BY <1>1, <1>2, <1>3, <1>4 DEF LockedInv

\* A step of the lock's holder: nobody else has anything in hand.
LEMMA HolderStep ==
    ASSUME LedgerInv, LockedInv, NEW p \in Procs, task[p].at \in UnderLock, Others(p), LockInv',
           HandInv(task[p], copy[p])', IssuedInv', NoStrandedPane', AgentInv'
    PROVE  LockedInv'
<1>1. ASSUME NEW q \in Procs, q # p PROVE HandInv(task[q], copy[q])'
  <2>1. task[q].at \notin UnderLock
    BY <1>1 DEF LockedInv, LockInv
  <2> QED BY <1>1, <2>1, HandFree DEF LockedInv, Others
<1> QED BY <1>1 DEF LockedInv

\* The first step of a command: only rehydrate takes the lock with it.
LEMMA LockedBegins ==
    ASSUME LedgerInv, OwnInv, LockedUse, LockedInv, NEW p \in Procs, BeginStep(p)
    PROVE  LockedInv'
<1>0. /\ task \in [Procs -> Tasks] /\ copy \in [Procs -> Ledger] /\ task[p].at = "idle"
      /\ HandInv(task[p], copy[p]) /\ task[p].pane = None /\ lock # p
      /\ LockInv /\ IssuedInv /\ AgentInv
  <2>1. task[p].at = "idle" /\ task[p].at \notin UnderLock
    BY DEF BeginStep, StartBegin, RehydrateBegin, ReapBegin, CleanupBegin, Begin, At, UnderLock
  <2> QED BY <2>1 DEF LedgerInv, TypeOK, LockedInv, HandInv, LockInv
<1>1. UNCHANGED <<herdr, disk>>
  BY DEF BeginStep, StartBegin, RehydrateBegin, ReapBegin, CleanupBegin, Begin
<1>2. Calm
  <2>1. UNCHANGED bounds
    BY DEF BeginStep, StartBegin, RehydrateBegin, ReapBegin, CleanupBegin, Begin
  <2> QED BY <1>0, <1>1, <2>1, TryCalm, HerdrCalm
<1>3. task[p].pane \notin live'
  BY <1>0, <1>1 DEF herdr, LedgerInv, TypeOK, Panes
<1>4. ASSUME NEW ph \in Phases, RehydrateBegin(p, ph) PROVE LockedInv'
  <2>1. /\ Others(p) /\ copy'[p] = disk /\ lock = Nobody /\ lock' = p
        /\ task'[p] = [Idle EXCEPT !.at = "tab", !.kind = "rehydrate", !.ph = ph]
    BY <1>0, <1>4 DEF RehydrateBegin, Begin, Others
  <2>2. LockInv'
    BY <1>0, <2>1, LockMoves DEF UnderLock, Idle
  <2>3. HandInv(task[p], copy[p])'
    BY <1>1, <1>4, <2>1 DEF HandInv, Idle, SamePanes, RehydrateBegin, Rehydratable
  <2> QED BY <1>2, <1>3, <2>1, <2>2, <2>3, CalmStep
<1>5. ASSUME NEW t, task' = [task EXCEPT ![p] = t], t.at \in {"peek", "list"},
             t.kind # "start", t.pane = None, Others(p), lock' = lock
      PROVE  LockedInv'
  <2>1. task'[p] = t
    BY <1>0, <1>5
  <2>2. LockInv'
    BY <1>0, <1>5, <2>1, LockMoves DEF UnderLock
  <2>3. HandInv(task[p], copy[p])'
    BY <1>5, <2>1 DEF HandInv
  <2> QED BY <1>2, <1>3, <1>5, <2>2, <2>3, CalmStep
<1>6. ASSUME NEW ph \in Phases, ReapBegin(p, ph) PROVE LockedInv'
  <2> DEFINE t == [Idle EXCEPT !.at = "peek", !.kind = "reap", !.ph = ph]
  <2>1. t.at = "peek" /\ t.kind = "reap" /\ t.pane = None
    BY DEF Idle
  <2>2. task' = [task EXCEPT ![p] = t] /\ Others(p) /\ lock' = lock
    BY <1>0, <1>6 DEF ReapBegin, Begin, Others
  <2> HIDE DEF t
  <2> QED BY <1>5, <2>1, <2>2
<1>7. CASE CleanupBegin(p)
  <2> DEFINE t == [Idle EXCEPT !.at = "list", !.kind = "cleanup", !.ph = None]
  <2>1. t.at = "list" /\ t.kind = "cleanup" /\ t.pane = None
    BY DEF Idle
  <2>2. task' = [task EXCEPT ![p] = t] /\ Others(p) /\ lock' = lock
    BY <1>0, <1>7 DEF CleanupBegin, Begin, Others
  <2> HIDE DEF t
  <2> QED BY <1>5, <2>1, <2>2
<1>8. ~ \E ph \in Phases : StartBegin(p, ph)
  BY DEF StartBegin, Begin, LockedUse
<1> QED BY <1>4, <1>6, <1>7, <1>8 DEF BeginStep

\* Where LockedInv is read: the record, and what each command under the lock holds.
LEMMA LockedFacts ==
    ASSUME LedgerInv, OwnInv, LockedInv, NEW p \in Procs
    PROVE  /\ task \in [Procs -> Tasks] /\ copy \in [Procs -> Ledger] /\ disk \in Ledger
           /\ task[p] \in Tasks /\ copy[p] \in Ledger
           /\ TaskInv(task[p], copy[p]) /\ HandInv(task[p], copy[p]) /\ TaskOwn(task[p], Drovr)
           /\ task[p].kind # "start" /\ task[p].at # "persist"
           /\ task[p].at \in UnderLock <=> lock = p
           /\ task[p].pane = None => task[p].pane \notin live
           /\ LockInv /\ IssuedInv /\ NoStrandedPane /\ AgentInv
           /\ faults \in Nat
<1>1. HandInv(task[p], copy[p]) /\ TaskInv(task[p], copy[p])
  BY DEF LockedInv, LedgerInv
<1>2. task[p].kind # "start" /\ task[p].at # "persist"
  BY <1>1 DEF HandInv, TaskInv
<1> QED BY <1>1, <1>2 DEF LedgerInv, TypeOK, OwnInv, LockedInv, LockInv, Panes

\* A command that ends leaves nothing in hand: what it held is gone or recorded.
LEMMA LockedExit ==
    ASSUME LedgerInv, OwnInv, LockedInv, Calm, NEW p \in Procs, Exit(p),
           \/ task[p].pane \notin live'
           \/ task[p].pane \in disk.retired
           \/ task[p].ph \in Phases /\ disk.pane[task[p].ph] = task[p].pane
    PROVE  LockedInv'
<1>1. Others(p) /\ task'[p] = Idle /\ lock' = IF lock = p THEN Nobody ELSE lock
  BY LockedFacts DEF Exit, Others
<1>2. LockInv'
  BY <1>1, LockMoves, LockedFacts DEF UnderLock, Idle
<1>3. HandInv(task[p], copy[p])'
  BY <1>1 DEF HandInv, Idle
<1> QED BY <1>1, <1>2, <1>3, CalmStep

\* A command that moves on and keeps the lock.
LEMMA LockedGoto ==
    ASSUME LedgerInv, OwnInv, LockedInv, NEW p \in Procs, task[p].at \in UnderLock,
           NEW l \in UnderLock, Goto(p, l), copy' = copy, lock' = lock
    PROVE  /\ Others(p) /\ task'[p] = [task[p] EXCEPT !.at = l] /\ copy'[p] = copy[p] /\ LockInv'
           /\ task'[p].at = l /\ task'[p].pane = task[p].pane /\ task'[p].ph = task[p].ph
           /\ task'[p].kind = task[p].kind /\ task'[p].created = task[p].created
           /\ task'[p].gone = task[p].gone /\ task'[p].todo = task[p].todo
<1>1. task'[p] = [task[p] EXCEPT !.at = l] /\ Others(p)
  BY LockedFacts DEF Goto, Others
<1>2. task'[p].at = l
  BY <1>1, LockedFacts DEF Tasks
<1>3. LockInv'
  BY <1>1, <1>2, LockedFacts, LockMoves
<1> QED BY <1>1, <1>2, <1>3, LockedFacts DEF Tasks

\* Opening the tab, launching the agent, and giving up on either.
LEMMA LockedLaunches ==
    ASSUME LedgerInv, OwnInv, LockedUse, LockedInv, NEW p \in Procs, LaunchStep(p)
    PROVE  LockedInv'
<1>0. /\ task \in [Procs -> Tasks] /\ copy \in [Procs -> Ledger] /\ disk \in Ledger
      /\ task[p] \in Tasks /\ copy[p] \in Ledger
      /\ TaskInv(task[p], copy[p]) /\ HandInv(task[p], copy[p]) /\ TaskOwn(task[p], Drovr)
      /\ task[p].at \in UnderLock <=> lock = p
      /\ LockInv /\ IssuedInv /\ NoStrandedPane /\ AgentInv /\ faults \in Nat
  BY LockedFacts
<1>00. task[p].at \in UnderLock /\ lock = p
  BY <1>0 DEF LaunchStep, Tab, Launch, LaunchFails, Discard, CloseAndFail, At, UnderLock
<1>1. CASE Tab(p)
  <2>0. /\ task[p].at = "tab" /\ task[p].pane = None /\ copy[p].pane[task[p].ph] = None /\ disk' = disk
        /\ SamePanes(copy[p], disk) /\ task[p].kind = "rehydrate" /\ disk.pane[task[p].ph] = None
        /\ task[p].pane \notin live'
    <3>1. task[p].at = "tab" /\ disk' = disk
      BY <1>1 DEF Tab, At
    <3>2. None \notin live'
      <4>1. live \subseteq Panes
        BY DEF LedgerInv, TypeOK
      <4>2. live' \subseteq live \cup Ids
        BY <1>1 DEF Tab, Opening, herdr
      <4> QED BY <4>1, <4>2 DEF Panes
    <3> QED BY <1>0, <3>1, <3>2 DEF HandInv, SamePanes
  <2>1. ASSUME NEW i \in Ids, Opening(i), UNCHANGED <<human, lock, copy, bounds>>,
               task' = [task EXCEPT ![p].at = "launch", ![p].pane = i, ![p].created = TRUE]
        PROVE  LockedInv'
    <3>1. /\ Others(p) /\ copy'[p] = copy[p] /\ task'[p].at = "launch" /\ task'[p].pane = i
          /\ task'[p].created /\ task'[p].ph = task[p].ph /\ task'[p].kind = task[p].kind
      BY <1>0, <2>1 DEF Others, Tasks
    <3>2. i \notin live /\ i \notin issued /\ agent[i] = None
      BY <1>0, <2>1 DEF Opening, Openable, LockedUse, IssuedInv, AgentInv, Panes
    <3>3. live' = live \cup {i} /\ agent' = agent /\ issued' = issued \cup {i}
      BY <2>1 DEF Opening
    <3>4. LockInv'
      BY <1>0, <1>00, <2>1, <3>1, LockMoves DEF UnderLock
    <3>5. HandInv(task[p], copy[p])'
      BY <1>0, <2>0, <3>1, <3>2, <3>3 DEF HandInv, UnderLock
    <3>6. IssuedInv'
      BY <1>0, <2>1, <3>3 DEF IssuedInv, bounds
    <3>7. NoStrandedPane'
      BY <1>0, <2>0, <2>1, <3>1, <3>3 DEF NoStrandedPane, Others
    <3>8. AgentInv'
      BY <1>0, <2>0, <3>1, <3>3 DEF AgentInv, Others
    <3> QED BY <1>00, <3>1, <3>4, <3>5, <3>6, <3>7, <3>8, HolderStep
  <2>2. CASE Exit(p) /\ UNCHANGED herdr /\ (IF Openable = {} THEN UNCHANGED bounds ELSE Try(FALSE))
    <3>1. Calm
      BY <1>0, <2>0, <2>2, TryCalm, HerdrCalm
    <3> QED BY <2>0, <2>2, <3>1, LockedExit
  <2> QED BY <1>1, <2>0, <2>1, <2>2 DEF Tab
<1>2. CASE Launch(p)
  <2>0. /\ task[p].at = "launch" /\ task[p].pane \in live /\ task[p].ph \in Phases
        /\ UNCHANGED <<live, human, issued, disk, lock, copy, bounds>> /\ Goto(p, "commit")
        /\ agent' = [agent EXCEPT ![task[p].pane] = task[p].ph]
    BY <1>0, <1>2 DEF Launch, At, TaskInv
  <2>1. /\ Others(p) /\ task'[p] = [task[p] EXCEPT !.at = "commit"] /\ copy'[p] = copy[p] /\ LockInv'
        /\ task'[p].at = "commit" /\ task'[p].pane = task[p].pane /\ task'[p].ph = task[p].ph
        /\ task'[p].kind = task[p].kind /\ task'[p].created = task[p].created
    BY <1>00, <2>0, LockedGoto DEF UnderLock
  <2>2. HandInv(task[p], copy[p])'
    BY <1>0, <2>0, <2>1 DEF HandInv, UnderLock, SamePanes
  <2>3. IssuedInv'
    BY <1>0, <2>0 DEF IssuedInv, bounds
  <2>4. \A q \in Procs : task'[q].pane = task[q].pane /\ task'[q].ph = task[q].ph
                         /\ (q # p => task'[q].at = task[q].at)
    BY <2>1 DEF Others
  <2>5. NoStrandedPane'
    BY <1>0, <2>0, <2>4 DEF NoStrandedPane
  <2>6. AgentInv'
    <3>1. \A i \in Panes : agent'[i] = IF i = task[p].pane THEN task[p].ph ELSE agent[i]
      BY <2>0 DEF LedgerInv, TypeOK
    <3> SUFFICES ASSUME NEW i \in Panes, agent'[i] # None
                 PROVE  /\ i \in live
                        /\ \/ disk.pane[agent'[i]] = i
                           \/ i \in disk.retired
                           \/ \E q \in Procs : /\ task'[q].pane = i /\ task'[q].ph = agent'[i]
                                               /\ task'[q].at \in {"commit", "surrender", "close"}
      BY <2>0 DEF AgentInv
    <3>2. CASE i = task[p].pane
      <4>1. agent'[i] = task[p].ph /\ i \in live
        BY <2>0, <3>1, <3>2
      <4>2. task'[p].pane = i /\ task'[p].ph = task[p].ph /\ task'[p].at = "commit"
        BY ONLY <2>1, <3>2
      <4> QED BY <4>1, <4>2
    <3>3. CASE i # task[p].pane
      BY <1>0, <2>0, <2>4, <3>1, <3>3 DEF AgentInv
    <3> QED BY <3>2, <3>3
  <2> QED BY <1>00, <2>1, <2>2, <2>3, <2>5, <2>6, HolderStep
<1>3. CASE LaunchFails(p)
  <2>0. /\ task[p].at = "launch" /\ task[p].created
        /\ UNCHANGED <<herdr, disk, lock, copy>> /\ Goto(p, "discard")
        /\ IF task[p].pane \in live THEN Try(FALSE) ELSE UNCHANGED bounds
    BY <1>0, <1>3 DEF LaunchFails, At, HandInv
  <2>1. Calm
    BY <1>0, <2>0, TryCalm, HerdrCalm
  <2>2. /\ Others(p) /\ copy'[p] = copy[p] /\ LockInv'
        /\ task'[p].at = "discard" /\ task'[p].pane = task[p].pane /\ task'[p].ph = task[p].ph
        /\ task'[p].kind = task[p].kind
    BY <1>00, <2>0, LockedGoto DEF UnderLock
  <2>3. task[p].pane \in live => faults' >= 1
    BY <1>0, <2>0 DEF Try
  <2>4. HandInv(task[p], copy[p])'
    BY <1>0, <2>0, <2>2, <2>3 DEF HandInv, UnderLock, SamePanes, herdr
  <2> QED BY <2>0, <2>1, <2>2, <2>4, CalmStep
<1>4. CASE Discard(p)
  <2>0. PICK ok \in BOOLEAN : Try(ok) /\ Save(ok, Retire(copy[p], task[p].pane))
    BY <1>4 DEF Discard
  <2>1. task[p].at = "discard" /\ UNCHANGED <<herdr, lock, copy>> /\ Goto(p, "close")
    BY <1>4 DEF Discard, At
  <2>2. /\ Others(p) /\ copy'[p] = copy[p] /\ LockInv'
        /\ task'[p].at = "close" /\ task'[p].pane = task[p].pane /\ task'[p].ph = task[p].ph
        /\ task'[p].kind = task[p].kind
    BY <1>00, <2>1, LockedGoto DEF UnderLock
  <2>3. /\ disk'.pane = disk.pane
        /\ disk'.retired = IF ok THEN disk.retired \cup {task[p].pane} ELSE disk.retired
    BY <1>0, <2>0, <2>1 DEF Save, Retire, HandInv, SamePanes, Ledger
  <2>4. faults' = IF ok THEN faults ELSE faults + 1
    BY <2>0 DEF Try
  <2>5. HandInv(task[p], copy[p])'
    BY <1>0, <2>1, <2>2, <2>3, <2>4 DEF HandInv, UnderLock, herdr
  <2>6. IssuedInv'
    BY <1>0, <2>0, <2>1, TryCalm DEF IssuedInv, herdr
  <2>7. NoStrandedPane'
    BY <1>0, <2>1, <2>2, <2>3 DEF NoStrandedPane, Others, Ours, Held, herdr
  <2>8. AgentInv'
    BY <1>0, <2>1, <2>2, <2>3 DEF AgentInv, Others, herdr
  <2> QED BY <1>00, <2>2, <2>5, <2>6, <2>7, <2>8, HolderStep
<1>5. CASE CloseAndFail(p)
  <2>0. PICK ok \in BOOLEAN : TryClose(ok, task[p].pane)
    BY <1>5 DEF CloseAndFail
  <2>1. task[p].at = "close" /\ Exit(p) /\ disk' = disk
    BY <1>5 DEF CloseAndFail, At
  <2>2. Calm
    BY <1>0, <2>0, <2>1, TryCalm, HerdrCalm DEF TryClose
  <2>3. \/ task[p].pane \notin live'
        \/ task[p].pane \in disk.retired
        \/ task[p].ph \in Phases /\ disk.pane[task[p].ph] = task[p].pane
    <3>1. task[p].ph \in Phases
      BY <1>0, <2>1 DEF TaskInv
    <3>2. CASE ok
      BY <2>0, <3>2 DEF TryClose, Closing
    <3>3. CASE ~ok
      <4>1. task[p].pane \in live /\ faults < MaxFaults
        BY <2>0, <3>3 DEF TryClose, Try
      <4>2. ~(faults >= 2)
        BY <1>0, <4>1 DEF LockedUse
      <4> QED BY <1>0, <2>1, <3>1, <4>1, <4>2 DEF HandInv
    <3> QED BY <3>2, <3>3
  <2> QED BY <2>1, <2>2, <2>3, LockedExit
<1> QED BY <1>1, <1>2, <1>3, <1>4, <1>5 DEF LaunchStep

\* release_phase_from_pane moves a pane from the phases to the retired ones.
LEMMA ReleaseKeeps ==
    ASSUME LedgerInv, NoStrandedPane, AgentInv, NEW p \in Procs, Others(p),
           task[p].ph \in Phases, task[p].pane \in Panes, disk.pane[task[p].ph] = task[p].pane,
           task[p].at \notin {"commit", "surrender", "close"}, NEW ok \in BOOLEAN,
           live' = live, human' = human, agent' = agent,
           disk'.pane = IF ok THEN [disk.pane EXCEPT ![task[p].ph] = None] ELSE disk.pane,
           disk'.retired = IF ok THEN disk.retired \cup {task[p].pane} ELSE disk.retired
    PROVE  NoStrandedPane' /\ AgentInv'
<1>0. disk \in Ledger /\ agent \in [Panes -> Phases \cup {None}] /\ live \subseteq Panes
  BY DEF LedgerInv, TypeOK
<1>1. Ours(disk) \subseteq Ours(disk') /\ task[p].pane \in Ours(disk')
  BY <1>0 DEF Ours, Held, Ledger, Panes
<1>2. NoStrandedPane'
  <2> SUFFICES ASSUME NEW i \in live, i \notin human
               PROVE  i \in Ours(disk') \/ \E q \in Procs : task'[q].pane = i
    BY DEF NoStrandedPane
  <2> QED BY <1>1 DEF NoStrandedPane, Others
<1>3. AgentInv'
  <2> SUFFICES ASSUME NEW i \in Panes, agent[i] # None
               PROVE  /\ i \in live
                      /\ \/ disk'.pane[agent[i]] = i
                         \/ i \in disk'.retired
                         \/ \E q \in Procs : /\ task'[q].pane = i /\ task'[q].ph = agent[i]
                                             /\ task'[q].at \in {"commit", "surrender", "close"}
    BY DEF AgentInv
  <2>1. disk.pane[agent[i]] = i => disk'.pane[agent[i]] = i \/ i \in disk'.retired
    BY <1>0 DEF Ledger
  <2>2. i \in disk.retired => i \in disk'.retired
    OBVIOUS
  <2>3. ASSUME NEW q \in Procs, task[q].pane = i, task[q].ph = agent[i],
               task[q].at \in {"commit", "surrender", "close"}
        PROVE  \E r \in Procs : /\ task'[r].pane = i /\ task'[r].ph = agent[i]
                                /\ task'[r].at \in {"commit", "surrender", "close"}
    BY <2>3 DEF Others
  <2> QED BY <2>1, <2>2, <2>3 DEF AgentInv
<1> QED BY <1>2, <1>3

\* Recording the pane, or surrendering it, and giving a misattributed one back.
LEMMA LockedRehydrates ==
    ASSUME LedgerInv, OwnInv, LockedUse, LockedInv, NEW p \in Procs, RehydrateStep(p)
    PROVE  LockedInv'
<1>0. /\ task \in [Procs -> Tasks] /\ copy \in [Procs -> Ledger] /\ disk \in Ledger
      /\ task[p] \in Tasks /\ copy[p] \in Ledger
      /\ TaskInv(task[p], copy[p]) /\ HandInv(task[p], copy[p]) /\ TaskOwn(task[p], Drovr)
      /\ task[p].at \in UnderLock <=> lock = p
      /\ LockInv /\ IssuedInv /\ NoStrandedPane /\ AgentInv /\ faults \in Nat
  BY LockedFacts
<1>00. /\ task[p].at \in UnderLock /\ lock = p /\ task[p].ph \in Phases /\ task[p].pane \in Panes
       /\ UNCHANGED herdr
  BY <1>0 DEF RehydrateStep, RehydrateCommit, Surrender, RehydrateReady, GiveBack, At, UnderLock, TaskInv, Panes
<1>1. CASE RehydrateCommit(p)
  <2>0. PICK ok \in BOOLEAN : /\ Try(ok) /\ Save(ok, Register(copy[p], task[p].ph, task[p].pane))
                              /\ Goto(p, IF ok THEN "ready" ELSE "surrender")
    BY <1>1 DEF RehydrateCommit
  <2>1. task[p].at = "commit" /\ UNCHANGED <<lock, copy>>
    BY <1>1 DEF RehydrateCommit, At
  <2>2. disk.pane[task[p].ph] = None /\ SamePanes(copy[p], disk)
    BY <1>0, <2>1 DEF HandInv
  <2>3. /\ Others(p) /\ copy'[p] = copy[p] /\ LockInv'
        /\ task'[p].at = (IF ok THEN "ready" ELSE "surrender")
        /\ task'[p].pane = task[p].pane /\ task'[p].ph = task[p].ph /\ task'[p].kind = task[p].kind
    BY <1>00, <2>0, <2>1, LockedGoto DEF UnderLock
  <2>4. /\ disk'.pane = IF ok THEN [disk.pane EXCEPT ![task[p].ph] = task[p].pane] ELSE disk.pane
        /\ disk'.retired = disk.retired
    BY <1>0, <2>0, <2>2 DEF Save, Register, SamePanes, Ledger
  <2>5. faults' = IF ok THEN faults ELSE faults + 1
    BY <2>0 DEF Try
  <2>6. HandInv(task[p], copy[p])'
    BY <1>0, <1>00, <2>3, <2>4, <2>5 DEF HandInv, UnderLock, Ledger
  <2>7. IssuedInv'
    BY <1>0, <1>00, <2>0, TryCalm DEF IssuedInv, herdr
  <2>8. NoStrandedPane'
    <3>1. Ours(disk) \subseteq Ours(disk')
      BY <1>0, <1>00, <2>2, <2>4 DEF Ours, Held, Ledger
    <3> QED BY <1>0, <1>00, <2>3, <3>1 DEF NoStrandedPane, Others, herdr
  <2>9. AgentInv'
    <3>1. \A x \in Phases : disk.pane[x] # None => disk'.pane[x] = disk.pane[x]
      BY <1>0, <2>2, <2>4 DEF Ledger
    <3>2. ok => disk'.pane[task[p].ph] = task[p].pane
      BY <1>0, <1>00, <2>4 DEF Ledger
    <3>3. agent \in [Panes -> Phases \cup {None}] /\ agent' = agent /\ live' = live
      BY <1>00 DEF LedgerInv, TypeOK, herdr
    <3> SUFFICES ASSUME NEW i \in Panes, agent[i] # None
                 PROVE  /\ i \in live
                        /\ \/ disk'.pane[agent[i]] = i
                           \/ i \in disk'.retired
                           \/ \E q \in Procs : /\ task'[q].pane = i /\ task'[q].ph = agent[i]
                                               /\ task'[q].at \in {"commit", "surrender", "close"}
      BY <3>3 DEF AgentInv
    <3>4. CASE disk.pane[agent[i]] = i \/ i \in disk.retired
      BY <1>0, <2>4, <3>1, <3>3, <3>4 DEF AgentInv, Panes
    <3>5. ASSUME NEW q \in Procs, task[q].pane = i, task[q].ph = agent[i],
                 task[q].at \in {"commit", "surrender", "close"}
          PROVE  \/ disk'.pane[agent[i]] = i
                 \/ \E r \in Procs : /\ task'[r].pane = i /\ task'[r].ph = agent[i]
                                     /\ task'[r].at \in {"commit", "surrender", "close"}
      BY <2>3, <3>2, <3>5 DEF Others
    <3> QED BY <1>0, <3>4, <3>5 DEF AgentInv
  <2> QED BY <1>00, <2>3, <2>6, <2>7, <2>8, <2>9, HolderStep
<1>2. CASE Surrender(p)
  <2>0. PICK ok \in BOOLEAN : Try(ok) /\ Save(ok, Retire(disk, task[p].pane))
    BY <1>2 DEF Surrender
  <2>1. task[p].at = "surrender" /\ UNCHANGED <<lock, copy>> /\ Goto(p, "close")
    BY <1>2 DEF Surrender, At
  <2>2. /\ Others(p) /\ copy'[p] = copy[p] /\ LockInv'
        /\ task'[p].at = "close" /\ task'[p].pane = task[p].pane /\ task'[p].ph = task[p].ph
        /\ task'[p].kind = task[p].kind
    BY <1>00, <2>1, LockedGoto DEF UnderLock
  <2>3. /\ disk'.pane = disk.pane
        /\ disk'.retired = IF ok THEN disk.retired \cup {task[p].pane} ELSE disk.retired
    BY <1>0, <2>0 DEF Save, Retire, Ledger
  <2>4. faults' = IF ok THEN faults ELSE faults + 1
    BY <2>0 DEF Try
  <2>5. HandInv(task[p], copy[p])'
    BY <1>0, <2>1, <2>2, <2>3, <2>4 DEF HandInv, UnderLock
  <2>6. IssuedInv'
    BY <1>0, <1>00, <2>0, TryCalm DEF IssuedInv, herdr
  <2>7. NoStrandedPane'
    BY <1>0, <1>00, <2>2, <2>3 DEF NoStrandedPane, Others, Ours, Held, herdr
  <2>8. AgentInv'
    BY <1>0, <1>00, <2>1, <2>2, <2>3 DEF AgentInv, Others, herdr
  <2> QED BY <1>00, <2>2, <2>5, <2>6, <2>7, <2>8, HolderStep
<1>3. CASE RehydrateReady(p)
  <2>0. task[p].at = "ready" /\ UNCHANGED <<disk, bounds>> /\ disk.pane[task[p].ph] = task[p].pane
    BY <1>0, <1>3 DEF RehydrateReady, At, HandInv
  <2>1. Calm
    BY <1>0, <1>00, <2>0, TryCalm, HerdrCalm
  <2>2. CASE Goto(p, "giveBack") /\ UNCHANGED <<lock, copy>>
    <3>1. /\ Others(p) /\ copy'[p] = copy[p] /\ LockInv'
          /\ task'[p].at = "giveBack" /\ task'[p].pane = task[p].pane /\ task'[p].ph = task[p].ph
          /\ task'[p].kind = task[p].kind
      BY <1>00, <2>2, LockedGoto DEF UnderLock
    <3>2. HandInv(task[p], copy[p])'
      BY <1>0, <2>0, <3>1 DEF HandInv, UnderLock
    <3> QED BY <1>00, <2>0, <2>1, <3>1, <3>2, CalmStep
  <2> QED BY <1>3, <1>00, <2>0, <2>1, <2>2, LockedExit DEF RehydrateReady
<1>4. CASE GiveBack(p)
  <2>0. PICK ok \in BOOLEAN : Try(ok) /\ Save(ok, Released(disk, task[p].ph, task[p].pane))
    BY <1>4 DEF GiveBack
  <2>1. /\ task[p].at = "giveBack" /\ UNCHANGED <<lock, copy>> /\ Goto(p, "close")
        /\ disk.pane[task[p].ph] = task[p].pane
    BY <1>0, <1>4 DEF GiveBack, At, HandInv
  <2>2. /\ Others(p) /\ copy'[p] = copy[p] /\ LockInv'
        /\ task'[p].at = "close" /\ task'[p].pane = task[p].pane /\ task'[p].ph = task[p].ph
        /\ task'[p].kind = task[p].kind
    BY <1>00, <2>1, LockedGoto DEF UnderLock
  <2>3. /\ disk'.pane = IF ok THEN [disk.pane EXCEPT ![task[p].ph] = None] ELSE disk.pane
        /\ disk'.retired = IF ok THEN disk.retired \cup {task[p].pane} ELSE disk.retired
    BY <1>0, <2>0 DEF Save, Released, Ledger
  <2>4. HandInv(task[p], copy[p])'
    BY <1>0, <2>1, <2>2, <2>3 DEF HandInv, UnderLock
  <2>5. IssuedInv'
    BY <1>0, <1>00, <2>0, TryCalm DEF IssuedInv, herdr
  <2>6. NoStrandedPane' /\ AgentInv'
    BY <1>0, <1>00, <2>1, <2>2, <2>3, ReleaseKeeps DEF herdr
  <2> QED BY <1>00, <2>2, <2>4, <2>5, <2>6, HolderStep
<1> QED BY <1>1, <1>2, <1>3, <1>4 DEF RehydrateStep

\* The sweep: what it forgets has left the workspace.
LEMMA LockedSweeps ==
    ASSUME LedgerInv, OwnInv, LockedUse, LockedInv, NEW p \in Procs, SweepStep(p)
    PROVE  LockedInv'
<1>0. /\ task \in [Procs -> Tasks] /\ copy \in [Procs -> Ledger] /\ disk \in Ledger
      /\ task[p] \in Tasks /\ copy[p] \in Ledger
      /\ TaskInv(task[p], copy[p]) /\ HandInv(task[p], copy[p]) /\ TaskOwn(task[p], Drovr)
      /\ task[p].kind # "start"
      /\ task[p].at \in UnderLock <=> lock = p
      /\ LockInv /\ IssuedInv /\ NoStrandedPane /\ AgentInv /\ faults \in Nat
  BY LockedFacts
<1>00. task[p].at \in {"peek", "sweepLock", "sweep", "sweepSave"} /\ task[p].pane = None
  BY <1>0 DEF SweepStep, SweepPeek, SweepLock, SweepClose, SweepSave, At, HandInv, UnderLock
<1>01. task[p].pane \notin live'
  <2>1. live' \subseteq live /\ live \subseteq Panes
    BY DEF SweepStep, SweepPeek, SweepLock, SweepClose, SweepSave, Closing, herdr, LedgerInv, TypeOK
  <2> QED BY <1>00, <2>1 DEF Panes
<1>1. ASSUME NEW c, SweepDone(p, c), \A q \in Procs \ {p} : copy'[q] = copy[q]
      PROVE  Others(p) /\ LockInv' /\ HandInv(task[p], copy[p])' /\ task'[p].pane = None
             /\ task'[p].at = "reapLock"
  <2>1. /\ Others(p) /\ lock' = (IF lock = p THEN Nobody ELSE lock)
        /\ task'[p].at = "reapLock" /\ task'[p].pane = None /\ task'[p].kind = task[p].kind
    BY <1>0, <1>00, <1>1 DEF SweepDone, Others, Tasks
  <2>2. LockInv'
    BY <1>0, <2>1, LockMoves DEF UnderLock
  <2>3. HandInv(task[p], copy[p])'
    BY <1>0, <2>1 DEF HandInv
  <2> QED BY <2>1, <2>2, <2>3
<1>2. CASE SweepPeek(p)
  <2>0. UNCHANGED <<herdr, disk, bounds>> /\ task[p].at = "peek"
    BY <1>2 DEF SweepPeek, At
  <2>1. Calm
    BY <1>0, <2>0, TryCalm, HerdrCalm
  <2>2. CASE Goto(p, "sweepLock") /\ UNCHANGED <<lock, copy>>
    <3>1. /\ Others(p) /\ task'[p].at = "sweepLock" /\ task'[p].pane = None
          /\ task'[p].kind = task[p].kind
      BY <1>0, <1>00, <2>2 DEF Goto, Others, Tasks
    <3>2. LockInv'
      BY <1>0, <2>0, <2>2, <3>1, LockMoves DEF UnderLock
    <3>3. HandInv(task[p], copy[p])'
      BY <1>0, <3>1 DEF HandInv
    <3> QED BY <1>01, <2>1, <3>1, <3>2, <3>3, CalmStep
  <2>3. CASE SweepDone(p, copy[p]) /\ copy' = copy
    BY <1>01, <1>1, <2>1, <2>3, CalmStep
  <2> QED BY <1>0, <1>2, <2>2, <2>3 DEF SweepPeek
<1>3. CASE SweepLock(p)
  <2>0. UNCHANGED <<herdr, disk, bounds>> /\ task[p].at = "sweepLock"
    BY <1>3 DEF SweepLock, At
  <2>1. Calm
    BY <1>0, <2>0, TryCalm, HerdrCalm
  <2>2. CASE SweepDone(p, copy[p]) /\ UNCHANGED copy
    BY <1>01, <1>1, <2>1, <2>2, CalmStep
  <2>3. CASE /\ lock = Nobody /\ lock' = p /\ copy' = [copy EXCEPT ![p] = disk]
             /\ task' = [task EXCEPT ![p].at = "sweep", ![p].todo = ReapableRetired(disk)]
    <3>1. /\ Others(p) /\ task'[p].at = "sweep" /\ task'[p].pane = None
          /\ task'[p].kind = task[p].kind /\ task'[p].gone = task[p].gone
      BY <1>0, <1>00, <2>3 DEF Others, Tasks
    <3>2. LockInv'
      BY <1>0, <2>3, <3>1, LockMoves DEF UnderLock
    <3>3. task[p].gone = {}
      BY <1>0, <2>0 DEF TaskInv
    <3>4. HandInv(task[p], copy[p])'
      BY <1>0, <3>1, <3>3 DEF HandInv
    <3> QED BY <1>01, <2>1, <3>1, <3>2, <3>4, CalmStep
  <2> QED BY <1>3, <2>2, <2>3 DEF SweepLock
<1>4. CASE SweepClose(p)
  <2>0. task[p].at = "sweep" /\ UNCHANGED <<disk, lock, copy>> /\ lock = p
    BY <1>0, <1>4 DEF SweepClose, At, UnderLock
  <2>1. PICK i \in task[p].todo, ok \in BOOLEAN :
           /\ Try(ok)
           /\ IF ok THEN Closing({i}) ELSE UNCHANGED herdr
           /\ task' = [task EXCEPT ![p].todo = @ \ {i},
                                   ![p].gone = IF ok THEN @ \cup {i} ELSE @,
                                   ![p].at = IF task[p].todo = {i} THEN "sweepSave" ELSE @]
    BY <1>4 DEF SweepClose
  <2>2. Calm
    BY <1>0, <2>0, <2>1, TryCalm, HerdrCalm
  <2>3. /\ Others(p) /\ task'[p].at \in {"sweep", "sweepSave"} /\ task'[p].pane = None
        /\ task'[p].kind = task[p].kind
        /\ task'[p].gone = IF ok THEN task[p].gone \cup {i} ELSE task[p].gone
    BY <1>0, <1>00, <2>0, <2>1 DEF Others, Tasks
  <2>4. LockInv'
    BY <1>0, <2>0, <2>3, LockMoves DEF UnderLock
  <2>5. i \in issued
    BY <1>0, <2>0, <2>1 DEF TaskOwn, TaskInv, Drovr
  <2>6. live' \subseteq live /\ issued' = issued /\ (ok => i \notin live')
    BY <2>1 DEF Closing, herdr
  <2>7. task'[p].gone \cap live' = {} /\ task'[p].gone \subseteq issued'
    BY <1>0, <2>0, <2>3, <2>5, <2>6 DEF HandInv
  <2>8. HandInv(task[p], copy[p])'
    BY <1>0, <2>3, <2>7 DEF HandInv
  <2> QED BY <1>01, <2>2, <2>3, <2>4, <2>8, CalmStep
<1>5. CASE SweepSave(p)
  <2> DEFINE l == [disk EXCEPT !.retired = @ \ task[p].gone]
  <2>0. /\ task[p].at = "sweepSave" /\ lock = p /\ task[p].at \in UnderLock /\ UNCHANGED herdr
        /\ task[p].gone \cap live = {}
    BY <1>0, <1>5 DEF SweepSave, At, UnderLock, HandInv
  <2>1. PICK ok \in BOOLEAN :
           /\ IF task[p].gone = {} THEN ok /\ UNCHANGED bounds ELSE Try(ok)
           /\ Save(ok, l)
           /\ LET known == IF ok /\ task[p].gone # {} THEN l ELSE copy[p] IN
                 copy' = [copy EXCEPT ![p] = known] /\ SweepDone(p, known)
    BY <1>5 DEF SweepSave
  <2>2. /\ disk'.pane = disk.pane /\ disk'.retired \subseteq disk.retired
        /\ disk.retired \ task[p].gone \subseteq disk'.retired
    BY <1>0, <2>1 DEF Save, Ledger
  <2>3. PICK c : copy' = [copy EXCEPT ![p] = c] /\ SweepDone(p, c)
    BY <2>1
  <2>4. \A q \in Procs \ {p} : copy'[q] = copy[q]
    BY <1>0, <2>3
  <2>5. /\ Others(p) /\ LockInv' /\ HandInv(task[p], copy[p])' /\ task'[p].pane = None
        /\ task'[p].at = "reapLock"
    BY <1>1, <2>3, <2>4
  <2>6. IssuedInv'
    BY <1>0, <2>0, <2>1, TryCalm DEF IssuedInv, herdr
  <2>7. NoStrandedPane'
    <3> SUFFICES ASSUME NEW i \in live, i \notin human
                 PROVE  i \in Ours(disk') \/ \E q \in Procs : task'[q].pane = i
      BY <2>0 DEF NoStrandedPane, herdr
    <3>1. i \in Ours(disk) => i \in Ours(disk')
      BY <2>0, <2>2 DEF Ours, Held
    <3>2. i # None
      BY DEF LedgerInv, TypeOK, Panes
    <3> QED BY <1>0, <1>00, <2>5, <3>1, <3>2 DEF NoStrandedPane, Others
  <2>8. AgentInv'
    <3> SUFFICES ASSUME NEW i \in Panes, agent[i] # None
                 PROVE  /\ i \in live
                        /\ \/ disk'.pane[agent[i]] = i
                           \/ i \in disk'.retired
                           \/ \E q \in Procs : /\ task'[q].pane = i /\ task'[q].ph = agent[i]
                                               /\ task'[q].at \in {"commit", "surrender", "close"}
      BY <2>0 DEF AgentInv, herdr
    <3>1. i \in live
      BY <1>0 DEF AgentInv
    <3>2. i \in disk.retired => i \in disk'.retired
      BY <2>0, <2>2, <3>1
    <3>3. ASSUME NEW q \in Procs, task[q].pane = i, task[q].ph = agent[i],
                 task[q].at \in {"commit", "surrender", "close"}
          PROVE  \E r \in Procs : /\ task'[r].pane = i /\ task'[r].ph = agent[i]
                                  /\ task'[r].at \in {"commit", "surrender", "close"}
      BY <1>00, <2>5, <3>3 DEF Others
    <3> QED BY <1>0, <2>2, <3>1, <3>2, <3>3 DEF AgentInv
  <2> QED BY <2>0, <2>5, <2>6, <2>7, <2>8, HolderStep
<1> QED BY <1>2, <1>3, <1>4, <1>5 DEF SweepStep

\* The reaps: the pane is the recorded one until it is released.
LEMMA LockedReaps ==
    ASSUME LedgerInv, OwnInv, LockedUse, LockedInv, NEW p \in Procs, ReapStep(p)
    PROVE  LockedInv'
<1>0. /\ task \in [Procs -> Tasks] /\ copy \in [Procs -> Ledger] /\ disk \in Ledger
      /\ task[p] \in Tasks /\ copy[p] \in Ledger
      /\ TaskInv(task[p], copy[p]) /\ HandInv(task[p], copy[p]) /\ TaskOwn(task[p], Drovr)
      /\ task[p].kind # "start"
      /\ task[p].at \in UnderLock <=> lock = p
      /\ task[p].pane = None => task[p].pane \notin live
      /\ LockInv /\ IssuedInv /\ NoStrandedPane /\ AgentInv /\ faults \in Nat
  BY LockedFacts
<1>1. ASSUME NEW ph, ReapNext(p, ph), copy' = copy
      PROVE  Others(p) /\ LockInv' /\ HandInv(task[p], copy[p])' /\ task'[p].at = "reapLock"
  <2>1. /\ Others(p) /\ lock' = (IF lock = p THEN Nobody ELSE lock)
        /\ task'[p].at = "reapLock" /\ task'[p].pane = None /\ task'[p].kind = task[p].kind
    BY <1>0, <1>1 DEF ReapNext, Others, Tasks
  <2>2. LockInv'
    BY <1>0, <2>1, LockMoves DEF UnderLock
  <2>3. HandInv(task[p], copy[p])'
    BY <1>0, <2>1 DEF HandInv
  <2> QED BY <2>1, <2>2, <2>3
<1>2. CASE ReapOver(p)
  <2>0. UNCHANGED <<herdr, disk, bounds>> /\ Exit(p) /\ task[p].pane = None
    BY <1>0, <1>2 DEF ReapOver, At, HandInv, UnderLock
  <2>1. Calm
    BY <1>0, <2>0, TryCalm, HerdrCalm
  <2>2. task[p].pane \notin live'
    BY <1>0, <2>0 DEF herdr
  <2> QED BY <2>0, <2>1, <2>2, LockedExit
<1>3. CASE ReapLock(p)
  <2>0. UNCHANGED <<herdr, disk, copy, bounds>> /\ task[p].at = "reapLock" /\ task[p].pane = None
    BY <1>0, <1>3 DEF ReapLock, At, HandInv, UnderLock
  <2>1. Calm
    BY <1>0, <2>0, TryCalm, HerdrCalm
  <2>2. task[p].pane \notin live'
    BY <1>0, <2>0 DEF herdr
  <2>3. PICK ph \in task[p].todo :
          IF lock # Nobody \/ ~ Reapable(disk, ph)
            THEN ReapNext(p, ph)
            ELSE /\ lock' = p
                 /\ task' = [task EXCEPT ![p].at = "reapClose", ![p].pane = disk.pane[ph],
                                         ![p].todo = @ \ {ph}, ![p].ph = ph]
    BY <1>3 DEF ReapLock
  <2>4. CASE ReapNext(p, ph)
    BY <1>1, <2>0, <2>1, <2>2, <2>4, CalmStep
  <2>5. CASE ~ReapNext(p, ph)
    <3>1. /\ Others(p) /\ lock = Nobody /\ lock' = p /\ task'[p].at = "reapClose"
          /\ task'[p].pane = disk.pane[ph] /\ task'[p].ph = ph /\ task'[p].kind = task[p].kind
      BY <1>0, <2>0, <2>3, <2>5 DEF Others, Tasks
    <3>2. LockInv'
      BY <1>0, <3>1, LockMoves DEF UnderLock
    <3>3. HandInv(task[p], copy[p])'
      BY <1>0, <2>0, <3>1 DEF HandInv, UnderLock
    <3> QED BY <2>1, <2>2, <3>1, <3>2, <3>3, CalmStep
  <2> QED BY <2>4, <2>5
<1>4. CASE ReapClose(p)
  <2>0. /\ task[p].at = "reapClose" /\ UNCHANGED <<disk, copy>> /\ task[p].at \in UnderLock
        /\ disk.pane[task[p].ph] = task[p].pane /\ task[p].ph \in Phases
    BY <1>0, <1>4 DEF ReapClose, At, HandInv, UnderLock, TaskInv
  <2>1. PICK ok \in BOOLEAN :
           /\ Try(ok)
           /\ IF ok THEN Closing({task[p].pane}) /\ Goto(p, "release") /\ UNCHANGED lock
                    ELSE ReapNext(p, task[p].ph) /\ UNCHANGED herdr
    BY <1>4 DEF ReapClose
  <2>2. Calm
    BY <1>0, <2>0, <2>1, TryCalm, HerdrCalm
  <2>3. CASE ok
    <3>1. /\ Others(p) /\ LockInv' /\ task'[p].at = "release" /\ task'[p].pane = task[p].pane
          /\ task'[p].ph = task[p].ph /\ task'[p].kind = task[p].kind
      BY <2>0, <2>1, <2>3, LockedGoto DEF UnderLock
    <3>2. HandInv(task[p], copy[p])'
      BY <1>0, <2>0, <3>1 DEF HandInv, UnderLock
    <3> QED BY <2>0, <2>2, <3>1, <3>2, CalmStep
  <2>4. CASE ~ok
    BY <1>1, <2>0, <2>1, <2>2, <2>4, CalmStep
  <2> QED BY <2>3, <2>4
<1>5. CASE ReapRelease(p)
  <2>0. /\ task[p].at = "release" /\ UNCHANGED <<herdr, copy>> /\ task[p].at \in UnderLock
        /\ disk.pane[task[p].ph] = task[p].pane /\ task[p].ph \in Phases /\ task[p].pane \in Panes
        /\ ReapNext(p, task[p].ph)
    BY <1>0, <1>5 DEF ReapRelease, At, HandInv, UnderLock, TaskInv
  <2>1. PICK ok \in BOOLEAN : Try(ok) /\ Save(ok, Released(disk, task[p].ph, task[p].pane))
    BY <1>5 DEF ReapRelease
  <2>2. /\ disk'.pane = IF ok THEN [disk.pane EXCEPT ![task[p].ph] = None] ELSE disk.pane
        /\ disk'.retired = IF ok THEN disk.retired \cup {task[p].pane} ELSE disk.retired
    BY <1>0, <2>1 DEF Save, Released, Ledger
  <2>3. Others(p) /\ LockInv' /\ HandInv(task[p], copy[p])'
    BY <1>1, <2>0
  <2>4. IssuedInv'
    BY <1>0, <2>0, <2>1, TryCalm DEF IssuedInv, herdr
  <2>5. NoStrandedPane' /\ AgentInv'
    BY <1>0, <2>0, <2>2, <2>3, ReleaseKeeps DEF herdr
  <2> QED BY <2>0, <2>3, <2>4, <2>5, HolderStep
<1> QED BY <1>2, <1>3, <1>4, <1>5 DEF ReapStep

\* Cleanup takes panes down without the lock, and records nothing.
LEMMA LockedCleanups ==
    ASSUME LedgerInv, OwnInv, LockedUse, LockedInv, NEW p \in Procs, CleanupStep(p)
    PROVE  LockedInv'
<1>0. /\ task \in [Procs -> Tasks] /\ task[p] \in Tasks /\ HandInv(task[p], copy[p])
      /\ copy \in [Procs -> Ledger] /\ task[p].kind # "start"
      /\ task[p].at \in UnderLock <=> lock = p
      /\ task[p].pane = None => task[p].pane \notin live
      /\ LockInv /\ IssuedInv /\ AgentInv
  BY LockedFacts
<1>1. task[p].at \in {"list", "closeAll", "closeEach"} /\ disk' = disk /\ task[p].pane = None
  BY <1>0 DEF CleanupStep, CleanupList, CleanupCloseAll, CleanupCloseEach, At, HandInv, UnderLock
<1>2. UNCHANGED herdr \/ \E S : Closing(S)
  BY DEF CleanupStep, CleanupList, CleanupCloseAll, CleanupCloseEach, TryClose
<1>3. UNCHANGED bounds \/ \E ok \in BOOLEAN : Try(ok)
  BY DEF CleanupStep, CleanupList, CleanupCloseAll, CleanupCloseEach, TryClose
<1>4. Calm
  BY <1>0, <1>1, <1>2, <1>3, TryCalm, HerdrCalm
<1>5. task[p].pane \notin live'
  BY <1>0, <1>1, <1>2 DEF Closing, herdr
<1>6. CASE Exit(p)
  BY <1>4, <1>5, <1>6, LockedExit
<1>7. ASSUME NEW i, task' = [task EXCEPT ![p].todo = @ \ {i}], UNCHANGED <<lock, copy>> PROVE LockedInv'
  <2>1. /\ Others(p) /\ task'[p].at = task[p].at /\ task'[p].pane = None /\ task'[p].kind = task[p].kind
    BY <1>0, <1>1, <1>7 DEF Others, Tasks
  <2>2. LockInv'
    BY <1>0, <1>7, <2>1, LockMoves
  <2>3. HandInv(task[p], copy[p])'
    BY <1>0, <1>1, <2>1 DEF HandInv
  <2> QED BY <1>4, <1>5, <2>1, <2>2, <2>3, CalmStep
<1>8. CASE CleanupList(p)
  <2>1. PICK l \in {"closeAll", "closeEach"} :
           task' = [task EXCEPT ![p].gone = live, ![p].at = l,
                                ![p].todo = Ours(copy[p]) \cap live]
    BY <1>8 DEF CleanupList
  <2>2. /\ Others(p) /\ task'[p].at = l /\ task'[p].pane = None /\ task'[p].kind = task[p].kind
    BY <1>0, <1>1, <1>8, <2>1 DEF Others, Tasks, CleanupList
  <2>3. LockInv'
    BY <1>0, <1>1, <1>8, <2>2, LockMoves DEF CleanupList, UnderLock
  <2>4. HandInv(task[p], copy[p])'
    BY <1>0, <2>2 DEF HandInv
  <2> QED BY <1>4, <1>5, <2>2, <2>3, <2>4, CalmStep
<1> QED BY <1>6, <1>7, <1>8 DEF CleanupStep, CleanupCloseAll, CleanupCloseEach

\* What happens around the commands.
LEMMA LockedAround ==
    ASSUME LedgerInv, OwnInv, LockedUse, LockedInv,
           \/ \E p \in Procs : Kill(p)
           \/ \E ph \in Phases : Complete(ph) \/ Reopen(ph)
           \/ HumanOpens \/ HumanCloses
           \/ UNCHANGED vars
    PROVE  LockedInv'
<1>0. LockInv /\ IssuedInv /\ NoStrandedPane /\ AgentInv /\ \A p \in Procs : HandInv(task[p], copy[p])
  BY DEF LockedInv
<1>1. ~ \E p \in Procs : Kill(p)
  BY <1>0 DEF Kill, LockedUse, IssuedInv
<1>2. /\ disk'.pane = disk.pane /\ disk'.retired = disk.retired
      /\ UNCHANGED <<lock, locals, bounds>>
      /\ UNCHANGED herdr \/ (\E S : Closing(S)) \/ HumanOpens
  <2>1. disk \in Ledger
    BY DEF LedgerInv, TypeOK
  <2>2. ASSUME NEW ph \in Phases, Complete(ph) \/ Reopen(ph)
        PROVE  /\ disk'.pane = disk.pane /\ disk'.retired = disk.retired
               /\ UNCHANGED <<lock, locals, bounds, herdr>>
    BY <2>1, <2>2 DEF Complete, Reopen, Ledger
  <2> QED BY <1>1, <2>2 DEF HumanOpens, HumanCloses, vars
<1>3. Calm
  BY <1>0, <1>2, TryCalm, HerdrCalm
<1>4. task' = task /\ copy' = copy /\ LockInv' /\ IssuedInv'
  BY <1>0, <1>2, <1>3 DEF locals, LockInv, IssuedInv, Calm
<1>5. \A q \in Procs : HandInv(task[q], copy[q])'
  BY <1>0, <1>3, <1>4, HandCalm
<1>6. NoStrandedPane'
  BY <1>0, <1>3, <1>4 DEF NoStrandedPane, Calm, Ours, Held
<1>7. AgentInv'
  BY <1>0, <1>3, <1>4 DEF AgentInv, Calm
<1> QED BY <1>4, <1>5, <1>6, <1>7 DEF LockedInv

\* A run under way: every live pane is recorded, and every agent's pane is.
LEMMA LockedInit == LockedUse /\ Init => LockedInv
<1> SUFFICES ASSUME LockedUse, Init PROVE LockedInv
  OBVIOUS
<1>1. LockInv /\ \A p \in Procs : HandInv(task[p], copy[p])
  BY DEF Init, LockInv, HandInv, UnderLock, Idle, Nobody
<1>2. /\ live = {Root} \cup Held(disk) /\ issued = Held(disk) \ {Root} /\ human = {}
      /\ faults = 0 /\ kills = 0
  BY DEF Init
<1>3. IssuedInv /\ NoStrandedPane
  BY <1>2 DEF IssuedInv, NoStrandedPane, Ours
<1>4. AgentInv
  <2>1. PICK held \in [Phases -> Panes \cup {None}], retired \in SUBSET {Root} :
           /\ disk = [Blank EXCEPT !.pane = held, !.retired = retired,
                        !.status = [ph \in Phases |-> IF held[ph] = None THEN "Pending" ELSE "Running"],
                        !.ran = {ph \in Phases : held[ph] # None}]
           /\ agent = [i \in Panes |-> IF \E ph \in Phases : held[ph] = i
                                         THEN CHOOSE ph \in Phases : held[ph] = i ELSE None]
    BY DEF Init
  <2>2. disk.pane = held
    BY <2>1 DEF Blank
  <2> SUFFICES ASSUME NEW i \in Panes, agent[i] # None PROVE i \in live /\ disk.pane[agent[i]] = i
    BY DEF AgentInv
  <2>3. agent[i] \in Phases /\ held[agent[i]] = i
    BY <2>1
  <2> QED BY <1>2, <2>2, <2>3 DEF Held, Panes
<1> QED BY <1>1, <1>3, <1>4 DEF LockedInv

\* Each step of a command, of a person or of a kill keeps all of it.
LEMMA LockedNext == LedgerInv /\ OwnInv /\ LockedUse /\ LockedInv /\ [Next]_vars => LockedInv'
<1> SUFFICES ASSUME LedgerInv, OwnInv, LockedUse, LockedInv, [Next]_vars PROVE LockedInv'
  OBVIOUS
<1>1. ASSUME NEW p \in Procs, StartStep(p) PROVE FALSE
  BY <1>1, LockedFacts DEF StartStep, StartPersist, StartConfigFails, StartCommit, At
<1>2. ASSUME NEW p \in Procs, BeginStep(p) \/ Step(p) PROVE LockedInv'
  BY <1>1, <1>2, LockedBegins, LockedLaunches, LockedRehydrates, LockedSweeps, LockedReaps,
     LockedCleanups DEF Step
<1> QED BY <1>2, LockedAround DEF Next

\* "Never live-but-unrecorded": with the lock and no kill, a live pane that
\* drovr opened is in state.json or in the hands of the command that opened it,
\* whichever two of the calls fail (phase_rehydrate, surrender_unrecordable_pane,
\* discard_unlaunched_pane, reap_retired, release_phase_from_pane).
THEOREM NothingStranded == ASSUME LockedUse PROVE Spec => []NoStrandedPane
<1>1. LockedInv => NoStrandedPane
  BY DEF LockedInv
<1>2. Init => LedgerInv /\ OwnInv /\ LockedInv
  BY InitInv, OwnInit, LockedInit
<1>3. LedgerInv /\ OwnInv /\ LockedInv /\ [Next]_vars => LedgerInv' /\ OwnInv' /\ LockedInv'
  BY LedgerStep, OwnNext, LockedNext DEF LockedUse
<1> QED BY <1>1, <1>2, <1>3, PTL DEF Spec

\* A phase's agent in two live panes: one of them is retired, or on its way out
\* in the hands of the command that could not record it.
LEMMA AgentOnce == LedgerInv /\ LockedInv => OneAgentPerPhase
<1> SUFFICES ASSUME LedgerInv, LockedInv, NEW i \in live, NEW j \in live,
                    agent[i] # None, agent[i] = agent[j], i # j
             PROVE  \E g \in {i, j} : \/ g \in disk.retired
                                      \/ \E p \in Procs : /\ task[p].pane = g
                                                          /\ task[p].at \in {"surrender", "close"}
  BY DEF OneAgentPerPhase
<1> DEFINE Hand(g, p) == /\ task[p].pane = g /\ task[p].ph = agent[i]
                         /\ task[p].at \in {"commit", "surrender", "close"}
<1>1. \A g \in {i, j} : \/ disk.pane[agent[i]] = g
                        \/ g \in disk.retired
                        \/ \E p \in Procs : Hand(g, p)
  BY DEF LockedInv, AgentInv, LedgerInv, TypeOK
<1>2. ASSUME NEW g \in {i, j}, NEW p \in Procs, Hand(g, p), task[p].at = "commit" PROVE disk.pane[agent[i]] = None
  BY <1>2 DEF LockedInv, HandInv
<1>3. ASSUME NEW p \in Procs, NEW q \in Procs, Hand(i, p), Hand(j, q) PROVE FALSE
  <2>1. p = q
    BY <1>3 DEF LockedInv, LockInv, UnderLock
  <2> QED BY <1>3, <2>1
<1>4. None \notin {i, j}
  BY DEF LedgerInv, TypeOK, Panes
<1> QED BY <1>1, <1>2, <1>3, <1>4

\* Nobody's conversation runs twice: of the live panes that an agent of a phase
\* was launched in, all but one are given up (phase_rehydrate's lock, its fresh
\* read, and the record that follows the launch).
THEOREM OneAgent == ASSUME LockedUse PROVE Spec => []OneAgentPerPhase
<1>1. Init => LedgerInv /\ OwnInv /\ LockedInv
  BY InitInv, OwnInit, LockedInit
<1>2. LedgerInv /\ OwnInv /\ LockedInv /\ [Next]_vars => LedgerInv' /\ OwnInv' /\ LockedInv'
  BY LedgerStep, OwnNext, LockedNext DEF LockedUse
<1> QED BY AgentOnce, <1>1, <1>2, PTL DEF Spec

-----------------------------------------------------------------------------
(* The registry that the commands under the lock implement *)

\* A pane that is opened is on no record until it is registered or given up, its
\* agent runs in it when it is registered, and a pane that is reaped is not the
\* root shell.
OnWay(p) ==
    /\ task[p].at \in {"launch", "commit", "discard", "surrender"} => task[p].pane \notin Recorded(disk)
    /\ task[p].at = "commit" /\ task[p].pane \in live => agent[task[p].pane] = task[p].ph
    /\ task[p].at = "release" => task[p].pane # Root
RegistryInv == \A p \in Procs : OnWay(p)

SameRecord == disk'.pane = disk.pane /\ disk'.retired = disk.retired
\* What herdr's side of a step may be, besides a tab and a launch.
HerdrMoves == UNCHANGED herdr \/ (\E S : Closing(S)) \/ HumanOpens
Alone(p) == \A q \in Procs \ {p} : task'[q] = task[q]

\* Where a process is not on its way, nothing is asked of it.
LEMMA OffWay ==
    ASSUME NEW p \in Procs, task'[p].at \notin {"launch", "commit", "discard", "surrender", "release"}
    PROVE  OnWay(p)'
BY DEF OnWay

\* No closing and no pane of the human's takes a pane's agent from under a command.
LEMMA OnWayKept ==
    ASSUME LedgerInv, OwnInv, LockedUse, NEW p \in Procs, OnWay(p), SameRecord, HerdrMoves, task'[p] = task[p]
    PROVE  OnWay(p)'
<1>0. /\ agent \in [Panes -> Phases \cup {None}] /\ task[p] \in Tasks /\ live \subseteq Panes
      /\ TaskInv(task[p], copy[p]) /\ TaskOwn(task[p], Drovr)
  BY DEF LedgerInv, TypeOK, OwnInv
<1>1. Recorded(disk') = Recorded(disk)
  BY DEF SameRecord, Recorded, Held
<1>2. ASSUME task[p].at = "commit", task[p].pane \in live' PROVE agent'[task[p].pane] = task[p].ph
  <2>1. task[p].pane \in Panes /\ task[p].pane \in issued \cup {Root} /\ task[p].pane # None
    BY <1>0, <1>2 DEF TaskInv, TaskOwn, Drovr, Panes
  <2>2. CASE UNCHANGED herdr
    BY <1>2, <2>2 DEF herdr, OnWay
  <2>3. ASSUME NEW S, Closing(S) PROVE agent'[task[p].pane] = task[p].ph
    BY <1>2, <2>1, <2>3 DEF Closing, OnWay
  <2>4. CASE HumanOpens
    BY <1>2, <2>1, <2>4 DEF HumanOpens, Opening, Openable, OnWay, LockedUse
  <2> QED BY <2>2, <2>3, <2>4 DEF HerdrMoves
<1> QED BY <1>1, <1>2 DEF OnWay

\* Nobody has a pane in hand but the holder of the lock.
LEMMA HolderHand ==
    ASSUME LedgerInv, LockedInv, NEW p \in Procs, task[p].at \in UnderLock, Alone(p)
    PROVE  /\ InHand = {task[p].pane} \ ({None} \cup Recorded(disk))
           /\ InHand' = {task'[p].pane} \ ({None} \cup Recorded(disk'))
<1>1. \A q \in Procs \ {p} : task[q].at \notin UnderLock
  BY DEF LockedInv, LockInv
<1>2. \A q \in Procs \ {p} : task[q].pane = None /\ task'[q].pane = None
  BY <1>1 DEF LockedInv, HandInv, Alone
<1> QED BY <1>2 DEF InHand, Recorded

\* A step that leaves the records alone and puts nothing unrecorded in a hand.
LEMMA SameHand ==
    ASSUME NEW p \in Procs, Alone(p), SameRecord,
           \/ task'[p].pane = task[p].pane
           \/ {task[p].pane, task'[p].pane} \subseteq {None} \cup Recorded(disk)
    PROVE  InHand' = InHand
<1>1. Recorded(disk') = Recorded(disk) /\ InHand = {task[q].pane : q \in Procs} \ ({None} \cup Recorded(disk))
      /\ InHand' = {task'[q].pane : q \in Procs} \ ({None} \cup Recorded(disk'))
  BY DEF SameRecord, Recorded, Held, InHand
<1>2. ASSUME NEW i PROVE i \in InHand' <=> i \in InHand
  BY <1>1 DEF Alone
<1> QED BY <1>2 DEF InHand

\* To the registry it is a closing, the human's, or nothing.
LEMMA HerdrSimulates ==
    ASSUME LedgerInv, LockedUse, AgentInv, SameRecord, InHand' = InHand, HerdrMoves
    PROVE  [Registry!Next]_(Registry!vars)
<1>0. agent \in [Panes -> Phases \cup {None}] /\ live \subseteq Panes /\ human \subseteq live
      /\ issued \subseteq Ids
  BY DEF LedgerInv, TypeOK
<1>1. CASE UNCHANGED herdr
  BY <1>1 DEF herdr, SameRecord, Registry!vars
<1>2. ASSUME NEW S, Closing(S) PROVE Registry!Next
  <2> DEFINE T == S \cap live
  <2>1. T \in SUBSET live /\ live' = live \ T /\ human' = human \ T /\ issued' = issued
    BY <1>0, <1>2 DEF Closing
  <2>2. \A i \in Panes \ live : agent[i] = None
    BY DEF AgentInv
  <2>3. agent' = [i \in Panes |-> IF i \in T THEN None ELSE agent[i]]
    BY <1>2, <2>2 DEF Closing
  <2> HIDE DEF T
  <2>4. Registry!Closed(T)
    BY <2>1, <2>3 DEF Registry!Closed
  <2>5. Registry!Close
    BY <2>1, <2>4 DEF Registry!Close, Registry!record, SameRecord
  <2> QED BY <2>5 DEF Registry!Next
<1>3. CASE HumanOpens
  <2>1. PICK i \in Ids : Opening(i) /\ human' = human \cup {i}
    BY <1>3 DEF HumanOpens
  <2>2. /\ i \in Panes \ (issued \cup {Root}) /\ issued' \cup {Root} = (issued \cup {Root}) \cup {i}
        /\ live' = live \cup {i} /\ agent' = agent
    BY <2>1 DEF Opening, Openable, LockedUse, Panes
  <2>3. Registry!HumanOpens
    BY <2>1, <2>2 DEF Registry!HumanOpens, Registry!record, SameRecord
  <2> QED BY <2>3 DEF Registry!Next
<1> QED BY <1>1, <1>2, <1>3 DEF HerdrMoves

\* A step that edits no record and opens or launches nothing, of any command.
LEMMA RegistryQuiet ==
    ASSUME LedgerInv, OwnInv, LockedUse, LockedInv, RegistryInv, NEW p \in Procs, Alone(p),
           SameRecord, HerdrMoves, OnWay(p)',
           \/ task'[p].pane = task[p].pane
           \/ {task[p].pane, task'[p].pane} \subseteq {None} \cup Recorded(disk)
    PROVE  RegistryInv' /\ [Registry!Next]_(Registry!vars)
<1>1. \A q \in Procs \ {p} : OnWay(q)'
  BY OnWayKept DEF Alone, RegistryInv
<1>2. InHand' = InHand
  BY SameHand
<1> QED BY <1>1, <1>2, HerdrSimulates DEF RegistryInv, LockedInv

\* A step of the lock's holder: nobody else is on its way.
LEMMA RegistryHolder ==
    ASSUME LockedInv, NEW p \in Procs, task[p].at \in UnderLock, Alone(p), OnWay(p)'
    PROVE  RegistryInv'
<1>1. ASSUME NEW q \in Procs, q # p PROVE OnWay(q)'
  <2>1. task'[q].at \notin UnderLock
    BY <1>1 DEF LockedInv, LockInv, Alone
  <2> QED BY <2>1, OffWay DEF UnderLock
<1> QED BY <1>1 DEF RegistryInv

\* Where a command moves on and keeps its pane.
LEMMA GotoMoves ==
    ASSUME LedgerInv, NEW p \in Procs, NEW l \in Steps, Goto(p, l)
    PROVE  /\ Alone(p) /\ task'[p].at = l /\ task'[p].pane = task[p].pane /\ task'[p].ph = task[p].ph
BY DEF LedgerInv, TypeOK, Tasks, Goto, Alone

LEMMA ExitMoves ==
    ASSUME LedgerInv, NEW p \in Procs, Exit(p)
    PROVE  Alone(p) /\ task'[p].at = "idle" /\ task'[p].pane = None /\ OnWay(p)'
<1>1. Alone(p) /\ task'[p].at = "idle" /\ task'[p].pane = None
  BY DEF LedgerInv, TypeOK, Exit, Idle, Alone
<1> QED BY <1>1, OffWay

LEMMA RegistryBegins ==
    ASSUME LedgerInv, OwnInv, LockedUse, LockedInv, RegistryInv, NEW p \in Procs, BeginStep(p)
    PROVE  RegistryInv' /\ [Registry!Next]_(Registry!vars)
<1>1. UNCHANGED <<herdr, disk>> /\ task[p].at = "idle" /\ task[p].pane = None
  <2>1. UNCHANGED <<herdr, disk>> /\ task[p].at = "idle"
    BY DEF BeginStep, StartBegin, RehydrateBegin, ReapBegin, CleanupBegin, Begin, At
  <2> QED BY <2>1, LockedFacts DEF HandInv, UnderLock
<1>2. PICK t : /\ task' = [task EXCEPT ![p] = t] /\ t.pane = None
               /\ t.at \in {"persist", "tab", "peek", "list"}
  <2>1. ASSUME NEW kind, NEW ph, NEW l \in {"persist", "tab", "peek", "list"}, Begin(p, kind, ph, l)
        PROVE  \E t : /\ task' = [task EXCEPT ![p] = t] /\ t.pane = None
                      /\ t.at \in {"persist", "tab", "peek", "list"}
    <3> DEFINE t == [Idle EXCEPT !.at = l, !.kind = kind, !.ph = ph]
    <3>1. task' = [task EXCEPT ![p] = t] /\ t.pane = None /\ t.at = l
      BY <2>1 DEF Begin, Idle
    <3> QED BY <3>1
  <2> QED BY <2>1 DEF BeginStep, StartBegin, RehydrateBegin, ReapBegin, CleanupBegin
<1>3. Alone(p) /\ task'[p].pane = None /\ task'[p].at \in {"persist", "tab", "peek", "list"}
  BY <1>2 DEF LedgerInv, TypeOK, Alone
<1>4. OnWay(p)' /\ SameRecord /\ HerdrMoves
  BY <1>1, <1>3, OffWay DEF SameRecord, HerdrMoves
<1> QED BY <1>1, <1>3, <1>4, RegistryQuiet

\* A pane in hand is given up: it is retired, or it is gone.
LEMMA GivesUp ==
    ASSUME LedgerInv, LockedInv, NEW p \in Procs, task[p].at \in UnderLock, Alone(p),
           task[p].pane \in Ids \ Recorded(disk), UNCHANGED herdr,
           disk'.pane = disk.pane, disk'.retired = disk.retired \cup {task[p].pane},
           task'[p].pane = task[p].pane
    PROVE  Registry!Next
<1>1. Recorded(disk') = Recorded(disk) \cup {task[p].pane}
  BY DEF Recorded, Held
<1>2. InHand = {task[p].pane} /\ InHand' = {}
  BY <1>1, HolderHand
<1> QED BY <1>2 DEF Registry!Next, Registry!GiveUp, Registry!herdr, herdr

\* A registration ends: its pane is retired.
LEMMA Releases ==
    ASSUME LedgerInv, LockedInv, NEW p \in Procs, task[p].at \in UnderLock, Alone(p),
           NEW ph \in Phases, disk.pane[ph] = task[p].pane, task[p].pane \in Ids, UNCHANGED herdr,
           disk'.pane = [disk.pane EXCEPT ![ph] = None],
           disk'.retired = disk.retired \cup {task[p].pane},
           task'[p].pane \in {None, task[p].pane}
    PROVE  Registry!Next
<1>1. task[p].pane \in Recorded(disk) /\ task[p].pane \in Recorded(disk')
  BY DEF Recorded, Held
<1>2. InHand = {} /\ InHand' = {}
  BY <1>1, HolderHand
<1> QED BY <1>2 DEF Registry!Next, Registry!Release, Registry!herdr, herdr

\* Where RegistryInv and LockedInv are read.
LEMMA WayFacts ==
    ASSUME LedgerInv, OwnInv, LockedUse, LockedInv, RegistryInv, NEW p \in Procs
    PROVE  /\ task \in [Procs -> Tasks] /\ disk \in Ledger /\ copy[p] \in Ledger
           /\ agent \in [Panes -> Phases \cup {None}] /\ OnWay(p)
           /\ TaskInv(task[p], copy[p]) /\ HandInv(task[p], copy[p]) /\ TaskOwn(task[p], Drovr)
           /\ task[p].kind # "start" /\ task[p].at # "persist"
           /\ task[p].at = "launch" => task[p].pane \in Ids /\ task[p].created /\ task[p].ph \in Phases
           /\ task[p].at = "commit" => task[p].pane \in Ids /\ task[p].ph \in Phases
           /\ task[p].at \in {"tab", "launch", "commit", "discard"} => SamePanes(copy[p], disk)
<1>1. /\ task \in [Procs -> Tasks] /\ disk \in Ledger /\ copy[p] \in Ledger /\ OnWay(p)
      /\ agent \in [Panes -> Phases \cup {None}]
      /\ TaskInv(task[p], copy[p]) /\ HandInv(task[p], copy[p]) /\ TaskOwn(task[p], Drovr)
      /\ task[p].kind # "start" /\ task[p].at # "persist"
  BY LockedFacts DEF RegistryInv, LedgerInv, TypeOK
<1>2. task[p].at \in {"launch", "commit"} => task[p].kind = "rehydrate"
  BY <1>1 DEF HandInv
<1> QED BY <1>1, <1>2 DEF HandInv, TaskInv

\* A tab opened while nothing is in hand, an agent launched in it, and both ends
\* of one that could not be.
LEMMA RegistryLaunches ==
    ASSUME LedgerInv, OwnInv, LockedUse, LockedInv, RegistryInv, NEW p \in Procs, LaunchStep(p)
    PROVE  RegistryInv' /\ [Registry!Next]_(Registry!vars)
<1>0. /\ task \in [Procs -> Tasks] /\ disk \in Ledger /\ copy[p] \in Ledger /\ OnWay(p)
      /\ agent \in [Panes -> Phases \cup {None}]
      /\ TaskInv(task[p], copy[p]) /\ HandInv(task[p], copy[p])
      /\ task[p].at = "launch" => task[p].pane \in Ids /\ task[p].created /\ task[p].ph \in Phases
      /\ task[p].at \in {"tab", "launch", "commit", "discard"} => SamePanes(copy[p], disk)
  BY WayFacts
<1>00. task[p].at \in UnderLock
  BY DEF LaunchStep, Tab, Launch, LaunchFails, Discard, CloseAndFail, At, UnderLock
<1>1. CASE Tab(p)
  <2>0. /\ task[p].at = "tab" /\ task[p].pane = None /\ copy[p].pane[task[p].ph] = None /\ disk' = disk
    BY <1>0, <1>1 DEF Tab, At, HandInv, SamePanes
  <2>1. ASSUME NEW i \in Ids, Opening(i), human' = human,
               task' = [task EXCEPT ![p].at = "launch", ![p].pane = i, ![p].created = TRUE]
        PROVE  RegistryInv' /\ Registry!Next
    <3>1. Alone(p) /\ task'[p].at = "launch" /\ task'[p].pane = i
      BY <1>0, <2>1 DEF Alone, Tasks
    <3>2. i \notin issued /\ i \notin Recorded(disk) /\ live' = live \cup {i} /\ issued' = issued \cup {i}
          /\ agent' = agent
      BY <2>1 DEF Opening, Openable, LockedUse, OwnInv, Drovr
    <3>3. OnWay(p)'
      BY <2>0, <3>1, <3>2 DEF OnWay
    <3>4. InHand = {} /\ InHand' = {i}
      BY <1>00, <2>0, <3>1, <3>2, HolderHand
    <3>5. i \in Panes \ (issued \cup {Root}) /\ issued' \cup {Root} = (issued \cup {Root}) \cup {i}
      BY <3>2 DEF Panes
    <3>6. Registry!Open
      BY <2>0, <2>1, <3>2, <3>4, <3>5 DEF Registry!Open, Registry!record
    <3> QED BY <1>00, <3>1, <3>3, <3>6, RegistryHolder DEF Registry!Next
  <2>2. CASE Exit(p) /\ UNCHANGED herdr
    BY <2>0, <2>2, ExitMoves, RegistryQuiet DEF SameRecord, HerdrMoves
  <2> QED BY <1>1, <2>0, <2>1, <2>2 DEF Tab
<1>2. CASE Launch(p)
  <2>0. /\ task[p].at = "launch" /\ task[p].pane \in live /\ task[p].pane \in Ids /\ task[p].ph \in Phases
        /\ UNCHANGED <<live, human, issued, disk>> /\ Goto(p, "commit")
        /\ agent' = [agent EXCEPT ![task[p].pane] = task[p].ph]
        /\ agent[task[p].pane] = None /\ disk.pane[task[p].ph] = None /\ task[p].pane \notin Recorded(disk)
    BY <1>0, <1>2 DEF Launch, At, HandInv, OnWay
  <2>1. Alone(p) /\ task'[p].at = "commit" /\ task'[p].pane = task[p].pane /\ task'[p].ph = task[p].ph
    BY <2>0, GotoMoves DEF Steps
  <2>2. agent'[task'[p].pane] = task'[p].ph
    BY <1>0, <2>0, <2>1 DEF Panes
  <2>3. OnWay(p)'
    BY <2>0, <2>1, <2>2 DEF OnWay
  <2>4. InHand = {task[p].pane} /\ InHand' = {task[p].pane}
    BY <1>00, <2>0, <2>1, HolderHand
  <2>5. Registry!Launch
    BY <2>0, <2>4 DEF Registry!Launch, Registry!record
  <2> QED BY <1>00, <2>1, <2>3, <2>5, RegistryHolder DEF Registry!Next
<1>3. CASE LaunchFails(p)
  <2>0. task[p].at = "launch" /\ task[p].created /\ UNCHANGED <<herdr, disk>> /\ Goto(p, "discard")
    BY <1>0, <1>3 DEF LaunchFails, At
  <2>1. Alone(p) /\ task'[p].at = "discard" /\ task'[p].pane = task[p].pane
    BY <2>0, GotoMoves DEF Steps
  <2>2. OnWay(p)'
    BY <1>0, <2>0, <2>1 DEF OnWay
  <2> QED BY <2>0, <2>1, <2>2, RegistryQuiet DEF SameRecord, HerdrMoves
<1>4. CASE Discard(p)
  <2>0. PICK ok \in BOOLEAN : Save(ok, Retire(copy[p], task[p].pane))
    BY <1>4 DEF Discard
  <2>1. /\ task[p].at = "discard" /\ UNCHANGED herdr /\ Goto(p, "close")
        /\ task[p].pane \in Ids \ Recorded(disk)
    BY <1>0, <1>4 DEF Discard, At, TaskInv, OnWay
  <2>2. Alone(p) /\ task'[p].at = "close" /\ task'[p].pane = task[p].pane /\ OnWay(p)'
    BY <2>1, GotoMoves, OffWay DEF Steps
  <2>3. /\ disk'.pane = disk.pane
        /\ disk'.retired = IF ok THEN disk.retired \cup {task[p].pane} ELSE disk.retired
    BY <1>0, <2>0, <2>1 DEF Save, Retire, SamePanes, Ledger
  <2>4. CASE ok
    BY <1>00, <2>1, <2>2, <2>3, <2>4, GivesUp, RegistryHolder
  <2>5. CASE ~ok
    BY <2>1, <2>2, <2>3, <2>5, RegistryQuiet DEF SameRecord, HerdrMoves
  <2> QED BY <2>4, <2>5
<1>5. CASE CloseAndFail(p)
  <2>0. PICK ok \in BOOLEAN : TryClose(ok, task[p].pane)
    BY <1>5 DEF CloseAndFail
  <2>1. task[p].at = "close" /\ Exit(p) /\ disk' = disk /\ task[p].pane \in Ids /\ task[p].ph \in Phases
    BY <1>0, <1>5 DEF CloseAndFail, At, TaskInv
  <2>2. Alone(p) /\ task'[p].pane = None /\ OnWay(p)'
    BY <2>1, ExitMoves
  <2>3. CASE task[p].pane \in Recorded(disk)
    BY <2>0, <2>1, <2>2, <2>3, RegistryQuiet DEF SameRecord, HerdrMoves, TryClose
  <2>4. CASE task[p].pane \notin Recorded(disk)
    <3>1. ok
      <4>1. ASSUME ~ok PROVE task[p].pane \in live /\ faults < 2
        BY <2>0, <4>1, LockedFacts DEF TryClose, Try, LockedUse
      <4>2. task[p].pane # disk.pane[task[p].ph] /\ task[p].pane \notin disk.retired
        BY <2>1, <2>4 DEF Recorded, Held
      <4>3. ASSUME ~ok PROVE faults >= 2
        BY <1>0, <2>1, <4>1, <4>2, <4>3 DEF HandInv
      <4> QED BY <4>1, <4>3, LockedFacts
    <3>2. InHand = {task[p].pane} /\ InHand' = {}
      BY <1>00, <2>1, <2>2, <2>4, HolderHand
    <3>3. Registry!Closed({task[p].pane})
      BY <2>0, <3>1 DEF TryClose, Closing, Registry!Closed
    <3>4. Registry!CloseUnrecorded
      BY <2>1, <3>2, <3>3 DEF Registry!CloseUnrecorded, Registry!record
    <3> QED BY <1>00, <2>2, <3>4, RegistryHolder DEF Registry!Next
  <2> QED BY <2>3, <2>4
<1> QED BY <1>1, <1>2, <1>3, <1>4, <1>5 DEF LaunchStep

\* The pane is registered for the phase its agent runs for; later it may be
\* given back.
LEMMA RegistryRehydrates ==
    ASSUME LedgerInv, OwnInv, LockedUse, LockedInv, RegistryInv, NEW p \in Procs, RehydrateStep(p)
    PROVE  RegistryInv' /\ [Registry!Next]_(Registry!vars)
<1>0. /\ task \in [Procs -> Tasks] /\ disk \in Ledger /\ copy[p] \in Ledger /\ OnWay(p)
      /\ TaskInv(task[p], copy[p]) /\ HandInv(task[p], copy[p])
      /\ task[p].at = "commit" => task[p].pane \in Ids /\ task[p].ph \in Phases
      /\ task[p].at \in {"tab", "launch", "commit", "discard"} => SamePanes(copy[p], disk)
  BY WayFacts
<1>00. task[p].at \in UnderLock /\ UNCHANGED herdr
  BY DEF RehydrateStep, RehydrateCommit, Surrender, RehydrateReady, GiveBack, At, UnderLock
<1>1. CASE RehydrateCommit(p)
  <2>0. PICK ok \in BOOLEAN : /\ Save(ok, Register(copy[p], task[p].ph, task[p].pane))
                              /\ Goto(p, IF ok THEN "ready" ELSE "surrender")
    BY <1>1 DEF RehydrateCommit
  <2>1. /\ task[p].at = "commit" /\ task[p].pane \in Ids \ Recorded(disk) /\ task[p].ph \in Phases
        /\ disk.pane[task[p].ph] = None /\ SamePanes(copy[p], disk)
        /\ task[p].pane \in live => agent[task[p].pane] = task[p].ph
    BY <1>0, <1>1 DEF RehydrateCommit, At, OnWay, HandInv
  <2>2. /\ Alone(p) /\ task'[p].at = (IF ok THEN "ready" ELSE "surrender")
        /\ task'[p].pane = task[p].pane
    BY <2>0, GotoMoves DEF Steps
  <2>3. /\ disk'.pane = IF ok THEN [disk.pane EXCEPT ![task[p].ph] = task[p].pane] ELSE disk.pane
        /\ disk'.retired = disk.retired
    BY <1>0, <2>0, <2>1 DEF Save, Register, SamePanes, Ledger
  <2>4. CASE ok
    <3>1. OnWay(p)'
      BY <2>2, <2>4, OffWay
    <3>2. disk'.pane[task[p].ph] = task[p].pane
      BY <1>0, <2>1, <2>3, <2>4 DEF Ledger
    <3>3. task[p].pane \in Recorded(disk')
      BY <2>1, <3>2 DEF Recorded, Held
    <3>4. InHand = {task[p].pane} /\ InHand' = {}
      BY <1>00, <2>1, <2>2, <3>3, HolderHand
    <3>5. Registry!Register
      BY <1>00, <2>1, <2>3, <2>4, <3>4 DEF Registry!Register, Registry!herdr, herdr
    <3> QED BY <1>00, <2>2, <3>1, <3>5, RegistryHolder DEF Registry!Next
  <2>5. CASE ~ok
    <3>1. Recorded(disk') = Recorded(disk)
      BY <2>3, <2>5 DEF Recorded, Held
    <3>2. OnWay(p)'
      BY <2>1, <2>2, <2>5, <3>1 DEF OnWay
    <3> QED BY <1>00, <2>2, <2>3, <2>5, <3>2, RegistryQuiet DEF SameRecord, HerdrMoves
  <2> QED BY <2>4, <2>5
<1>2. CASE Surrender(p)
  <2>0. PICK ok \in BOOLEAN : Save(ok, Retire(disk, task[p].pane))
    BY <1>2 DEF Surrender
  <2>1. task[p].at = "surrender" /\ Goto(p, "close") /\ task[p].pane \in Ids \ Recorded(disk)
    BY <1>0, <1>2 DEF Surrender, At, TaskInv, OnWay
  <2>2. Alone(p) /\ task'[p].at = "close" /\ task'[p].pane = task[p].pane /\ OnWay(p)'
    BY <2>1, GotoMoves, OffWay DEF Steps
  <2>3. /\ disk'.pane = disk.pane
        /\ disk'.retired = IF ok THEN disk.retired \cup {task[p].pane} ELSE disk.retired
    BY <1>0, <2>0 DEF Save, Retire, Ledger
  <2>4. CASE ok
    BY <1>00, <2>1, <2>2, <2>3, <2>4, GivesUp, RegistryHolder
  <2>5. CASE ~ok
    BY <1>00, <2>2, <2>3, <2>5, RegistryQuiet DEF SameRecord, HerdrMoves
  <2> QED BY <2>4, <2>5
<1>3. CASE RehydrateReady(p)
  <2>0. /\ task[p].at = "ready" /\ disk' = disk /\ disk.pane[task[p].ph] = task[p].pane
        /\ task[p].ph \in Phases
    BY <1>0, <1>3 DEF RehydrateReady, At, HandInv, TaskInv
  <2>1. {task[p].pane, None} \subseteq {None} \cup Recorded(disk)
    BY <2>0 DEF Recorded, Held
  <2>2. CASE Goto(p, "giveBack")
    <3>1. Alone(p) /\ task'[p].pane = task[p].pane /\ OnWay(p)'
      BY <2>2, GotoMoves, OffWay DEF Steps
    <3> QED BY <1>00, <2>0, <3>1, RegistryQuiet DEF SameRecord, HerdrMoves
  <2>3. CASE Exit(p)
    BY <1>00, <2>0, <2>1, <2>3, ExitMoves, RegistryQuiet DEF SameRecord, HerdrMoves
  <2> QED BY <1>3, <2>2, <2>3 DEF RehydrateReady
<1>4. CASE GiveBack(p)
  <2>0. PICK ok \in BOOLEAN : Save(ok, Released(disk, task[p].ph, task[p].pane))
    BY <1>4 DEF GiveBack
  <2>1. /\ task[p].at = "giveBack" /\ Goto(p, "close") /\ task[p].pane \in Ids /\ task[p].ph \in Phases
        /\ disk.pane[task[p].ph] = task[p].pane
    BY <1>0, <1>4 DEF GiveBack, At, HandInv, TaskInv
  <2>2. Alone(p) /\ task'[p].at = "close" /\ task'[p].pane = task[p].pane /\ OnWay(p)'
    BY <2>1, GotoMoves, OffWay DEF Steps
  <2>3. /\ disk'.pane = IF ok THEN [disk.pane EXCEPT ![task[p].ph] = None] ELSE disk.pane
        /\ disk'.retired = IF ok THEN disk.retired \cup {task[p].pane} ELSE disk.retired
    BY <1>0, <2>0 DEF Save, Released, Ledger
  <2>4. CASE ok
    BY <1>00, <2>1, <2>2, <2>3, <2>4, Releases, RegistryHolder
  <2>5. CASE ~ok
    BY <1>00, <2>2, <2>3, <2>5, RegistryQuiet DEF SameRecord, HerdrMoves
  <2> QED BY <2>4, <2>5
<1> QED BY <1>1, <1>2, <1>3, <1>4 DEF RehydrateStep

\* Panes are closed, and forgotten when they have gone.
LEMMA RegistrySweeps ==
    ASSUME LedgerInv, OwnInv, LockedUse, LockedInv, RegistryInv, NEW p \in Procs, SweepStep(p)
    PROVE  RegistryInv' /\ [Registry!Next]_(Registry!vars)
<1>0. /\ task \in [Procs -> Tasks] /\ disk \in Ledger
      /\ TaskInv(task[p], copy[p]) /\ HandInv(task[p], copy[p]) /\ task[p].kind # "start"
  BY WayFacts
<1>00. task[p].at \in {"peek", "sweepLock", "sweep", "sweepSave"} /\ task[p].pane = None
  BY <1>0 DEF SweepStep, SweepPeek, SweepLock, SweepClose, SweepSave, At, HandInv, UnderLock
<1>1. ASSUME NEW c, SweepDone(p, c) PROVE Alone(p) /\ task'[p].pane = None /\ OnWay(p)'
  <2>1. Alone(p) /\ task'[p].pane = None /\ task'[p].at = "reapLock"
    BY <1>0, <1>00, <1>1 DEF SweepDone, Alone, Tasks
  <2> QED BY <2>1, OffWay
<1>2. CASE SweepPeek(p) \/ SweepLock(p) \/ SweepClose(p)
  <2>1. disk' = disk /\ HerdrMoves
    BY <1>2 DEF SweepPeek, SweepLock, SweepClose, HerdrMoves
  <2>2. ASSUME NEW l \in {"sweepLock", "sweep", "sweepSave"}, NEW todo, NEW gone,
               task' = [task EXCEPT ![p].at = l, ![p].todo = todo, ![p].gone = gone]
        PROVE  Alone(p) /\ task'[p].pane = None /\ OnWay(p)'
    <3>1. Alone(p) /\ task'[p].pane = None /\ task'[p].at = l
      BY <1>0, <1>00, <2>2 DEF Alone, Tasks
    <3> QED BY <3>1, OffWay
  <2>3. Alone(p) /\ task'[p].pane = None /\ OnWay(p)'
    <3>1. CASE \E c : SweepDone(p, c)
      BY <1>1, <3>1
    <3>2. CASE Goto(p, "sweepLock")
      BY <1>00, <3>2, GotoMoves, OffWay DEF Steps
    <3>3. CASE task' = [task EXCEPT ![p].at = "sweep", ![p].todo = ReapableRetired(disk)]
      <4>1. Alone(p) /\ task'[p].pane = None /\ task'[p].at = "sweep"
        BY <1>0, <1>00, <3>3 DEF Alone, Tasks
      <4> QED BY <4>1, OffWay
    <3>4. CASE SweepClose(p)
      <4>1. Alone(p) /\ task'[p].pane = None /\ task'[p].at \in {"sweep", "sweepSave"}
        BY <1>0, <1>00, <3>4 DEF SweepClose, Alone, Tasks, At
      <4> QED BY <4>1, OffWay
    <3>5. SweepPeek(p) => Goto(p, "sweepLock") \/ \E c : SweepDone(p, c)
      BY <1>0 DEF SweepPeek
    <3> QED BY <1>2, <3>1, <3>2, <3>3, <3>4, <3>5 DEF SweepLock
  <2> QED BY <1>00, <2>1, <2>3, RegistryQuiet DEF SameRecord
<1>3. CASE SweepSave(p)
  <2>0. task[p].at \in UnderLock /\ UNCHANGED herdr /\ task[p].gone \cap live = {}
    BY <1>0, <1>3 DEF SweepSave, At, UnderLock, HandInv
  <2>1. PICK ok \in BOOLEAN : Save(ok, [disk EXCEPT !.retired = @ \ task[p].gone])
    BY <1>3 DEF SweepSave
  <2>2. Alone(p) /\ task'[p].pane = None /\ OnWay(p)'
    BY <1>1, <1>3 DEF SweepSave
  <2>3. InHand = {} /\ InHand' = {}
    BY <1>00, <2>0, <2>2, HolderHand
  <2>4. CASE ok
    <3> DEFINE S == disk.retired \cap task[p].gone
    <3>1. disk'.pane = disk.pane /\ disk'.retired = disk.retired \ S
      BY <1>0, <2>1, <2>4 DEF Save, Ledger
    <3>2. S \in SUBSET (disk.retired \ live)
      BY <2>0
    <3> HIDE DEF S
    <3>3. Registry!Forget
      BY <2>0, <2>3, <3>1, <3>2 DEF Registry!Forget, Registry!herdr, herdr
    <3> QED BY <2>0, <2>2, <3>3, RegistryHolder DEF Registry!Next
  <2>5. CASE ~ok
    BY <1>00, <2>0, <2>1, <2>2, <2>5, RegistryQuiet DEF Save, SameRecord, HerdrMoves
  <2> QED BY <2>4, <2>5
<1> QED BY <1>2, <1>3 DEF SweepStep

\* A pane is closed, and then its registration ends, or is kept.
LEMMA RegistryReaps ==
    ASSUME LedgerInv, OwnInv, LockedUse, LockedInv, RegistryInv, NEW p \in Procs, ReapStep(p)
    PROVE  RegistryInv' /\ [Registry!Next]_(Registry!vars)
<1>0. /\ task \in [Procs -> Tasks] /\ disk \in Ledger /\ OnWay(p)
      /\ TaskInv(task[p], copy[p]) /\ HandInv(task[p], copy[p])
  BY WayFacts
<1>1. ASSUME NEW ph, ReapNext(p, ph) PROVE Alone(p) /\ task'[p].pane = None /\ OnWay(p)'
  <2>1. Alone(p) /\ task'[p].pane = None /\ task'[p].at = "reapLock"
    BY <1>0, <1>1 DEF ReapNext, Alone, Tasks
  <2> QED BY <2>1, OffWay
<1>2. CASE ReapOver(p)
  <2>1. task[p].pane = None /\ UNCHANGED <<herdr, disk>> /\ Exit(p)
    BY <1>0, <1>2 DEF ReapOver, At, HandInv, UnderLock
  <2> QED BY <2>1, ExitMoves, RegistryQuiet DEF SameRecord, HerdrMoves
<1>3. CASE ReapLock(p)
  <2>0. task[p].pane = None /\ UNCHANGED <<herdr, disk>> /\ task[p].at = "reapLock"
    BY <1>0, <1>3 DEF ReapLock, At, HandInv, UnderLock
  <2>1. PICK ph \in task[p].todo :
          IF lock # Nobody \/ ~ Reapable(disk, ph)
            THEN ReapNext(p, ph)
            ELSE task' = [task EXCEPT ![p].at = "reapClose", ![p].pane = disk.pane[ph],
                                      ![p].todo = @ \ {ph}, ![p].ph = ph]
    BY <1>3 DEF ReapLock
  <2>2. CASE ReapNext(p, ph)
    BY <1>1, <2>0, <2>2, RegistryQuiet DEF SameRecord, HerdrMoves
  <2>3. CASE ~ReapNext(p, ph)
    <3>1. Alone(p) /\ task'[p].at = "reapClose" /\ task'[p].pane = disk.pane[ph]
      BY <1>0, <2>1, <2>3 DEF Alone, Tasks
    <3>2. ph \in Phases
      BY <1>0, <2>0 DEF TaskInv
    <3>3. OnWay(p)' /\ {task[p].pane, task'[p].pane} \subseteq {None} \cup Recorded(disk)
      BY <2>0, <3>1, <3>2, OffWay DEF Recorded, Held
    <3> QED BY <2>0, <3>1, <3>3, RegistryQuiet DEF SameRecord, HerdrMoves
  <2> QED BY <2>2, <2>3
<1>4. CASE ReapClose(p)
  <2>0. /\ task[p].at = "reapClose" /\ disk' = disk /\ task[p].pane \in Ids
        /\ disk.pane[task[p].ph] = task[p].pane /\ task[p].ph \in Phases
    BY <1>0, <1>4 DEF ReapClose, At, HandInv, TaskInv
  <2>1. PICK ok \in BOOLEAN :
           IF ok THEN Closing({task[p].pane}) /\ Goto(p, "release")
                 ELSE ReapNext(p, task[p].ph) /\ UNCHANGED herdr
    BY <1>4 DEF ReapClose
  <2>2. CASE ok
    <3>1. Alone(p) /\ task'[p].at = "release" /\ task'[p].pane = task[p].pane
      BY <2>1, <2>2, GotoMoves DEF Steps
    <3>2. OnWay(p)'
      BY <2>0, <3>1 DEF OnWay
    <3> QED BY <2>0, <2>1, <2>2, <3>1, <3>2, RegistryQuiet DEF SameRecord, HerdrMoves
  <2>3. CASE ~ok
    <3>1. {task[p].pane, None} \subseteq {None} \cup Recorded(disk)
      BY <2>0 DEF Recorded, Held
    <3> QED BY <1>1, <2>0, <2>1, <2>3, <3>1, RegistryQuiet DEF SameRecord, HerdrMoves
  <2> QED BY <2>2, <2>3
<1>5. CASE ReapRelease(p)
  <2>0. /\ task[p].at = "release" /\ UNCHANGED herdr /\ task[p].at \in UnderLock
        /\ disk.pane[task[p].ph] = task[p].pane /\ task[p].ph \in Phases /\ task[p].pane \in Ids
        /\ ReapNext(p, task[p].ph)
    BY <1>0, <1>5 DEF ReapRelease, At, HandInv, UnderLock, TaskInv, OnWay, Panes
  <2>1. PICK ok \in BOOLEAN : Save(ok, Released(disk, task[p].ph, task[p].pane))
    BY <1>5 DEF ReapRelease
  <2>2. Alone(p) /\ task'[p].pane = None /\ OnWay(p)'
    BY <1>1, <2>0
  <2>3. /\ disk'.pane = IF ok THEN [disk.pane EXCEPT ![task[p].ph] = None] ELSE disk.pane
        /\ disk'.retired = IF ok THEN disk.retired \cup {task[p].pane} ELSE disk.retired
    BY <1>0, <2>1 DEF Save, Released, Ledger
  <2>4. CASE ok
    BY <2>0, <2>2, <2>3, <2>4, Releases, RegistryHolder
  <2>5. CASE ~ok
    <3>1. {task[p].pane, None} \subseteq {None} \cup Recorded(disk)
      BY <2>0 DEF Recorded, Held
    <3> QED BY <2>0, <2>2, <2>3, <2>5, <3>1, RegistryQuiet DEF SameRecord, HerdrMoves
  <2> QED BY <2>4, <2>5
<1> QED BY <1>2, <1>3, <1>4, <1>5 DEF ReapStep

LEMMA RegistryCleanups ==
    ASSUME LedgerInv, OwnInv, LockedUse, LockedInv, RegistryInv, NEW p \in Procs, CleanupStep(p)
    PROVE  RegistryInv' /\ [Registry!Next]_(Registry!vars)
<1>1. /\ task \in [Procs -> Tasks] /\ disk' = disk
      /\ task[p].at \in {"list", "closeAll", "closeEach"}
      /\ task[p].pane = None /\ HerdrMoves
  BY WayFacts DEF CleanupStep, CleanupList, CleanupCloseAll, CleanupCloseEach, At, HandInv, UnderLock, HerdrMoves, TryClose
<1>2. CASE Exit(p)
  BY <1>1, <1>2, ExitMoves, RegistryQuiet DEF SameRecord
<1>3. ASSUME NEW i, task' = [task EXCEPT ![p].todo = @ \ {i}]
      PROVE  RegistryInv' /\ [Registry!Next]_(Registry!vars)
  <2>1. Alone(p) /\ task'[p].at = task[p].at /\ task'[p].pane = None
    BY <1>1, <1>3 DEF Alone, Tasks
  <2>2. OnWay(p)'
    BY <1>1, <2>1, OffWay
  <2> QED BY <1>1, <2>1, <2>2, RegistryQuiet DEF SameRecord
<1>4. ASSUME NEW l \in {"closeAll", "closeEach"},
             task' = [task EXCEPT ![p].gone = live, ![p].at = l,
                                  ![p].todo = Ours(copy[p]) \cap live]
      PROVE  RegistryInv' /\ [Registry!Next]_(Registry!vars)
  <2>1. Alone(p) /\ task'[p].at = l /\ task'[p].pane = None
    BY <1>1, <1>4 DEF Alone, Tasks
  <2>2. OnWay(p)'
    BY <2>1, OffWay
  <2> QED BY <1>1, <2>1, <2>2, RegistryQuiet DEF SameRecord
<1>5. CASE CleanupList(p)
  BY <1>4, <1>5 DEF CleanupList
<1> QED BY <1>2, <1>3, <1>5 DEF CleanupStep, CleanupCloseAll, CleanupCloseEach

\* What happens around the commands.
LEMMA RegistryAround ==
    ASSUME LedgerInv, OwnInv, LockedUse, LockedInv, RegistryInv,
           \/ \E p \in Procs : Kill(p)
           \/ \E ph \in Phases : Complete(ph) \/ Reopen(ph)
           \/ HumanOpens \/ HumanCloses
           \/ UNCHANGED vars
    PROVE  RegistryInv' /\ [Registry!Next]_(Registry!vars)
<1>1. ~ \E p \in Procs : Kill(p)
  BY DEF Kill, LockedUse, LockedInv, IssuedInv
<1>2. task' = task /\ SameRecord /\ HerdrMoves
  <2>1. disk \in Ledger
    BY DEF LedgerInv, TypeOK
  <2>2. ASSUME NEW ph \in Phases, Complete(ph) \/ Reopen(ph) PROVE task' = task /\ SameRecord /\ UNCHANGED herdr
    BY <2>1, <2>2 DEF Complete, Reopen, Ledger, SameRecord, locals
  <2>3. CASE HumanOpens \/ HumanCloses \/ UNCHANGED vars
    BY <2>3 DEF HumanOpens, HumanCloses, vars, locals, SameRecord, HerdrMoves
  <2> QED BY <1>1, <2>2, <2>3 DEF HerdrMoves
<1>3. RegistryInv'
  BY <1>2, OnWayKept DEF RegistryInv
<1>4. InHand' = InHand
  BY <1>2 DEF InHand, SameRecord, Held
<1> QED BY <1>2, <1>3, <1>4, HerdrSimulates DEF LockedInv

LEMMA RegistryNext ==
    LedgerInv /\ OwnInv /\ LockedUse /\ LockedInv /\ RegistryInv /\ [Next]_vars
        => RegistryInv' /\ [Registry!Next]_(Registry!vars)
<1> SUFFICES ASSUME LedgerInv, OwnInv, LockedUse, LockedInv, RegistryInv, [Next]_vars
             PROVE  RegistryInv' /\ [Registry!Next]_(Registry!vars)
  OBVIOUS
<1>1. ASSUME NEW p \in Procs, StartStep(p) PROVE FALSE
  BY <1>1, LockedFacts DEF StartStep, StartPersist, StartConfigFails, StartCommit, At
<1>2. ASSUME NEW p \in Procs, BeginStep(p) \/ Step(p) PROVE RegistryInv' /\ [Registry!Next]_(Registry!vars)
  BY <1>1, <1>2, RegistryBegins, RegistryLaunches, RegistryRehydrates, RegistrySweeps, RegistryReaps,
     RegistryCleanups DEF Step
<1> QED BY <1>2, RegistryAround DEF Next

LEMMA RegistryInit == Init => RegistryInv /\ Registry!Init
<1> SUFFICES ASSUME Init PROVE RegistryInv /\ Registry!Init
  OBVIOUS
<1>1. RegistryInv
  BY DEF Init, RegistryInv, OnWay, Idle
<1>2. InHand = {}
  BY DEF Init, InHand, Idle
<1>3. PICK held \in [Phases -> Panes \cup {None}], retired \in SUBSET {Root} :
         /\ \A a, b \in Phases : a # b /\ held[a] # None => held[a] # held[b]
         /\ disk = [Blank EXCEPT !.pane = held, !.retired = retired,
                      !.status = [ph \in Phases |-> IF held[ph] = None THEN "Pending" ELSE "Running"],
                      !.ran = {ph \in Phases : held[ph] # None}]
         /\ live = {Root} \cup Held(disk)
         /\ agent = [i \in Panes |-> IF \E ph \in Phases : held[ph] = i
                                       THEN CHOOSE ph \in Phases : held[ph] = i ELSE None]
         /\ issued = Held(disk) \ {Root}
  BY DEF Init
<1>4. disk.pane = held /\ disk.retired = retired /\ Held(disk) = {held[ph] : ph \in Phases} \ {None}
  BY <1>3 DEF Blank, Held
<1>5. agent \in [Panes -> Phases \cup {None}] /\ \A i \in Panes, ph \in Phases : agent[i] = ph <=> held[ph] = i
  <2>1. ASSUME NEW i \in Panes
        PROVE  agent[i] \in Phases \cup {None} /\ \A ph \in Phases : agent[i] = ph <=> held[ph] = i
    <3>1. agent[i] = IF \E ph \in Phases : held[ph] = i THEN CHOOSE ph \in Phases : held[ph] = i ELSE None
      BY <1>3
    <3>2. CASE \E ph \in Phases : held[ph] = i
      <4>1. agent[i] \in Phases /\ held[agent[i]] = i
        BY <3>1, <3>2
      <4> QED BY <1>3, <4>1 DEF Panes
    <3>3. CASE ~ \E ph \in Phases : held[ph] = i
      BY <3>1, <3>3
    <3> QED BY <3>2, <3>3
  <2>2. agent = [i \in Panes |-> agent[i]]
    BY <1>3
  <2> QED BY <2>1, <2>2
<1>6. issued \cup {Root} = live
  BY <1>3
<1>7. human = {}
  BY DEF Init
<1>8. /\ disk.pane \in [Phases -> Panes \cup {None}] /\ disk.retired \subseteq {Root}
      /\ \A a, b \in Phases : a # b /\ disk.pane[a] # None => disk.pane[a] # disk.pane[b]
  BY <1>3, <1>4
<1>9. live = {Root} \cup ({disk.pane[ph] : ph \in Phases} \ {None})
  <2>1. live = {Root} \cup Held(disk)
    BY <1>3
  <2> QED BY <2>1 DEF Held
<1>10. agent \in [Panes -> Phases \cup {None}] /\ \A i \in Panes, ph \in Phases : agent[i] = ph <=> disk.pane[ph] = i
  BY <1>4, <1>5
<1>11. Registry!Init
  BY <1>2, <1>6, <1>7, <1>8, <1>9, <1>10 DEF Registry!Init
<1> QED BY <1>1, <1>11

\* Whichever two calls fail, the commands under the lock treat the panes of a run
\* as one registry does: they record a pane before they open another, retire it
\* when its registration ends, and forget it when it has gone (the saves of
\* phase_rehydrate, phase_reap and reap_retired, and what they read under the lock).
THEOREM RegistryRefined == ASSUME LockedUse PROVE Spec => ImplementsRegistry
<1>1. Init => LedgerInv /\ OwnInv /\ LockedInv /\ RegistryInv /\ Registry!Init
  BY InitInv, OwnInit, LockedInit, RegistryInit
<1>2. LedgerInv /\ OwnInv /\ LockedInv /\ RegistryInv /\ [Next]_vars
         => LedgerInv' /\ OwnInv' /\ LockedInv' /\ RegistryInv' /\ [Registry!Next]_(Registry!vars)
  BY LedgerStep, OwnNext, LockedNext, RegistryNext DEF LockedUse
<1> QED BY <1>1, <1>2, PTL DEF Spec, ImplementsRegistry, Registry!Spec
=============================================================================
