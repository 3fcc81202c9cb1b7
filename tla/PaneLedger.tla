------------------------------ MODULE PaneLedger ------------------------------
(***************************************************************************)
(* Which herdr panes are alive, and which of them state.json says are      *)
(* drovr's. `phase start`, `phase rehydrate`, `phase reap` (with the sweep *)
(* of retired panes) and `cleanup` open, launch into, record, retire and   *)
(* close panes; a human opens and closes panes of her own beside them.     *)
(*                                                                         *)
(* Rehydrate, reap and sweep hold run.lock, which is tried and never       *)
(* waited for; `phase start` and `cleanup` do not take it. Every herdr     *)
(* call and every save is an action of its own and may fail. A load that   *)
(* is edited and saved at once, with no herdr call between, is one action  *)
(* (the window inside it is PassProtocol's); a copy held across herdr      *)
(* calls is kept in `copy` and saved whole, however stale.                 *)
(*                                                                         *)
(* Left out: reviewers, session capture, markers and passes, the archived  *)
(* flag, and the replacement of a workspace that is gone.                  *)
(***************************************************************************)
EXTENDS Naturals, FiniteSets

CONSTANTS Phases,    \* the run's pipeline phases
          Ids,       \* the pane ids herdr can hand out
          Root,      \* run.root_pane, the shell that anchors the workspace
          None,      \* no pane
          Procs,     \* drovr processes
          Commands,  \* which of the commands they run
          Reuse,     \* may herdr hand out the id of a closed pane again?
          MaxFaults, \* bound: herdr calls and saves that fail
          MaxKills   \* bound: processes killed inside a command

ASSUME LedgerAssumption ==
    /\ Root \notin Ids /\ None \notin Ids /\ Root # None
    /\ None \notin Procs /\ None \notin Phases
    /\ Commands \subseteq {"start", "rehydrate", "reap", "cleanup"}
    /\ Reuse \in BOOLEAN /\ MaxFaults \in Nat /\ MaxKills \in Nat

VARIABLES
    live,    \* herdr's panes in the run's workspace (none: it is closed)
    human,   \* the live ones the human opened
    agent,   \* the phase whose agent was launched in each pane
    issued,  \* ghost: the ids herdr has handed out
    disk,    \* state.json
    lock,    \* the process that holds run.lock
    task,    \* the command each process is in
    copy,    \* its RunState
    faults, kills

herdr == <<live, human, agent, issued>>
locals == <<task, copy>>
bounds == <<faults, kills>>
vars == <<herdr, disk, lock, locals, bounds>>

Panes == Ids \cup {Root}
Nobody == None
Ledger == [pane : [Phases -> Panes \cup {None}],
           status : [Phases -> {"Pending", "Running", "Done"}],
           reaped : SUBSET Phases, ran : SUBSET Phases, retired : SUBSET Panes]
Blank == [pane |-> [ph \in Phases |-> None], status |-> [ph \in Phases |-> "Pending"],
          reaped |-> {}, ran |-> {}, retired |-> {}]

Steps == {"persist", "tab", "launch", "commit", "ready", "discard", "surrender", "giveBack",
          "close", "peek", "sweepLock", "sweep", "sweepSave", "reapLock", "reapClose",
          "release", "list", "closeAll", "closeEach"}
Idle == [at |-> "idle", kind |-> "none", ph |-> None, pane |-> None, created |-> FALSE,
         todo |-> {}, gone |-> {}]
Tasks == [at : Steps \cup {"idle"}, kind : Commands \cup {"none"}, ph : Phases \cup {None},
          pane : Panes \cup {None}, created : BOOLEAN,
          todo : SUBSET (Panes \cup Phases), gone : SUBSET (Panes \cup Phases)]

-----------------------------------------------------------------------------
(* The predicates of RunState *)

Held(l) == {l.pane[ph] : ph \in Phases} \ {None}
\* drovr_pane_ids: the whole definition of "drovr's panes" at cleanup.
Ours(l) == {Root} \cup Held(l) \cup l.retired
\* reapable_retired: never the root shell, never a pane a phase still records.
ReapableRetired(l) == l.retired \ ({Root} \cup Held(l))
\* Mutant: the root shell is not excluded.
ReapableAny(l, ph) == l.pane[ph] # None
\* reapable.
Reapable(l, ph) == l.pane[ph] \notin {None, Root}
\* superseded_by: the other phases that are Done and hold a reapable pane.
SupersededBy(l, ph) == {q \in Phases \ {ph} : l.status[q] = "Done" /\ Reapable(l, q)}
\* rehydratable: no pane, has run, and an agent is known to have been there.
Rehydratable(l, ph) == /\ l.pane[ph] = None
                       /\ ph \in l.reaped \/ (l.status[ph] # "Pending" /\ ph \in l.ran)

Retire(l, pane) == [l EXCEPT !.retired = @ \cup {pane}]
\* set_pane and record_launch.
Register(l, ph, pane) == [l EXCEPT !.pane[ph] = pane, !.reaped = @ \ {ph}, !.ran = @ \cup {ph}]
\* Mutant: the pane is released and not retired.
ReleasedUnretired(l, ph, pane) == [l EXCEPT !.pane[ph] = None, !.reaped = @ \cup {ph}]

\* mark_reaped and retire_pane, in one save.
Released(l, ph, pane) ==
    [l EXCEPT !.pane[ph] = None, !.reaped = @ \cup {ph}, !.retired = @ \cup {pane}]

-----------------------------------------------------------------------------
(* Steps *)

At(p, l) == task[p].at = l
Goto(p, l) == task' = [task EXCEPT ![p].at = l]
Exit(p) == /\ task' = [task EXCEPT ![p] = Idle]
           /\ copy' = [copy EXCEPT ![p] = Blank]
           /\ lock' = IF lock = p THEN Nobody ELSE lock
\* One fallible step, and whether it worked.
Try(ok) == /\ ~ ok => faults < MaxFaults
           /\ faults' = IF ok THEN faults ELSE faults + 1
           /\ UNCHANGED kills
Save(ok, ledger) == disk' = IF ok THEN ledger ELSE disk
Closing(panes) == /\ live' = live \ panes /\ human' = human \ panes
                  /\ agent' = [i \in Panes |-> IF i \in panes THEN None ELSE agent[i]]
                  /\ UNCHANGED issued
\* The bound on Ids is met as tab_create failing.
Openable == IF live = {} THEN {} ELSE Ids \ (IF Reuse THEN live ELSE issued)
Opening(i) == /\ i \in Openable
              /\ live' = live \cup {i} /\ issued' = issued \cup {i}
              /\ UNCHANGED agent
\* pane_close.
TryClose(ok, pane) == /\ pane \notin live => ok
                      /\ Try(ok)
                      /\ IF ok THEN Closing({pane}) ELSE UNCHANGED herdr

Begin(p, kind, ph, l) == /\ kind \in Commands /\ At(p, "idle")
                         /\ task' = [task EXCEPT ![p] = [Idle EXCEPT !.at = l, !.kind = kind, !.ph = ph]]
                         /\ copy' = [copy EXCEPT ![p] = disk]
                         /\ UNCHANGED <<herdr, disk, bounds>>

-----------------------------------------------------------------------------
(* phase start, and the launch it shares with phase rehydrate *)

StartBegin(p, ph) == /\ live # {}
                     /\ Begin(p, "start", ph, "persist")
                     /\ UNCHANGED lock

\* `Running` is saved before the pane is touched.
StartPersist(p) ==
    /\ At(p, "persist")
    /\ \E ok \in BOOLEAN :
          LET l == [copy[p] EXCEPT !.status[task[p].ph] = "Running"] IN
          /\ Try(ok) /\ Save(ok, l)
          /\ IF ok THEN /\ copy' = [copy EXCEPT ![p] = l]
                        /\ Goto(p, "tab") /\ UNCHANGED lock
                   ELSE Exit(p)
    /\ UNCHANGED herdr

\* A restarting phase reuses its own pane; otherwise tab_create opens one.
Tab(p) ==
    /\ At(p, "tab")
    /\ LET own == copy[p].pane[task[p].ph] IN
       \/ /\ own # None
          /\ task' = [task EXCEPT ![p].at = "launch", ![p].pane = own]
          /\ UNCHANGED <<herdr, lock, copy, bounds>>
       \/ /\ own = None
          /\ \E i \in Ids :
                /\ Opening(i)
                /\ task' = [task EXCEPT ![p].at = "launch", ![p].pane = i, ![p].created = TRUE]
          /\ UNCHANGED <<human, lock, copy, bounds>>
       \/ /\ own = None
          /\ IF Openable = {} THEN UNCHANGED bounds ELSE Try(FALSE)
          /\ Exit(p) /\ UNCHANGED herdr
    /\ UNCHANGED disk

\* launch_in_pane: pane_run is its one fallible step.
Launch(p) ==
    /\ At(p, "launch") /\ task[p].pane \in live
    /\ agent' = [agent EXCEPT ![task[p].pane] = task[p].ph]
    /\ Goto(p, "commit")
    /\ UNCHANGED <<live, human, issued, disk, lock, copy, bounds>>

LaunchFails(p) ==
    /\ At(p, "launch")
    /\ IF task[p].pane \in live THEN Try(FALSE) ELSE UNCHANGED bounds
    /\ IF task[p].created THEN Goto(p, "discard") /\ UNCHANGED <<lock, copy>> ELSE Exit(p)
    /\ UNCHANGED <<herdr, disk>>

\* phase_start reads the configuration only after tab_create.
StartConfigFails(p) ==
    /\ At(p, "launch") /\ task[p].kind = "start"
    /\ Try(FALSE) /\ Exit(p)
    /\ UNCHANGED <<herdr, disk>>

\* discard_unlaunched_pane: retired in the caller's copy, saved best effort.
Discard(p) ==
    /\ At(p, "discard")
    /\ \E ok \in BOOLEAN : Try(ok) /\ Save(ok, Retire(copy[p], task[p].pane))
    /\ Goto(p, "close")
    /\ UNCHANGED <<herdr, lock, copy>>

\* The best-effort close that ends a discard and both kinds of surrender.
CloseAndFail(p) ==
    /\ At(p, "close")
    /\ \E ok \in BOOLEAN : TryClose(ok, task[p].pane)
    /\ Exit(p)
    /\ UNCHANGED disk

StartCommit(p) ==
    /\ At(p, "commit") /\ task[p].kind = "start"
    /\ \E ok \in BOOLEAN :
          LET l == Register([copy[p] EXCEPT !.status[task[p].ph] = "Running"],
                            task[p].ph, task[p].pane) IN
          /\ Try(ok) /\ Save(ok, l)
          /\ IF ok THEN /\ copy' = [copy EXCEPT ![p] = l]
                        /\ task' = [task EXCEPT ![p].at = "peek", ![p].pane = None,
                                                ![p].created = FALSE]
                        /\ UNCHANGED lock
                   ELSE Exit(p)
    /\ UNCHANGED herdr

-----------------------------------------------------------------------------
(* phase rehydrate *)

\* Mutant: the lock is not looked at.
RehydrateUnlocked(p, ph) ==
    /\ Rehydratable(disk, ph)
    /\ Begin(p, "rehydrate", ph, "tab")
    /\ lock' = p

\* The lock, a fresh read under it, and the precondition; a refusal does nothing.
RehydrateBegin(p, ph) ==
    /\ lock = Nobody /\ Rehydratable(disk, ph)
    /\ Begin(p, "rehydrate", ph, "tab")
    /\ lock' = p

\* The pane is recorded only now that its agent runs; the status is left alone.
RehydrateCommit(p) ==
    /\ At(p, "commit") /\ task[p].kind = "rehydrate"
    /\ \E ok \in BOOLEAN :
          /\ Try(ok) /\ Save(ok, Register(copy[p], task[p].ph, task[p].pane))
          /\ Goto(p, IF ok THEN "ready" ELSE "surrender")
    /\ UNCHANGED <<herdr, lock, copy>>

\* Mutant: the pane is closed without recording that it is drovr's.
SurrenderUnrecorded(p) ==
    /\ At(p, "surrender") /\ Goto(p, "close")
    /\ UNCHANGED <<herdr, disk, lock, copy, bounds>>

\* surrender_unrecordable_pane: retired on a fresh read, best effort.
Surrender(p) ==
    /\ At(p, "surrender")
    /\ \E ok \in BOOLEAN : Try(ok) /\ Save(ok, Retire(disk, task[p].pane))
    /\ Goto(p, "close")
    /\ UNCHANGED <<herdr, lock, copy>>

\* Resumed, reseeded, never ready or unobserved: the pane is kept. Only a
\* different session seen in it gives it back.
RehydrateReady(p) ==
    /\ At(p, "ready")
    /\ \/ Exit(p)
       \/ Goto(p, "giveBack") /\ UNCHANGED <<lock, copy>>
    /\ UNCHANGED <<herdr, disk, bounds>>

\* surrender_misattributed_pane: released, and then closed either way.
GiveBack(p) ==
    /\ At(p, "giveBack")
    /\ \E ok \in BOOLEAN : Try(ok) /\ Save(ok, Released(disk, task[p].ph, task[p].pane))
    /\ Goto(p, "close")
    /\ UNCHANGED <<herdr, lock, copy>>

-----------------------------------------------------------------------------
(* phase reap: the sweep of the retired panes, then the phases to reap *)

ReapBegin(p, ph) == /\ Begin(p, "reap", ph, "peek")
                    /\ UNCHANGED lock

\* After the sweep: the phase the operator named, or those superseded by a start.
ToReap(p, ledger) ==
    IF task[p].kind = "reap" THEN {task[p].ph} ELSE SupersededBy(ledger, task[p].ph)
SweepDone(p, ledger) ==
    /\ task' = [task EXCEPT ![p].at = "reapLock", ![p].todo = ToReap(p, ledger), ![p].gone = {}]
    /\ lock' = IF lock = p THEN Nobody ELSE lock

\* reap_retired first asks, without the lock, whether there is any work; a
\* start whose configuration turns reaping off does neither.
SweepPeek(p) ==
    /\ At(p, "peek")
    /\ \/ task[p].kind = "start" /\ Exit(p)
       \/ /\ IF ReapableRetired(disk) = {} THEN SweepDone(p, copy[p])
             ELSE Goto(p, "sweepLock") /\ UNCHANGED lock
          /\ UNCHANGED copy
    /\ UNCHANGED <<herdr, disk, bounds>>

SweepLock(p) ==
    /\ At(p, "sweepLock")
    /\ IF lock # Nobody \/ ReapableRetired(disk) = {}
         THEN SweepDone(p, copy[p]) /\ UNCHANGED copy
         ELSE /\ lock' = p
              /\ copy' = [copy EXCEPT ![p] = disk]
              /\ task' = [task EXCEPT ![p].at = "sweep", ![p].todo = ReapableRetired(disk)]
    /\ UNCHANGED <<herdr, disk, bounds>>

\* One retired pane: gone already, closed, or left (unreadable, close failed).
SweepClose(p) ==
    /\ At(p, "sweep")
    /\ \E i \in task[p].todo, ok \in BOOLEAN :
          /\ Try(ok)
          /\ IF ok THEN Closing({i}) ELSE UNCHANGED herdr
          /\ task' = [task EXCEPT ![p].todo = @ \ {i},
                                  ![p].gone = IF ok THEN @ \cup {i} ELSE @,
                                  ![p].at = IF task[p].todo = {i} THEN "sweepSave" ELSE @]
    /\ UNCHANGED <<disk, lock, copy>>

\* forget_retired_panes, on a fresh read.
SweepSave(p) ==
    /\ At(p, "sweepSave")
    /\ \E ok \in BOOLEAN :
          LET l == [disk EXCEPT !.retired = @ \ task[p].gone] IN
          /\ IF task[p].gone = {} THEN ok /\ UNCHANGED bounds ELSE Try(ok)
          /\ Save(ok, l)
          /\ LET known == IF ok /\ task[p].gone # {} THEN l ELSE copy[p] IN
                copy' = [copy EXCEPT ![p] = known] /\ SweepDone(p, known)
    /\ UNCHANGED herdr

\* One phase of the list is done with. The copy is not read again.
ReapNext(p, ph) ==
    /\ task' = [task EXCEPT ![p].at = "reapLock", ![p].pane = None, ![p].todo = @ \ {ph}]
    /\ lock' = IF lock = p THEN Nobody ELSE lock

ReapOver(p) == /\ At(p, "reapLock") /\ task[p].todo = {}
               /\ Exit(p)
               /\ UNCHANGED <<herdr, disk, bounds>>

\* phase_reap: the lock, a fresh read under it, and the precondition.
ReapLock(p) ==
    /\ At(p, "reapLock")
    /\ \E ph \in task[p].todo :
          IF lock # Nobody \/ ~ Reapable(disk, ph)
            THEN ReapNext(p, ph)
            ELSE /\ lock' = p
                 /\ task' = [task EXCEPT ![p].at = "reapClose", ![p].pane = disk.pane[ph],
                                         ![p].todo = @ \ {ph}, ![p].ph = ph]
    /\ UNCHANGED <<herdr, disk, copy, bounds>>

\* Mutant: a pane herdr no longer has is kept like one it cannot be asked about.
ReapCloseLive(p) ==
    /\ At(p, "reapClose")
    /\ \E ok \in BOOLEAN :
          /\ Try(ok)
          /\ IF ok /\ task[p].pane \in live
               THEN Closing({task[p].pane}) /\ Goto(p, "release") /\ UNCHANGED lock
               ELSE ReapNext(p, task[p].ph) /\ UNCHANGED herdr
    /\ UNCHANGED <<disk, copy>>

\* Gone already, closed, or kept with its registration (unreadable, close failed).
ReapClose(p) ==
    /\ At(p, "reapClose")
    /\ \E ok \in BOOLEAN :
          /\ Try(ok)
          /\ IF ok THEN Closing({task[p].pane}) /\ Goto(p, "release") /\ UNCHANGED lock
                   ELSE ReapNext(p, task[p].ph) /\ UNCHANGED herdr
    /\ UNCHANGED <<disk, copy>>

\* release_phase_from_pane, on a fresh read.
ReapRelease(p) ==
    /\ At(p, "release")
    /\ \E ok \in BOOLEAN : Try(ok) /\ Save(ok, Released(disk, task[p].ph, task[p].pane))
    /\ ReapNext(p, task[p].ph)
    /\ UNCHANGED <<herdr, copy>>

-----------------------------------------------------------------------------
(* cleanup *)

CleanupBegin(p) == /\ Begin(p, "cleanup", None, "list")
                   /\ UNCHANGED lock

\* Mutant: what else is in the workspace is not looked at.
CleanupBlindly(p) ==
    /\ At(p, "list")
    /\ task' = [task EXCEPT ![p].at = "closeAll", ![p].gone = live]
    /\ copy' = [copy EXCEPT ![p] = Blank]
    /\ UNCHANGED <<herdr, disk, lock, bounds>>

\* close_run_panes lists the workspace. Nothing foreign in it: it goes as a
\* whole. Otherwise, or if it cannot be listed, drovr's own panes go one by one.
\* The copy is not looked at again.
CleanupList(p) ==
    /\ At(p, "list")
    /\ \E ok \in BOOLEAN :
          /\ Try(ok)
          /\ task' = [task EXCEPT ![p].gone = live,
                                  ![p].at = IF ok /\ live \subseteq Ours(copy[p])
                                              THEN "closeAll" ELSE "closeEach",
                                  ![p].todo = Ours(copy[p]) \cap live]
    /\ copy' = [copy EXCEPT ![p] = Blank]
    /\ UNCHANGED <<herdr, disk, lock>>

CleanupCloseAll(p) ==
    /\ At(p, "closeAll")
    /\ \E ok \in BOOLEAN : Try(ok) /\ IF ok THEN Closing(live) ELSE UNCHANGED herdr
    /\ Exit(p)
    /\ UNCHANGED disk

CleanupCloseEach(p) ==
    /\ At(p, "closeEach")
    /\ \/ \E i \in task[p].todo, ok \in BOOLEAN :
             /\ TryClose(ok, i)
             /\ task' = [task EXCEPT ![p].todo = @ \ {i}]
             /\ UNCHANGED <<lock, copy>>
       \/ task[p].todo = {} /\ Exit(p) /\ UNCHANGED <<herdr, bounds>>
    /\ UNCHANGED disk

-----------------------------------------------------------------------------
(* What happens around the commands *)

\* phase wait records a completion, and phase send takes it back.
Complete(ph) == /\ disk.status[ph] = "Running"
                /\ disk' = [disk EXCEPT !.status[ph] = "Done"]
                /\ UNCHANGED <<herdr, lock, locals, bounds>>
Reopen(ph) == /\ disk.status[ph] = "Done" /\ disk.pane[ph] # None
              /\ disk' = [disk EXCEPT !.status[ph] = "Running"]
              /\ UNCHANGED <<herdr, lock, locals, bounds>>

HumanOpens == \E i \in Ids : /\ Opening(i) /\ human' = human \cup {i}
                             /\ UNCHANGED <<disk, lock, locals, bounds>>
HumanCloses == \E i \in live \ {Root} : /\ Closing({i})
                                        /\ UNCHANGED <<disk, lock, locals, bounds>>

\* The operating system drops a killed process's lock.
Kill(p) == /\ ~ At(p, "idle") /\ kills < MaxKills /\ kills' = kills + 1
           /\ Exit(p)
           /\ UNCHANGED <<herdr, disk, faults>>

-----------------------------------------------------------------------------
\* A run under way: each phase is pending, or running in a pane of its own, or,
\* begun by an older drovr, in the root shell, which that drovr may have retired.
Init ==
    /\ \E held \in [Phases -> Panes \cup {None}], retired \in SUBSET {Root} :
          /\ \A a, b \in Phases : a # b /\ held[a] # None => held[a] # held[b]
          /\ disk = [Blank EXCEPT !.pane = held, !.retired = retired,
                        !.status = [ph \in Phases |-> IF held[ph] = None THEN "Pending" ELSE "Running"],
                        !.ran = {ph \in Phases : held[ph] # None}]
          /\ live = {Root} \cup Held(disk)
          /\ agent = [i \in Panes |-> IF \E ph \in Phases : held[ph] = i
                                        THEN CHOOSE ph \in Phases : held[ph] = i ELSE None]
          /\ issued = Held(disk) \ {Root}
    /\ human = {} /\ lock = Nobody
    /\ task = [p \in Procs |-> Idle] /\ copy = [p \in Procs |-> Blank]
    /\ faults = 0 /\ kills = 0

StartStep(p) == StartPersist(p) \/ StartConfigFails(p) \/ StartCommit(p)
LaunchStep(p) == \/ Tab(p) \/ Launch(p) \/ LaunchFails(p) \/ Discard(p) \/ CloseAndFail(p)
RehydrateStep(p) == \/ RehydrateCommit(p) \/ Surrender(p) \/ RehydrateReady(p) \/ GiveBack(p)
SweepStep(p) == SweepPeek(p) \/ SweepLock(p) \/ SweepClose(p) \/ SweepSave(p)
ReapStep(p) == ReapLock(p) \/ ReapClose(p) \/ ReapRelease(p) \/ ReapOver(p)
CleanupStep(p) == CleanupList(p) \/ CleanupCloseAll(p) \/ CleanupCloseEach(p)
Step(p) == \/ StartStep(p) \/ LaunchStep(p) \/ RehydrateStep(p) \/ SweepStep(p)
           \/ ReapStep(p) \/ CleanupStep(p)
BeginStep(p) == \/ \E ph \in Phases : StartBegin(p, ph) \/ RehydrateBegin(p, ph) \/ ReapBegin(p, ph)
                \/ CleanupBegin(p)

Next == \/ \E p \in Procs : BeginStep(p) \/ Step(p) \/ Kill(p)
        \/ \E ph \in Phases : Complete(ph) \/ Reopen(ph)
        \/ HumanOpens \/ HumanCloses

Spec == Init /\ [][Next]_vars

\* A command that began takes its steps, and an operator whose phase is stuck on
\* a pane keeps reaping it, also when the lock was held the last time.
FairSpec == /\ Spec
            /\ \A p \in Procs : /\ WF_vars(Step(p))
                                /\ SF_vars(ReapLock(p) /\ lock = Nobody)
            /\ \A p \in Procs, ph \in Phases : SF_vars(ReapBegin(p, ph))

-----------------------------------------------------------------------------
TypeOK ==
    /\ live \subseteq Panes /\ human \subseteq live /\ issued \subseteq Ids
    /\ agent \in [Panes -> Phases \cup {None}]
    /\ disk \in Ledger
    /\ lock \in Procs \cup {Nobody}
    /\ task \in [Procs -> Tasks]
    /\ copy \in [Procs -> Ledger]
    /\ faults \in Nat /\ kills \in Nat

\* "Never live-but-unrecorded is the invariant": a live pane drovr opened is in
\* state.json, as a phase's or as retired, or is in the hands of the command
\* that opened it, which has yet to record it or to take it back
\* (phase_rehydrate, surrender_unrecordable_pane, discard_unlaunched_pane).
NoStrandedPane ==
    \A i \in live \ human :
        i \in Ours(disk) \/ \E p \in Procs : task[p].pane = i

\* Nobody's conversation is running twice: of the live panes an agent of a
\* phase was launched in, all but one are given up, recorded as retired or
\* about to be closed (the lock and the fresh read of phase_rehydrate).
OneAgentPerPhase ==
    \A i, j \in live : agent[i] # None /\ agent[i] = agent[j] /\ i # j
        => \E g \in {i, j} : \/ g \in disk.retired
                             \/ \E p \in Procs : task[p].pane = g /\ task[p].at \in {"surrender", "close"}

\* "never close what you cannot prove is yours": no command closes a pane of
\* the human's, short of one opened after cleanup had found the workspace free
\* of foreign panes (close_run_panes, reap_retired, phase_reap).
ClosesOnlyOurs ==
    [][\A p \in Procs : task[p].at # "idle" /\ task'[p] # task[p]
          => \A i \in human \ human' : (task[p].at = "closeAll" /\ i \notin task[p].gone)]_vars

\* herdr destroys a workspace with its last pane: only cleanup closes the root
\* shell, whatever an older drovr recorded in it (reapable, reapable_retired).
RootSurvives ==
    [][(Root \in live /\ Root \notin live')
          => \E p \in Procs : task[p].at \in {"closeAll", "closeEach"}]_vars

\* For the commands that hold the lock, whichever call fails: state.json, whoever
\* saves which copy of it, moves one pane at a time along its way. A pane just
\* opened is recorded before another is opened, a registration becomes a retired
\* pane, and that is forgotten only when it is gone (the order of the saves in
\* phase_rehydrate, phase_reap and reap_retired, and their reads under the lock).
InHand == {task[p].pane : p \in Procs} \ ({None} \cup Held(disk) \cup disk.retired)
Registry == INSTANCE PaneRegistry WITH pane <- disk.pane, retired <- disk.retired,
                                       hand <- InHand, issued <- issued \cup {Root}
ImplementsRegistry == Registry!Spec

\* A registration whose pane is gone is not stuck for good: re-running the reap
\* clears it, whatever failed the last time (unreaped_pane_error).
StuckRegistrationClears ==
    \A ph \in Phases : (disk.pane[ph] # None /\ disk.pane[ph] \notin live)
        ~> (disk.pane[ph] = None \/ disk.pane[ph] \in live)
=============================================================================
