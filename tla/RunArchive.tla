------------------------------ MODULE RunArchive ------------------------------
(***************************************************************************)
(* Whether a run is archived, and which herdr workspace is its own. Both   *)
(* are in state.json, which no command locks. The human decides the first: *)
(* the Archive and Restore buttons, and cleanup, close the workspace, read *)
(* the file again and save it. Every other command holds a copy, for as    *)
(* long as half an hour, replaces a workspace that is gone                 *)
(* (ensure_workspace), and saves the copy whole, with the flag taken from  *)
(* the file (save_preserving_archived), or, in three places, not.          *)
(*                                                                         *)
(* Each load and each write of the file is a step. The panes within a      *)
(* workspace are PaneLedger's, a phase's pass PassProtocol's, the panel    *)
(* ReviewPanel's. Left out: an unreadable file, and a run without a        *)
(* project directory, both refused before anything is created.             *)
(***************************************************************************)
EXTENDS Naturals, FiniteSets

CONSTANTS Procs,      \* whoever runs a command or serves a click
          Workspaces, \* workspaces herdr may have
          First,      \* the run's own, from `drovr new`
          None,       \* no workspace
          Ops,        \* what is run: start, panel, resurrect, rehydrate, archive, restore, purge
          MaxCalls,   \* bound: commands and clicks
          MaxTrouble  \* bound: failures, kills, workspaces that vanish, panes of the human's

Clicks == {"archive", "restore", "purge"}
ASSUME ArchiveAssumption ==
    /\ First \in Workspaces /\ None \notin Workspaces
    /\ Ops \subseteq Clicks \cup {"start", "panel", "resurrect", "rehydrate"}
    /\ MaxCalls \in Nat /\ MaxTrouble \in Nat

VARIABLES
    disk,    \* state.json: is it there, its flag, its workspace and its phase's status
    ws,      \* herdr's workspaces
    foreign, \* those in which the human has a pane
    cmd,     \* each command
    calls, trouble,
    excused, \* ghost: live workspaces that nothing records, for a cause
    reclaimed, \* ghost: workspaces given back
    decision \* ghost: what the human decided last

ghosts == <<excused, reclaimed, decision>>
bounds == <<calls, trouble>>
vars == <<disk, ws, foreign, cmd, bounds, ghosts>>

File == [there : BOOLEAN, archived : BOOLEAN, ws : Workspaces \cup {None},
         phase : {"Absent", "Running", "Failed"}]
Missing == [there |-> FALSE, archived |-> FALSE, ws |-> None, phase |-> "Absent"]

\* A command: what it is at, its copy, what it writes and why; the workspace it
\* has created and not recorded. Ghosts: whether the flag, or anything, was
\* written since it read; whether the run was ever not archived meanwhile.
Idle == [op |-> "none", at |-> "idle", copy |-> Missing, draft |-> Missing, why |-> "none",
         hand |-> None, missed |-> FALSE, stale |-> FALSE, open |-> FALSE]
Alive(w) == w # None /\ ws[w] = "live"

-----------------------------------------------------------------------------
(* Saving *)

\* The saves that take their value of the flag from the copy.
Plain == {"discard", "rehydrate", "unbriefed"}
\* c goes on to write d, for this reason.
Saves(c, d, reason) == [c EXCEPT !.at = IF reason \in Plain THEN "write" ELSE "reread",
                                 !.draft = d, !.why = reason]
\* A command that cannot go on exits; a panel tries its next reviewer.
Refused(c) == IF c.op = "panel" THEN [c EXCEPT !.at = "next", !.hand = None] ELSE Idle

\* Mutant: the flag of the copy is as good as the file's.
KeepsFlag(d) == d
\* save_preserving_archived: the flag is the file's, if there is a file.
Preserving(d) == IF disk.there THEN [d EXCEPT !.archived = disk.archived] ELSE d
\* Whoever decides reads the whole file again, or falls back on its copy.
Decided(c) == [(IF disk.there THEN disk ELSE c.copy) EXCEPT !.archived = (c.op = "archive")]
Reread(p) ==
    LET c == cmd[p]
    IN /\ c.at = "reread"
       /\ IF c.why = "merge" /\ ~ disk.there THEN cmd' = [cmd EXCEPT ![p] = Idle]
          ELSE cmd' = [cmd EXCEPT ![p] =
                  [c EXCEPT !.at = "write", !.missed = FALSE,
                            !.stale = @ /\ c.why \notin {"decide", "merge"},
                            !.draft = CASE c.why = "decide" -> Decided(c)
                                        [] c.why = "merge"  -> disk
                                        [] OTHER            -> Preserving(@)]]
       /\ UNCHANGED <<disk, ws, foreign, bounds, ghosts>>

\* What comes after a save that worked.
Done(c) ==
    CASE c.why = "repair" /\ c.op = "resurrect" -> Idle
      [] c.why = "repair"                       -> [c EXCEPT !.at = "ready"]
      [] c.why = "mark"                         -> [c EXCEPT !.at = "launch"]
      [] c.why = "launched" /\ c.op = "start"   -> [c EXCEPT !.at = "brief"]
      [] c.why = "launched" /\ c.op = "panel"   -> [c EXCEPT !.at = "next"]
      [] c.why = "reopen"                       -> [c EXCEPT !.at = "deliver"]
      [] c.why = "discard"                      -> Refused(c)
      [] c.why = "last"                         -> Saves(c, c.copy, "merge")
      [] OTHER                                  -> Idle
\* Mutant: the repair is made on the run itself.
InPlace(c) == c.draft
\* After a save that failed the repair is dropped; anything else stays in the copy.
Undone(c) == IF c.why = "repair" THEN c.copy ELSE c.draft
\* A brief that cannot be delivered fails the phase it started.
Unbriefed(c) == Saves(c, [c.copy EXCEPT !.phase = "Failed"], "unbriefed")
Failed(c) ==
    LET u == [c EXCEPT !.copy = Undone(c)]
    IN CASE c.why = "repair" -> [u EXCEPT !.at = "reclaim"]
         [] c.why = "last"   -> Saves(u, u.copy, "merge")
         [] c.why = "merge"  -> Idle
         [] c.why = "reopen" -> Unbriefed(u)
         [] OTHER            -> Refused(u)

\* What others, at work, have missed when the file changes to f.
Passed(q, f) ==
    IF cmd[q].at = "idle" THEN cmd[q]
    ELSE [cmd[q] EXCEPT !.stale = TRUE, !.missed = @ \/ ~ disk.there \/ f.archived # disk.archived,
                        !.open = @ \/ ~ f.archived]
Write(p) ==
    LET c == cmd[p]
        f == [c.draft EXCEPT !.there = TRUE]
        ok == [c EXCEPT !.copy = f, !.hand = None, !.stale = FALSE]
    IN /\ c.at = "write"
       /\ \/ /\ disk' = f
             /\ cmd' = [q \in Procs |-> IF q = p THEN Done(ok) ELSE Passed(q, f)]
             /\ decision' = IF c.why = "decide" \/ ~ disk.there THEN f.archived ELSE decision
             /\ excused' = IF c.stale /\ disk.ws # f.ws THEN excused \cup {disk.ws} ELSE excused
             /\ UNCHANGED trouble
          \/ /\ trouble < MaxTrouble /\ trouble' = trouble + 1
             /\ cmd' = [cmd EXCEPT ![p] = Failed(c)]
             /\ UNCHANGED <<disk, decision, excused>>
       /\ UNCHANGED <<ws, foreign, calls, reclaimed>>

-----------------------------------------------------------------------------
(* ensure_workspace *)

\* workspace_exists takes a herdr that cannot be asked for a yes.
Exists(p) ==
    /\ cmd[p].at = "exists"
    /\ \E unknown \in BOOLEAN :
          /\ unknown => trouble < MaxTrouble /\ ~ Alive(cmd[p].copy.ws)
          /\ trouble' = IF unknown THEN trouble + 1 ELSE trouble
          /\ cmd' = [cmd EXCEPT ![p] =
                [@ EXCEPT !.at = IF Alive(cmd[p].copy.ws) \/ unknown THEN "ready" ELSE "refresh",
                          !.open = ~ disk.archived]]
    /\ UNCHANGED <<disk, ws, foreign, calls, ghosts>>

\* Mutant: the copy says whether the run is archived.
TrustsCopy(c) == c.copy.archived
\* refresh_archived: the file does, if there is one.
Archived(c) == IF disk.there THEN disk.archived ELSE c.copy.archived
Refresh(p) ==
    /\ cmd[p].at = "refresh"
    /\ cmd' = [cmd EXCEPT ![p] = IF Archived(@) THEN Refused(@) ELSE [@ EXCEPT !.at = "create"]]
    /\ UNCHANGED <<disk, ws, foreign, bounds, ghosts>>

\* The pane ids of the old workspace are dropped, and what ran there has failed.
Repaired(f, w) == [f EXCEPT !.ws = w, !.phase = IF @ = "Running" THEN "Failed" ELSE @]
Create(p) ==
    /\ cmd[p].at = "create"
    /\ \/ \E w \in Workspaces :
             /\ ws[w] = "unborn" /\ ws' = [ws EXCEPT ![w] = "live"]
             /\ cmd' = [cmd EXCEPT ![p] =
                          [Saves(@, Repaired(@.copy, w), "repair") EXCEPT !.hand = w]]
             /\ UNCHANGED trouble
       \/ /\ trouble < MaxTrouble /\ trouble' = trouble + 1
          /\ cmd' = [cmd EXCEPT ![p] = Refused(@)]
          /\ UNCHANGED ws
    /\ UNCHANGED <<disk, foreign, calls, ghosts>>

Closes(w) == ws' = [ws EXCEPT ![w] = "closed"]
\* Mutant: the save's error is all there is to it.
Leaves(w) == UNCHANGED ws
\* reclaim_unrecorded_workspace closes what it created.
GivesBack(w) == Closes(w)
Reclaim(p) ==
    LET w == cmd[p].hand
    IN /\ cmd[p].at = "reclaim"
       /\ \/ GivesBack(w) /\ reclaimed' = reclaimed \cup {w} /\ UNCHANGED <<trouble, excused>>
          \/ /\ trouble < MaxTrouble /\ trouble' = trouble + 1
             /\ excused' = excused \cup {w} /\ reclaimed' = reclaimed \cup {w}
             /\ UNCHANGED ws
       /\ cmd' = [cmd EXCEPT ![p] = Refused(@)]
       /\ UNCHANGED <<disk, foreign, calls, decision>>

-----------------------------------------------------------------------------
(* The commands *)

Begins(op) == CASE op = "panel" -> "gate" [] op = "rehydrate" -> "launch"
                [] op \in {"archive", "purge"} -> "close" [] op = "restore" -> "reread"
                [] OTHER -> "exists"
Load(p, op) ==
    /\ cmd[p].at = "idle" /\ calls < MaxCalls /\ calls' = calls + 1
    /\ disk.there /\ (op = "rehydrate" => disk.phase # "Absent" /\ disk.ws # None)
    /\ cmd' = [cmd EXCEPT ![p] = [Idle EXCEPT !.op = op, !.at = Begins(op), !.copy = disk,
                                              !.why = IF op = "restore" THEN "decide" ELSE "none"]]
    /\ UNCHANGED <<disk, ws, foreign, trouble, ghosts>>

\* code-review run refuses an archived run before it does anything.
Gate(p) ==
    /\ cmd[p].at = "gate"
    /\ cmd' = [cmd EXCEPT ![p] = IF Archived(@) THEN Saves(@, @.copy, "merge")
                                 ELSE [@ EXCEPT !.at = "exists", !.copy.archived = Archived(cmd[p])]]
    /\ UNCHANGED <<disk, ws, foreign, bounds, ghosts>>

\* A phase that is in the run is recorded Running before its launch.
Ready(p) ==
    /\ cmd[p].at = "ready"
    /\ cmd' = [cmd EXCEPT ![p] =
          CASE @.op = "resurrect" -> Idle
            [] @.op = "start" /\ @.copy.phase # "Absent" ->
                  Saves(@, [@.copy EXCEPT !.phase = "Running"], "mark")
            [] OTHER -> [@ EXCEPT !.at = "launch"]]
    /\ UNCHANGED <<disk, ws, foreign, bounds, ghosts>>

\* tab_create fails where the workspace is gone; a launch that fails after it
\* records the tab, with a plain save.
Launch(p) ==
    LET c == cmd[p]
    IN /\ c.at = "launch"
       /\ \/ /\ ~ Alive(c.copy.ws)
             /\ cmd' = [cmd EXCEPT ![p] = Refused(c)] /\ UNCHANGED trouble
          \/ /\ Alive(c.copy.ws) /\ trouble < MaxTrouble /\ trouble' = trouble + 1
             /\ cmd' = [cmd EXCEPT ![p] = Saves(c, c.copy, "discard")]
          \/ /\ Alive(c.copy.ws)
             /\ cmd' = [cmd EXCEPT ![p] =
                   CASE c.op = "panel" -> Saves(c, c.copy, "launched")
                     [] c.op = "start" -> Saves(c, [c.copy EXCEPT !.phase = "Running"], "launched")
                     [] OTHER          -> Saves(c, c.copy, "rehydrate")]
             /\ UNCHANGED trouble
       /\ UNCHANGED <<disk, ws, foreign, calls, ghosts>>

\* A start that briefs waits for its agent, re-opens the phase and delivers, for up
\* to a minute.
Brief(p) ==
    /\ cmd[p].at = "brief"
    /\ \/ /\ cmd' = [cmd EXCEPT ![p] = Saves(@, [@.copy EXCEPT !.phase = "Running"], "reopen")]
          /\ UNCHANGED trouble
       \/ /\ trouble < MaxTrouble /\ trouble' = trouble + 1
          /\ cmd' = [cmd EXCEPT ![p] = Unbriefed(@)]
    /\ UNCHANGED <<disk, ws, foreign, calls, ghosts>>
Deliver(p) ==
    /\ cmd[p].at = "deliver"
    /\ \/ cmd' = [cmd EXCEPT ![p] = Idle] /\ UNCHANGED trouble
       \/ /\ trouble < MaxTrouble /\ trouble' = trouble + 1
          /\ cmd' = [cmd EXCEPT ![p] = Unbriefed(@)]
    /\ UNCHANGED <<disk, ws, foreign, calls, ghosts>>

\* A panel's next reviewer, or its end.
NextReviewer(p) ==
    /\ cmd[p].at = "next"
    /\ \/ cmd' = [cmd EXCEPT ![p].at = "exists"]
       \/ cmd' = [cmd EXCEPT ![p] = Saves(@, @.copy, "last")]
    /\ UNCHANGED <<disk, ws, foreign, bounds, ghosts>>

\* close_run_panes: the workspace goes when no pane in it is the human's; then, and
\* when herdr fails, only panes do. Archive and cleanup decide next; --purge removes.
Close(p) ==
    LET w == cmd[p].copy.ws
    IN /\ cmd[p].at = "close"
       /\ \/ Alive(w) /\ w \notin foreign /\ Closes(w) /\ UNCHANGED trouble
          \/ (Alive(w) => w \in foreign) /\ UNCHANGED <<ws, trouble>>
          \/ /\ Alive(w) /\ w \notin foreign
             /\ trouble < MaxTrouble /\ trouble' = trouble + 1 /\ UNCHANGED ws
       /\ cmd' = [cmd EXCEPT ![p] = IF @.op = "purge" THEN [@ EXCEPT !.at = "remove"]
                                    ELSE Saves(@, @.copy, "decide")]
       /\ UNCHANGED <<disk, foreign, calls, ghosts>>
Remove(p) ==
    /\ cmd[p].at = "remove"
    /\ disk' = Missing
    /\ cmd' = [q \in Procs |-> IF q = p THEN Idle ELSE Passed(q, Missing)]
    /\ excused' = excused \cup {disk.ws}
    /\ UNCHANGED <<ws, foreign, bounds, reclaimed, decision>>

-----------------------------------------------------------------------------
(* Around them *)

Trouble == trouble < MaxTrouble /\ trouble' = trouble + 1
Kill(p) == /\ cmd[p].at # "idle" /\ Trouble
           /\ cmd' = [cmd EXCEPT ![p] = Idle]
           /\ excused' = excused \cup {cmd[p].hand}
           /\ UNCHANGED <<disk, ws, foreign, calls, reclaimed, decision>>
\* The human closes a workspace, or herdr's daemon restarts without it.
Vanish(w) == /\ ws[w] = "live" /\ Trouble /\ Closes(w)
             /\ UNCHANGED <<disk, foreign, cmd, calls, ghosts>>
\* The human opens a pane.
OpenPane(w) == /\ ws[w] = "live" /\ w \notin foreign /\ Trouble
               /\ foreign' = foreign \cup {w}
               /\ UNCHANGED <<disk, ws, cmd, calls, ghosts>>

Init == /\ disk = [there |-> TRUE, archived |-> FALSE, ws |-> First, phase |-> "Absent"]
        /\ ws = [w \in Workspaces |-> IF w = First THEN "live" ELSE "unborn"]
        /\ foreign = {} /\ cmd = [p \in Procs |-> Idle]
        /\ calls = 0 /\ trouble = 0
        /\ excused = {} /\ reclaimed = {} /\ decision = FALSE

Step(p) == \/ Reread(p) \/ Write(p)
           \/ Exists(p) \/ Refresh(p) \/ Create(p) \/ Reclaim(p)
           \/ Gate(p) \/ Ready(p) \/ Launch(p) \/ Brief(p) \/ Deliver(p) \/ NextReviewer(p)
           \/ Close(p) \/ Remove(p)
Next == \/ \E p \in Procs : Step(p) \/ Kill(p) \/ \E op \in Ops : Load(p, op)
        \/ \E w \in Workspaces : Vanish(w) \/ OpenPane(w)
Spec == Init /\ [][Next]_vars

-----------------------------------------------------------------------------
(* What the file promises *)

Steps == {"idle", "gate", "exists", "refresh", "create", "reclaim", "ready", "launch", "brief",
          "deliver", "next", "close", "remove", "reread", "write"}
Reasons == Plain \cup {"none", "repair", "mark", "launched", "reopen", "last", "merge", "decide"}
Commands == [op : Ops \cup {"none"}, at : Steps, copy : File, draft : File, why : Reasons,
             hand : Workspaces \cup {None}, missed : BOOLEAN, stale : BOOLEAN, open : BOOLEAN]
\* The file, herdr and every command hold what the code can put there.
TypeOK == /\ disk \in File /\ ws \in [Workspaces -> {"unborn", "live", "closed"}]
          /\ foreign \subseteq Workspaces
          /\ cmd \in [Procs -> Commands] /\ calls \in Nat /\ trouble \in Nat
          /\ excused \subseteq Workspaces \cup {None} /\ reclaimed \subseteq Workspaces
          /\ decision \in BOOLEAN

\* A write, by one who decided nothing, that turns the human's decision round.
Reverts(p) == /\ cmd[p].at = "write" /\ cmd[p].why # "decide" /\ cmd'[p].at # "write"
              /\ disk.there /\ disk.archived = decision /\ disk'.archived # decision
\* The decision to archive or to restore is turned round only by a save whose own
\* look at the file came before it, or by one of the saves that do not look.
RevertsAreRaces ==
    [][\A p \in Procs : Reverts(p) => cmd[p].missed \/ cmd[p].why \in Plain]_vars

\* No workspace is created for a run that was archived from before
\* ensure_workspace looked for the old one.
NoWorkForArchived ==
    [][\A p \in Procs : cmd[p].at = "create" /\ cmd'[p].hand # None => cmd[p].open]_vars

\* Every workspace that stands is recorded, or about to be, or a command was
\* killed, a close failed, the run was purged, or a copy was written over a
\* change it had not seen.
NothingLiveForgotten ==
    \A w \in Workspaces :
       ws[w] = "live" => \/ disk.there /\ disk.ws = w
                         \/ w \in excused
                         \/ \E p \in Procs : cmd[p].hand = w

\* state.json never names a workspace that was given back: a repair that was not
\* saved leaves no trace, in the panel's later saves either.
NoFiction == disk.there => disk.ws \notin reclaimed

\* Violated: whoever has not decided takes the file's value of the flag over its own.
NoExceptions == [][\A p \in Procs : Reverts(p) => cmd[p].missed /\ cmd[p].why \notin Plain]_vars
=============================================================================
