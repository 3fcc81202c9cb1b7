----------------------------- MODULE ReviewPanel -----------------------------
(***************************************************************************)
(* `drovr code-review run` for one task: a pass opens an iteration or      *)
(* resumes one, spawns a reviewer for each angle in a pane of its own,     *)
(* waits for the files their findings server writes, merges them into      *)
(* <task>-review.json, and closes the panes. Around it: the reviewers, the *)
(* implementer who commits, the human who types into a reviewer's pane.    *)
(*                                                                         *)
(* The pass works on the copy of state.json it loaded at its start and     *)
(* saves that copy whole; only its last save (in main.rs) is a transplant. *)
(* A pass may be killed anywhere, and each step named in Faulty may fail.  *)
(*                                                                         *)
(* Left out: the text of briefs and findings, configuration, pipeline      *)
(* phases, the archived flag, session capture, a reviewer that submits     *)
(* under another angle, and two passes of one task at once, which nothing  *)
(* but the pipeline's single driver rules out. The review base is commit 0.*)
(***************************************************************************)
EXTENDS Naturals, FiniteSets

CONSTANTS Angles,    \* cfg.angles
          None,      \* no pane, no commit, no angle
          MaxIter,   \* bound: iterations opened
          MaxHead,   \* bound: commits
          MaxPanes,  \* bound: panes opened; met as tab_create failing
          Faulty,    \* the steps that may fail
          MaxTrouble \* bound: steps that fail, passes killed and reviewers that
                     \* exit, together

Iters == 1..MaxIter
Heads == 0..MaxHead
Panes == 1..MaxPanes
Slots == Iters \X Angles

ASSUME PanelAssumption ==
    /\ MaxIter \in Nat /\ MaxHead \in Nat /\ MaxPanes \in Nat
    /\ MaxTrouble \in Nat
    /\ None \notin Nat /\ None \notin Angles
    /\ Faulty \subseteq {"clear", "probe", "spawn", "save", "seed", "merge", "reap", "leave"}

VARIABLES
    head,     \* the commit HEAD names
    disk,     \* state.json: the reviewers, the retired panes
    headrec,  \* <task>-review-<iter>.head
    findings, \* <task>-review-<iter>-<angle>.json: the pane whose review it is
    merged,   \* <task>-review.json
    agents,   \* the reviewer in each pane: its angle, and the commit it was asked about
    panel,    \* the pass
    copy,     \* its RunState
    reissued, \* ghost: iterations a fresh panel took over with reviewers asked before
    faults, kills, deaths

heads == <<headrec, reissued>>
files == <<disk, heads, findings, merged>>
bounds == <<faults, kills, deaths>>
Troubled == faults + kills + deaths >= MaxTrouble
vars == <<head, files, agents, panel, copy, bounds>>

Ledger == [status : [Slots -> {"Absent", "Running", "Done", "Failed"}],
           pane : [Slots -> Panes \cup {None}],
           retired : SUBSET Panes]
Blank == [status |-> [s \in Slots |-> "Absent"], pane |-> [s \in Slots |-> None],
          retired |-> {}]

\* What an angle contributes: the pane its review came from, or None, the
\* blocking finding of undelivered_review.
Reviews == [Angles -> Panes \cup {None}]
Empty == [a \in Angles |-> None]

Steps == {"turn", "probe", "clear", "spawn", "save", "seed", "poll", "look", "judge",
          "timeout", "drain", "merge", "reap", "leave"}
Idle == [at |-> "idle", iter |-> 0, resumed |-> FALSE, head |-> None, angle |-> None,
         todo |-> {}, pending |-> {}, still |-> {}, saw |-> FALSE, harvest |-> Empty]
Passes == [at : Steps \cup {"idle"}, iter : Iters \cup {0}, resumed : BOOLEAN,
           head : Heads \cup {None}, angle : Angles \cup {None}, todo : SUBSET Angles,
           pending : SUBSET Angles, still : SUBSET Angles, saw : BOOLEAN, harvest : Reviews]

Unused == [iter |-> 0, angle |-> None, head |-> None, at |-> "none"]
Agents == [iter : Iters \cup {0}, angle : Angles \cup {None}, head : Heads \cup {None},
           at : {"none", "ready", "working", "stopped", "gone"}]
Alive(i) == agents[i].at \in {"ready", "working", "stopped"}
SlotOf(i) == <<agents[i].iter, agents[i].angle>>

NoVerdict == [iter |-> 0, head |-> None, reviews |-> Empty, clean |-> FALSE]
Verdicts == [iter : Iters \cup {0}, head : Heads \cup {None}, reviews : Reviews, clean : BOOLEAN]

-----------------------------------------------------------------------------
(* Which iteration *)

Opened(l) == {i \in Iters : \E a \in Angles : l.status[<<i, a>>] # "Absent"}
\* Mutant: a new panel takes the newest iteration's number.
NextIsNewest(l, n) == /\ \A i \in Opened(l) : i <= n
                      /\ n = 1 \/ n \in Opened(l)
\* next_iter: one more than the newest recorded.
NextIter(l, n) == /\ \A i \in Opened(l) : i < n
                  /\ n = 1 \/ n - 1 \in Opened(l)
\* resumable_iter: the newest one, while a reviewer of it is Running.
Resumable(l, n) == /\ n \in Opened(l) /\ \A i \in Opened(l) : i <= n
                   /\ \E a \in Angles : l.status[<<n, a>>] = "Running"
\* Mutant: resumed without a look at the commit its reviewers were asked about.
RejoinsAny(l, n) == Resumable(l, n)
\* A resume needs HEAD to be where the iteration's head record says.
Rejoins(l, n) == Resumable(l, n) /\ headrec[n] = head

-----------------------------------------------------------------------------
(* Steps of a pass *)

At(l) == panel.at = l
Slot == <<panel.iter, panel.angle>>
Goto(l) == panel' = [panel EXCEPT !.at = l]
Try(step, ok) == /\ ~ ok => step \in Faulty /\ ~ Troubled
                 /\ faults' = IF ok THEN faults ELSE faults + 1
                 /\ UNCHANGED <<kills, deaths>>
\* The next in the configured order, whichever order that is.
First(angles) == CHOOSE a \in angles : TRUE
\* Mutant: an angle the pass is through with is Done.
AllDone(l, s, status) == IF l.status[s] = "Absent" THEN l ELSE [l EXCEPT !.status[s] = "Done"]
\* A status is set on a reviewer the copy still registers.
Marked(l, s, status) == IF l.status[s] = "Absent" THEN l ELSE [l EXCEPT !.status[s] = status]

\* Mutant: a file counts only if the poll saw the end of the turn.
DeliveredSeen(s) == findings[s] # None /\ panel.saw
\* delivered_review: the file parses, whatever the pane says.
Delivered(s) == findings[s] # None

\* A reviewer of the iteration was given its task.
AskedIn(n) == \E i \in Panes : agents[i].iter = n /\ agents[i].head # None

\* Refused while base..HEAD holds no change.
Open(fresh) ==
    /\ At("idle") /\ head # 0
    /\ \E n \in Iters, resumed \in BOOLEAN :
          /\ IF resumed
             THEN ~ fresh /\ Rejoins(disk, n) /\ UNCHANGED headrec
             ELSE /\ fresh \/ \A m \in Iters : ~ Rejoins(disk, m)
                  /\ NextIter(disk, n)
                  /\ headrec' = [headrec EXCEPT ![n] = head]
          /\ reissued' = IF ~ resumed /\ AskedIn(n) THEN reissued \cup {n} ELSE reissued
          /\ panel' = [Idle EXCEPT !.at = "turn", !.iter = n, !.resumed = resumed,
                                   !.head = head, !.todo = Angles]
    /\ copy' = disk
    /\ UNCHANGED <<head, disk, findings, merged, agents, bounds>>

\* The next angle: banked if a resume finds its review, else probed; a new panel
\* spawns every angle. Then the wait.
Turn ==
    /\ At("turn")
    /\ IF panel.todo = {} THEN Goto("poll") /\ UNCHANGED copy
       ELSE LET a == First(panel.todo)
                s == <<panel.iter, a>>
                next == [panel EXCEPT !.angle = a, !.todo = @ \ {a}]
            IN IF panel.resumed /\ Delivered(s)
               THEN /\ panel' = [next EXCEPT !.harvest[a] = findings[s]]
                    /\ copy' = Marked(copy, s, "Done")
               ELSE /\ panel' = [next EXCEPT !.at = IF panel.resumed THEN "probe" ELSE "spawn"]
                    /\ UNCHANGED copy
    /\ UNCHANGED <<head, files, agents, bounds>>

\* A reviewer that can still deliver is waited for, any other is replaced: its
\* pane is retired and its registration dropped. pane_exists errs towards "alive".
Probe ==
    /\ At("probe")
    /\ \E ok \in BOOLEAN :
          LET pane == copy.pane[Slot] IN
          /\ Try("probe", ok)
          /\ IF pane # None /\ (~ ok \/ Alive(pane)) /\ copy.status[Slot] # "Failed"
             THEN /\ panel' = [panel EXCEPT !.at = "turn", !.pending = @ \cup {panel.angle}]
                  /\ UNCHANGED copy
             ELSE /\ Goto("clear")
                  /\ copy' = [copy EXCEPT !.status[Slot] = "Absent", !.pane[Slot] = None,
                                          !.retired = @ \cup ({pane} \ {None})]
    /\ UNCHANGED <<head, files, agents>>

\* clear_findings_file.
Clear ==
    /\ At("clear")
    /\ \E ok \in BOOLEAN :
          /\ Try("clear", ok)
          /\ findings' = IF ok THEN [findings EXCEPT ![Slot] = None] ELSE findings
          /\ Goto(IF ok THEN "spawn" ELSE "leave")
    /\ UNCHANGED <<head, disk, heads, merged, agents, copy>>

\* spawn_reviewer up to its save: a tab, a launch, the registration. A launch
\* that fails takes its pane with it.
Spawn ==
    /\ At("spawn")
    /\ \/ \E i \in Panes :
             /\ agents[i] = Unused /\ \A j \in Panes : j < i => agents[j] # Unused
             /\ agents' = [agents EXCEPT ![i] = [iter |-> panel.iter, angle |-> panel.angle,
                                                 head |-> None, at |-> "ready"]]
             /\ copy' = [copy EXCEPT !.status[Slot] = "Running", !.pane[Slot] = i]
             /\ Goto("save") /\ UNCHANGED bounds
       \/ /\ IF \A i \in Panes : agents[i] # Unused THEN UNCHANGED bounds ELSE Try("spawn", FALSE)
          /\ Goto("leave") /\ UNCHANGED <<agents, copy>>
    /\ UNCHANGED <<head, files>>

\* The whole copy is saved: with a new reviewer, at the deadline, and when every
\* angle is in.
SaveWhole(l, next) ==
    /\ At(l)
    /\ \E ok \in BOOLEAN :
          /\ Try("save", ok)
          /\ disk' = IF ok THEN copy ELSE disk
          /\ Goto(IF ok THEN next ELSE "leave")
    /\ UNCHANGED <<head, heads, findings, merged, agents, copy>>
SaveReviewer == SaveWhole("save", "seed")

\* phase_send of the seed. It may fail with the seed delivered all the same.
Seed ==
    /\ At("seed")
    /\ \E ok, got \in BOOLEAN :
          LET i == copy.pane[Slot] IN
          /\ ok => got /\ Alive(i)
          /\ IF Alive(i) THEN Try("seed", ok) ELSE UNCHANGED bounds
          /\ agents' = IF got /\ Alive(i)
                       THEN [agents EXCEPT ![i].head = panel.head, ![i].at = "working"]
                       ELSE agents
          /\ IF ok
             THEN /\ panel' = [panel EXCEPT !.at = "turn", !.pending = @ \cup {panel.angle}]
                  /\ UNCHANGED copy
             ELSE Goto("leave") /\ copy' = [copy EXCEPT !.status[Slot] = "Failed"]
    /\ UNCHANGED <<head, files>>

-----------------------------------------------------------------------------
(* The wait *)

\* The next pending angle: its pane's status is read first. herdr reports the
\* end of a turn for an instant, so the poll of a stopped reviewer may miss it.
Poll ==
    /\ At("poll") /\ panel.pending # {}
    /\ LET a == First(panel.pending)
           i == copy.pane[<<panel.iter, a>>]
       IN \E saw \in {FALSE, i # None /\ agents[i].at = "stopped"} :
             panel' = [panel EXCEPT !.angle = a, !.at = "look", !.saw = saw]
    /\ UNCHANGED <<head, files, agents, copy, bounds>>

\* The pass is through with an angle for this round.
Settled == [panel EXCEPT !.at = "poll", !.pending = @ \ {panel.angle}, !.saw = FALSE]

Look ==
    /\ At("look")
    /\ IF Delivered(Slot)
       THEN /\ panel' = [Settled EXCEPT !.harvest[panel.angle] = findings[Slot]]
            /\ copy' = Marked(copy, Slot, "Done")
       ELSE Goto("judge") /\ UNCHANGED copy
    /\ UNCHANGED <<head, files, agents, bounds>>

\* Nothing delivered: has the reviewer finished, by the status polled or by its
\* completion marker? Then the file is read once more, and the angle is Failed.
Judge ==
    /\ At("judge")
    /\ LET i == copy.pane[Slot] IN
       \E finished \in {panel.saw, panel.saw \/ (i # None /\ agents[i].at = "stopped")} :
          IF finished
          THEN /\ panel' = [Settled EXCEPT !.harvest[panel.angle] = findings[Slot]]
               /\ copy' = Marked(copy, Slot, "Failed")
          ELSE /\ panel' = [Settled EXCEPT !.still = @ \cup {panel.angle}]
               /\ UNCHANGED copy
    /\ UNCHANGED <<head, files, agents, bounds>>

\* Every pending angle was looked at: all in, or the deadline, or another round.
EndRound ==
    /\ At("poll") /\ panel.pending = {}
    /\ IF panel.still = {} THEN Goto("drain")
       ELSE Goto("timeout") \/ panel' = [panel EXCEPT !.pending = panel.still, !.still = {}]
    /\ UNCHANGED <<head, files, agents, copy, bounds>>

\* Mutant: the pass closes its reviewers when it times out.
TimeOutAndReap == SaveWhole("timeout", "reap")
TimeOut == SaveWhole("timeout", "leave")
Drain == SaveWhole("drain", "merge")

\* merge_reviews and is_clean: an undelivered angle blocks, a review may.
MayBeClean(harvest, clean) == clean => \A a \in Angles : harvest[a] # None

Merge ==
    /\ At("merge")
    /\ \E ok, clean \in BOOLEAN :
          /\ Try("merge", ok)
          /\ IF ok
             THEN /\ MayBeClean(panel.harvest, clean)
                  /\ merged' = [iter |-> panel.iter, head |-> panel.head,
                                reviews |-> panel.harvest, clean |-> clean]
             ELSE ~ clean /\ UNCHANGED merged
          /\ Goto(IF ok THEN "reap" ELSE "leave")
    /\ UNCHANGED <<head, disk, heads, findings, agents, copy>>

\* reap_retired and phase_reap of each angle, on what the disk records.
Reap ==
    /\ At("reap")
    /\ \E ok \in BOOLEAN :
          LET held == {disk.pane[<<panel.iter, a>>] : a \in Angles} \ {None}
              rest == [disk EXCEPT !.retired = {},
                         !.pane = [s \in Slots |-> IF s[1] = panel.iter THEN None ELSE @[s]]]
          IN /\ Try("reap", ok)
             /\ agents' = [i \in Panes |-> IF ok /\ i \in held \cup disk.retired
                                           THEN [agents[i] EXCEPT !.at = "gone"] ELSE agents[i]]
             /\ disk' = IF ok THEN rest ELSE disk
             /\ copy' = IF ok THEN rest ELSE disk
    /\ Goto("leave")
    /\ UNCHANGED <<head, heads, findings, merged>>

\* Mutant: only the reviewers are carried over.
ReviewersOnly(l, c) == [l EXCEPT !.status = c.status, !.pane = c.pane]
\* merge_panel_progress.
Transplant(l, c) == [l EXCEPT !.status = c.status, !.pane = c.pane, !.retired = @ \cup c.retired]
\* main.rs, on every path out of the pass, errors included.
Leave ==
    /\ At("leave")
    /\ \E ok \in BOOLEAN :
          /\ Try("leave", ok)
          /\ disk' = IF ok THEN Transplant(disk, copy) ELSE disk
    /\ panel' = Idle /\ copy' = Blank
    /\ UNCHANGED <<head, heads, findings, merged, agents>>

Kill == /\ ~ At("idle") /\ ~ Troubled
        /\ kills' = kills + 1 /\ panel' = Idle /\ copy' = Blank
        /\ UNCHANGED <<head, files, agents, faults, deaths>>

-----------------------------------------------------------------------------
(* Around the pass *)

\* submit_findings: a valid review replaces the angle's file in one rename.
Submit(i) ==
    /\ agents[i].at = "working"
    /\ findings' = [findings EXCEPT ![SlotOf(i)] = i]
    /\ UNCHANGED <<head, disk, heads, merged, agents, panel, copy, bounds>>

\* A turn ends, a human types into the pane, the reviewer exits.
Become(i, from, to) == /\ agents[i].at \in from
                       /\ agents' = [agents EXCEPT ![i].at = to]
                       /\ UNCHANGED <<head, files, panel, copy, faults, kills>>
Stop(i) == Become(i, {"working"}, "stopped") /\ UNCHANGED deaths
Wake(i) == Become(i, {"stopped"}, "working") /\ UNCHANGED deaths
Die(i) == /\ Become(i, {"ready", "working", "stopped"}, "gone")
          /\ ~ Troubled /\ deaths' = deaths + 1

Commit == /\ head < MaxHead /\ head' = head + 1
          /\ UNCHANGED <<files, agents, panel, copy, bounds>>

-----------------------------------------------------------------------------
Init == /\ head = 0
        /\ disk = Blank /\ merged = NoVerdict
        /\ headrec = [n \in Iters |-> None]
        /\ findings = [s \in Slots |-> None]
        /\ agents = [i \in Panes |-> Unused]
        /\ panel = Idle /\ copy = Blank
        /\ reissued = {} /\ faults = 0 /\ kills = 0 /\ deaths = 0

PanelStep == \/ Turn \/ Probe \/ Clear \/ Spawn \/ SaveReviewer \/ Seed
             \/ Poll \/ Look \/ Judge \/ EndRound \/ TimeOut \/ Drain \/ Merge
             \/ Reap \/ Leave
ReviewerStep(i) == Submit(i) \/ Stop(i) \/ Wake(i) \/ Die(i)
Next == \/ Open(TRUE) \/ Open(FALSE) \/ PanelStep \/ Kill
        \/ \E i \in Panes : ReviewerStep(i)
        \/ Commit

Spec == Init /\ [][Next]_vars
\* A running pass moves on. The driver re-runs one that ended, and does not ask
\* for a fresh panel every single time.
FairSpec == Spec /\ WF_vars(PanelStep) /\ SF_vars(Open(FALSE))

-----------------------------------------------------------------------------
(* What the panel promises *)

\* Every file and record holds what the code writes there.
TypeOK == /\ head \in Heads
          /\ disk \in Ledger /\ copy \in Ledger
          /\ headrec \in [Iters -> Heads \cup {None}]
          /\ findings \in [Slots -> Panes \cup {None}]
          /\ merged \in Verdicts /\ agents \in [Panes -> Agents]
          /\ panel \in Passes
          /\ reissued \subseteq Iters /\ faults \in Nat /\ kills \in Nat /\ deaths \in Nat

\* A merged review speaks of one commit: every verdict in it came from a
\* reviewer that was asked about the commit the pass ran for, however often the
\* panel was resumed, its reviewers replaced or killed, and HEAD moved; unless
\* the iteration's number had been given to other reviewers before.
VerdictsAreCurrent ==
    merged.iter \notin reissued =>
       \A a \in Angles :
          LET i == merged.reviews[a] IN i # None => agents[i].head = merged.head

\* A reviewer is Done in state.json only when its findings are on disk, so a
\* resume never counts an angle as in whose review was not captured.
DoneIsBanked == \A s \in Slots : disk.status[s] = "Done" => findings[s] # None

\* With no pass killed and at most one step failed, a reviewer left alive
\* between passes is one state.json records, so cleanup can close it.
NoStrandedReviewer ==
    At("idle") /\ kills = 0 /\ faults <= 1 =>
       \A i \in Panes : Alive(i) =>
          i \in disk.retired \/ \E s \in Slots : disk.pane[s] = i

\* A pass closes a reviewer's pane only when the verdict of its iteration is
\* merged, or another reviewer has replaced it.
ReapFollowsVerdict ==
    [][\A i \in Panes : At("reap") /\ Alive(i) /\ agents'[i].at = "gone" /\ panel' # panel =>
          merged.iter = agents[i].iter \/ i \in disk.retired]_vars

\* The driver re-runs a panel while an iteration can be resumed. Where every angle
\* of that iteration has delivered, the re-runs come to an end, even if no poll
\* ever saw the end of a reviewer's turn.
DeliveredPanelDrains ==
    \A n \in Iters :
       ~ <>[](Rejoins(disk, n) /\ \A a \in Angles : findings[<<n, a>>] # None)
=============================================================================
