------------------------------ MODULE ReviewGate ------------------------------
(***************************************************************************)
(* The spec gate of one run: the review server's POST submit and POST      *)
(* summary handlers, the files they leave in the run directory, and the    *)
(* two commands a driver learns the decision from, `review wait` (asks the *)
(* server) and `review status` (reads the files, no server).               *)
(*                                                                         *)
(* A handler holds the run's cell lock from its first look to its answer,  *)
(* so handlers do not overlap; each of its file writes is an action of its *)
(* own, which may succeed, fail, or land without being synced, and between *)
(* any two of them the server may be killed, the agent may edit spec.md    *)
(* and `review status` may read the files.                                 *)
(*                                                                         *)
(* Contents are reduced to identities: spec.md, prior.md and               *)
(* last_summarized.md to a revision number (0 for no file), feedback.json  *)
(* to its turn, summary.txt to the number of the post that wrote it. Power *)
(* loss, which is what an unsynced write is exposed to, is left out.       *)
(***************************************************************************)
EXTENDS Naturals

CONSTANTS MaxSubmits,   \* bound: submits that reach the handler's body
          MaxPosts,     \* bound: summaries that do
          MaxRevisions, \* bound: revisions of spec.md
          MaxFaults,    \* bound: writes that do not fully succeed, and crashes
          MaxPurges     \* bound: `cleanup --purge` and a new run of that name

ASSUME GateAssumption ==
    /\ MaxSubmits \in Nat /\ MaxPosts \in Nat /\ MaxRevisions \in Nat
    /\ MaxFaults \in Nat /\ MaxPurges \in Nat

VARIABLES
    up,         \* is the review server running?
    cell,       \* its in-memory ReviewState for the run, or NoCell
    disk,       \* review.state.json (an absent file loads as idle, turn 0)
    marks,      \* which of the marker files `approved`, `cancelled` exist
    feedback,   \* the turn feedback.json describes
    summary,    \* the post summary.txt holds
    prior,      \* prior.md, what the page diffs spec.md against
    lastSum,    \* last_summarized.md, the rolling baseline
    spec,       \* spec.md
    op,         \* the request whose handler holds the cell lock, or NoOp
    driver,     \* where the driver's command is
    told,       \* the outcome its last command exited with
    acked,      \* ghost: the verdicts answered 200
    shown,      \* ghost: the revision the last committed turn was about
    committed,  \* ghost: the post the last committed summary was
    clean,      \* ghost: no crash inside a turn, and every roll-back worked
    submits, posts, faults, purges

server == <<up, cell, op>>
record == <<disk, marks>>
details == <<feedback, summary>>
baselines == <<prior, lastSum>>
client == <<driver, told>>
ghosts == <<acked, shown, committed, clean>>
bounds == <<submits, posts, faults, purges>>
vars == <<server, record, details, baselines, spec, client, ghosts, bounds>>

States == {"idle", "waiting", "ready", "approved", "cancelled"}
ReviewState == [state : States, turn : Nat]
Idle == [state |-> "idle", turn |-> 0]
NoCell == [state |-> "unloaded", turn |-> 0]

\* is_terminal: verdicts, which nothing may move the run off.
Terminal(rs) == rs.state \in {"approved", "cancelled"}

Kinds == {"approve", "cancel", "changes", "summary"}
Steps == {"prior", "lastSum", "detail", "unstage", "commit", "rollBack", "marker"}
NoOp == [kind |-> "none", step |-> "none", base |-> 0, staged |-> 0]
Ops == [kind : Kinds, step : Steps, base : Nat, staged : Nat] \cup {NoOp}

\* Mutant: the state is saved under a name that LoopState does not know.
DecidedMisspelt(rs, kind) ==
    [state |-> CASE kind = "approve" -> "approved" [] kind = "cancel" -> "canceled"
                 [] kind = "changes" -> "waiting"  [] kind = "summary" -> "ready",
     turn  |-> IF kind \in {"approve", "changes"} THEN rs.turn + 1 ELSE rs.turn]

\* What a decision makes of the state, and the marker that records it.
Decided(rs, kind) ==
    [state |-> CASE kind = "approve" -> "approved" [] kind = "cancel" -> "cancelled"
                 [] kind = "changes" -> "waiting"  [] kind = "summary" -> "ready",
     turn  |-> IF kind \in {"approve", "changes"} THEN rs.turn + 1 ELSE rs.turn]
Verdict(kind) == Decided(Idle, kind).state

\* WaitOutcome of a state, as review_wait and gate_status_in both map it.
Outcome(s) == CASE s \in {"approved", "cancelled"} -> s
                [] s = "waiting" -> "changes"
                [] s \in {"idle", "ready"} -> "timeout"

-----------------------------------------------------------------------------
(* durable::write *)

\* Ok, NotWritten, or NotDurable: renamed into place but not synced.
Results == {"ok", "notWritten", "notDurable"}
Landed(r) == r # "notWritten"
Write(file, r, value) == file' = IF Landed(r) THEN value ELSE file
Charge(r) == /\ r # "ok" => faults < MaxFaults
             /\ faults' = IF r = "ok" THEN faults ELSE faults + 1
             /\ UNCHANGED <<submits, posts, purges>>

-----------------------------------------------------------------------------
(* The handlers *)

\* Ctx.cell: the cell, loaded from disk by the first request that needs it.
Cell == IF cell = NoCell THEN disk ELSE cell
Locked == op # NoOp
Goto(step) == op' = [op EXCEPT !.step = step]
Answer == op' = NoOp

Begin(kind) ==
    /\ up /\ ~ Locked
    /\ cell' = Cell
    /\ op' = [NoOp EXCEPT !.kind = kind,
                          !.step = CASE kind \in {"changes", "summary"} -> "prior"
                                     [] kind = "approve" -> "detail"
                                     [] kind = "cancel" -> "commit"]
    /\ UNCHANGED <<up, record, details, baselines, spec, client, ghosts, faults, purges>>

\* handle_post_submit: a decided run answers 409.
Submit(kind) ==
    /\ submits < MaxSubmits /\ submits' = submits + 1
    /\ ~ Terminal(Cell)
    /\ Begin(kind)
    /\ UNCHANGED posts

\* Mutant: a late summary is let in.
PostAnyway ==
    /\ posts < MaxPosts /\ posts' = posts + 1
    /\ Begin("summary")
    /\ UNCHANGED submits

\* handle_post_summary: likewise.
PostSummary ==
    /\ posts < MaxPosts /\ posts' = posts + 1
    /\ ~ Terminal(Cell)
    /\ Begin("summary")
    /\ UNCHANGED submits

\* The diff baselines, best effort: a request for changes re-anchors both on
\* the spec it read, a summary promotes the rolling copy first.
WritePrior(r) ==
    /\ op.step = "prior" /\ Charge(r)
    /\ IF op.kind = "summary" /\ lastSum = 0
         THEN UNCHANGED prior
         ELSE Write(prior, r, IF op.kind = "changes" THEN spec ELSE lastSum)
    /\ op' = [op EXCEPT !.step = "lastSum", !.base = spec]
    /\ UNCHANGED <<up, cell, record, details, lastSum, spec, client, ghosts>>

\* Mutant: a request for changes leaves the rolling copy alone.
RollOnly(r) ==
    /\ op.step = "lastSum" /\ Charge(r)
    /\ IF op.kind = "changes" THEN UNCHANGED lastSum ELSE Write(lastSum, r, spec)
    /\ op' = [op EXCEPT !.step = "detail", !.base = IF op.kind = "changes" THEN @ ELSE spec]
    /\ UNCHANGED <<up, cell, record, details, prior, spec, client, ghosts>>

WriteLastSum(r) ==
    /\ op.step = "lastSum" /\ Charge(r)
    /\ IF op.kind = "changes" THEN Write(lastSum, r, op.base)
       ELSE IF spec = 0 THEN UNCHANGED lastSum ELSE Write(lastSum, r, spec)
    /\ op' = [op EXCEPT !.step = "detail", !.base = IF op.kind = "changes" THEN @ ELSE spec]
    /\ UNCHANGED <<up, cell, record, details, prior, spec, client, ghosts>>

\* Staged::write: the turn's substance goes first, remembering what it
\* displaced. Landed but unsynced is refused too, and is put back.
WriteDetail(r) ==
    /\ op.step = "detail" /\ Charge(r)
    /\ IF op.kind = "summary"
         THEN Write(summary, r, posts) /\ UNCHANGED feedback
         ELSE Write(feedback, r, cell.turn + 1) /\ UNCHANGED summary
    /\ \/ /\ r = "notWritten"
          /\ Answer
       \/ /\ r # "notWritten"
          /\ op' = [op EXCEPT !.step = IF r = "ok" THEN "commit" ELSE "rollBack",
                              !.staged = IF op.kind = "summary" THEN summary ELSE feedback]
    /\ UNCHANGED <<up, cell, record, baselines, spec, client, ghosts>>

\* roll_back: best effort, and the reviewer is answered 500.
RollBack(r) ==
    /\ op.step = "rollBack" /\ Charge(r)
    /\ IF op.kind = "summary"
         THEN Write(summary, r, op.staged) /\ UNCHANGED feedback
         ELSE Write(feedback, r, op.staged) /\ UNCHANGED summary
    /\ Answer
    /\ clean' = (clean /\ Landed(r))
    /\ UNCHANGED <<up, cell, record, baselines, spec, client, acked, shown, committed>>

-----------------------------------------------------------------------------
(* ReviewState::commit and after *)

\* The turn stands: what its handler goes on to.
Stands ==
    /\ shown' = IF op.kind \in {"changes", "summary"} THEN op.base ELSE shown
    /\ committed' = IF op.kind = "summary" THEN posts ELSE committed
    /\ IF op.kind \in {"approve", "cancel"} THEN Goto("marker") ELSE Answer
    /\ UNCHANGED <<acked, clean>>

\* The turn is refused: a staged detail file is put back.
Refused == /\ IF op.kind = "cancel" THEN Answer ELSE Goto("rollBack")
           /\ UNCHANGED ghosts

\* Mutant: a write that landed unsynced is taken for one that failed.
CommitSynced(r) ==
    /\ op.step = "commit" /\ Charge(r)
    /\ Write(disk, r, Decided(cell, op.kind))
    /\ IF r = "ok" THEN cell' = Decided(cell, op.kind) /\ Stands
                   ELSE UNCHANGED cell /\ Refused
    /\ UNCHANGED <<up, marks, details, baselines, spec, client>>

\* Mutant: the failure is logged, and the verdict acknowledged all the same.
CommitAnyway(r) ==
    /\ op.step = "commit" /\ Charge(r)
    /\ Write(disk, r, Decided(cell, op.kind))
    /\ cell' = Decided(cell, op.kind) /\ Stands
    /\ UNCHANGED <<up, marks, details, baselines, spec, client>>

\* Mutant: a refused commit is not rolled back.
CommitNoRollBack(r) ==
    /\ op.step = "commit" /\ Charge(r)
    /\ Write(disk, r, Decided(cell, op.kind))
    /\ IF Landed(r) THEN cell' = Decided(cell, op.kind) /\ Stands
                    ELSE UNCHANGED <<cell, ghosts>> /\ Answer
    /\ UNCHANGED <<up, marks, details, baselines, spec, client>>

\* The cell adopts the new state only if it reached the disk.
Commit(r) ==
    /\ op.step = "commit" /\ Charge(r)
    /\ Write(disk, r, Decided(cell, op.kind))
    /\ IF Landed(r) THEN cell' = Decided(cell, op.kind) /\ Stands
                    ELSE UNCHANGED cell /\ Refused
    /\ UNCHANGED <<up, marks, details, baselines, spec, client>>

\* The redundant marker comes last, best effort; the verdict is answered 200.
WriteMarker(r) ==
    /\ op.step = "marker" /\ Charge(r)
    /\ Write(marks, r, marks \cup {Verdict(op.kind)})
    /\ acked' = acked \cup {Verdict(op.kind)}
    /\ Answer
    /\ UNCHANGED <<up, cell, disk, details, baselines, spec, client, shown, committed, clean>>

-----------------------------------------------------------------------------
(* The server's life, the agent's edits, and a purge *)

\* Killed: what the handler had not yet done is never done.
Crash ==
    /\ up /\ faults < MaxFaults /\ faults' = faults + 1
    /\ up' = FALSE /\ cell' = NoCell /\ op' = NoOp
    /\ clean' = (clean /\ op.step \notin {"commit", "rollBack"})
    /\ UNCHANGED <<record, details, baselines, spec, client, acked, shown, committed>>
    /\ UNCHANGED <<submits, posts, purges>>

\* ensure_server starts one when none answers.
StartServer ==
    /\ ~ up /\ up' = TRUE
    /\ UNCHANGED <<cell, op, record, details, baselines, spec, client, ghosts, bounds>>

EditSpec ==
    /\ spec < MaxRevisions /\ spec' = spec + 1
    /\ UNCHANGED <<server, record, details, baselines, client, ghosts, bounds>>

\* `cleanup --purge` removes the run directory and `new` reuses the name, with
\* the server running throughout.
PurgeAndRecreate ==
    /\ purges < MaxPurges /\ purges' = purges + 1
    /\ ~ Locked /\ driver = "idle"
    /\ disk' = Idle /\ marks' = {} /\ feedback' = 0 /\ summary' = 0
    /\ prior' = 0 /\ lastSum' = 0 /\ spec' = 0
    /\ acked' = {} /\ shown' = 0 /\ committed' = 0 /\ clean' = TRUE
    /\ told' = "none"
    /\ UNCHANGED <<server, driver, submits, posts, faults>>

-----------------------------------------------------------------------------
(* The driver: review wait and review status *)

Drivers == {"idle", "wait", "readApproved", "readState"}
Exit(outcome) == /\ driver' = "idle" /\ told' = outcome
                 /\ UNCHANGED <<record, details, baselines, spec, bounds>>
Report(outcome) ==
    /\ Exit(outcome)
    /\ UNCHANGED <<acked, shown, committed, clean>>

\* review_wait ensures a server, and then asks it until it reports a decision.
WaitBegin ==
    /\ driver = "idle" /\ up
    /\ driver' = "wait" /\ told' = "none"
    /\ UNCHANGED <<server, record, details, baselines, spec, ghosts, bounds>>

\* Mutant: the wait only ever looks for an approval or a request.
WaitNoCancel ==
    /\ driver = "wait" /\ up /\ ~ Locked
    /\ cell' = Cell
    /\ Cell.state # "cancelled"
    /\ Report(Outcome(Cell.state))
    /\ UNCHANGED <<up, op>>

\* GET state answers from the cell, taking its lock; with no decision to report
\* the wait ends only when its time is up.
WaitFetch ==
    /\ driver = "wait" /\ up /\ ~ Locked
    /\ cell' = Cell
    /\ Report(Outcome(Cell.state))
    /\ UNCHANGED <<up, op>>

\* Undecided, and time left: asked again.
WaitPoll ==
    /\ driver = "wait" /\ up /\ ~ Locked /\ cell = NoCell
    /\ Outcome(disk.state) = "timeout"
    /\ cell' = disk
    /\ UNCHANGED <<up, op, record, details, baselines, spec, client, ghosts, bounds>>

\* The server went away: no answer is never an outcome.
WaitError == /\ driver = "wait" /\ ~ up
             /\ Exit("error")
             /\ UNCHANGED <<server, ghosts>>

\* gate_status_in: the markers first, `cancelled` before `approved` ...
StatusBegin ==
    /\ driver = "idle"
    /\ IF "cancelled" \in marks
         THEN Exit("cancelled")
         ELSE /\ driver' = "readApproved" /\ told' = "none"
              /\ UNCHANGED <<record, details, baselines, spec, bounds>>
    /\ UNCHANGED <<server, ghosts>>

StatusApproved ==
    /\ driver = "readApproved"
    /\ IF "approved" \in marks
         THEN Exit("approved")
         ELSE /\ driver' = "readState" /\ UNCHANGED told
              /\ UNCHANGED <<record, details, baselines, spec, bounds>>
    /\ UNCHANGED <<server, ghosts>>

\* ... and then the state file.
StatusState == /\ driver = "readState"
               /\ Report(Outcome(disk.state))
               /\ UNCHANGED server

-----------------------------------------------------------------------------
Init ==
    /\ up = FALSE /\ cell = NoCell /\ op = NoOp
    /\ disk = Idle /\ marks = {} /\ feedback = 0 /\ summary = 0
    /\ prior = 0 /\ lastSum = 0 /\ spec = 0
    /\ driver = "idle" /\ told = "none"
    /\ acked = {} /\ shown = 0 /\ committed = 0 /\ clean = TRUE
    /\ submits = 0 /\ posts = 0 /\ faults = 0 /\ purges = 0

Handle == \E r \in Results : \/ WritePrior(r) \/ WriteLastSum(r) \/ WriteDetail(r)
                             \/ RollBack(r) \/ Commit(r) \/ WriteMarker(r)
Reviewer == \E kind \in Kinds \ {"summary"} : Submit(kind)
Agent == PostSummary \/ EditSpec
Wait == WaitBegin \/ WaitFetch \/ WaitPoll \/ WaitError
Status == StatusBegin \/ StatusApproved \/ StatusState

Next == \/ Handle \/ Reviewer \/ Agent \/ Wait \/ Status
        \/ Crash \/ StartServer \/ PurgeAndRecreate

Spec == Init /\ [][Next]_vars

\* A request that reached its handler is answered, a wait that finds no server
\* starts one, a status that began ends, and a driver whose wait ended is told
\* to run it again. Nobody owes the gate a decision, a summary or a spec.
FairSpec == /\ Spec
            /\ WF_vars(Handle) /\ WF_vars(StartServer)
            /\ WF_vars(Wait) /\ WF_vars(StatusApproved \/ StatusState)

-----------------------------------------------------------------------------
TypeOK ==
    /\ up \in BOOLEAN
    /\ cell \in ReviewState \cup {NoCell} /\ disk \in ReviewState
    /\ op \in Ops
    /\ marks \subseteq {"approved", "cancelled"} /\ acked \subseteq {"approved", "cancelled"}
    /\ feedback \in Nat /\ summary \in Nat
    /\ prior \in Nat /\ lastSum \in Nat /\ spec \in Nat
    /\ driver \in Drivers
    /\ told \in {"none", "approved", "cancelled", "changes", "timeout", "error"}
    /\ shown \in Nat /\ committed \in Nat /\ clean \in BOOLEAN
    /\ submits \in Nat /\ posts \in Nat /\ faults \in Nat /\ purges \in Nat

\* Through every failed write, crash and restart, both channels behave as one
\* decision register that a verdict closes for good: a late summary never
\* reopens it, and no command exits with an outcome other than the recorded one
\* (is_terminal, gate_status_in, review_wait).
Gate == INSTANCE GateDecision WITH state <- disk.state, turn <- disk.turn, told <- told
ImplementsGate == Gate!Spec

\* refuse_undurable: "the live server keeps answering exactly what a restarted
\* one would", whichever write of whichever handler failed.
LiveServerAgreesWithDisk == cell # NoCell => cell = disk

\* A verdict the reviewer was told is recorded is never withdrawn by a later
\* restart or request (the 200 answers of handle_post_submit).
AckedVerdictStands == \A v \in acked : disk.state = v

\* The state file never points at an earlier turn's text: who observes `waiting`
\* or `approved` finds that turn's feedback, and who observes `ready` that
\* post's summary, or a later one (the reason Staged goes first).
DetailNeverBehind ==
    /\ disk.state \in {"waiting", "approved"} => feedback >= disk.turn
    /\ disk.state = "ready" => summary >= committed

\* Short of a crash inside the turn or of a second failure, a refused request
\* leaves neither a feedback nor a summary of a turn that never was (Staged).
RefusalLeavesNoTrace == clean /\ ~ Locked => feedback = disk.turn /\ summary = committed

\* A turn is its text and its state, or neither, for whoever observes it and for
\* whoever was refused.
TurnIsWhole == DetailNeverBehind /\ RefusalLeavesNoTrace

\* When nothing fails, a summary puts in front of the reviewer exactly the
\* difference to the revision of the previous turn, however edits, requests and
\* summaries alternate (the re-baselining of both handlers).
RevisionDiffsAgainstPrevious ==
    [][committed' > committed /\ shown # 0 /\ shown' # shown => prior = shown]_vars

\* Through restarts and waits that time out or fail, a driver that re-runs its
\* wait learns the verdict (review_wait is resumable).
VerdictReachesDriver ==
    \A v \in {"approved", "cancelled"} : disk.state = v ~> told = v
=============================================================================
