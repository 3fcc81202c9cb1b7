# drovr, specified

drovr runs coding agents through a pipeline. Each *run* is a directory
(`state.json`, markers, spec, feedback, logs) plus one herdr workspace whose
panes hold the agents. Many short-lived `drovr` processes, one long-lived review
server, the agents and a human all act on those two shared things, mostly without
locks. What can go wrong here is order: which process had loaded what when it
saved, and what had already happened when a step failed.

This directory holds TLA+ specifications of the parts where that matters, TLC
configurations that check them on small instances, and TLAPS proofs for all
instances. Paths below are relative to `cli/src/` unless they say otherwise.

## 1. The system

| component | state it keeps | operations | specified in |
|---|---|---|---|
| phase completion protocol (`phase.rs`, `run.rs`) | a phase's status and pass token in `state.json`; `<phase>.done` | `phase start`, `send`, `wait`, `done` | `PassProtocol` |
| spec review gate (`review.rs`, `durable.rs`) | `review.state.json`, the markers `approved` and `cancelled`, `feedback.json`, `summary.txt`, `prior.md`, `last_summarized.md`; one in-memory cell per run | `POST submit`, `POST summary`, `GET state`, `review wait`, `review status` | `ReviewGate`, `GateDecision` |
| pane ledger (`phase.rs`, `run.rs`, `main.rs`) | each phase's pane, `reaped`, `retired_panes`, `root_pane`; herdr's panes | `phase start`, `rehydrate`, `reap`, the retired sweep, `cleanup` | `PaneLedger`, `PaneRegistry` |
| run lock (`flock.rs`) | `run.lock`, `server.pid` | try, unlock | inside `PaneLedger`; descriptors in `ReviewServer` |
| durable writes (`durable.rs`) | none | write, fsync, rename, fsync of the directory | its three results, inside `ReviewGate` |
| run state file (`run.rs`) | `state.json` | load, save, the predicates on `RunState` | inside `PassProtocol`, `PaneLedger`, `RunArchive`, `ReviewPanel` |
| workspace healing (`phase.rs` 611-754) | `workspace`, `root_pane` | `ensure_workspace`, reclaim | `RunArchive` |
| archive authority (`review.rs` 1202-1281, `main.rs`, `run.rs` 785-, 1087-1128) | `archived` | `POST archive`, Restore, `cleanup`, `save_preserving_archived` and the plain saves | `RunArchive` |
| review server life (`review.rs` 2462-2880, `flock.rs`) | `server.pid` and its lock, `server.addr`, the socket | `serve`, `ensure_server`, probe, spawn | `ReviewServer` |
| spec interview (`interview.rs`, `main.rs` 2250-2500) | `interview.jsonl` | `ask`, `POST answer`, fold, `ask wait` | `Interview` |
| code-review panel (`code_review.rs`, `findings.rs`, `mcp_findings.rs`) | reviewer phases, retired panes, one findings file per angle, the head record, the merged review | spawn, resume, replace, wait, merge, reap, transplant | `ReviewPanel` |
| session capture (`phase.rs` 2613-2935, 3299-) | the resumable session of a phase | capture, confirm | planned |
| prompt delivery (`phase.rs` 3142-3260, 3386-3898, `herdr.rs` 402-450, 949-1019) | composer evidence; the agent's pane | readiness, prompt, nudge, give up | `PaneInput` |
| blocked agents (`blocked.rs`, `phase.rs` 4687-4875) | none; the server's cache | triage, scan, watch | `PaneInput` |
| worktree, command line, configuration, briefs, reflex and hooks, page, helpers, skills, packaging | none that outlives a call, or an external program's | | not modelled |

How they interact:

- **Shared files.** Every command loads `state.json`, edits its own copy, and
  replaces the file whole (`RunState::save`). There is no lock around that, so
  the last save wins, with everything it carries. `durable::write` makes each
  replacement atomic, and nothing more.
- **Calls to herdr** open, run in, read and close panes. Each can fail, and each
  takes long enough for the files to change meanwhile.
- **HTTP** between the page, `review wait` and the review server, whose handlers
  take the run's cell lock.
- **Markers** from agents: `phase done` leaves `<phase>.done`, which the next poll
  of `phase wait` finds.

What makes each component correct:

- *Completion protocol.* A phase is recorded `Done` only on its own agent's word;
  a completion of an earlier request is never taken for the newest; a completion
  is not lost; a dropped token is not taken for a supersession.
- *Gate.* A verdict is final, survives a restart once acknowledged, and reaches
  the driver; a refused turn leaves nothing behind; the text a state points at is
  that turn's; the diff is against the previous turn.
- *Ledger.* Every live pane drovr opened is recorded or in someone's hands;
  no conversation runs twice; nothing of the human's is closed; the
  workspace survives reaping; a dead registration can be cleared.
- *Panel.* A merged review is of one commit; a resume counts no review that is
  not there; no reviewer is closed before its verdict is safe, and none is lost
  sight of; a panel whose reviewers have delivered ends.
- *Interview.* `ask wait` exits 0 only with answers to what its agent posted, but
  for a question that a cut write has swallowed, and never after a cancellation; a log
  that can be read has lost no more acknowledged records than writes were cut.
- *Server.* One per data directory; the address a driver is given answers; a
  server that was started leads to one that serves.
- *Prompt delivery and triage.* A send that reports success has delivered; an Enter
  drovr presses accepts only what drovr has looked at; no blocked prompt goes
  unreported.
- *Archive and workspace.* The human's decision stands; a workspace is made only
  for a run that is not archived; none is left unrecorded, and none is recorded
  that was given back.

`PROJECT.json` lists the hazards one by one, each at its line, with the property
that covers it or the reason none does.

## 2. PassProtocol: start, send, wait and done

`PassProtocol` is one phase under four commands. A command is a sequence of
file-system steps with one action each, so any other process may run between two
of them.

| action | code |
|---|---|
| `StartBegin` `StartPersist` `StartSweep` `StartLaunch` `StartCommit` | `phase_start`: mint the token, save `Running`, remove the old marker, launch, save again |
| `SendBegin` `SendCapture` `SendCaptured` `SendSweep` `SendSave` `SendDelivered` `BriefUndelivered` | `phase_send`: readiness with its session captures, `reopen_for_re_entry`, the prompt |
| `WaitBegin` ... `WaitAgain` | `phase_wait`: poll, capture, read the marker, load again and classify with `PassDrift`, save `Done`; or blocked, out of time, once more |
| `StartDiscard` | a launch that fails in a pane just created: `discard_unlaunched_pane` saves the start's copy |
| `AgentSignal` `AgentMark` `AgentRepeat` | `phase_done`: the token check, later the rename of the marker, and the same again before the turn ends |
| `Abort` | an error return whose step had no effect, or a kill, at any step |
| `LegacySave` | an older drovr that re-saves the run without the `pass` field |

`disk` is the phase's record, `copy` and `fresh` are the two in-memory run states
a command may hold, `marker` is the marker with, as a ghost, the request its
signaller had worked on. The agent of an earlier pass is not stopped by a
re-entry and may signal any time later.

Two constants delimit what the code leaves to its callers. `Racy = FALSE` keeps
other processes out of a window between a load and the save of that load;
`SendToBusy = FALSE` has drivers send only to an agent that is not at work. The
properties that need either say so by the run they are checked in;
`DoneIsEarned` and `CompletionIsRecorded` need neither.

| property | what it says |
|---|---|
| `DoneIsEarned` | `Done` under a pass implies that the pass's own agent signalled |
| `NoStaleCompletion` | no marker that counts for the recorded pass predates the newest request, wherever a command stopped |
| `WaitAnswersRequest` | a wait's `Done` rests on work asked for no earlier than the newest request at its start |
| `DoneMeansQuiet` | a phase recorded `Done` has no agent at work in its pane, which reaping relies on |
| `SupersededMeansReEntry` | `Superseded` is reported only when a later start replaced the token |
| `CompletionIsRecorded` | a marker for the recorded pass is turned into `Done` or stops being for it |

## 3. ReviewGate, and the register it implements

`ReviewGate` is the review server's two deciding handlers, one action per file
write, for one run. Each write has the three results of `durable::write`: done,
not written, or renamed but not synced. The cell lock makes handlers exclusive
(`op` is the one request at work); between two writes the server may be killed,
the agent may edit `spec.md`, and `review status`, which uses neither server nor
lock, may read.

| action | code |
|---|---|
| `Submit` `PostSummary` | the handlers' entry, the cell's lazy load, and the 409 of a decided run |
| `WritePrior` `WriteLastSum` | the diff baselines, best effort, in each handler's own order of contents |
| `WriteDetail` `RollBack` | `Staged`: feedback or summary first, put back on refusal |
| `Commit` | `ReviewState::commit` and `refuse_undurable`: the cell adopts what reached the disk |
| `WriteMarker` | the redundant marker, after which the verdict is answered 200 |
| `Crash` `StartServer` `EditSpec` `PurgeAndRecreate` | what happens around the handlers |
| `WaitBegin` `WaitFetch` `WaitPoll` `WaitError` | `review wait` |
| `StatusBegin` `StatusApproved` `StatusState` | `review status`: two markers, then the state file, one read at a time |

`GateDecision` is what all of it promises: one register with five states, closed
for good by a verdict, and a driver that learns the outcome as it stands or an
error. `ImplementsGate` is that specification under the mapping
`state <- disk.state, turn <- disk.turn, told <- told`. It is not a formality:
the status command reads three files one after another while the server writes
them, and must still report the recorded decision at the moment it exits.

The other properties are `LiveServerAgreesWithDisk`, `AckedVerdictStands`,
`TurnIsWhole` (the text a state points at is that turn's, and a refused turn
leaves nothing behind), `RevisionDiffsAgainstPrevious`, and under fairness
`VerdictReachesDriver`.

## 4. PaneLedger: who owns which pane

`PaneLedger` sets herdr's live panes beside `state.json`. Four commands open,
launch into, record, retire and close panes; every herdr call and every save is
an action that may fail; a human opens and closes panes of her own. `run.lock` is
held by rehydrate, reap and sweep, tried and never waited for; start and cleanup
do not take it. A copy of the run state that a command holds across herdr calls
stays in `copy` and is saved whole, however stale, where the code does so. A load
that is edited and saved at once is one action: the window inside it is
`PassProtocol`'s subject.

| actions | code |
|---|---|
| `StartBegin` `StartPersist` `StartConfigFails` `StartCommit` | `phase_start` |
| `Tab` `Launch` `LaunchFails` `Discard` `CloseAndFail` | what start and rehydrate share: the pane, `launch_in_pane`, `discard_unlaunched_pane` |
| `RehydrateBegin` `RehydrateCommit` `Surrender` `RehydrateReady` `GiveBack` | `phase_rehydrate` with its two ways of giving a pane up |
| `SweepPeek` `SweepLock` `SweepClose` `SweepSave` | `reap_retired` |
| `ReapBegin` `ReapLock` `ReapClose` `ReapRelease` `ReapOver` | `phase_reap`, and `reap_superseded` after a start |
| `CleanupBegin` `CleanupList` `CleanupCloseAll` `CleanupCloseEach` | the load of `state.json` in `main.rs`, and `close_run_panes` |
| `Complete` `Reopen` | what `PassProtocol` does to a status, in one step each |
| `HumanOpens` `HumanCloses` `Kill` | what happens around the commands |

`PaneRegistry` is what the commands under the lock promise together, with no
processes, no copies and no failures: a pane that is opened is in one pair of
hands, and no other is, until it is registered for the phase whose agent runs in
it, given up for closing, or closed; a registration ends only in the list of panes
to close; and that list forgets a pane only when it is gone. `ImplementsRegistry`
is that specification under the mapping `pane <- disk.pane, retired <-
disk.retired, hand <- InHand`, where `InHand` is the panes in the commands' hands
that the file does not name. A failing save, a surrender or a give-back is one
step of it or none.

The other properties are `NoStrandedPane`, `OneAgentPerPhase`, `ClosesOnlyOurs`,
`RootSurvives`, and under fairness `StuckRegistrationClears`. herdr itself is
external: an id is handed out to one live pane at a time, and, where `Reuse`
holds, again after that pane is closed.

## 5. ReviewPanel: the code review of one task

One pass of `drovr code-review run` at a time, from the choice of its iteration to
the transplant of its progress, beside the reviewers it spawned, the implementer
who commits and a human who may type into a reviewer's pane. The pass works on the
copy of `state.json` it loaded; `disk` is the file, `copy` the pass's. A reviewer
is known by its pane: `findings[<<iter, angle>>]` says whose review a file holds,
and `agents[i].head`, a ghost, which commit it was asked about.

| action | code |
|---|---|
| `Open` | `resumable_iter`, the head record, `next_iter` |
| `Turn` `Probe` `Clear` | per angle: bank what a resume finds, keep a reviewer that may deliver, or retire it and drop its registration; `clear_findings_file` |
| `Spawn` `SaveReviewer` `Seed` | `spawn_reviewer`, the save, `phase_send` of the seed, which may be delivered though it failed |
| `Poll` `Look` `Judge` `EndRound` | `wait_for_reviewers`: the pane's status first, then the file, then whether it has finished |
| `TimeOut` `Drain` `Merge` `Reap` | the saves, `merge_reviews`, `reap_retired` and `phase_reap` of each angle |
| `Leave` | `merge_panel_progress` into a fresh load, on every way out |
| `Submit` `Stop` `Wake` `Die` `Commit` `Kill` | `submit_findings`, the end of a turn, a human's input, an exit, `HEAD`, a killed pass |

| property | what it says |
|---|---|
| `VerdictsAreCurrent` | every verdict merged came from a reviewer asked about the commit of the pass; excepted are iterations whose number was given out twice |
| `DoneIsBanked` | an angle recorded `Done` has its findings in its file |
| `NoStrandedReviewer` | between passes, a live reviewer is in `state.json`, if no pass was killed and at most one step failed |
| `ReapFollowsVerdict` | a pass closes a reviewer only after its iteration is merged, or after another replaced it |
| `DeliveredPanelDrains` | where every angle has delivered, re-runs come to an end, though no poll saw a turn end |

The exception in `VerdictsAreCurrent` is real: `next_iter` counts what
`state.json` records, so an iteration whose reviewers were asked and then lost
(the pass killed, or the saves failed) gives its number away, with reviewers that
still write into its files (`code_review.rs` 577-582, 1609-1610 expect otherwise).

## 6. Interview: questions and answers

`interview.jsonl` as the sequence of its writes. Each writer reads, measures and
appends in three actions (`Read` `Size` `Write`), so two writers, a cancellation
and a purge fall between them. A purge removes file by file (`Purge` `PurgeFile`
`PurgeDir`), and a writer may put the log there again. `Arm` `CheckFirst` `Snapshot`
`Poll` `Look` are `cmd_ask_wait`, and `Line`, `QuestionOf`, `AnswerOf`, `Pending`
the reader's fold.

A write may be cut short in one of three ways, and they differ. Cut before its
newline or between two characters, the line stays without an end, and swallows the
next one: the half is skipped, and the record appended to it, which was
acknowledged, is lost (`interview.rs` 416; more than 38-40 says). Cut inside a
character (`Split`), it makes `read_to_string` fail (`interview.rs` 203), and then
nobody reads the log, and nobody appends to it, because both appends read first (494,
564). A log past `Cap` is refused in the same way (204).

| property | what it says |
|---|---|
| `ExitZeroIsAnswered` | a wait that exits 0 prints an answer to every question its agent had posted and that was without one, or to all it had posted when the log had none pending; excepted are a question swallowed by a cut write and a run being purged |
| `CancelledNeverAnswered` | a wait armed after a cancellation never exits 0, the purge again excepted |
| `LossIsBounded` | as long as the log can be read, at most one acknowledged record is lost for each write that was cut |
| `OverrunIsBounded` | the log passes its cap by fewer writes than there are writers |
| `AnsweredWaitEnds` | later questions do not hold a wait |

What the wait owes is taken from `posted`, the questions that `drovr ask` reported
as posted, and not from the fold, which no longer knows a swallowed one. Such a wait
exits 0 without it: the code has nothing to see it by.

Two sentences of `interview.rs` do not hold, and the properties are stated around
them. "A log drovr can read stays a log drovr can read" (401-402): the size is taken
at 405 and the line written at 416, with no lock, so that two writers may find room
for one line each, and every record is out of reach from then on. "A half-written line
must not make the whole interview unreadable" (39-40): one cut inside a character
does. `StaysReadable` and `HalfLinesAreSkipped` state them, and no run checks them:
either of them, added to `Interview.cfg`, is violated.

## 7. ReviewServer: the one server

`drovr serve` from the lock on `server.pid` to the end of `serve` (`TakeLock` `Bind`
`Truncate` `WriteAddr` `Stop`), where any file may fail to be opened or written before
it serves (`Errs`: the lock is given back, and `server.addr` may be left empty), and
`ensure_server` (`Ensure` `ReadAddr` `Connect`). Locks belong to open file descriptions:
`Fork` and `Exec` are a child that shares the lock and the socket, `Unlocks` the
explicit unlock of `flock.rs`, `Closes` what a killed process gets from the kernel.

`OneServer` is what `ReviewGate` takes for granted. `FoundIsUp` says what an
address that answered is worth, `StartLeadsToServer` that stale files, lost races
and forked children never leave the data directory without a server.

## 8. RunArchive: the flag and the workspace

Two pieces of `state.json` that everybody saves and two authorities decide: the
human the `archived` flag, herdr which workspace exists. A command (`cmd[p]`) is
its operation, its step, its copy, and the draft it writes with the reason;
`Reread` is the look at the file before `save_preserving_archived`, a decision and
a transplant, `Write` the write. `Exists` `Refresh` `Create` `Reclaim` are
`ensure_workspace`; `Load` to `NextReviewer` the commands' own steps; `Close`
`Remove` Archive and cleanup. A brief fails before its phase is re-opened, in that
save, or in the delivery, and each way leads to the same plain save (`Unbriefed`).

| property | what it says |
|---|---|
| `RevertsAreRaces` | the human's decision is turned round only by a save whose look came before it, or by one that does not look |
| `NoWorkForArchived` | no workspace is made for a run archived since before the old one was looked for |
| `NothingLiveForgotten` | a live workspace is recorded or in a command's hand, but for a kill, a close that failed, a purge, or a copy written over a change |
| `NoFiction` | `state.json` never names a workspace that was given back |

Ghosts: `decision`, `reclaimed`, `excused` (workspaces forgotten for one of the
causes named), and in each command `missed`, `stale` and `open`.

## 9. PaneInput: what is typed into a pane

One pane: what its agent shows (`drawn`, `dialog`, `composer`), what it does
(`turn`) and what it has been given (`taken`, a ghost). Nobody locks a pane, so
every action of a send, a wait, the page, a human and the agent falls between any
two of the others, and what a look has shown may be gone when the key is pressed.

| action | code |
|---|---|
| `AwaitReady` `AwaitUnread` `AwaitDrawn` | `phase_send`'s two readiness gates: herdr's status, and a screen that is the agent's own |
| `Prompt` `Confirm` `Relook` `Nudge` `AwaitStarted` | `agent_prompt_confirm`; the second look, `Landed`, the one Enter and its confirmation |
| `PollBlocked` `Triage` `Answer` | `phase_wait` returning `Blocked`; `triage_blocked_phase`: read and classify, and later the key |
| `Sweep` `Judge` | `scan_run`'s status poll, and the read that `watch_tick` judges |
| `Keys` `Post` | `POST keys` or a human at the terminal; `POST send` and a rehydrate's reminder |
| `Draw` `Work` `Restart` | the agent: its interface appears, it asks or ends a turn, it is restarted |

A send keeps, as ghosts, whether the agent was active when it typed (`level`) and
whether somebody else typed since its first look (`crossed`).

| property | what it says |
|---|---|
| `OkMeansTaken` | a send that reports success has given the agent its text, unless `level` or `crossed` |
| `KeysFollowLooks` | the nudge of an undisturbed send accepts no dialog; a triage accepts no dialog that it read as anything but routine |
| `NobodyParks` | a prompt herdr reports as blocked is cleared or escalated to the driver, and one that is not routine also raises the alarm of `watch` |

Neither exception can be dropped. herdr's `until` is a level (`herdr.rs` 498-505),
so a send to an agent that is at work reports success for a text a dialog has
swallowed; `herdr.rs` 418-419 has `phase_send` rule that out, and
`agent_has_started` (`phase.rs` 3142) does not. And no look can be attributed to a
send when someone else types. `KeysFollowLooks` says less of a triage than one
might wish: where the prompt was answered by a human meanwhile, the Enter goes to
whatever is there, and a routine phrase in the transcript above an unknown prompt
makes the classifier call that prompt routine (`phase.rs` 4759 searches all of it).
The dialog's `words` stand for all that `agent.read` returns with it.

## 10. The runs

Deadlock is checked in the runs of the first four modules, whose commands stay able
to fail or to begin again. The panel, the interview, the server, the commands of
`RunArchive` and what is typed into a pane do come to an end, and their runs say so
(`CHECK_DEADLOCK FALSE`).

| run | question | instance, and why it is enough |
|---|---|---|
| `pass_serial` | do re-entries keep completions apart? | One driver, one waiter, three requests, one abort or legacy save, two tokens: a start, a second start or a send, and one more request that an old marker could answer. |
| `pass_racy` | what survives unlocked saves? | The same two processes with every interleaving and sends to busy agents; two requests already put a stale copy, an old agent and a new pass in play. |
| `gate_faults` | is the gate a decision register under failure? | Two submits, two summaries, two revisions, three faults: a failed write, a failed roll-back and a crash can meet in one turn, with a second turn after it. |
| `gate_diffs` | are diffs against the previous turn? | No faults, three submits, three summaries, four revisions, and a purge with a new run of that name. |
| `ledger_locked` | are panes never lost, doubled or stolen, and kept as one registry keeps them? | Two processes over rehydrate, reap and cleanup, three pane ids, two failures: one for a step and one for the step that cleans up after it. |
| `ledger_all` | does the workspace outlive its phases, and can a dead registration be cleared? | Start, rehydrate and reap of two phases (so that a start reaps the other), a failure and a kill, and one pane id that herdr hands out again and again: every stale record of it meets a new pane. |
| `panel` | is a merged review what it says it is, and does a delivered panel end? | Two angles, two iterations, two commits (the second falls anywhere), three panes (both reviewers and one replacement), one failure, kill or exit. |
| `pane_input` | does a send deliver, do keys follow looks, and does anybody learn of a prompt? | One send, one wait, one watch; two dialogs, one to be read and one to take its place; two texts from the page, one before and one during the send; one failed call or restart. |
| `interview` | does exit 0 mean answered, what does a cut write cost, and how far past its cap can the log grow? | The agent and one server thread, which already measure and write across each other; three asks, three answers, two waits, a log that holds four of these six lines, so that both writers may pass the cap; one cut write (in the text, in a character or before the newline) with a line after it to swallow. The proofs allow any number of threads. |
| `server` | is there one server, and is it found? | Three servers, so that one may be dead, one dying and one starting; two drivers, two ports, one kill, error or foreign program. |
| `archive` | does the human's decision stand, and is each workspace accounted for? | Three commands or clicks, two at a time: a decision, one that races it, and one after both. Three workspaces: the first, and a replacement by each. Two troubles, one for a step and one for what cleans up. |

Tokens, panes, phases and processes are model values, interchangeable where a run
declares symmetry, which is only in runs without liveness. Requests, faults, kills,
submits, posts, revisions, purges, asks, waits, iterations, panes, dialogs, commands
and troubles are counted, each by a constant named for it; none of them is a limit of
the code, except `Cap`, which is `MAX_LOG` counted in writes.

One run checks a sentence of the repository that the code does not keep.

- `archive_undone` violates `NoExceptions`. Of the rule that everyone who has not
  decided takes the file's value of the flag, `run.rs` 785-795 says that it has no
  exceptions. Three saves do not look: the start whose brief was not delivered
  (`main.rs` 1732), the discard of a pane whose launch failed (`phase.rs` 426) and
  rehydrate (`phase.rs` 1913). A run archived while a brief is being delivered is
  restored by the first of them.

The models contain more steps that a property had to be stated around; each is an
entry of `PROJECT.json` "hazards" with its lines, and changing the instance named
shows it.

- A send to an agent that has not signalled shares its pass, so an earlier
  completion answers the wait (`SendToBusy = TRUE` in `pass_serial`).
- A refused summary leaves the diff baselines rolled (`MaxFaults = 1` in
  `gate_diffs`).
- A summary posted over a request for changes that nobody polled replaces it.
- `phase start` may return between `tab_create` and the save that records the pane
  (`Commands` with `"start"` in `ledger_locked`).
- A retired id that herdr hands out again is closed by the next sweep.
- A panel's iteration number may be given out twice (section 5).
- A half line without a newline swallows the next acknowledged record; one cut inside
  a character, or two writers at the cap, make the whole log unreadable (section 6).

## 11. Fairness

Safety needs none. The liveness properties assume:

- `PassProtocol!FairSpec`: a waiter takes steps and is re-run after a wait that
  ended (a timeout is resumable by design), and a wait that polls again and again
  does reach its deadline. Drivers and agents owe nothing.
- `ReviewGate!FairSpec`: a request that reached its handler is answered, a server
  is started when a wait finds none (`ensure_server`), a command that began
  finishes, and the driver re-runs its wait. Nobody owes a decision or a summary.
- `ReviewPanel!FairSpec`: a running pass takes its steps (its loop polls on a timer
  and its deadline is finite), and the driver re-runs a panel that ended, and does
  not ask for a fresh one every single time. Reviewers owe nothing.
- `Interview!FairSpec`: a wait that runs polls on. Nobody has to ask or to answer.
- `PaneInput!FairSpec`: a driver that was told of a blocked phase, or saw it
  answered, runs its wait again (exit 4 means re-wait, `main.rs` 1848-1850), and the
  watch is started again after an alarm. Neither senders, agents nor humans owe
  anything.
- `ReviewServer!FairSpec`: a process that was started goes on, and a forked child
  reaches its exec. Nobody has to ask for a server.
- `PaneLedger!FairSpec`: a command that began takes its steps. The operator
  re-runs `phase reap`, which the error message tells her to do, and does not find
  the lock held every single time: it is held across a bounded number of herdr
  calls.

## 12. What is proved

TLAPS checks every theorem below for arbitrary constants, under the named assumptions
`PassAssumption`, `GateAssumption`, `LedgerAssumption`, `PanelAssumption`,
`ServerAssumption`, `ArchiveAssumption`, `PaneAssumption` and `InterviewAssumption`.
These say only that sentinel values are not among the values they stand beside, that
drivers are not waiters and the agent not a worker, that the server's workers are
finitely many, that switches are Boolean, that sets of commands and faults are ones the
module knows, and that bounds are natural numbers. Whatever else a theorem supposes is a
hypothesis that it states itself.

Every invariant and every action property that a run checks is stated by a
theorem here. Each was found inductive, or made so, in the same way: the
strengthening was first checked by TLC on the runs' instances.

| module | theorem | property | it supposes |
|---|---|---|---|
| `PassProtocolProofs` | `TypeCorrect`, `DoneAlwaysEarned` | `TypeOK`, `DoneIsEarned` | |
| | `StaleNeverCompletes`, `DoneIsQuiet`, `WaitIsAnswered`, `SupersededIsReEntry` | `NoStaleCompletion`, `DoneMeansQuiet`, `WaitAnswersRequest`, `SupersededMeansReEntry` | `SerialUse` |
| `ReviewGateProofs` | `TypeCorrect` | `TypeOK` | |
| | `Agreement`, `AckedStands`, `Refinement`, `WholeTurns` | `LiveServerAgreesWithDisk`, `AckedVerdictStands`, `ImplementsGate`, `TurnIsWhole` | no purge |
| | `DiffsAgainstPrevious` | `RevisionDiffsAgainstPrevious` | no failed write |
| `PaneLedgerProofs` | `TypeCorrect`, `RootStays` | `TypeOK`, `RootSurvives` | |
| | `ClosesOurs` | `ClosesOnlyOurs` | ids not reissued |
| | `NothingStranded`, `OneAgent`, `RegistryRefined` | `NoStrandedPane`, `OneAgentPerPhase`, `ImplementsRegistry` | `LockedUse` |
| `ReviewPanelProofs` | `TypeCorrect`, `VerdictsCurrent`, `DoneBanked`, `ReapFollows`, `NoneStranded` | `TypeOK`, `VerdictsAreCurrent`, `DoneIsBanked`, `ReapFollowsVerdict`, `NoStrandedReviewer` | |
| `ReviewServerProofs` | `TypeCorrect`, `ServerIsOne`, `FoundUp`, `AddrNames` | `TypeOK`, `OneServer`, `FoundIsUp`, `AddrNamesServer` | |
| `RunArchiveProofs` | `TypeCorrect`, `NoWork`, `RevertsRaces`, `NothingMadeUp`, `NothingForgotten` | `TypeOK`, `NoWorkForArchived`, `RevertsAreRaces`, `NoFiction`, `NothingLiveForgotten` | |
| `PaneInputProofs` | `TypeCorrect`, `Delivered`, `KeysLooked` | `TypeOK`, `OkMeansTaken`, `KeysFollowLooks` | |
| `InterviewProofs` | `TypeCorrect`, `CancelledNever`, `ExitZero`, `BoundedLoss`, `OverrunBounded` | `TypeOK`, `CancelledNeverAnswered`, `ExitZeroIsAnswered`, `LossIsBounded`, `OverrunIsBounded` | |

The type invariants of `PaneLedger`, `ReviewPanel`, `ReviewServer`, `RunArchive`,
`PaneInput` and `Interview` are proved, and no run repeats them.

### The hypotheses

- `SerialUse` is what `pass_serial` runs: one driver, which sends to no agent that
  is at work, and no command between another's load and save. Waits are any in
  number, aborts, kills and an old binary's saves are not excluded. `pass_racy`
  shows which properties need it.
- *No purge* (`MaxPurges = 0`): nothing invalidates the server's cell when a
  directory is removed under it, and the agreement fails then. *No failed write*
  (`MaxFaults = 0`): a refused summary leaves the baselines rolled (section 10).
  `DiffsAgainstPrevious` allows purges.
- *Ids not reissued* (`~Reuse`): a recorded id that herdr hands out again may name
  the human's pane. `ClosesOurs` holds for more than its run checks: all commands,
  `phase start` among them, any failures and kills.
- `LockedUse` is what `ledger_locked` runs: `rehydrate`, `reap` and `cleanup`, which
  take the lock (`phase start` takes none), ids not reissued, nobody killed, and
  `MaxFaults <= 2`. With a third failure `NoStrandedPane` and `OneAgentPerPhase` are
  false: a pane whose launch or record fails, whose retirement cannot be saved, and
  whose close fails is lost, and `discard_unlaunched_pane` and
  `surrender_unrecordable_pane` can do no more than report it.

### The arguments

- `PassProtocolProofs`. `TypeOK` needs one strengthening, that a start in progress
  holds a minted token (`StartHoldsToken`). `DoneIsEarned` of the disk is not
  inductive, because any process may save any copy at any time; `EvidenceInv` makes
  it so: every copy and every fresh load in memory is earned as well; a marker
  carries only tokens that signalled; and a wait beyond its marker check holds a
  token that signalled. Signals are never taken back, so a stale save stays earned.
  Under `SerialUse`, `SerialInv` says of each part where it stands in the others'
  order: windows exclude each other, so what one loaded is what the file says
  (`WindowInv`); the recorded pass is the pane's agent or one that is not launched
  yet, and the marker names an agent that is idle (`AgentInv`); nobody has heard of
  the agent of a start in progress (`StartInv`); once a send has swept the marker,
  nothing brings it back before the prompt (`SendInv`); and a wait that accepted
  the recorded pass's marker saw the newest request's (`WaitInv`). `ReEntryInv` adds
  that a pass a wait took down is replaced by a start alone.
- `ReviewGateProofs`. `GateInv` adds to the agreement what a handler at work may
  rely on: the cell is loaded, the disk is undecided up to the commit and is this
  verdict at the marker, and every marker file names the recorded state. The
  refinement follows action by action: `Commit` is `Open`, `RequestChanges`,
  `Approve` or `Cancel`; a command's last step is `Learn`; everything else stutters
  or is `Ask`. `TurnInv` says what `Staged` holds back while a turn is neither
  recorded nor put back, and that texts are never behind the state. `DiffInv` says
  where a handler has got to in rolling the baselines: the rolling copy is the
  revision last shown, unless a turn has moved it and not yet been recorded.
- `PaneLedgerProofs`. `LedgerInv` says what each command's task holds at each step,
  above all that a pane it may go on to close is never the root shell: a discard,
  surrender or give-back concerns a pane from `tab_create`, a reap one that
  `reapable` let through, a sweep only `reapable_retired` ones. `OwnInv`: what any
  copy of `state.json` records, however old, and all that any command has listed or
  in hand, is an id that was handed to drovr; that set never shrinks, so a stale
  copy stays harmless. `LockedInv`: the lock's holder, and nobody else, is in its
  critical steps (`LockInv`); its copy has the file's panes, the pane it opened is
  new, the one it closes is recorded, or dead, or the second call has failed
  (`HandInv`); and an agent's pane is recorded for its phase, retired, or in the
  hand of the command that has yet to record it (`AgentInv`). For the refinement
  `RegistryInv` adds what the registry's own guards ask: a pane on its way is on no
  record yet, the agent in it at the registration is the phase's, and a pane to be
  released is not the root shell. Every command step then maps to one action of the
  registry, or to a stutter where a copy, a lock or a failed call is all that moves.
- `ReviewPanelProofs`. That a merged review is of one commit is far from
  inductive. `PanelInv` says: a reviewer at
  work was asked (`Stamped`), between its launch and its seed it is registered and
  not asked (`Seeding`), every review is by a reviewer of its own iteration
  (`Owned`), and so is every registration (`Registered`), in the file and in the
  copy; the reviewers of an iteration that was not reissued were all asked about
  the commit in its head record (`OneHead`); what is `Done` is on file, and no pass
  clears it (`Banked`); a pass that reaps has merged (`Reaping`). `StrandInv` is
  about who names a reviewer alive, and says the more the less has failed: the copy
  of a running pass does after one failure too; the file does between passes and
  after the drain, and with no failure everywhere but between a spawn and its save
  (`Recorded`). It needs that a spawn overwrites no pane (`SpawnsFree`), and that a
  slot without a reviewer names none (`Bare`).
- `ReviewServerProofs`. `ServerInv` ties the steps of a process to the lock it
  holds (`ClaimsHold`), to the sockets that are open (`SocketsHeld`), and the lock
  to somebody (`NoGhostLock`), which is where the explicit unlock is needed: a
  process that returns with a forked child would otherwise leave it held.
- `RunArchiveProofs`. `NoWork` and `RevertsRaces` follow from `LookInv`, what a
  command at each step knows of the flag in the file; `NothingMadeUp` from
  `FictionInv`: a workspace in a command's hand is known to its own draft alone, so
  that giving it back takes it from nobody, and one not made yet is known to nobody.
  `NothingForgotten` is from `KeepInv`: a repair replaces only a workspace that is
  gone, and as long as a command has missed no write, its copy and its draft name the
  workspace on record, so that a save drops none; a copy that has missed one is
  `stale`, and what it overwrites is excused.
- `PaneInputProofs`. `Delivered` and the first half of `KeysLooked` are from
  `SendInv`: of a send that nobody has interfered with,
  `SeenAbsent` says what its first look still proves of the screen (until herdr
  reports a move, either a dialog covers an untouched composer, or the composer
  holds the text under no dialog), and `MoveTells` that a reported move means the
  text was taken. One lemma per actor shows it kept: others' keys end the reliance
  (`OthersKeep`), an interface that appears was not looked at (`DrawKeeps`), a turn
  that goes on was active before (`WorkKeeps`). The second half is from `ReadInv`:
  dialogs are numbered, so one that was read still has the words that were read.
- `InterviewProofs`. `CancelledNever` is about the wait, the cancellation and the purge
  alone (`LateInv`). `ExitZero` and `BoundedLoss` rest on `AllInv`: a question is
  written once, under a number of its own (`AskInv`); of the lines that stand, one at
  most asks under an id, the id that the agent has taken is free until it writes, and
  what was acknowledged is in the log, whole, if not on a line of its own (`LogInv`). So
  a posted question is swallowed or stands in the log (`PostedStands`), and what stands
  and is owed is among what the wait waits for (`WaitInv`). A lost record was appended
  to a half line, a different one for each, and the half lines are no more than the
  writes that were cut: an injection, so no count is followed through the steps.
  `OverrunBounded` is from `OverInv`: the log and the writers that have measured it and
  not yet written, together, stay below the cap and the number of writers. That an id
  has a last answer is kept as part of the invariant (`HasLast`), where induction over
  the log would be the way to derive it.

### Only model-checked

The liveness properties: `CompletionIsRecorded`, `VerdictReachesDriver`,
`StuckRegistrationClears`, `DeliveredPanelDrains`, `NobodyParks`,
`AnsweredWaitEnds` and `StartLeadsToServer`. The prover handles neither fairness nor
`ENABLED`. It does not do induction over data either; no theorem needs any, because
the modules have no recursive definitions, and folds over the log are stated by what
stands in it.

## 13. What is left out

Inside the modelled components: power loss (what an unsynced write is exposed to),
what a session capture records, the badge of the page and its cache, which runs a
watch sweeps, the wording a prompt is recognised by, short texts that leave no paste
marker in the composer,
`phase wait` on a reviewer, a reap of one phase while its workspace is being
replaced, two passes of one task at once (the pipeline has one driver), the files
that a panel displaces from the checkout, an unreadable `state.json`, and a log write
that the kernel takes in parts with another writer's between them.
A `pane_run` that reports a failure is taken to have run nothing, which the comment
on `discard_unlaunched_pane` (`phase.rs` 420-423) relies on.

*Composition.* The modules share `state.json` and split its fields: `PassProtocol` has
status, pass and marker, `PaneLedger` panes and retirement, `ReviewPanel` the reviewers,
`RunArchive` the flag and the workspace, `PaneInput` none of it: the delivery that is
one step, done or failed, in `PassProtocol` is what it opens up. Each takes the others'
effect on its own fields as a step of its environment (`Complete` and `Reopen` in
`PaneLedger`, the stale whole-file saves in `RunArchive`). `ReviewGate` assumes the one
server that `ReviewServer` shows. No module has all the fields at once: the product is
beyond TLC, and no property of this project relates fields of two.

Outside: pure text (briefs, reflex, rendering), parsing and validation
(configuration, herdr's answers), straight-line git commands, browser code, and
test support. They keep no state whose order could go wrong.

## 14. Plan

Done: `PassProtocol`, `GateDecision`, `ReviewGate`, `PaneRegistry`, `PaneLedger`,
`ReviewPanel`, `Interview`, `ReviewServer`, `RunArchive`, `PaneInput`, with their
`MC...` and `...Proofs` modules. In order of importance, what is left.

1. `Capture`: which observed session becomes the one a phase resumes, and what a
   rehydrate concludes from it.
2. The cache behind the badge of the page, and when a watch is over.
3. The files a panel displaces, and what a second pass at the same time does.
4. Proofs: abstract specifications of `PassProtocol` and `Interview`, and that they
   are implemented; liveness stays with TLC.
