----------------------------- MODULE PassProtocol -----------------------------
(***************************************************************************)
(* One pipeline phase of a run, as the four commands that share it see it: *)
(* `phase start`, `phase send`, `phase wait` (drivers) and `phase done`    *)
(* (the agent), all over two files of the run directory:                   *)
(*                                                                         *)
(*   state.json     the phase's recorded status and pass token (disk);     *)
(*                  every writer loads it, edits its own copy and replaces *)
(*                  the whole file, with no lock;                          *)
(*   <phase>.done   the completion marker, holding the token of the agent  *)
(*                  that signalled (marker).                               *)
(*                                                                         *)
(* A command is a sequence of file-system steps, one action each, so other *)
(* processes run between them, and Abort ends it between any two: that is  *)
(* every error return whose step had no effect, and a killed process.      *)
(* The abstractions: the phase's pane is reduced to the agent that         *)
(* occupies it, readiness and prompt evidence to whether the prompt is     *)
(* delivered, and the handoff check of `phase done` to a finished agent.   *)
(***************************************************************************)
EXTENDS Naturals, FiniteSets

CONSTANTS Tokens,       \* the tokens new_pass_token can mint
          Drivers,      \* processes that may run any command
          Waiters,      \* processes that only ever run `phase wait`
          EmptyToken,   \* what an agent without $DROVR_PASS signals with
          NoPass,       \* `pass: None` in state.json
          NoToken,      \* no <phase>.done file
          Racy,         \* may others run inside a load-to-save window?
          SendToBusy,   \* may a driver send to an agent that is still working?
          MaxRequests,  \* bound: requests (starts and sends) ever opened
          MaxFaults     \* bound: failed or aborted commands, legacy saves, repeated signals

ASSUME PassAssumption ==
    /\ {EmptyToken, NoPass, NoToken} \cap Tokens = {}
    /\ EmptyToken # NoPass /\ EmptyToken # NoToken /\ NoPass # NoToken
    /\ Drivers \cap Waiters = {}
    /\ Racy \in BOOLEAN /\ SendToBusy \in BOOLEAN
    /\ MaxRequests \in Nat /\ MaxFaults \in Nat

VARIABLES
    disk,       \* the phase's record in state.json
    marker,     \* <phase>.done and (ghost) the request its signaller had worked on
    agents,     \* what the agent holding each token is doing
    work,       \* ghost: the request each agent was last asked for
    inPane,     \* the agent a prompt to the phase's pane reaches
    used,       \* the tokens minted so far
    pc,         \* where each process is in its command
    copy,       \* its in-memory RunState
    fresh,      \* a state.json it loaded beside that copy
    expected,   \* the pass a wait snapshotted, or the pass a start minted
    brief,      \* is this send the brief of a `phase start`?
    since,      \* ghost: requests and starts opened when its wait began
    saw,        \* ghost: the request of the marker its wait accepted
    verdict,    \* how its last command ended
    request,    \* ghost: requests opened so far
    starts,     \* ghost: passes persisted so far
    signalled,  \* ghost: the tokens whose `phase done` landed
    faults

files == <<disk, marker>>
world == <<agents, work, inPane, used>>
locals == <<pc, copy, fresh, expected, brief, since, saw, verdict>>
ghosts == <<request, starts, signalled, faults>>
vars == <<files, world, locals, ghosts>>

Procs == Drivers \cup Waiters
Holders == Tokens \cup {EmptyToken}
Passes == Tokens \cup {NoPass}
Statuses == {"Absent", "Pending", "Running", "Done", "Failed"}
Record == [status : Statuses, pass : Passes]
Blank == [status |-> "Absent", pass |-> NoPass]
Markers == [token : Holders \cup {NoToken}, for : Nat]
NoMarker == [token |-> NoToken, for |-> 0]

StartSteps == {"persist", "sweep", "launch", "commit"}
SendSteps == {"ready", "readyCapture", "reopenSave", "prompt"}
WaitSteps == {"poll", "capture", "look", "check", "store", "rest"}
PCs == {"idle"} \cup StartSteps \cup SendSteps \cup WaitSteps
Verdicts == {"none", "ok", "error", "done", "timedOut", "blocked", "superseded"}

\* Mutant: the marker's content is not looked at.
AnyMarkerCompletes(token, pass) ==
    IF pass = NoPass THEN token = EmptyToken ELSE token # NoToken

\* marker_completes_pass: the empty marker completes only an untokened phase.
MarkerCompletes(token, pass) ==
    IF pass = NoPass THEN token = EmptyToken ELSE token = pass

\* Mutant: a bare comparison.
BareDrift(now, was) == IF now = was THEN "same" ELSE "superseded"

\* PassDrift::between(fresh, expected), the freshly read pass against the awaited one.
PassDrift(now, was) ==
    IF now = was THEN "same" ELSE IF now = NoPass THEN "tokenLost" ELSE "superseded"

-----------------------------------------------------------------------------
\* Steps between a load of state.json and the save of the edited copy.
Window == {"check", "store", "capture", "readyCapture"}
Undisturbed(p) == Racy \/ \A q \in Procs \ {p} : pc[q] \notin Window

Goto(p, l) == pc' = [pc EXCEPT ![p] = l]
\* The command exits: its verdict stays, its memory does not.
Return(p, v) ==
    /\ Goto(p, "idle")
    /\ verdict' = [verdict EXCEPT ![p] = v]
    /\ copy' = [copy EXCEPT ![p] = Blank] /\ fresh' = [fresh EXCEPT ![p] = Blank]
    /\ expected' = [expected EXCEPT ![p] = NoPass]
    /\ brief' = [brief EXCEPT ![p] = FALSE]
    /\ since' = [since EXCEPT ![p] = [request |-> 0, starts |-> 0]]
    /\ saw' = [saw EXCEPT ![p] = 0]
\* A command begins, off the run it has just loaded.
Begin(p, l) == /\ pc[p] = "idle" /\ Undisturbed(p)
               /\ Goto(p, l)
               /\ verdict' = [verdict EXCEPT ![p] = "none"]
               /\ copy' = [copy EXCEPT ![p] = disk]
KeepLocals == UNCHANGED <<copy, fresh, expected, brief, since, saw>>

-----------------------------------------------------------------------------
(* phase start *)

\* The command loads the run, and phase_start mints this pass's token.
StartBegin(d) ==
    /\ Begin(d, "persist")
    /\ request < MaxRequests
    /\ \E t \in Tokens \ used :
          /\ used' = used \cup {t}
          /\ expected' = [expected EXCEPT ![d] = t]
    /\ UNCHANGED <<files, agents, work, inPane, fresh, brief, since, saw, ghosts>>

\* Re-entry persists `Running` and the new token before anything is destroyed;
\* a phase not in the run yet has nothing to persist.
StartPersist(d) ==
    /\ pc[d] = "persist" /\ Undisturbed(d)
    /\ request' = request + 1
    /\ IF copy[d].status = "Absent"
         THEN UNCHANGED <<disk, copy, starts>>
         ELSE /\ disk' = [status |-> "Running", pass |-> expected[d]]
              /\ copy' = [copy EXCEPT ![d] = disk']
              /\ starts' = starts + 1
    /\ Goto(d, "sweep")
    /\ UNCHANGED <<marker, world, fresh, expected, brief, since, saw, verdict, signalled, faults>>

\* remove_stale_marker.
StartSweep(d) ==
    /\ pc[d] = "sweep" /\ Undisturbed(d)
    /\ marker' = NoMarker
    /\ Goto(d, "launch")
    /\ UNCHANGED <<disk, world, verdict, ghosts>> /\ KeepLocals

\* launch_in_pane: the token enters the new agent's environment for good. The
\* previous pass's agent is not stopped.
StartLaunch(d) ==
    /\ pc[d] = "launch" /\ Undisturbed(d)
    /\ agents' = [agents EXCEPT ![expected[d]] = "idle"]
    /\ inPane' = expected[d]
    /\ Goto(d, "commit")
    /\ UNCHANGED <<files, work, used, verdict, ghosts>> /\ KeepLocals

\* A launch that fails in a pane the start has just created: discard_unlaunched_pane
\* saves the start's copy, as it stands.
StartDiscard(d) ==
    /\ pc[d] = "launch" /\ Undisturbed(d)
    /\ faults < MaxFaults /\ faults' = faults + 1
    /\ disk' = copy[d]
    /\ Return(d, "error")
    /\ UNCHANGED <<marker, world, request, starts, signalled>>

\* The last save records the launch; `--brief` goes on to send, off the same copy.
StartCommit(d) ==
    /\ pc[d] = "commit" /\ Undisturbed(d)
    /\ disk' = [status |-> "Running", pass |-> expected[d]]
    /\ starts' = IF copy[d].status = "Absent" THEN starts + 1 ELSE starts
    /\ \/ Return(d, "ok")
       \/ /\ Goto(d, "ready")
          /\ copy' = [copy EXCEPT ![d] = disk']
          /\ brief' = [brief EXCEPT ![d] = TRUE]
          /\ UNCHANGED <<fresh, expected, since, saw, verdict>>
    /\ UNCHANGED <<marker, world, request, signalled, faults>>

-----------------------------------------------------------------------------
(* phase send *)

\* require_pane_id: the copy's phase must have been given a pane.
SendBegin(d) ==
    /\ Begin(d, "ready")
    /\ request < MaxRequests
    /\ inPane # NoToken
    /\ SendToBusy \/ agents[inPane] = "idle"
    /\ UNCHANGED <<files, world, fresh, expected, brief, since, saw, ghosts>>

\* Each readiness poll may capture the agent's session: a load and a save of
\* the whole file, beside the copy the command holds (record_capture).
SendCapture(d) ==
    /\ pc[d] = "ready" /\ Undisturbed(d)
    /\ fresh' = [fresh EXCEPT ![d] = disk]
    /\ Goto(d, "readyCapture")
    /\ UNCHANGED <<files, world, copy, expected, brief, since, saw, verdict, ghosts>>

SendCaptured(d) ==
    /\ pc[d] = "readyCapture" /\ Undisturbed(d)
    /\ disk' = fresh[d]
    /\ Goto(d, "ready")
    /\ UNCHANGED <<marker, world, verdict, ghosts>> /\ KeepLocals

\* Mutant: the sweep is gated on the recorded status.
SweepIfDone(d) ==
    /\ pc[d] = "ready" /\ Undisturbed(d)
    /\ marker' = IF copy[d].status = "Done" THEN NoMarker ELSE marker
    /\ request' = request + 1
    /\ Goto(d, "reopenSave")
    /\ UNCHANGED <<disk, world, verdict, starts, signalled, faults>> /\ KeepLocals

\* Ready and painted: reopen_for_re_entry sweeps the marker first, because the
\* token does not change.
SendSweep(d) ==
    /\ pc[d] = "ready" /\ Undisturbed(d)
    /\ marker' = NoMarker
    /\ request' = request + 1
    /\ Goto(d, "reopenSave")
    /\ UNCHANGED <<disk, world, verdict, starts, signalled, faults>> /\ KeepLocals

\* Mutant: the status is left as it was.
SendKeepsStatus(d) ==
    /\ pc[d] = "reopenSave" /\ Undisturbed(d)
    /\ disk' = copy[d]
    /\ Goto(d, "prompt")
    /\ UNCHANGED <<marker, world, verdict, ghosts>> /\ KeepLocals

\* ... and then records `Running`, with everything else as the command loaded it.
SendSave(d) ==
    /\ pc[d] = "reopenSave" /\ Undisturbed(d)
    /\ disk' = [copy[d] EXCEPT !.status = "Running"]
    /\ copy' = [copy EXCEPT ![d] = disk']
    /\ Goto(d, "prompt")
    /\ UNCHANGED <<marker, world, fresh, expected, brief, since, saw, verdict, ghosts>>

\* The prompt is confirmed or nudged in: the agent now works on the newest request.
SendDelivered(d) ==
    /\ pc[d] = "prompt" /\ Undisturbed(d)
    /\ agents' = [agents EXCEPT ![inPane] = "working"]
    /\ work' = [work EXCEPT ![inPane] = request]
    /\ Return(d, "ok")
    /\ UNCHANGED <<files, inPane, used, ghosts>>

\* An undelivered brief is recorded as Failed, by a plain save of the copy.
BriefUndelivered(d) ==
    /\ pc[d] \in {"ready", "reopenSave", "prompt"} /\ brief[d] /\ Undisturbed(d)
    /\ faults < MaxFaults /\ faults' = faults + 1
    /\ disk' = [copy[d] EXCEPT !.status = "Failed"]
    /\ Return(d, "error")
    /\ UNCHANGED <<marker, world, request, starts, signalled>>

-----------------------------------------------------------------------------
(* phase wait *)

\* The command loads the run, and the wait snapshots the pass it is about.
WaitBegin(p) ==
    /\ Begin(p, "poll")
    /\ disk.status # "Absent"
    /\ expected' = [expected EXCEPT ![p] = disk.pass]
    /\ since' = [since EXCEPT ![p] = [request |-> request, starts |-> starts]]
    /\ UNCHANGED <<files, world, fresh, brief, saw, ghosts>>

\* There is no such phase to wait for.
WaitRefused(p) ==
    /\ pc[p] = "idle" /\ Undisturbed(p)
    /\ disk.status = "Absent"
    /\ Return(p, "error")
    /\ UNCHANGED <<files, world, ghosts>>

\* poll_phase_pane: herdr answers, and what is new is captured on the way past.
WaitPoll(p) ==
    /\ pc[p] = "poll" /\ Undisturbed(p)
    /\ \/ /\ fresh' = [fresh EXCEPT ![p] = disk]
          /\ Goto(p, "capture")
       \/ /\ Goto(p, "look")
          /\ UNCHANGED fresh
    /\ UNCHANGED <<files, world, copy, expected, brief, since, saw, verdict, ghosts>>

WaitCaptured(p) ==
    /\ pc[p] = "capture" /\ Undisturbed(p)
    /\ disk' = fresh[p]
    /\ Goto(p, "look")
    /\ UNCHANGED <<marker, world, verdict, ghosts>> /\ KeepLocals

\* Mutant: the deadline is tested before the marker is read.
LateLook(p) ==
    /\ pc[p] = "look" /\ Undisturbed(p)
    /\ \/ /\ MarkerCompletes(marker.token, expected[p])
          /\ Goto(p, "check")
          /\ saw' = [saw EXCEPT ![p] = marker.for]
       \/ /\ Goto(p, "rest")
          /\ UNCHANGED saw
    /\ UNCHANGED <<files, world, copy, fresh, expected, brief, since, verdict, ghosts>>

\* Only a marker carrying the awaited pass counts; any other is left alone.
WaitLook(p) ==
    /\ pc[p] = "look" /\ Undisturbed(p)
    /\ IF MarkerCompletes(marker.token, expected[p])
         THEN /\ Goto(p, "check")
              /\ saw' = [saw EXCEPT ![p] = marker.for]
         ELSE /\ Goto(p, "rest")
              /\ UNCHANGED saw
    /\ UNCHANGED <<files, world, copy, fresh, expected, brief, since, verdict, ghosts>>

\* Mutant: Done is committed without asking what became of the pass.
WaitUnchecked(p) ==
    /\ pc[p] = "check" /\ Undisturbed(p)
    /\ fresh' = [fresh EXCEPT ![p] = [disk EXCEPT !.status = "Done"]]
    /\ Goto(p, "store")
    /\ UNCHANGED <<files, world, copy, expected, brief, since, saw, verdict, ghosts>>

\* Before committing: load the run again and classify what became of the pass.
WaitCheck(p) ==
    /\ pc[p] = "check" /\ Undisturbed(p)
    /\ LET drift == PassDrift(disk.pass, expected[p]) IN
       \/ /\ drift = "same"
          /\ fresh' = [fresh EXCEPT ![p] = [disk EXCEPT !.status = "Done"]]
          /\ Goto(p, "store")
          /\ UNCHANGED <<copy, expected, brief, since, saw, verdict>>
       \/ /\ drift = "superseded"
          /\ Return(p, "superseded")
       \/ /\ drift = "tokenLost"
          /\ Goto(p, "rest")
          /\ UNCHANGED verdict /\ KeepLocals
    /\ UNCHANGED <<files, world, ghosts>>

\* The commit: Done is saved over whatever state.json holds by now.
WaitStore(p) ==
    /\ pc[p] = "store" /\ Undisturbed(p)
    /\ disk' = fresh[p]
    /\ Return(p, "done")
    /\ UNCHANGED <<marker, world, ghosts>>

\* No acceptable marker this time round: blocked, out of time, or poll again.
WaitBlocked(p) ==
    /\ pc[p] = "rest"
    /\ Return(p, "blocked")
    /\ UNCHANGED <<files, world, ghosts>>

\* timed_out_or_superseded.
WaitExpire(p) ==
    /\ pc[p] = "rest" /\ Undisturbed(p)
    /\ Return(p, IF PassDrift(disk.pass, expected[p]) = "superseded"
                   THEN "superseded" ELSE "timedOut")
    /\ UNCHANGED <<files, world, ghosts>>

WaitAgain(p) ==
    /\ pc[p] = "rest"
    /\ Goto(p, "poll")
    /\ UNCHANGED <<files, world, verdict, ghosts>> /\ KeepLocals

-----------------------------------------------------------------------------
(* phase done, and what else touches the run *)

\* The token check of phase_done, against the state.json its command loaded.
AgentSignal(t) ==
    /\ agents[t] = "working" /\ disk.status # "Absent"
    /\ MarkerCompletes(t, disk.pass)
    /\ agents' = [agents EXCEPT ![t] = "signalling"]
    /\ UNCHANGED <<files, work, inPane, used, locals, ghosts>>

\* Before its turn ends, an agent may signal once more, and is checked again.
AgentRepeat(t) ==
    /\ agents[t] = "answered"
    /\ agents' = [agents EXCEPT ![t] =
                     IF disk.status # "Absent" /\ MarkerCompletes(t, disk.pass)
                     THEN "repeating" ELSE "idle"]
    /\ UNCHANGED <<files, work, inPane, used, locals, ghosts>>

\* Its turn ends there, or goes on to a repeated signal.
Signalled(t) ==
    /\ agents[t] \in {"signalling", "repeating"}
    /\ \/ agents' = [agents EXCEPT ![t] = "idle"] /\ UNCHANGED faults
       \/ /\ faults < MaxFaults /\ faults' = faults + 1
          /\ agents' = [agents EXCEPT ![t] = "answered"]
    /\ signalled' = signalled \cup {t}
    /\ UNCHANGED <<disk, work, inPane, used, locals, request, starts>>

\* Mutant: the marker is stamped with the recorded pass, not the agent's own.
MarkRecorded(t) == Signalled(t) /\ marker' = [token |-> disk.pass, for |-> work[t]]

\* The marker is renamed into place whatever happened since the check.
AgentMark(t) == Signalled(t) /\ marker' = [token |-> t, for |-> work[t]]

\* A command returns an error from a step that changed nothing, or is killed.
Abort(p) ==
    /\ pc[p] # "idle"
    /\ faults < MaxFaults /\ faults' = faults + 1
    /\ Return(p, "error")
    /\ UNCHANGED <<files, world, request, starts, signalled>>

\* An older drovr re-saves the run and drops the field it does not know.
LegacySave ==
    /\ disk.pass # NoPass
    /\ Racy \/ \A q \in Procs : pc[q] \notin Window
    /\ faults < MaxFaults /\ faults' = faults + 1
    /\ disk' = [disk EXCEPT !.pass = NoPass]
    /\ UNCHANGED <<marker, world, locals, request, starts, signalled>>

-----------------------------------------------------------------------------
\* `drovr new` records the pipeline phases Pending; a phase may also be new to
\* the run, or have been started by a drovr that minted no tokens.
Init ==
    /\ \E legacy \in BOOLEAN :
          /\ disk \in IF legacy THEN {[status |-> "Running", pass |-> NoPass]}
                      ELSE [status : {"Absent", "Pending"}, pass : {NoPass}]
          /\ agents = [t \in Holders |->
                          IF legacy /\ t = EmptyToken THEN "working" ELSE "none"]
          /\ inPane = IF legacy THEN EmptyToken ELSE NoToken
    /\ marker = NoMarker
    /\ work = [t \in Holders |-> 0]
    /\ used = {}
    /\ pc = [p \in Procs |-> "idle"]
    /\ copy = [p \in Procs |-> Blank]
    /\ fresh = [p \in Procs |-> Blank]
    /\ expected = [p \in Procs |-> NoPass]
    /\ brief = [p \in Procs |-> FALSE]
    /\ since = [p \in Procs |-> [request |-> 0, starts |-> 0]]
    /\ saw = [p \in Procs |-> 0]
    /\ verdict = [p \in Procs |-> "none"]
    /\ request = 0 /\ starts = 0 /\ signalled = {} /\ faults = 0

StartStep(d) == \/ StartBegin(d) \/ StartPersist(d) \/ StartSweep(d)
                \/ StartLaunch(d) \/ StartDiscard(d) \/ StartCommit(d)
SendStep(d) == \/ SendBegin(d) \/ SendCapture(d) \/ SendCaptured(d) \/ SendSweep(d)
               \/ SendSave(d) \/ SendDelivered(d) \/ BriefUndelivered(d)
WaitStep(p) == \/ WaitBegin(p) \/ WaitRefused(p) \/ WaitPoll(p) \/ WaitCaptured(p) \/ WaitLook(p)
               \/ WaitCheck(p) \/ WaitStore(p) \/ WaitBlocked(p) \/ WaitExpire(p)
               \/ WaitAgain(p)
AgentStep(t) == AgentSignal(t) \/ AgentMark(t) \/ AgentRepeat(t)

Next == \/ \E d \in Drivers : StartStep(d) \/ SendStep(d)
        \/ \E p \in Procs : WaitStep(p) \/ Abort(p)
        \/ \E t \in Holders : AgentStep(t)
        \/ LegacySave

Spec == Init /\ [][Next]_vars

\* Drivers re-run a wait that ended without a verdict, and a wait that keeps
\* polling runs out of time; nothing else is promised to happen.
FairSpec == /\ Spec
            /\ \A w \in Waiters : WF_vars(WaitStep(w)) /\ SF_vars(WaitExpire(w))

-----------------------------------------------------------------------------
TypeOK ==
    /\ disk \in Record /\ marker \in Markers
    /\ agents \in [Holders -> {"none", "idle", "working", "signalling", "answered", "repeating"}]
    /\ work \in [Holders -> Nat]
    /\ inPane \in Holders \cup {NoToken}
    /\ used \subseteq Tokens
    /\ pc \in [Procs -> PCs]
    /\ copy \in [Procs -> Record] /\ fresh \in [Procs -> Record]
    /\ expected \in [Procs -> Passes]
    /\ brief \in [Procs -> BOOLEAN]
    /\ since \in [Procs -> [request : Nat, starts : Nat]]
    /\ saw \in [Procs -> Nat]
    /\ verdict \in [Procs -> Verdicts]
    /\ request \in Nat /\ starts \in Nat /\ faults \in Nat
    /\ signalled \subseteq Holders

\* The recorded Done is a cache of evidence, never a substitute for it: however
\* commands interleave, whatever stale copy was saved last and wherever one was
\* cut short, a phase recorded Done under a pass is one whose own agent ran
\* `phase done` under that pass (phase_wait, phase_start, reopen_for_re_entry).
Earned(r) == r.status = "Done" /\ r.pass # NoPass => r.pass \in signalled
DoneIsEarned == Earned(disk)

\* The rule both re-entries order their steps by: wherever a command stops, no
\* marker is left that a wait would accept for work that predates the newest
\* request (the ORDER MATTERS notes of phase_start and reopen_for_re_entry).
NoStaleCompletion ==
    disk.pass # NoPass /\ MarkerCompletes(marker.token, disk.pass)
        => marker.for = request

\* A wait on a tokened pass that reports Done was answered by work asked for no earlier than the
\* newest request that was open when the wait began: not by the previous
\* iteration's marker (reopen_for_re_entry) and not by a superseded agent.
WaitAnswersRequest ==
    \A p \in Procs : pc[p] = "store" /\ expected[p] # NoPass => saw[p] >= since[p].request

\* What reaping relies on: while a tokened phase is recorded Done, the agent in
\* its pane has no request left unanswered (phase_wait's evidence rule).
DoneMeansQuiet ==
    disk.status = "Done" /\ disk.pass # NoPass /\ inPane # NoToken
        => agents[inPane] \notin {"working", "signalling"}

\* Superseded is only ever reported of a token that a later `phase start`
\* replaced, never of a token that an old binary dropped (PassDrift).
SupersededMeansReEntry ==
    [][\A p \in Procs :
          verdict'[p] = "superseded" /\ pc[p] # "idle" /\ expected[p] # NoPass
              => starts > since[p].starts]_vars

\* Some wait's Done verdict or a new request: as long as waits are re-run, a
\* marker for the recorded pass is not left unread.
CompletionIsRecorded ==
    (marker.token # NoToken /\ MarkerCompletes(marker.token, disk.pass))
        ~> \/ disk.status = "Done"
           \/ ~ MarkerCompletes(marker.token, disk.pass)
=============================================================================
