------------------------------ MODULE PaneInput ------------------------------
(***************************************************************************)
(* What drovr types into the pane of one agent, and what makes it dare to. *)
(* phase send types a brief, asks herdr whether the agent moved, and, when *)
(* it did not, presses Enter once, if the screen shows that the brief is   *)
(* waiting in the composer. phase wait answers a permission prompt that it *)
(* reads as routine and escalates every other; watch only looks, and       *)
(* raises an alarm for what phase wait will not answer.                    *)
(*                                                                         *)
(* Nothing locks a pane: several commands, the browser page and a human at *)
(* the terminal type into it, and the agent redraws it at any time. A      *)
(* screen read is old by the time a key is pressed.                        *)
(*                                                                         *)
(* A brief is long enough for the composer to show its paste marker. Left  *)
(* out: the wording of prompts beyond what the classifier looks for, and   *)
(* the re-opening of the phase by a send, which PassProtocol models.       *)
(***************************************************************************)
EXTENDS Naturals

CONSTANTS Senders,    \* runs of `drovr phase send`, each with a text of its own
          Waiters,    \* drivers that run `drovr phase wait` again and again
          None,       \* no dialog
          Page,       \* the text typed on the browser page, or by a rehydrate
          MaxDialogs, \* bound: dialogs the agent raises
          MaxPosts,   \* bound: texts from the page
          MaxFaults   \* bound: herdr calls that fail, and agents restarted

ASSUME PaneAssumption == /\ Page \notin Senders
                         /\ MaxDialogs \in Nat /\ MaxPosts \in Nat /\ MaxFaults \in Nat

VARIABLES
    pane,      \* the terminal and the agent in it
    send,      \* each phase send
    wait,      \* each phase wait
    watch,     \* drovr watch
    raised,    \* how many dialogs there have been
    escalated, \* the dialogs a phase wait reported to its driver
    alarmed,   \* the dialogs drovr watch reported
    posts, faults

vars == <<pane, send, wait, watch, raised, escalated, alarmed, posts, faults>>

\* What the classifier looks for: DESTRUCTIVE_SIGNATURES, ROUTINE_SIGNATURES.
Words == {"danger", "routine"}
Dialogs == [id     : 1..MaxDialogs,
            words  : SUBSET Words, \* on it, or in the transcript agent.read returns with it
            known  : BOOLEAN,      \* herdr's manifest knows it for a prompt
            covers : BOOLEAN]      \* it hides what the composer holds

Texts == Senders \cup {Page}
Screens == [drawn    : BOOLEAN, \* the agent has put something on the screen
            turn     : {"idle", "working", "done"},
            composer : SUBSET Texts, \* typed and not submitted
            taken    : SUBSET Texts, \* submitted: the agent has it
            dialog   : Dialogs \cup {None}]
\* A phase send: what the composer showed before the prompt, whether herdr saw
\* the agent move since, whether it was active already, and whether someone else
\* typed, or the agent was restarted, meanwhile.
Sends == [at : {"ready", "look", "prompt", "confirm", "relook", "nudge", "await",
                "sent", "failed"},
          before : {"unread", "present", "absent", "unstarted", "unreadable"},
          moved : BOOLEAN, level : BOOLEAN, crossed : BOOLEAN]
New(at) == [at |-> at, before |-> "unread", moved |-> FALSE, level |-> FALSE,
            crossed |-> FALSE]
Shell == [drawn |-> FALSE, turn |-> "idle", composer |-> {}, taken |-> {}, dialog |-> None]

-----------------------------------------------------------------------------
(* herdr and the agent's interface *)

\* pane.get. For an agent that has not drawn, and for a dialog herdr does not
\* know, `idle` is a default it falls back to.
Statuses == IF ~ pane.drawn THEN {"unknown", "idle"}
            ELSE IF pane.dialog = None THEN {pane.turn}
            ELSE {IF pane.dialog.known THEN "blocked" ELSE "idle"}

\* What agent.prompt and agent.wait wait for: a level, not an edge.
Active(q) == q.drawn /\ q.dialog = None /\ q.turn \in {"working", "done"}

Submit(q, texts) ==
    [q EXCEPT !.taken = @ \cup texts, !.composer = {}, !.turn = "working"]

\* A prompt is dropped by a terminal that is not reading, swallowed by a dialog,
\* and otherwise submitted, or left in the composer.
Typed(q, text) ==
    IF ~ q.drawn \/ q.dialog # None THEN {q}
    ELSE {Submit(q, q.composer \cup {text}), [q EXCEPT !.composer = @ \cup {text}]}

\* Enter accepts a dialog, or submits what the composer holds.
Entered(q) ==
    IF ~ q.drawn THEN q
    ELSE IF q.dialog # None THEN [q EXCEPT !.dialog = None]
    ELSE IF q.composer # {} THEN Submit(q, q.composer)
    ELSE q

\* What a send learns when the pane becomes q: herdr reports to whoever waits
\* for the agent to move.
Sees(s, q, other) ==
    [s EXCEPT !.moved = @ \/ (s.at \in {"confirm", "await"} /\ Active(q)),
              !.crossed = @ \/ (other /\ s.at \in {"prompt", "confirm", "relook", "nudge", "await"})]

Show(q, other) == /\ pane' = q
                  /\ send' = [p \in Senders |-> Sees(send[p], q, other)]
\* The same, when it is p that types, and goes on as s.
ShowFor(p, s, q) ==
    /\ pane' = q
    /\ send' = [o \in Senders |-> IF o = p THEN s ELSE Sees(send[o], q, TRUE)]

Fault == faults < MaxFaults /\ faults' = faults + 1
NoFault == UNCHANGED faults

-----------------------------------------------------------------------------
(* phase send *)

At(p, at) == send[p].at = at
GoOn(p, at) == send' = [send EXCEPT ![p].at = at]
Fail(p) == send' = [send EXCEPT ![p] = New("failed")]
KeepsPane == UNCHANGED <<pane, wait, watch, raised, escalated, alarmed, posts>>
OnlyTypes == UNCHANGED <<wait, watch, raised, escalated, alarmed, posts>>

\* agent_has_started: a working agent has a composer too.
Started == {"idle", "working", "done"}
\* wait_agent_ready. An unreadable pane, and any other status, is polled again
\* until the deadline, which may come at any time.
AwaitReady(p) ==
    /\ At(p, "ready")
    /\ \/ Statuses \cap Started # {} /\ GoOn(p, "look")
       \/ Statuses \ Started # {} /\ Fail(p)
    /\ NoFault /\ KeepsPane
AwaitUnread(p) == /\ At(p, "ready") /\ Fault /\ Fail(p) /\ KeepsPane

\* read_composer_evidence: any paste marker counts, whoever typed it.
Evidence == IF ~ pane.drawn THEN "unstarted"
            ELSE IF pane.composer # {} /\ (pane.dialog = None \/ ~ pane.dialog.covers)
                 THEN "present" ELSE "absent"
Unread(e) == IF e = "unreadable" THEN Fault ELSE NoFault

\* wait_for_started_pane, whose look is also the one before the prompt.
AwaitDrawn(p) ==
    /\ At(p, "look")
    /\ \E e \in {Evidence, "unreadable"} :
          /\ Unread(e)
          /\ IF e = "unstarted" THEN Fail(p)
             ELSE send' = [send EXCEPT ![p].at = "prompt", ![p].before = e]
    /\ KeepsPane

\* agent_prompt_confirm types, and then waits. An error leaves the text typed
\* (Confirm's), or not.
Prompt(p) ==
    /\ At(p, "prompt")
    /\ \/ /\ \E q \in Typed(pane, p) :
                ShowFor(p, [send[p] EXCEPT !.at = "confirm", !.moved = Active(pane) \/ Active(q),
                                           !.level = Active(pane)], q)
          /\ NoFault
       \/ Fault /\ Fail(p) /\ UNCHANGED pane
    /\ OnlyTypes

\* Mutant: a wait that ran out is taken for a start.
MovedOrLate(p) == TRUE
\* PromptOutcome::Started.
Moved(p) == send[p].moved
Confirm(p) ==
    /\ At(p, "confirm")
    /\ \/ GoOn(p, IF Moved(p) THEN "sent" ELSE "relook") /\ NoFault
       \/ Fault /\ Fail(p)
    /\ KeepsPane

\* Mutant: what the composer held before the prompt does not matter.
HoldsPayload(before, after) == after = "present"
\* landed_in_composer: seen not to be there, and then seen to be there.
Landed(before, after) == before = "absent" /\ after = "present"
Relook(p) ==
    /\ At(p, "relook")
    /\ \E e \in {Evidence, "unreadable"} :
          /\ Unread(e)
          /\ IF Landed(send[p].before, e) THEN GoOn(p, "nudge") ELSE Fail(p)
    /\ KeepsPane

Nudge(p) ==
    /\ At(p, "nudge")
    /\ \/ /\ LET q == Entered(pane)
             IN ShowFor(p, [send[p] EXCEPT !.at = "await", !.moved = Active(q)], q)
          /\ NoFault
       \/ Fault /\ Fail(p) /\ UNCHANGED pane
    /\ OnlyTypes

\* agent_wait_started.
AwaitStarted(p) ==
    /\ At(p, "await")
    /\ \/ /\ IF Moved(p) THEN GoOn(p, "sent") ELSE Fail(p)
          /\ NoFault
       \/ Fault /\ Fail(p)
    /\ KeepsPane

-----------------------------------------------------------------------------
(* phase wait and drovr watch *)

\* agent.read: the dialog and the transcript above it, or only a transcript.
Readings == IF pane.dialog = None THEN SUBSET Words
            ELSE {pane.dialog.words}
Shown == IF pane.dialog = None THEN {} ELSE {pane.dialog.id}

\* classify_blocked_prompt: the whole screen is searched, danger first.
Classify(words) == IF "danger" \in words THEN "destructive"
                   ELSE IF "routine" \in words THEN "routine" ELSE "unknown"
\* BlockedClass::needs_human.
NeedsHuman(class) == class # "routine"

Waits(w, at, read) == wait' = [wait EXCEPT ![w] = [at |-> at, read |-> read]]
\* The diagnostic and exit 4. The driver runs the wait again.
Escalate(w, ids) == Waits(w, "poll", {}) /\ escalated' = escalated \cup ids

\* phase_wait returns Blocked.
PollBlocked(w) == /\ wait[w].at = "poll" /\ "blocked" \in Statuses
                  /\ Waits(w, "triage", {})
                  /\ UNCHANGED <<pane, send, watch, raised, escalated, alarmed, posts, faults>>

\* triage_blocked_phase: reads the screen, and answers, or escalates.
Triage(w) ==
    /\ wait[w].at = "triage"
    /\ \/ /\ \E words \in Readings :
                IF NeedsHuman(Classify(words)) THEN Escalate(w, Shown)
                ELSE Waits(w, "answer", Shown) /\ UNCHANGED escalated
          /\ NoFault
       \/ Fault /\ Escalate(w, Shown)
    /\ UNCHANGED <<pane, send, watch, raised, alarmed, posts>>

\* An error leaves the key pressed, or not.
Answer(w) ==
    /\ wait[w].at = "answer"
    /\ \/ Show(Entered(pane), TRUE) /\ Waits(w, "poll", {}) /\ NoFault /\ UNCHANGED escalated
       \/ /\ Fault /\ Escalate(w, wait[w].read)
          /\ Show(Entered(pane), TRUE) \/ UNCHANGED <<pane, send>>
    /\ UNCHANGED <<watch, raised, alarmed, posts>>

\* scan_run: the status of the pane, and then, where it is blocked, its text.
Sweep == /\ watch = "poll" /\ "blocked" \in Statuses /\ watch' = "read"
         /\ UNCHANGED <<pane, send, wait, raised, escalated, alarmed, posts, faults>>
\* Mutant: only what looks destructive is worth an alarm.
Destructive(class) == IF class = "destructive" THEN Shown ELSE {}
Findings(class) == IF NeedsHuman(class) THEN Shown ELSE {}
\* watch_tick. A screen that cannot be read is an unknown prompt. The driver
\* starts the watch again after an alarm.
Judge ==
    /\ watch = "read" /\ watch' = "poll"
    /\ \/ /\ \E words \in Readings :
                alarmed' = alarmed \cup Findings(Classify(words))
          /\ NoFault
       \/ Fault /\ alarmed' = alarmed \cup Shown
    /\ UNCHANGED <<pane, send, wait, raised, escalated, posts>>

-----------------------------------------------------------------------------
(* The agent, and the human at the terminal or on the page *)

NewDialog == /\ raised < MaxDialogs /\ raised' = raised + 1
Asks(q) == {[q EXCEPT !.dialog = d] :
               d \in {e \in Dialogs : e.id = raised + 1 /\ (e.covers => q.composer # {})}}
ByAgent == UNCHANGED <<wait, watch, escalated, alarmed, posts>>

\* The interface appears, perhaps with a first-run dialog.
Draw == /\ ~ pane.drawn
        /\ LET q == [pane EXCEPT !.drawn = TRUE]
           IN \/ Show(q, FALSE) /\ UNCHANGED raised
              \/ NewDialog /\ \E r \in Asks(q) : Show(r, FALSE)
        /\ ByAgent /\ NoFault

\* A turn asks for a permission, or ends. Once the pane has been looked at, herdr
\* shows the agent idle.
Work == /\ pane.drawn /\ pane.dialog = None
        /\ \/ /\ pane.turn = "working" /\ NewDialog
              /\ \E q \in Asks(pane) : Show(q, FALSE)
           \/ /\ pane.turn # "idle" /\ UNCHANGED raised
              /\ \E turn \in {"done", "idle"} \ {pane.turn} :
                    Show([pane EXCEPT !.turn = turn], FALSE)
        /\ ByAgent /\ NoFault

Restart == /\ Fault /\ Show([Shell EXCEPT !.taken = pane.taken], TRUE)
           /\ UNCHANGED raised /\ ByAgent

\* A human presses Enter, or clears the composer (POST keys is the same).
Keys == /\ \/ Show(Entered(pane), TRUE)
           \/ pane.composer # {} /\ pane.dialog = None
              /\ Show([pane EXCEPT !.composer = {}], TRUE)
        /\ UNCHANGED raised /\ ByAgent /\ NoFault

\* POST send, and a rehydrate's reminder: typed, with no look and no question.
Post == /\ posts < MaxPosts /\ posts' = posts + 1
        /\ \E q \in Typed(pane, Page) : Show(q, TRUE)
        /\ UNCHANGED <<wait, watch, raised, escalated, alarmed>> /\ NoFault

-----------------------------------------------------------------------------
Init == /\ pane = Shell
        /\ send = [p \in Senders |-> New("ready")]
        /\ wait = [w \in Waiters |-> [at |-> "poll", read |-> {}]]
        /\ watch = "poll" /\ raised = 0 /\ escalated = {} /\ alarmed = {}
        /\ posts = 0 /\ faults = 0

Send(p) == \/ AwaitReady(p) \/ AwaitUnread(p) \/ AwaitDrawn(p) \/ Prompt(p) \/ Confirm(p)
           \/ Relook(p) \/ Nudge(p) \/ AwaitStarted(p)
Wait(w) == PollBlocked(w) \/ Triage(w) \/ Answer(w)
Watch == Sweep \/ Judge
Next == \/ \E p \in Senders : Send(p)
        \/ \E w \in Waiters : Wait(w)
        \/ Watch
        \/ Draw \/ Work \/ Restart \/ Keys \/ Post

Spec == Init /\ [][Next]_vars
\* Drivers run their waits and their watch again; nobody makes the human act.
FairSpec == Spec /\ (\A w \in Waiters : WF_vars(Wait(w))) /\ WF_vars(Watch)

-----------------------------------------------------------------------------
(* What is promised about the pane *)

TypeOK ==
    /\ pane \in Screens /\ send \in [Senders -> Sends]
    /\ wait \in [Waiters -> [at : {"poll", "triage", "answer"}, read : SUBSET (1..MaxDialogs)]]
    /\ watch \in {"poll", "read"} /\ raised \in 0..MaxDialogs
    /\ escalated \subseteq 1..MaxDialogs /\ alarmed \subseteq 1..MaxDialogs
    /\ posts \in Nat /\ faults \in Nat

\* A send that reports success has given the agent its text, where the agent was
\* not active when it was typed, so that herdr's level says something
\* (PromptOutcome::Started), and nobody else typed in the meantime. A swallowed
\* brief, and one that will not submit, are failures.
OkMeansTaken ==
    \A p \in Senders :
       At(p, "sent") /\ ~ send[p].level /\ ~ send[p].crossed => p \in pane.taken

\* An Enter that drovr presses accepts only what drovr has looked at. The nudge
\* of a send nobody interferes with never lands on a dialog, whatever stale text
\* the composer shows. The dialog that a triage has read and then accepts is on
\* the allow-list and shows no sign of danger.
KeysFollowLooks ==
    [][/\ \A p \in Senders :
             At(p, "nudge") /\ send'[p].at = "await" /\ ~ send[p].crossed => pane.dialog = None
       /\ \A w \in Waiters :
             wait[w].at = "answer" /\ wait'[w].at = "poll" /\ pane' # pane
             /\ pane.dialog # None /\ Shown = wait[w].read =>
                \A words \in Readings : words = {"routine"}]_vars

\* A prompt herdr knows for one is answered, or reported to the driver that waits
\* for the phase, and, unless such a driver may answer it, to whoever watches.
NobodyParks ==
    \A n \in 1..MaxDialogs :
       LET Up == n \in Shown /\ pane.dialog.known
           Safe == pane.dialog.words = {"routine"}
       IN /\ Up ~> ~ Up \/ n \in escalated
          /\ Up /\ ~ Safe ~> ~ Up \/ n \in alarmed
=============================================================================
