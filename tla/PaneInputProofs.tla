--------------------------- MODULE PaneInputProofs ---------------------------
(***************************************************************************)
(* Proofs about PaneInput, for any number of senders, waits, dialogs,      *)
(* texts and faults: a send that reports success has delivered, and its    *)
(* keystroke accepts no dialog.                                            *)
(***************************************************************************)
EXTENDS PaneInput, TLAPS

-----------------------------------------------------------------------------
(* Types *)

LEMMA NewType == New("ready") \in Sends /\ New("failed") \in Sends
  BY DEF New, Sends

LEMMA ActiveType ==
  ASSUME NEW q
  PROVE  Active(q) \in BOOLEAN
  BY DEF Active

\* What the steps of a send write in its own record.
LEMMA StepTypes ==
  ASSUME NEW s \in Sends, NEW moved \in BOOLEAN, NEW level \in BOOLEAN,
         NEW before \in {"present", "absent", "unreadable"}
  PROVE  /\ [s EXCEPT !.at = "prompt", !.before = before] \in Sends
         /\ [s EXCEPT !.at = "confirm", !.moved = moved, !.level = level] \in Sends
         /\ [s EXCEPT !.at = "await", !.moved = moved] \in Sends
<1>1. [s EXCEPT !.at = "prompt", !.before = before] \in Sends
  BY DEF Sends
<1>2. [s EXCEPT !.at = "confirm", !.moved = moved, !.level = level] \in Sends
  BY DEF Sends
<1>3. [s EXCEPT !.at = "await", !.moved = moved] \in Sends
  BY DEF Sends
<1> QED
  BY <1>1, <1>2, <1>3

LEMMA SubmitType ==
  ASSUME NEW q \in Screens, NEW texts \in SUBSET Texts
  PROVE  Submit(q, texts) \in Screens
  BY DEF Submit, Screens

LEMMA TypedType ==
  ASSUME NEW q \in Screens, NEW text \in Texts, NEW r \in Typed(q, text)
  PROVE  r \in Screens /\ q.taken \subseteq r.taken
<1>1. q.composer \cup {text} \in SUBSET Texts
  BY DEF Screens
<1>2. Submit(q, q.composer \cup {text}) \in Screens
  BY <1>1, SubmitType
<1>3. [q EXCEPT !.composer = @ \cup {text}] \in Screens
  BY <1>1 DEF Screens
<1>4. r \in {q, Submit(q, q.composer \cup {text}), [q EXCEPT !.composer = @ \cup {text}]}
  BY DEF Typed
<1>5. r \in Screens
  BY <1>2, <1>3, <1>4
<1>6. q.taken \subseteq Submit(q, q.composer \cup {text}).taken
  BY DEF Submit, Screens
<1>7. [q EXCEPT !.composer = @ \cup {text}].taken = q.taken
  BY DEF Screens
<1> QED
  BY <1>4, <1>5, <1>6, <1>7

LEMMA EnteredType ==
  ASSUME NEW q \in Screens
  PROVE  Entered(q) \in Screens /\ q.taken \subseteq Entered(q).taken
<1>1. q.composer \in SUBSET Texts
  BY DEF Screens
<1>2. Submit(q, q.composer) \in Screens
  BY <1>1, SubmitType
<1>3. [q EXCEPT !.dialog = None] \in Screens
  BY DEF Screens
<1> QED
  BY <1>2, <1>3 DEF Entered, Submit, Screens

LEMMA AsksType ==
  ASSUME NEW q \in Screens, NEW r \in Asks(q)
  PROVE  /\ r \in Screens /\ r.taken = q.taken /\ r.composer = q.composer
         /\ r.drawn = q.drawn /\ r.turn = q.turn
  BY DEF Asks, Screens

LEMMA SeesType ==
  ASSUME NEW s \in Sends, NEW q \in Screens, NEW other \in BOOLEAN
  PROVE  /\ Sees(s, q, other) \in Sends
         /\ Sees(s, q, other).at = s.at /\ Sees(s, q, other).before = s.before
         /\ Sees(s, q, other).level = s.level
         /\ Sees(s, q, other).moved =
               (s.moved \/ (s.at \in {"confirm", "await"} /\ Active(q)))
         /\ Sees(s, q, other).crossed =
               (s.crossed
                \/ (other /\ s.at \in {"prompt", "confirm", "relook", "nudge", "await"}))
  BY DEF Sees, Sends, Active, Screens

LEMMA SeesByAgent ==
  ASSUME NEW s \in Sends, NEW r \in Screens
  PROVE  LET t == Sees(s, r, FALSE)
         IN /\ t.at = s.at /\ t.level = s.level /\ t.before = s.before
            /\ t.moved = (s.moved \/ (s.at \in {"confirm", "await"} /\ Active(r)))
            /\ t.crossed = s.crossed
<1>1. s.crossed \in BOOLEAN
  BY DEF Sends
<1>2. Sees(s, r, FALSE).crossed = (s.crossed \/ FALSE)
  BY DEF Sees, Sends
<1>3. (s.crossed \/ FALSE) = s.crossed
  BY <1>1
<1> QED
  BY <1>2, <1>3, SeesType

LEMMA ShowType ==
  ASSUME send \in [Senders -> Sends], NEW q \in Screens, NEW other \in BOOLEAN,
         Show(q, other)
  PROVE  pane' \in Screens /\ send' \in [Senders -> Sends]
  BY SeesType DEF Show

LEMMA ShowForType ==
  ASSUME send \in [Senders -> Sends], NEW q \in Screens, NEW p \in Senders,
         NEW s \in Sends, ShowFor(p, s, q)
  PROVE  pane' \in Screens /\ send' \in [Senders -> Sends]
  BY SeesType DEF ShowFor

LEMMA ShellType == Shell \in Screens
  BY DEF Shell, Screens

LEMMA GoOnType ==
  ASSUME send \in [Senders -> Sends], NEW p \in Senders,
         NEW at \in {"look", "relook", "nudge", "sent"},
         GoOn(p, at)
  PROVE  send' \in [Senders -> Sends]
<1>1. [send[p] EXCEPT !.at = at] \in Sends
  BY DEF Sends
<1> QED
  BY <1>1 DEF GoOn

LEMMA FailType ==
  ASSUME send \in [Senders -> Sends], NEW p \in Senders, Fail(p)
  PROVE  send' \in [Senders -> Sends]
  BY NewType DEF Fail

LEMMA FaultType ==
  ASSUME faults \in Nat, NoFault \/ Fault
  PROVE  faults' \in Nat
  BY DEF NoFault, Fault

LEMMA ShownType ==
  ASSUME TypeOK
  PROVE  Shown \subseteq 1..MaxDialogs
  BY DEF TypeOK, Shown, Screens, Dialogs

Waiting == [Waiters -> [at : {"poll", "triage", "answer"}, read : SUBSET (1..MaxDialogs)]]

\* What most actions leave alone keeps its type.
LEMMA KeptTypes ==
  ASSUME TypeOK, pane' \in Screens, send' \in [Senders -> Sends], faults' \in Nat,
         UNCHANGED <<wait, watch, escalated, alarmed>>,
         raised' \in 0..MaxDialogs, posts' \in Nat
  PROVE  TypeOK'
<1>1. wait' \in Waiting /\ watch' \in {"poll", "read"}
  BY DEF TypeOK, Waiting
<1>2. escalated' \subseteq 1..MaxDialogs /\ alarmed' \subseteq 1..MaxDialogs
  BY DEF TypeOK
<1> QED
  BY <1>1, <1>2 DEF TypeOK, Waiting

LEMMA WaitsType ==
  ASSUME TypeOK, NEW w \in Waiters, NEW at \in {"poll", "triage", "answer"},
         NEW read \in SUBSET (1..MaxDialogs), Waits(w, at, read)
  PROVE  wait' \in Waiting
  BY DEF TypeOK, Waits, Waiting

\* The state is made of values of its types (the state of PaneInput).
THEOREM TypeCorrect == Spec => []TypeOK
<1>1. Init => TypeOK
  <2> SUFFICES ASSUME Init PROVE TypeOK
    OBVIOUS
  <2>1. pane \in Screens /\ send \in [Senders -> Sends]
    BY NewType, ShellType DEF Init
  <2>2. wait \in Waiting
    BY DEF Init, Waiting
  <2> QED
    BY <2>1, <2>2, PaneAssumption DEF Init, TypeOK, Waiting
<1>2. TypeOK /\ [Next]_vars => TypeOK'
  <2> SUFFICES ASSUME TypeOK, [Next]_vars PROVE TypeOK'
    OBVIOUS
  <2>0. /\ pane \in Screens /\ send \in [Senders -> Sends] /\ wait \in Waiting
        /\ raised \in 0..MaxDialogs /\ posts \in Nat /\ faults \in Nat
    BY DEF TypeOK, Waiting
  <2>1. ASSUME NEW p \in Senders, Send(p) PROVE TypeOK'
    <3>1. pane' \in Screens /\ send' \in [Senders -> Sends]
      <4>1. CASE AwaitReady(p) \/ AwaitUnread(p)
        <5>1. UNCHANGED pane
          BY <4>1 DEF AwaitReady, AwaitUnread, KeepsPane
        <5>2. Fail(p) \/ GoOn(p, "look")
          BY <4>1 DEF AwaitReady, AwaitUnread
        <5> QED
          BY <2>0, <5>1, <5>2, GoOnType, FailType
      <4>2. CASE AwaitDrawn(p)
        <5>1. \A e \in {"present", "absent", "unreadable"} :
                 [send[p] EXCEPT !.at = "prompt", !.before = e] \in Sends
          BY <2>0 DEF Sends
        <5>2. Evidence \in {"present", "absent", "unstarted"}
          BY DEF Evidence
        <5>3. UNCHANGED pane
          BY <4>2 DEF AwaitDrawn, KeepsPane
        <5>4. PICK e \in {Evidence, "unreadable"} :
                 IF e = "unstarted" THEN Fail(p)
                 ELSE send' = [send EXCEPT ![p].at = "prompt", ![p].before = e]
          BY <4>2 DEF AwaitDrawn
        <5>5. CASE Fail(p)
          BY <5>3, <5>5, <2>0, FailType
        <5>6. CASE e # "unstarted" /\ send' = [send EXCEPT ![p].at = "prompt", ![p].before = e]
          <6>1. [send EXCEPT ![p].at = "prompt", ![p].before = e]
                   = [send EXCEPT ![p] = [send[p] EXCEPT !.at = "prompt", !.before = e]]
            BY <2>0 DEF Sends
          <6>2. [send[p] EXCEPT !.at = "prompt", !.before = e] \in Sends
            BY <5>1, <5>2, <5>6
          <6>3. send' = [send EXCEPT ![p] = [send[p] EXCEPT !.at = "prompt", !.before = e]]
            BY <5>6, <6>1
          <6>4. send' \in [Senders -> Sends]
            BY ONLY <2>0, <6>2, <6>3
          <6> QED
            BY <2>0, <5>3, <6>4
        <5> QED
          BY <5>4, <5>5, <5>6
      <4>3. CASE Prompt(p)
        <5>1. CASE \E q \in Typed(pane, p) :
                     ShowFor(p, [send[p] EXCEPT !.at = "confirm",
                                                !.moved = Active(pane) \/ Active(q),
                                                !.level = Active(pane)], q)
          <6>1. PICK q \in Typed(pane, p) :
                   ShowFor(p, [send[p] EXCEPT !.at = "confirm",
                                              !.moved = Active(pane) \/ Active(q),
                                              !.level = Active(pane)], q)
            BY <5>1
          <6>2. q \in Screens
            BY <2>0, <6>1, TypedType DEF Texts
          <6>3. [send[p] EXCEPT !.at = "confirm", !.moved = Active(pane) \/ Active(q),
                                !.level = Active(pane)] \in Sends
            <7>1. (Active(pane) \/ Active(q)) \in BOOLEAN /\ Active(pane) \in BOOLEAN
              BY ActiveType
            <7>2. send[p] \in Sends
              BY <2>0
            <7> QED
              BY ONLY <7>1, <7>2, StepTypes
          <6> QED
            BY <2>0, <6>1, <6>2, <6>3, ShowForType
        <5>2. CASE Fail(p) /\ UNCHANGED pane
          BY <5>2, <2>0, FailType
        <5> QED
          BY <4>3, <5>1, <5>2 DEF Prompt
      <4>4. CASE Confirm(p) \/ Relook(p) \/ AwaitStarted(p)
        <5>1. UNCHANGED pane
          BY <4>4 DEF Confirm, Relook, AwaitStarted, KeepsPane
        <5>2. Fail(p) \/ \E at \in {"look", "relook", "nudge", "sent"} : GoOn(p, at)
          BY <4>4 DEF Confirm, Relook, AwaitStarted
        <5> QED
          BY <2>0, <5>1, <5>2, GoOnType, FailType
      <4>5. CASE Nudge(p)
        <5>1. Entered(pane) \in Screens
          BY <2>0, EnteredType
        <5>2. [send[p] EXCEPT !.at = "await", !.moved = Active(Entered(pane))] \in Sends
          BY <2>0, StepTypes, ActiveType
        <5>3. CASE ShowFor(p, [send[p] EXCEPT !.at = "await", !.moved = Active(Entered(pane))],
                           Entered(pane))
          BY <2>0, <5>1, <5>2, <5>3, ShowForType
        <5>4. CASE Fail(p) /\ UNCHANGED pane
          BY <5>4, <2>0, FailType
        <5> QED
          BY <4>5, <5>3, <5>4 DEF Nudge
      <4> QED
        BY <2>1, <4>1, <4>2, <4>3, <4>4, <4>5 DEF Send
    <3>2. UNCHANGED <<wait, watch, raised, escalated, alarmed, posts>>
      BY <2>1 DEF Send, AwaitReady, AwaitUnread, AwaitDrawn, Prompt, Confirm, Relook, Nudge,
                  AwaitStarted, KeepsPane, OnlyTypes
    <3>3. NoFault \/ Fault
      BY <2>1 DEF Send, AwaitReady, AwaitUnread, AwaitDrawn, Prompt, Confirm, Relook, Nudge,
                  AwaitStarted, Unread
    <3> QED
      BY <2>0, <3>1, <3>2, <3>3, FaultType, KeptTypes
  <2>2. ASSUME NEW w \in Waiters, Wait(w) PROVE TypeOK'
    <3>1. Shown \subseteq 1..MaxDialogs /\ wait[w].read \subseteq 1..MaxDialogs
      BY <2>0, ShownType DEF Waiting
    <3>2. wait' \in Waiting
      BY <2>2, <3>1, WaitsType DEF Wait, PollBlocked, Triage, Answer, Escalate
    <3>3. pane' \in Screens /\ send' \in [Senders -> Sends]
      BY <2>0, <2>2, EnteredType, ShowType DEF Wait, PollBlocked, Triage, Answer
    <3>4. escalated' \subseteq 1..MaxDialogs
      BY <2>2, <3>1 DEF Wait, PollBlocked, Triage, Answer, Escalate, TypeOK
    <3>5. UNCHANGED <<watch, raised, alarmed, posts>>
      BY <2>2 DEF Wait, PollBlocked, Triage, Answer
    <3>6. NoFault \/ Fault
      BY <2>2 DEF Wait, PollBlocked, Triage, Answer, NoFault
    <3>7. faults' \in Nat
      BY <2>0, <3>6, FaultType
    <3> QED
      BY <3>2, <3>3, <3>4, <3>5, <3>7 DEF TypeOK, Waiting
  <2>3. ASSUME Watch PROVE TypeOK'
    <3>1. Shown \subseteq 1..MaxDialogs
      BY ShownType
    <3>2. alarmed' \subseteq 1..MaxDialogs
      BY <2>3, <3>1 DEF Watch, Sweep, Judge, Findings, TypeOK
    <3>3. UNCHANGED <<pane, send, wait, raised, escalated, posts>> /\ watch' \in {"poll", "read"}
      BY <2>3 DEF Watch, Sweep, Judge
    <3>4. NoFault \/ Fault
      BY <2>3 DEF Watch, Sweep, Judge, NoFault
    <3>5. faults' \in Nat
      BY <2>0, <3>4, FaultType
    <3>6. escalated' \subseteq 1..MaxDialogs
      BY <3>3 DEF TypeOK
    <3> QED
      BY <2>0, <3>2, <3>3, <3>5, <3>6 DEF TypeOK, Waiting
  <2>4. ASSUME Draw \/ Work PROVE TypeOK'
    <3>1. /\ \E q \in Screens : Show(q, FALSE)
          /\ raised' \in 0..MaxDialogs
      <4>0. NewDialog \/ UNCHANGED raised => raised' \in 0..MaxDialogs
        BY <2>0, PaneAssumption DEF NewDialog
      <4>1. CASE Draw
        <5>1. [pane EXCEPT !.drawn = TRUE] \in Screens
          BY <2>0 DEF Screens
        <5> QED
          BY <4>0, <4>1, <5>1, AsksType DEF Draw
      <4>2. CASE Work
        <5>1. \A turn \in {"done", "idle"} : [pane EXCEPT !.turn = turn] \in Screens
          BY <2>0 DEF Screens
        <5> QED
          BY <4>0, <4>2, <5>1, <2>0, AsksType DEF Work
      <4> QED
        BY <2>4, <4>1, <4>2
    <3>2. pane' \in Screens /\ send' \in [Senders -> Sends]
      BY <2>0, <3>1, ShowType
    <3>3. UNCHANGED <<wait, watch, escalated, alarmed, posts, faults>>
      BY <2>4 DEF Draw, Work, ByAgent, NoFault
    <3> QED
      BY <2>0, <3>1, <3>2, <3>3, KeptTypes
  <2>5. ASSUME Restart \/ Keys \/ Post PROVE TypeOK'
    <3>1. \E q \in Screens : Show(q, TRUE)
      <4>1. CASE Restart
        <5>1. [Shell EXCEPT !.taken = pane.taken] \in Screens
          BY <2>0, ShellType DEF Screens
        <5> QED
          BY <4>1, <5>1 DEF Restart
      <4>2. CASE Keys
        <5>1. [pane EXCEPT !.composer = {}] \in Screens
          BY <2>0 DEF Screens
        <5> QED
          BY <2>0, <4>2, <5>1, EnteredType DEF Keys
      <4>3. CASE Post
        BY <2>0, <4>3, TypedType DEF Post, Texts
      <4> QED
        BY <2>5, <4>1, <4>2, <4>3
    <3>2. pane' \in Screens /\ send' \in [Senders -> Sends]
      BY <2>0, <3>1, ShowType
    <3>3. UNCHANGED <<wait, watch, raised, escalated, alarmed>> /\ posts' \in Nat
      <4>1. CASE Restart
        BY <2>0, <4>1 DEF Restart, ByAgent
      <4>2. CASE Keys
        BY <2>0, <4>2 DEF Keys, ByAgent
      <4>3. CASE Post
        BY <2>0, <4>3 DEF Post
      <4> QED
        BY <2>5, <4>1, <4>2, <4>3
    <3>4. NoFault \/ Fault
      BY <2>5 DEF Restart, Keys, Post
    <3> QED
      BY <2>0, <3>2, <3>3, <3>4, FaultType, KeptTypes
  <2>6. CASE UNCHANGED vars
    <3>1. UNCHANGED <<pane, send, wait, watch, raised, escalated, alarmed, posts, faults>>
      BY <2>6 DEF vars
    <3> QED
      BY <2>0, <3>1, KeptTypes
  <2> QED
    BY <2>1, <2>2, <2>3, <2>4, <2>5, <2>6 DEF Next
<1> QED
  BY <1>1, <1>2, PTL DEF Spec

-----------------------------------------------------------------------------
(* What a send that nobody interferes with may rely on. Its evidence pair, *)
(* not there before the prompt and there after it, leaves one explanation: *)
(* the composer holds its text, under no dialog. And as long as herdr has  *)
(* not seen the agent move, only an Enter can change that.                 *)

Covered(q) == q.dialog # None /\ (q.composer = {} \/ q.dialog.covers)
Unsubmitted(p, q) == q.dialog = None /\ q.turn = "idle" /\ p \in q.composer

\* While the screen before the prompt was seen not to hold a text.
SeenAbsent(p, s, q) ==
    s.before = "absent" =>
       /\ s.at \in {"prompt", "confirm", "relook", "nudge"} => q.drawn
       /\ s.at = "prompt" => q.composer = {} \/ Covered(q)
       /\ s.at \in {"confirm", "relook"} /\ ~ s.moved => Covered(q) \/ Unsubmitted(p, q)
       /\ s.at = "nudge" => Unsubmitted(p, q)

\* What herdr's answer says: the agent moved because it was given the text.
MoveTells(p, s, q) ==
    /\ s.at = "confirm" /\ ~ s.moved => ~ Active(q)
    /\ s.at = "relook" => ~ s.moved
    /\ s.at = "nudge" => s.before = "absent"
    /\ s.at \in {"await", "sent"} => s.moved
    /\ s.at = "await" => p \in q.taken
    /\ s.at \in {"confirm", "sent"} /\ s.moved /\ ~ s.level => p \in q.taken

Undisturbed(p, s, q) == ~ s.crossed => SeenAbsent(p, s, q) /\ MoveTells(p, s, q)

\* Another actor's keys end what the send may rely on, and take nothing back.
LEMMA OthersKeep ==
  ASSUME NEW p, NEW s \in Sends, NEW q \in Screens, NEW r \in Screens,
         Undisturbed(p, s, q), q.taken \subseteq r.taken
  PROVE  Undisturbed(p, Sees(s, r, TRUE), r)
<1> DEFINE t == Sees(s, r, TRUE)
<1>1. /\ t.at = s.at /\ t.level = s.level
      /\ t.moved = (s.moved \/ (s.at \in {"confirm", "await"} /\ Active(r)))
      /\ t.crossed = (s.crossed \/ s.at \in {"prompt", "confirm", "relook", "nudge", "await"})
  BY SeesType
<1> HIDE DEF t
<1> SUFFICES ASSUME ~ t.crossed PROVE SeenAbsent(p, t, r) /\ MoveTells(p, t, r)
  BY DEF Undisturbed, t
<1>2. ~ s.crossed /\ s.at \notin {"prompt", "confirm", "relook", "nudge", "await"}
  BY <1>1
<1>3. MoveTells(p, s, q)
  BY <1>2 DEF Undisturbed
<1>4. t.moved = s.moved
  BY <1>1, <1>2 DEF Sends
<1> QED
  BY <1>1, <1>2, <1>3, <1>4 DEF SeenAbsent, MoveTells

\* The interface appears: nobody has looked at the screen before, or the look
\* failed, and an agent that has not been drawn is not active.
LEMMA DrawKeeps ==
  ASSUME NEW p, NEW s \in Sends, NEW q \in Screens, NEW r \in Screens,
         Undisturbed(p, s, q), ~ q.drawn, r.turn = "idle", r.taken = q.taken
  PROVE  Undisturbed(p, Sees(s, r, FALSE), r)
<1> DEFINE t == Sees(s, r, FALSE)
<1>1. /\ t.at = s.at /\ t.level = s.level /\ t.before = s.before
      /\ t.moved = (s.moved \/ (s.at \in {"confirm", "await"} /\ Active(r)))
      /\ t.crossed = s.crossed
  BY SeesByAgent
<1> HIDE DEF t
<1>2. ~ Active(r)
  BY DEF Active
<1>3. t.moved = s.moved
  BY <1>1, <1>2 DEF Sends
<1> SUFFICES ASSUME ~ t.crossed PROVE SeenAbsent(p, t, r) /\ MoveTells(p, t, r)
  BY DEF Undisturbed, t
<1>4. SeenAbsent(p, s, q) /\ MoveTells(p, s, q)
  BY <1>1 DEF Undisturbed
<1>5. SeenAbsent(p, t, r)
  BY <1>1, <1>4 DEF SeenAbsent
<1>6. MoveTells(p, t, r)
  BY <1>1, <1>2, <1>3, <1>4 DEF MoveTells
<1> QED
  BY <1>5, <1>6

\* A turn goes on: the agent was active already, so the send knows, or its text
\* is out of the composer.
LEMMA WorkKeeps ==
  ASSUME NEW p, NEW s \in Sends, NEW q \in Screens, NEW r \in Screens,
         Undisturbed(p, s, q), q.drawn, q.dialog = None, q.turn # "idle",
         r.drawn, r.taken = q.taken, r.composer = q.composer
  PROVE  Undisturbed(p, Sees(s, r, FALSE), r)
<1> DEFINE t == Sees(s, r, FALSE)
<1>1. /\ t.at = s.at /\ t.level = s.level /\ t.before = s.before
      /\ t.moved = (s.moved \/ (s.at \in {"confirm", "await"} /\ Active(r)))
      /\ t.crossed = s.crossed
  BY SeesByAgent
<1> HIDE DEF t
<1> SUFFICES ASSUME ~ t.crossed PROVE SeenAbsent(p, t, r) /\ MoveTells(p, t, r)
  BY DEF Undisturbed, t
<1>2. Active(q)
  BY DEF Active, Screens
<1>3. SeenAbsent(p, s, q) /\ MoveTells(p, s, q)
  BY <1>1 DEF Undisturbed
<1>4. ~ Covered(q) /\ ~ Unsubmitted(p, q)
  BY DEF Covered, Unsubmitted
<1>5. s.at \in {"confirm", "await"} => s.moved
  BY <1>2, <1>3 DEF MoveTells
<1>6. t.moved = s.moved
  BY <1>1, <1>5 DEF Sends
<1>7. SeenAbsent(p, t, r)
  BY <1>1, <1>3, <1>4, <1>6 DEF SeenAbsent
<1>8. MoveTells(p, t, r)
  BY <1>1, <1>3, <1>5, <1>6 DEF MoveTells
<1> QED
  BY <1>7, <1>8

\* The steps of the send itself.
LEMMA FailKeeps ==
  ASSUME NEW p, NEW q
  PROVE  Undisturbed(p, New("failed"), q)
  BY DEF Undisturbed, SeenAbsent, MoveTells, New

LEMMA LookKeeps ==
  ASSUME NEW p, NEW s \in Sends, pane \in Screens,
         NEW e \in {Evidence, "unreadable"}, e # "unstarted"
  PROVE  Undisturbed(p, [s EXCEPT !.at = "prompt", !.before = e], pane)
<1> DEFINE t == [s EXCEPT !.at = "prompt", !.before = e]
<1>1. t.at = "prompt" /\ t.before = e
  BY DEF Sends
<1> HIDE DEF t
<1>2. e = "absent" => pane.drawn /\ (pane.composer = {} \/ Covered(pane))
  BY DEF Evidence, Covered
<1>3. SeenAbsent(p, t, pane)
  BY <1>1, <1>2 DEF SeenAbsent
<1>4. MoveTells(p, t, pane)
  BY <1>1 DEF MoveTells
<1> QED
  BY <1>3, <1>4 DEF Undisturbed, t

LEMMA PromptKeeps ==
  ASSUME NEW p \in Senders, NEW s \in Sends, NEW q \in Screens, NEW r \in Typed(q, p),
         Undisturbed(p, s, q), s.at = "prompt"
  PROVE  Undisturbed(p, [s EXCEPT !.at = "confirm", !.moved = Active(q) \/ Active(r),
                                  !.level = Active(q)], r)
<1> DEFINE t == [s EXCEPT !.at = "confirm", !.moved = Active(q) \/ Active(r),
                          !.level = Active(q)]
<1>1. r \in Screens
  BY TypedType DEF Texts
<1>2. /\ t.at = "confirm" /\ t.before = s.before /\ t.crossed = s.crossed
      /\ t.moved = (Active(q) \/ Active(r)) /\ t.level = Active(q)
  BY DEF Sends
<1> HIDE DEF t
<1>3. Active(q) \in BOOLEAN /\ Active(r) \in BOOLEAN
  BY ActiveType
<1>4. \/ r = q
      \/ q.drawn /\ q.dialog = None /\ r = Submit(q, q.composer \cup {p})
      \/ q.drawn /\ q.dialog = None /\ r = [q EXCEPT !.composer = @ \cup {p}]
  BY DEF Typed
<1>5. CASE r = q
  <2>2. s.before = "absent" /\ ~ s.crossed /\ ~ Active(q) => Covered(q) \/ Unsubmitted(p, q)
    <3> SUFFICES ASSUME s.before = "absent", ~ s.crossed, ~ Active(q)
                 PROVE  Covered(q) \/ Unsubmitted(p, q)
      OBVIOUS
    <3>1. q.drawn /\ (q.composer = {} \/ Covered(q))
      BY DEF Undisturbed, SeenAbsent
    <3>2. CASE q.dialog # None
      BY <3>1, <3>2 DEF Covered
    <3>3. CASE q.dialog = None
      <4>1. q.composer = {}
        BY <3>1, <3>3 DEF Covered
      <4>2. /\ Submit(q, q.composer \cup {p}).composer = {}
            /\ Submit(q, q.composer \cup {p}).turn = "working"
            /\ [q EXCEPT !.composer = @ \cup {p}].composer = {p}
        BY <4>1 DEF Submit, Screens
      <4>3. r \in {Submit(q, q.composer \cup {p}), [q EXCEPT !.composer = @ \cup {p}]}
        BY <3>1, <3>3 DEF Typed
      <4>4. q.turn = "idle"
        BY <3>1, <3>3 DEF Active, Screens
      <4> QED
        BY <1>5, <4>1, <4>2, <4>3, <4>4
    <3> QED
      BY <3>2, <3>3
  <2>3. Undisturbed(p, t, r)
    BY <1>2, <1>5, <1>3, <2>2 DEF Undisturbed, SeenAbsent, MoveTells, Active
  <2> QED
    BY <2>3 DEF t
<1>6. CASE q.drawn /\ q.dialog = None /\ r = Submit(q, q.composer \cup {p})
  <2>1. r.drawn /\ r.dialog = None /\ r.turn = "working" /\ p \in r.taken
    BY <1>6 DEF Submit, Screens
  <2>2. Active(r)
    BY <2>1 DEF Active
  <2>3. Undisturbed(p, t, r)
    BY <1>2, <2>1, <2>2 DEF Undisturbed, SeenAbsent, MoveTells
  <2> QED
    BY <2>3 DEF t
<1>7. CASE q.drawn /\ q.dialog = None /\ r = [q EXCEPT !.composer = @ \cup {p}]
  <2>1. /\ r.drawn = q.drawn /\ r.dialog = q.dialog /\ r.turn = q.turn /\ r.taken = q.taken
        /\ r.composer = q.composer \cup {p}
    BY <1>7 DEF Screens
  <2>2. Active(r) <=> Active(q)
    BY <2>1 DEF Active
  <2>3. ~ Active(q) => Unsubmitted(p, r)
    BY <1>7, <2>1 DEF Active, Unsubmitted, Screens
  <2>4. SeenAbsent(p, t, r)
    BY <1>2, <1>7, <2>1, <2>2, <2>3 DEF SeenAbsent
  <2>5. MoveTells(p, t, r)
    BY <1>2, <2>2, <1>3 DEF MoveTells
  <2> QED
    BY <2>4, <2>5 DEF Undisturbed, t
<1> QED
  BY <1>4, <1>5, <1>6, <1>7

LEMMA ConfirmKeeps ==
  ASSUME NEW p, NEW s \in Sends, NEW q \in Screens, Undisturbed(p, s, q), s.at = "confirm"
  PROVE  Undisturbed(p, [s EXCEPT !.at = IF s.moved THEN "sent" ELSE "relook"], q)
<1> DEFINE t == [s EXCEPT !.at = IF s.moved THEN "sent" ELSE "relook"]
<1>1. /\ t.at = (IF s.moved THEN "sent" ELSE "relook")
      /\ t.before = s.before /\ t.crossed = s.crossed /\ t.moved = s.moved /\ t.level = s.level
  BY DEF Sends
<1> HIDE DEF t
<1>2. Undisturbed(p, t, q)
  BY <1>1 DEF Undisturbed, SeenAbsent, MoveTells
<1> QED
  BY <1>2 DEF t

\* The one place where the two looks are compared.
LEMMA RelookKeeps ==
  ASSUME NEW p, NEW s \in Sends, pane \in Screens, Undisturbed(p, s, pane), s.at = "relook",
         NEW e \in {Evidence, "unreadable"}, Landed(s.before, e)
  PROVE  Undisturbed(p, [s EXCEPT !.at = "nudge"], pane)
<1> DEFINE t == [s EXCEPT !.at = "nudge"]
<1>1. /\ t.at = "nudge"
      /\ t.before = s.before /\ t.crossed = s.crossed /\ t.moved = s.moved /\ t.level = s.level
  BY DEF Sends
<1> HIDE DEF t
<1>2. s.before = "absent" /\ e = "present"
  BY DEF Landed
<1>3. ~ Covered(pane)
  BY <1>2 DEF Evidence, Covered
<1>4. Undisturbed(p, t, pane)
  BY <1>1, <1>2, <1>3 DEF Undisturbed, SeenAbsent, MoveTells
<1> QED
  BY <1>4 DEF t

LEMMA NudgeKeeps ==
  ASSUME NEW p, NEW s \in Sends, NEW q \in Screens, Undisturbed(p, s, q), s.at = "nudge"
  PROVE  Undisturbed(p, [s EXCEPT !.at = "await", !.moved = Active(Entered(q))], Entered(q))
<1> DEFINE t == [s EXCEPT !.at = "await", !.moved = Active(Entered(q))]
<1>1. t.at = "await" /\ t.crossed = s.crossed /\ t.moved = Active(Entered(q))
  BY DEF Sends
<1> HIDE DEF t
<1> SUFFICES ASSUME ~ t.crossed PROVE SeenAbsent(p, t, Entered(q)) /\ MoveTells(p, t, Entered(q))
  BY DEF Undisturbed, t
<1>2. q.drawn /\ Unsubmitted(p, q)
  BY <1>1 DEF Undisturbed, SeenAbsent, MoveTells
<1>3. Entered(q) = Submit(q, q.composer)
  BY <1>2 DEF Entered, Unsubmitted
<1>4. Active(Entered(q)) /\ p \in Entered(q).taken
  BY <1>2, <1>3 DEF Submit, Active, Unsubmitted, Screens
<1> QED
  BY <1>1, <1>4 DEF SeenAbsent, MoveTells

LEMMA StartedKeeps ==
  ASSUME NEW p, NEW s \in Sends, NEW q \in Screens, Undisturbed(p, s, q), s.at = "await",
         s.moved
  PROVE  Undisturbed(p, [s EXCEPT !.at = "sent"], q)
<1> DEFINE t == [s EXCEPT !.at = "sent"]
<1>1. t.at = "sent" /\ t.crossed = s.crossed /\ t.moved = s.moved
  BY DEF Sends
<1> HIDE DEF t
<1>2. Undisturbed(p, t, q)
  BY <1>1 DEF Undisturbed, SeenAbsent, MoveTells
<1> QED
  BY <1>2 DEF t

-----------------------------------------------------------------------------
(* The sends, in every step *)

UndrawnIsIdle == ~ pane.drawn => pane.turn = "idle"
SendInv == UndrawnIsIdle /\ \A p \in Senders : Undisturbed(p, send[p], pane)

\* A key does not make an interface appear.
LEMMA KeysDrawNothing ==
  ASSUME NEW q \in Screens, ~ q.drawn => q.turn = "idle"
  PROVE  /\ ~ Entered(q).drawn => Entered(q).turn = "idle"
         /\ \A text \in Texts : \A r \in Typed(q, text) : ~ r.drawn => r.turn = "idle"
<1>1. ~ q.drawn => Entered(q) = q /\ \A text : Typed(q, text) = {q}
  BY DEF Entered, Typed
<1>2. q.drawn => Entered(q).drawn
  BY DEF Entered, Submit, Screens
<1>3. q.drawn => \A text : \A r \in Typed(q, text) : r.drawn
  BY DEF Typed, Submit, Screens
<1> QED
  BY <1>1, <1>2, <1>3

LEMMA ShowOtherKeeps ==
  ASSUME TypeOK, SendInv, NEW q \in Screens, pane.taken \subseteq q.taken,
         ~ q.drawn => q.turn = "idle", Show(q, TRUE)
  PROVE  SendInv'
<1>1. \A p \in Senders : send[p] \in Sends /\ Undisturbed(p, send[p], pane)
  BY DEF TypeOK, SendInv
<1>2. \A p \in Senders : Undisturbed(p, Sees(send[p], q, TRUE), q)
  BY <1>1, OthersKeep DEF TypeOK
<1>3. pane' = q /\ \A p \in Senders : send'[p] = Sees(send[p], q, TRUE)
  BY DEF Show
<1> QED
  BY <1>2, <1>3 DEF SendInv, UndrawnIsIdle

LEMMA ShowForKeeps ==
  ASSUME TypeOK, SendInv, NEW q \in Screens, pane.taken \subseteq q.taken,
         ~ q.drawn => q.turn = "idle",
         NEW p \in Senders, NEW s, ShowFor(p, s, q), Undisturbed(p, s, q)
  PROVE  SendInv'
<1>1. \A o \in Senders : send[o] \in Sends /\ Undisturbed(o, send[o], pane)
  BY DEF TypeOK, SendInv
<1>2. \A o \in Senders : Undisturbed(o, Sees(send[o], q, TRUE), q)
  BY <1>1, OthersKeep DEF TypeOK
<1>3. /\ pane' = q /\ send'[p] = s
      /\ \A o \in Senders \ {p} : send'[o] = Sees(send[o], q, TRUE)
  BY DEF ShowFor
<1>4. \A o \in Senders : Undisturbed(o, send'[o], q)
  BY <1>2, <1>3
<1> QED
  BY <1>3, <1>4 DEF SendInv, UndrawnIsIdle

LEMMA OwnKeeps ==
  ASSUME TypeOK, SendInv, UNCHANGED pane, NEW p \in Senders, NEW s,
         send' = [send EXCEPT ![p] = s], Undisturbed(p, s, pane)
  PROVE  SendInv'
<1>1. \A o \in Senders : Undisturbed(o, send'[o], pane)
  BY DEF TypeOK, SendInv
<1> QED
  BY <1>1 DEF SendInv, UndrawnIsIdle

LEMMA FailedKeeps ==
  ASSUME TypeOK, SendInv, UNCHANGED pane, NEW p \in Senders, Fail(p)
  PROVE  SendInv'
  BY FailKeeps, OwnKeeps DEF Fail

\* A send that has looked at nothing yet may rely on nothing.
LEMMA ReadyKeeps ==
  ASSUME NEW p, NEW s \in Sends, NEW q
  PROVE  Undisturbed(p, [s EXCEPT !.at = "look"], q)
<1>1. [s EXCEPT !.at = "look"].at = "look"
  BY DEF Sends
<1> QED
  BY <1>1 DEF Undisturbed, SeenAbsent, MoveTells

LEMMA GoOnIs ==
  ASSUME TypeOK, NEW p \in Senders, NEW at, GoOn(p, at)
  PROVE  send' = [send EXCEPT ![p] = [send[p] EXCEPT !.at = at]]
  BY DEF GoOn, TypeOK, Sends

LEMMA SendKeeps ==
  ASSUME TypeOK, SendInv, NEW p \in Senders, Send(p)
  PROVE  SendInv'
<1>0. pane \in Screens /\ send[p] \in Sends /\ Undisturbed(p, send[p], pane) /\ UndrawnIsIdle
  BY DEF TypeOK, SendInv
<1>1. CASE AwaitReady(p) \/ AwaitUnread(p)
  <2>1. UNCHANGED pane /\ (Fail(p) \/ GoOn(p, "look"))
    BY <1>1 DEF AwaitReady, AwaitUnread, KeepsPane
  <2>2. CASE GoOn(p, "look")
    <3>1. send' = [send EXCEPT ![p] = [send[p] EXCEPT !.at = "look"]]
      BY <2>2, GoOnIs
    <3> QED
      BY <1>0, <2>1, <3>1, ReadyKeeps, OwnKeeps
  <2> QED
    BY <2>1, <2>2, FailedKeeps
<1>2. CASE AwaitDrawn(p)
  <2>1. UNCHANGED pane
    BY <1>2 DEF AwaitDrawn, KeepsPane
  <2>2. PICK e \in {Evidence, "unreadable"} :
           IF e = "unstarted" THEN Fail(p)
           ELSE send' = [send EXCEPT ![p].at = "prompt", ![p].before = e]
    BY <1>2 DEF AwaitDrawn
  <2>3. CASE e = "unstarted"
    BY <2>1, <2>2, <2>3, FailedKeeps
  <2>4. CASE e # "unstarted"
    <3>1. send' = [send EXCEPT ![p] = [send[p] EXCEPT !.at = "prompt", !.before = e]]
      BY <2>2, <2>4 DEF TypeOK, Sends
    <3>2. Undisturbed(p, [send[p] EXCEPT !.at = "prompt", !.before = e], pane)
      BY <1>0, <2>2, <2>4, LookKeeps
    <3> QED
      BY <2>1, <3>1, <3>2, OwnKeeps
  <2> QED
    BY <2>3, <2>4
<1>3. CASE Prompt(p)
  <2> DEFINE t(q) == [send[p] EXCEPT !.at = "confirm", !.moved = Active(pane) \/ Active(q),
                                     !.level = Active(pane)]
  <2>1. (\E q \in Typed(pane, p) : ShowFor(p, t(q), q)) \/ (Fail(p) /\ UNCHANGED pane)
    BY <1>3 DEF Prompt
  <2>2. CASE \E q \in Typed(pane, p) : ShowFor(p, t(q), q)
    <3>1. PICK q \in Typed(pane, p) : ShowFor(p, t(q), q)
      BY <2>2
    <3>2. q \in Screens /\ pane.taken \subseteq q.taken
      BY <1>0, <3>1, TypedType DEF Texts
    <3>3. Undisturbed(p, t(q), q)
      BY <1>0, <1>3, <3>1, PromptKeeps DEF Prompt, At
    <3>4. ~ q.drawn => q.turn = "idle"
      BY <1>0, <3>1, KeysDrawNothing DEF UndrawnIsIdle, Texts
    <3> HIDE DEF t
    <3> QED
      BY <3>1, <3>2, <3>3, <3>4, ShowForKeeps
  <2> QED
    BY <2>1, <2>2, FailedKeeps
<1>4. CASE Confirm(p)
  <2>1. UNCHANGED pane /\ At(p, "confirm")
        /\ (Fail(p) \/ GoOn(p, IF send[p].moved THEN "sent" ELSE "relook"))
    BY <1>4 DEF Confirm, KeepsPane, Moved
  <2>2. CASE GoOn(p, IF send[p].moved THEN "sent" ELSE "relook")
    <3>1. send' = [send EXCEPT ![p] =
                     [send[p] EXCEPT !.at = IF send[p].moved THEN "sent" ELSE "relook"]]
      BY <2>2, GoOnIs
    <3> QED
      BY <1>0, <2>1, <3>1, ConfirmKeeps, OwnKeeps DEF At
  <2> QED
    BY <2>1, <2>2, FailedKeeps
<1>5. CASE Relook(p)
  <2>1. UNCHANGED pane /\ At(p, "relook")
    BY <1>5 DEF Relook, KeepsPane
  <2>2. PICK e \in {Evidence, "unreadable"} :
           IF Landed(send[p].before, e) THEN GoOn(p, "nudge") ELSE Fail(p)
    BY <1>5 DEF Relook
  <2>3. CASE Landed(send[p].before, e)
    <3>1. send' = [send EXCEPT ![p] = [send[p] EXCEPT !.at = "nudge"]]
      BY <2>2, <2>3, GoOnIs
    <3>2. Undisturbed(p, [send[p] EXCEPT !.at = "nudge"], pane)
      BY <1>0, <2>1, <2>2, <2>3, RelookKeeps DEF At
    <3> QED
      BY <2>1, <3>1, <3>2, OwnKeeps
  <2> QED
    BY <2>1, <2>2, <2>3, FailedKeeps
<1>6. CASE Nudge(p)
  <2>1. CASE ShowFor(p, [send[p] EXCEPT !.at = "await", !.moved = Active(Entered(pane))],
                     Entered(pane))
    <3>1. Entered(pane) \in Screens /\ pane.taken \subseteq Entered(pane).taken
      BY <1>0, EnteredType
    <3>2. Undisturbed(p, [send[p] EXCEPT !.at = "await", !.moved = Active(Entered(pane))],
                      Entered(pane))
      BY <1>0, <1>6, NudgeKeeps DEF Nudge, At
    <3>3. ~ Entered(pane).drawn => Entered(pane).turn = "idle"
      BY <1>0, KeysDrawNothing DEF UndrawnIsIdle
    <3> QED
      BY <2>1, <3>1, <3>2, <3>3, ShowForKeeps
  <2>2. CASE Fail(p) /\ UNCHANGED pane
    BY <2>2, FailedKeeps
  <2> QED
    BY <1>6, <2>1, <2>2 DEF Nudge
<1>7. CASE AwaitStarted(p)
  <2>1. UNCHANGED pane /\ At(p, "await") /\ (Fail(p) \/ (send[p].moved /\ GoOn(p, "sent")))
    BY <1>7 DEF AwaitStarted, KeepsPane, Moved
  <2>2. CASE send[p].moved /\ GoOn(p, "sent")
    <3>1. send' = [send EXCEPT ![p] = [send[p] EXCEPT !.at = "sent"]]
      BY <2>2, GoOnIs
    <3>2. Undisturbed(p, [send[p] EXCEPT !.at = "sent"], pane)
      BY <1>0, <2>1, <2>2, StartedKeeps DEF At
    <3> QED
      BY <2>1, <3>1, <3>2, OwnKeeps
  <2> QED
    BY <2>1, <2>2, FailedKeeps
<1> QED
  BY <1>1, <1>2, <1>3, <1>4, <1>5, <1>6, <1>7 DEF Send

\* The agent redraws its pane.
LEMMA AgentKeeps ==
  ASSUME TypeOK, SendInv, Draw \/ Work
  PROVE  SendInv'
<1>0. pane \in Screens /\ \A p \in Senders : send[p] \in Sends /\ Undisturbed(p, send[p], pane)
  BY DEF TypeOK, SendInv
<1>1. CASE Draw
  <2> DEFINE q == [pane EXCEPT !.drawn = TRUE]
  <2>1. ~ pane.drawn /\ pane.turn = "idle"
    BY <1>1 DEF Draw, SendInv, UndrawnIsIdle
  <2>2. q \in Screens /\ q.drawn /\ q.turn = pane.turn /\ q.taken = pane.taken
    BY <1>0 DEF Screens
  <2>3. Show(q, FALSE) \/ \E r \in Asks(q) : Show(r, FALSE)
    BY <1>1 DEF Draw
  <2> HIDE DEF q
  <2>4. \A r \in Asks(q) : r \in Screens /\ r.drawn /\ r.turn = "idle" /\ r.taken = pane.taken
    BY <2>1, <2>2, AsksType
  <2>5. PICK r \in Screens : Show(r, FALSE) /\ r.drawn /\ r.turn = "idle" /\ r.taken = pane.taken
    BY <2>1, <2>2, <2>3, <2>4
  <2>6. \A p \in Senders : Undisturbed(p, Sees(send[p], r, FALSE), r)
    BY <1>0, <2>1, <2>5, DrawKeeps
  <2> QED
    BY <2>5, <2>6 DEF SendInv, UndrawnIsIdle, Show
<1>2. CASE Work
  <2>1. pane.drawn /\ pane.dialog = None /\ pane.turn # "idle"
    BY <1>2 DEF Work
  <2>2. \/ \E r \in Asks(pane) : Show(r, FALSE)
        \/ \E turn \in {"done", "idle"} : Show([pane EXCEPT !.turn = turn], FALSE)
    BY <1>2 DEF Work
  <2>3. \A turn \in {"done", "idle"} :
           LET r == [pane EXCEPT !.turn = turn]
           IN r \in Screens /\ r.drawn /\ r.taken = pane.taken /\ r.composer = pane.composer
    BY <1>0, <2>1 DEF Screens
  <2>4. PICK r \in Screens : /\ Show(r, FALSE) /\ r.drawn /\ r.taken = pane.taken
                             /\ r.composer = pane.composer
    BY <1>0, <2>1, <2>2, <2>3, AsksType
  <2>5. \A p \in Senders : Undisturbed(p, Sees(send[p], r, FALSE), r)
    BY <1>0, <2>1, <2>4, WorkKeeps
  <2> QED
    BY <2>4, <2>5 DEF SendInv, UndrawnIsIdle, Show
<1> QED
  BY <1>1, <1>2

\* The keys of everybody else.
LEMMA EnterKeeps ==
  ASSUME TypeOK, SendInv, Show(Entered(pane), TRUE)
  PROVE  SendInv'
<1>1. Entered(pane) \in Screens /\ pane.taken \subseteq Entered(pane).taken
  BY EnteredType DEF TypeOK
<1>2. ~ Entered(pane).drawn => Entered(pane).turn = "idle"
  BY KeysDrawNothing DEF TypeOK, SendInv, UndrawnIsIdle
<1> QED
  BY <1>1, <1>2, ShowOtherKeeps

LEMMA OutsideKeeps ==
  ASSUME TypeOK, SendInv, Restart \/ Keys \/ Post
  PROVE  SendInv'
<1>0. pane \in Screens /\ UndrawnIsIdle
  BY DEF TypeOK, SendInv
<1>1. CASE Restart
  <2>1. LET q == [Shell EXCEPT !.taken = pane.taken]
        IN q \in Screens /\ q.taken = pane.taken /\ q.turn = "idle"
    BY <1>0, ShellType DEF Screens, Shell
  <2> QED
    BY <1>1, <2>1, ShowOtherKeeps DEF Restart
<1>2. CASE Keys
  <2>1. LET q == [pane EXCEPT !.composer = {}]
        IN q \in Screens /\ q.taken = pane.taken /\ q.drawn = pane.drawn /\ q.turn = pane.turn
    BY <1>0 DEF Screens
  <2>2. CASE Show([pane EXCEPT !.composer = {}], TRUE)
    BY <1>0, <2>1, <2>2, ShowOtherKeeps DEF UndrawnIsIdle
  <2> QED
    BY <1>2, <2>2, EnterKeeps DEF Keys
<1>3. CASE Post
  <2>1. PICK q \in Typed(pane, Page) : Show(q, TRUE)
    BY <1>3 DEF Post
  <2>2. q \in Screens /\ pane.taken \subseteq q.taken /\ (~ q.drawn => q.turn = "idle")
    BY <1>0, <2>1, TypedType, KeysDrawNothing DEF Texts, UndrawnIsIdle
  <2> QED
    BY <2>1, <2>2, ShowOtherKeeps
<1> QED
  BY <1>1, <1>2, <1>3

LEMMA SendInvStep == TypeOK /\ SendInv /\ [Next]_vars => SendInv'
<1> SUFFICES ASSUME TypeOK, SendInv, [Next]_vars PROVE SendInv'
  OBVIOUS
<1>1. CASE UNCHANGED <<pane, send>>
  BY <1>1 DEF SendInv, UndrawnIsIdle
<1>2. CASE \E p \in Senders : Send(p)
  BY <1>2, SendKeeps
<1>3. CASE \E w \in Waiters : Wait(w)
  <2>1. UNCHANGED <<pane, send>> \/ Show(Entered(pane), TRUE)
    BY <1>3 DEF Wait, PollBlocked, Triage, Answer
  <2> QED
    BY <1>1, <2>1, EnterKeeps
<1>4. CASE Watch
  BY <1>1, <1>4 DEF Watch, Sweep, Judge
<1>5. CASE Draw \/ Work
  BY <1>5, AgentKeeps
<1>6. CASE Restart \/ Keys \/ Post
  BY <1>6, OutsideKeeps
<1>7. CASE UNCHANGED vars
  BY <1>1, <1>7 DEF vars
<1> QED
  BY <1>2, <1>3, <1>4, <1>5, <1>6, <1>7 DEF Next

LEMMA SendInvHolds == Spec => []SendInv
<1>1. Init => SendInv
  BY DEF Init, SendInv, UndrawnIsIdle, Shell, New, Undisturbed, SeenAbsent, MoveTells
<1> QED
  BY <1>1, SendInvStep, TypeCorrect, PTL DEF Spec

\* A send that reports success has given the agent its text, unless the agent
\* was active when it was typed, or somebody else typed (the return of
\* phase_send_with_timeout).
THEOREM Delivered == Spec => []OkMeansTaken
<1>1. SendInv => OkMeansTaken
  <2> SUFFICES ASSUME SendInv, NEW p \in Senders, At(p, "sent"), ~ send[p].level,
                      ~ send[p].crossed
               PROVE  p \in pane.taken
    BY DEF OkMeansTaken
  <2>1. MoveTells(p, send[p], pane)
    BY DEF SendInv, Undisturbed
  <2> QED
    BY <2>1 DEF MoveTells, At
<1> QED
  BY <1>1, SendInvHolds, PTL

-----------------------------------------------------------------------------
(* The answers of a triage. Dialogs are numbered, so one that has been read  *)
(* is recognised by its number, and has the words that were read.            *)

ReadInv ==
    /\ pane.dialog # None => pane.dialog.id <= raised
    /\ \A w \in Waiters :
          wait[w].at = "answer" =>
             /\ wait[w].read \subseteq 1..raised
             /\ pane.dialog # None /\ Shown = wait[w].read => pane.dialog.words = {"routine"}

\* Only the agent raises a dialog, and it gives the next number.
LEMMA DialogStep ==
  ASSUME TypeOK, [Next]_vars
  PROVE  \/ UNCHANGED raised /\ (pane'.dialog = pane.dialog \/ pane'.dialog = None)
         \/ raised' = raised + 1 /\ (pane'.dialog # None => pane'.dialog.id = raised + 1)
            /\ UNCHANGED wait
<1>0. pane \in Screens
  BY DEF TypeOK
<1>1. /\ Entered(pane).dialog \in {pane.dialog, None}
      /\ \A text : \A q \in Typed(pane, text) : q.dialog = pane.dialog
  BY <1>0 DEF Entered, Typed, Submit, Screens
<1>2. \A q \in Screens : \A r \in Asks(q) : r.dialog # None => r.dialog.id = raised + 1
  BY DEF Asks, Screens
<1>3. ASSUME NEW p \in Senders, Send(p)
      PROVE  UNCHANGED raised /\ (pane'.dialog = pane.dialog \/ pane'.dialog = None)
  <2>1. UNCHANGED raised
    BY <1>3 DEF Send, AwaitReady, AwaitUnread, AwaitDrawn, Prompt, Confirm, Relook, Nudge,
                AwaitStarted, KeepsPane, OnlyTypes
  <2>2. \/ UNCHANGED pane \/ pane' = Entered(pane) \/ \E q \in Typed(pane, p) : pane' = q
    BY <1>3 DEF Send, AwaitReady, AwaitUnread, AwaitDrawn, Prompt, Confirm, Relook, Nudge,
                AwaitStarted, KeepsPane, ShowFor
  <2> QED
    BY <1>1, <2>1, <2>2
<1>4. ASSUME NEW w \in Waiters, Wait(w)
      PROVE  UNCHANGED raised /\ (pane'.dialog = pane.dialog \/ pane'.dialog = None)
  BY <1>1, <1>4 DEF Wait, PollBlocked, Triage, Answer, Show
<1>5. CASE Watch \/ UNCHANGED vars
  BY <1>5 DEF Watch, Sweep, Judge, vars
<1>6. CASE Draw
  <2> DEFINE q == [pane EXCEPT !.drawn = TRUE]
  <2>1. q \in Screens /\ q.dialog = pane.dialog
    BY <1>0 DEF Screens
  <2> HIDE DEF q
  <2>2. \/ UNCHANGED raised /\ pane' = q
        \/ raised' = raised + 1 /\ \E r \in Asks(q) : pane' = r
    BY <1>6 DEF Draw, NewDialog, Show, q
  <2>3. UNCHANGED wait
    BY <1>6 DEF Draw, ByAgent
  <2> QED
    BY <1>2, <2>1, <2>2, <2>3
<1>7. CASE Work
  <2>1. \A turn : [pane EXCEPT !.turn = turn].dialog = pane.dialog
    BY <1>0 DEF Screens
  <2>2. \/ UNCHANGED raised /\ \E turn \in {"done", "idle"} : pane' = [pane EXCEPT !.turn = turn]
        \/ raised' = raised + 1 /\ \E r \in Asks(pane) : pane' = r
    BY <1>7 DEF Work, NewDialog, Show
  <2>3. UNCHANGED wait
    BY <1>7 DEF Work, ByAgent
  <2> QED
    BY <1>0, <1>2, <2>1, <2>2, <2>3
<1>8. CASE Restart
  <2>1. [Shell EXCEPT !.taken = pane.taken].dialog = None
    BY DEF Shell
  <2> QED
    BY <1>8, <2>1 DEF Restart, Show
<1>9. CASE Keys
  <2>1. [pane EXCEPT !.composer = {}].dialog = pane.dialog
    BY <1>0 DEF Screens
  <2> QED
    BY <1>1, <1>9, <2>1 DEF Keys, Show
<1>10. CASE Post
  BY <1>1, <1>10 DEF Post, Show
<1> QED
  BY <1>3, <1>4, <1>5, <1>6, <1>7, <1>8, <1>9, <1>10 DEF Next

\* A wait that is going to answer goes on with what it has read, or has just read
\* words that ask for no human.
LEMMA AnswerStep ==
  ASSUME TypeOK, [Next]_vars, NEW w \in Waiters, wait'[w].at = "answer"
  PROVE  \/ wait'[w] = wait[w]
         \/ UNCHANGED pane /\ wait'[w].read = Shown
            /\ (pane.dialog # None => pane.dialog.words = {"routine"})
<1>0. wait \in Waiting /\ pane \in Screens
  BY DEF TypeOK, Waiting
<1>1. ASSUME NEW v \in Waiters, NEW at, NEW read, Waits(v, at, read)
      PROVE  IF v = w THEN wait'[w] = [at |-> at, read |-> read] ELSE wait'[w] = wait[w]
  BY <1>0, <1>1 DEF Waits, Waiting
<1>2. CASE UNCHANGED wait
  BY <1>2
<1>3. ASSUME NEW v \in Waiters, Waits(v, "poll", {}) \/ Waits(v, "triage", {})
      PROVE  wait'[w] = wait[w]
  <2>1. CASE v = w
    <3>1. wait'[w] = [at |-> "poll", read |-> {}] \/ wait'[w] = [at |-> "triage", read |-> {}]
      BY <1>1, <1>3, <2>1
    <3>2. wait'[w].at # "answer"
      BY <3>1
    <3> QED
      BY <3>2
  <2>2. CASE v # w
    BY <1>1, <1>3, <2>2
  <2> QED
    BY <2>1, <2>2
<1>4. ASSUME NEW v \in Waiters, PollBlocked(v) \/ Answer(v)
      PROVE  wait'[w] = wait[w]
  BY <1>3, <1>4 DEF PollBlocked, Answer, Escalate
<1>5. ASSUME NEW v \in Waiters, Triage(v)
      PROVE  \/ wait'[w] = wait[w]
             \/ UNCHANGED pane /\ wait'[w].read = Shown
                /\ (pane.dialog # None => pane.dialog.words = {"routine"})
  <2>1. CASE \E ids : Escalate(v, ids)
    BY <1>3, <2>1 DEF Escalate
  <2>2. CASE \E words \in Readings : ~ NeedsHuman(Classify(words)) /\ Waits(v, "answer", Shown)
    <3>1. PICK words \in Readings : ~ NeedsHuman(Classify(words)) /\ Waits(v, "answer", Shown)
      BY <2>2
    <3>2. "routine" \in words /\ "danger" \notin words
      BY <3>1 DEF NeedsHuman, Classify
    <3>3. pane.dialog # None => words = pane.dialog.words /\ words \subseteq Words
      BY <1>0, <3>1 DEF Readings, Screens, Dialogs
    <3>4. pane.dialog # None => pane.dialog.words = {"routine"}
      BY <3>2, <3>3 DEF Words
    <3>5. UNCHANGED pane
      BY <1>5 DEF Triage
    <3>6. CASE v = w
      <4>1. wait'[w] = [at |-> "answer", read |-> Shown]
        BY <1>1, <3>1, <3>6
      <4>2. wait'[w].read = Shown
        BY <4>1
      <4> QED
        BY <3>4, <3>5, <4>2
    <3>7. CASE v # w
      BY <1>1, <3>1, <3>7
    <3> QED
      BY <3>6, <3>7
  <2> QED
    BY <1>5, <2>1, <2>2 DEF Triage
<1>6. CASE \E v \in Waiters : Wait(v)
  BY <1>4, <1>5, <1>6 DEF Wait
<1>7. CASE \E p \in Senders : Send(p)
  <2>1. UNCHANGED wait
    BY <1>7 DEF Send, AwaitReady, AwaitUnread, AwaitDrawn, Prompt, Confirm, Relook, Nudge,
                AwaitStarted, KeepsPane, OnlyTypes
  <2> QED
    BY <1>2, <2>1
<1>8. CASE Watch \/ Draw \/ Work \/ Restart \/ Keys \/ Post \/ UNCHANGED vars
  BY <1>2, <1>8 DEF Watch, Sweep, Judge, Draw, Work, Restart, Keys, Post, ByAgent, vars
<1> QED
  BY <1>6, <1>7, <1>8 DEF Next

LEMMA ReadInvStep == TypeOK /\ ReadInv /\ [Next]_vars => ReadInv'
<1> SUFFICES ASSUME TypeOK, ReadInv, [Next]_vars PROVE ReadInv'
  OBVIOUS
<1>0. raised \in Nat /\ pane \in Screens
  BY PaneAssumption DEF TypeOK
<1>1. pane'.dialog # None => pane'.dialog.id <= raised'
  BY <1>0, DialogStep DEF ReadInv
<1>2. raised <= raised' /\ raised' \in Nat
  BY <1>0, DialogStep
<1>3. ASSUME NEW w \in Waiters, wait'[w].at = "answer"
      PROVE  /\ wait'[w].read \subseteq 1..raised'
             /\ pane'.dialog # None /\ Shown' = wait'[w].read => pane'.dialog.words = {"routine"}
  <2>1. CASE wait'[w] = wait[w]
    <3>1. /\ wait[w].read \subseteq 1..raised
          /\ pane.dialog # None /\ Shown = wait[w].read => pane.dialog.words = {"routine"}
      BY <1>3, <2>1 DEF ReadInv
    <3>2. wait'[w].read \subseteq 1..raised'
      BY <1>0, <1>2, <2>1, <3>1
    <3>3. CASE pane'.dialog = pane.dialog \/ pane'.dialog = None
      BY <2>1, <3>1, <3>2, <3>3 DEF Shown
    <3>4. CASE pane'.dialog # None /\ pane'.dialog.id = raised + 1
      <4>1. raised + 1 \in Shown' /\ raised + 1 \notin wait'[w].read
        BY <1>0, <2>1, <3>1, <3>4 DEF Shown
      <4> QED
        BY <3>2, <4>1
    <3> QED
      BY <3>2, <3>3, <3>4, DialogStep
  <2>2. CASE UNCHANGED pane /\ wait'[w].read = Shown
             /\ (pane.dialog # None => pane.dialog.words = {"routine"})
    <3>1. Shown \subseteq 1..raised
      BY <1>0 DEF ReadInv, Shown, Screens, Dialogs
    <3> QED
      BY <1>0, <1>2, <2>2, <3>1
  <2> QED
    BY <1>3, <2>1, <2>2, AnswerStep
<1> QED
  BY <1>1, <1>3 DEF ReadInv

LEMMA ReadInvHolds == Spec => []ReadInv
<1>1. Init => ReadInv
  BY DEF Init, Shell, ReadInv
<1> QED
  BY <1>1, ReadInvStep, TypeCorrect, PTL DEF Spec

\* An Enter that drovr presses accepts only what drovr has looked at: the nudge
\* (phase_send_with_timeout) of a send nobody interferes with no dialog at all,
\* and a triage (triage_blocked_phase) no dialog it has read as anything but
\* routine.
THEOREM KeysLooked == Spec => KeysFollowLooks
<1>1. TypeOK /\ SendInv /\ ReadInv /\ [Next]_vars =>
        [/\ \A p \in Senders :
              At(p, "nudge") /\ send'[p].at = "await" /\ ~ send[p].crossed => pane.dialog = None
         /\ \A w \in Waiters :
              wait[w].at = "answer" /\ wait'[w].at = "poll" /\ pane' # pane
              /\ pane.dialog # None /\ Shown = wait[w].read =>
                 \A words \in Readings : words = {"routine"}]_vars
  <2>1. ASSUME SendInv, NEW p \in Senders, At(p, "nudge"), ~ send[p].crossed
        PROVE  pane.dialog = None
    <3>1. SeenAbsent(p, send[p], pane) /\ MoveTells(p, send[p], pane)
      BY <2>1 DEF SendInv, Undisturbed
    <3> QED
      BY <2>1, <3>1 DEF SeenAbsent, MoveTells, At, Unsubmitted
  <2>2. ASSUME ReadInv, NEW w \in Waiters, wait[w].at = "answer", pane.dialog # None,
               Shown = wait[w].read
        PROVE  \A words \in Readings : words = {"routine"}
    BY <2>2 DEF ReadInv, Readings
  <2> QED
    BY <2>1, <2>2
<1> QED
  BY <1>1, SendInvHolds, ReadInvHolds, TypeCorrect, PTL DEF Spec, KeysFollowLooks
=============================================================================
