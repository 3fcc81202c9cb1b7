-------------------------- MODULE PassProtocolProofs --------------------------
(***************************************************************************)
(* For any tokens, drivers and waiters, with every interleaving allowed    *)
(* (Racy and SendToBusy arbitrary): the type invariant of PassProtocol, and *)
(* that a recorded Done is always the work of the agent it credits.        *)
(* Then, for one driver at a time and no send to a working agent           *)
(* (SerialUse): the completions that a stale pass cannot make, what a Done *)
(* leaves behind, what a wait answers, and what `superseded` means.        *)
(***************************************************************************)
EXTENDS PassProtocol, TLAPS

USE PassAssumption DEF PassAssumption

\* A start runs under the token it minted, which is what makes the record it
\* saves and the agent it launches well typed.
StartHoldsToken == \A p \in Procs : pc[p] \in StartSteps => expected[p] \in Tokens
TypeInv == TypeOK /\ StartHoldsToken

\* Every step keeps the variables of phase start, send, wait and done in their
\* types: the shape of state.json, the marker and each command's memory.
LEMMA TypeStep == TypeInv /\ [Next]_vars => TypeInv'
<1> SUFFICES ASSUME TypeInv, [Next]_vars PROVE TypeInv'
  OBVIOUS
<1> USE DEF TypeInv, TypeOK, StartHoldsToken, Record, Markers, Passes, Holders, Statuses, PCs, StartSteps,
            SendSteps, WaitSteps, Verdicts, Procs, files, world, locals, ghosts,
            KeepLocals, Goto, Return, Begin, Blank, NoMarker
<1>1. ASSUME NEW d \in Drivers, StartStep(d) PROVE TypeInv'
  <2>1. CASE StartBegin(d)   BY <2>1 DEF StartBegin
  <2>2. CASE StartPersist(d)
    <3>1. [status |-> "Running", pass |-> expected[d]] \in Record
      BY <2>2 DEF StartPersist
    <3>2. CASE copy[d].status = "Absent"
      BY <2>2, <3>2 DEF StartPersist
    <3>3. CASE copy[d].status # "Absent"
      <4>1. disk' \in Record
        BY <2>2, <3>1, <3>3 DEF StartPersist
      <4>2. copy' = [copy EXCEPT ![d] = disk'] /\ starts' = starts + 1
        BY <2>2, <3>3 DEF StartPersist
      <4>3. copy' \in [Procs -> Record] /\ starts' \in Nat
        BY <4>1, <4>2
      <4> QED
        BY <2>2, <4>1, <4>3 DEF StartPersist
    <3> QED
      BY <3>2, <3>3
  <2>3. CASE StartSweep(d)   BY <2>3 DEF StartSweep
  <2>4. CASE StartLaunch(d)  BY <2>4 DEF StartLaunch
  <2>5. CASE StartCommit(d)
    <3>1. [status |-> "Running", pass |-> expected[d]] \in Record
      BY <2>5 DEF StartCommit
    <3>2. disk' \in Record /\ copy' \in [Procs -> Record] /\ starts' \in Nat
      <4>1. disk' \in Record
        BY <2>5, <3>1 DEF StartCommit
      <4>2. starts' \in Nat
        BY <2>5 DEF StartCommit
      <4>3. copy' \in [Procs -> Record]
        BY <2>5, <4>1 DEF StartCommit
      <4> QED
        BY <4>1, <4>2, <4>3
    <3>3. CASE Return(d, "ok")
      BY <2>5, <3>2, <3>3 DEF StartCommit
    <3>4. CASE Goto(d, "ready") /\ UNCHANGED <<fresh, expected, since, saw, verdict>>
               /\ brief' = [brief EXCEPT ![d] = TRUE]
      BY <2>5, <3>2, <3>4 DEF StartCommit
    <3> QED
      BY <2>5, <3>3, <3>4 DEF StartCommit
  <2>6. CASE StartDiscard(d) BY <2>6 DEF StartDiscard
  <2> QED BY <1>1, <2>1, <2>2, <2>3, <2>4, <2>5, <2>6 DEF StartStep
<1>2. ASSUME NEW d \in Drivers, SendStep(d) PROVE TypeInv'
  <2>1. CASE SendBegin(d)     BY <2>1 DEF SendBegin
  <2>2. CASE SendCapture(d)   BY <2>2 DEF SendCapture
  <2>3. CASE SendCaptured(d)  BY <2>3 DEF SendCaptured
  <2>4. CASE SendSweep(d)     BY <2>4 DEF SendSweep
  <2>5. CASE SendSave(d)      BY <2>5 DEF SendSave
  <2>6. CASE SendDelivered(d) BY <2>6 DEF SendDelivered
  <2>7. CASE BriefUndelivered(d) BY <2>7 DEF BriefUndelivered
  <2> QED BY <1>2, <2>1, <2>2, <2>3, <2>4, <2>5, <2>6, <2>7 DEF SendStep
<1>3. ASSUME NEW p \in Procs, WaitStep(p) PROVE TypeInv'
  <2>1. CASE WaitBegin(p)    BY <2>1 DEF WaitBegin
  <2>2. CASE WaitRefused(p)  BY <2>2 DEF WaitRefused
  <2>3. CASE WaitPoll(p)
    <3>1. CASE Goto(p, "capture")
      BY <2>3, <3>1 DEF WaitPoll
    <3>2. CASE Goto(p, "look")
      BY <2>3, <3>2 DEF WaitPoll
    <3> QED
      BY <2>3, <3>1, <3>2 DEF WaitPoll
  <2>4. CASE WaitCaptured(p) BY <2>4 DEF WaitCaptured
  <2>5. CASE WaitLook(p)
    <3>1. CASE Goto(p, "check") /\ saw' = [saw EXCEPT ![p] = marker.for]
      BY <2>5, <3>1 DEF WaitLook
    <3>2. CASE Goto(p, "rest") /\ UNCHANGED saw
      BY <2>5, <3>2 DEF WaitLook
    <3> QED
      BY <2>5, <3>1, <3>2 DEF WaitLook
  <2>6. CASE WaitCheck(p)
    <3>1. [disk EXCEPT !.status = "Done"] \in Record
      OBVIOUS
    <3>2. CASE Goto(p, "store") /\ fresh' = [fresh EXCEPT ![p] = [disk EXCEPT !.status = "Done"]]
               /\ UNCHANGED <<copy, expected, brief, since, saw, verdict>>
      BY <2>6, <3>1, <3>2 DEF WaitCheck
    <3>3. CASE Return(p, "superseded")
      BY <2>6, <3>3 DEF WaitCheck
    <3>4. CASE Goto(p, "rest") /\ UNCHANGED verdict /\ KeepLocals
      BY <2>6, <3>4 DEF WaitCheck
    <3> QED
      BY <2>6, <3>2, <3>3, <3>4 DEF WaitCheck
  <2>7. CASE WaitStore(p)    BY <2>7 DEF WaitStore
  <2>8. CASE WaitBlocked(p)  BY <2>8 DEF WaitBlocked
  <2>9. CASE WaitExpire(p)   BY <2>9 DEF WaitExpire
  <2>10. CASE WaitAgain(p)   BY <2>10 DEF WaitAgain
  <2> QED BY <1>3, <2>1, <2>2, <2>3, <2>4, <2>5, <2>6, <2>7, <2>8, <2>9, <2>10
          DEF WaitStep
<1>4. ASSUME NEW t \in Holders, AgentStep(t) PROVE TypeInv'
  BY <1>4 DEF AgentStep, AgentSignal, AgentRepeat, AgentMark, Signalled
<1>5. ASSUME NEW p \in Procs, Abort(p) PROVE TypeInv'
  BY <1>5 DEF Abort
<1>6. CASE LegacySave
  BY <1>6 DEF LegacySave
<1>7. CASE UNCHANGED vars
  BY <1>7 DEF vars
<1> QED
  BY <1>1, <1>2, <1>3, <1>4, <1>5, <1>6, <1>7 DEF Next

LEMMA TypeInit == Init => TypeInv
BY DEF Init, TypeInv, TypeOK, StartHoldsToken, StartSteps, Record, Markers, Passes, Holders, Statuses, PCs, Verdicts,
       Procs, Blank, NoMarker

\* The types hold in every reachable state.
THEOREM TypeCorrect == Spec => []TypeOK
<1>1. TypeInv => TypeOK
  BY DEF TypeInv
<1> QED
  BY <1>1, TypeInit, TypeStep, PTL DEF Spec

-----------------------------------------------------------------------------
\* Done is copied about: from a copy of state.json that may be arbitrarily old
\* back to the file, and from the file into other copies. So every copy has to
\* be earned too; the marker has to be somebody's signal; and between reading
\* the marker and recording Done a wait has to remember that it was.
EvidenceInv ==
    /\ Earned(disk)
    /\ \A p \in Procs : Earned(copy[p]) /\ Earned(fresh[p])
    /\ marker.token # NoToken => marker.token \in signalled
    /\ \A p \in Procs : pc[p] = "check" => expected[p] = NoPass \/ expected[p] \in signalled

LEMMA EvidenceInit == Init => EvidenceInv
BY DEF Init, EvidenceInv, Earned, Blank, NoMarker

LEMMA EvidenceStep == TypeInv /\ EvidenceInv /\ [Next]_vars => EvidenceInv'
<1> SUFFICES ASSUME TypeInv, EvidenceInv, [Next]_vars PROVE EvidenceInv'
  OBVIOUS
<1> USE DEF TypeInv, TypeOK, EvidenceInv, Earned, Record, Markers, Passes, Holders,
            Procs, files, world, locals, ghosts, KeepLocals, Goto, Return, Begin,
            Blank, NoMarker
<1>1. ASSUME NEW d \in Drivers, StartStep(d) PROVE EvidenceInv'
  <2>1. CASE StartBegin(d)   BY <2>1 DEF StartBegin
  <2>2. CASE StartPersist(d) BY <2>2 DEF StartPersist
  <2>3. CASE StartSweep(d)   BY <2>3 DEF StartSweep
  <2>4. CASE StartLaunch(d)  BY <2>4 DEF StartLaunch
  <2>5. CASE StartCommit(d)
    <3>1. Earned(disk)'
      BY <2>5 DEF StartCommit
    <3>2. CASE Return(d, "ok")
      BY <2>5, <3>1, <3>2 DEF StartCommit
    <3>3. CASE Goto(d, "ready") /\ copy' = [copy EXCEPT ![d] = disk']
               /\ UNCHANGED <<fresh, expected>>
      BY <2>5, <3>1, <3>3 DEF StartCommit
    <3> QED
      BY <2>5, <3>2, <3>3 DEF StartCommit
  <2>6. CASE StartDiscard(d) BY <2>6 DEF StartDiscard
  <2> QED BY <1>1, <2>1, <2>2, <2>3, <2>4, <2>5, <2>6 DEF StartStep
<1>2. ASSUME NEW d \in Drivers, SendStep(d) PROVE EvidenceInv'
  <2>1. CASE SendBegin(d)     BY <2>1 DEF SendBegin
  <2>2. CASE SendCapture(d)   BY <2>2 DEF SendCapture
  <2>3. CASE SendCaptured(d)  BY <2>3 DEF SendCaptured
  <2>4. CASE SendSweep(d)     BY <2>4 DEF SendSweep
  <2>5. CASE SendSave(d)      BY <2>5 DEF SendSave
  <2>6. CASE SendDelivered(d) BY <2>6 DEF SendDelivered
  <2>7. CASE BriefUndelivered(d) BY <2>7 DEF BriefUndelivered
  <2> QED BY <1>2, <2>1, <2>2, <2>3, <2>4, <2>5, <2>6, <2>7 DEF SendStep
<1>3. ASSUME NEW p \in Procs, WaitStep(p) PROVE EvidenceInv'
  <2>1. CASE WaitBegin(p)    BY <2>1 DEF WaitBegin
  <2>2. CASE WaitRefused(p)  BY <2>2 DEF WaitRefused
  <2>3. CASE WaitPoll(p)
    <3>1. CASE Goto(p, "capture") /\ fresh' = [fresh EXCEPT ![p] = disk]
      BY <2>3, <3>1 DEF WaitPoll
    <3>2. CASE Goto(p, "look") /\ UNCHANGED fresh
      BY <2>3, <3>2 DEF WaitPoll
    <3> QED
      BY <2>3, <3>1, <3>2 DEF WaitPoll
  <2>4. CASE WaitCaptured(p) BY <2>4 DEF WaitCaptured
  <2>5. CASE WaitLook(p)     BY <2>5 DEF WaitLook, MarkerCompletes
  <2>6. CASE WaitCheck(p)
    <3>1. CASE /\ Goto(p, "store") /\ PassDrift(disk.pass, expected[p]) = "same"
               /\ fresh' = [fresh EXCEPT ![p] = [disk EXCEPT !.status = "Done"]]
               /\ UNCHANGED <<copy, expected>>
      <4>1. disk.pass = expected[p] /\ pc[p] = "check"
        BY <2>6, <3>1 DEF WaitCheck, PassDrift
      <4>2. Earned([disk EXCEPT !.status = "Done"])
        BY <4>1
      <4>3. UNCHANGED <<disk, marker, signalled>>
        BY <2>6 DEF WaitCheck
      <4> QED
        BY <3>1, <4>2, <4>3
    <3>2. CASE Return(p, "superseded")
      BY <2>6, <3>2 DEF WaitCheck
    <3>3. CASE Goto(p, "rest") /\ KeepLocals
      BY <2>6, <3>3 DEF WaitCheck
    <3> QED
      BY <2>6, <3>1, <3>2, <3>3 DEF WaitCheck
  <2>7. CASE WaitStore(p)    BY <2>7 DEF WaitStore
  <2>8. CASE WaitBlocked(p)  BY <2>8 DEF WaitBlocked
  <2>9. CASE WaitExpire(p)   BY <2>9 DEF WaitExpire
  <2>10. CASE WaitAgain(p)   BY <2>10 DEF WaitAgain
  <2> QED BY <1>3, <2>1, <2>2, <2>3, <2>4, <2>5, <2>6, <2>7, <2>8, <2>9, <2>10
          DEF WaitStep
<1>4. ASSUME NEW t \in Holders, AgentStep(t) PROVE EvidenceInv'
  BY <1>4 DEF AgentStep, AgentSignal, AgentRepeat, AgentMark, Signalled
<1>5. ASSUME NEW p \in Procs, Abort(p) PROVE EvidenceInv'
  BY <1>5 DEF Abort
<1>6. CASE LegacySave
  BY <1>6 DEF LegacySave
<1>7. CASE UNCHANGED vars
  BY <1>7 DEF vars
<1> QED
  BY <1>1, <1>2, <1>3, <1>4, <1>5, <1>6, <1>7 DEF Next

\* In every reachable state, whichever commands raced and wherever they were cut
\* short, a phase recorded Done under a pass was signalled done by that pass's
\* own agent: the rule phase_wait, phase_start and phase_send's re-open share.
THEOREM DoneAlwaysEarned == Spec => []DoneIsEarned
<1>1. TypeInv /\ EvidenceInv => DoneIsEarned
  BY DEF EvidenceInv, DoneIsEarned
<1> QED
  BY <1>1, TypeInit, TypeStep, EvidenceInit, EvidenceStep, PTL DEF Spec

-----------------------------------------------------------------------------
(* One driver at a time, as pass_serial runs it *)

\* The use the command's own notes assume: one process drives the phase (any
\* number wait on it), it does not prompt an agent that is still working, and
\* nobody runs between a load of state.json and the save of the edited copy.
\* Aborts, kills and an old binary's saves are not excluded.
SerialUse == ~Racy /\ ~SendToBusy /\ \A a, b \in Drivers : a = b

\* A prompt is on its way into the pane; its marker has been swept.
Prompting == {"reopenSave", "prompt"}
\* An agent that has signalled for what it was last asked for.
Answered == {"idle", "answered", "repeating"}
\* phase_start has persisted its token and not yet recorded the launch.
Launching == {"sweep", "launch", "commit"}

\* Windows exclude each other, so what a window loaded is what the file says.
WindowInv ==
    /\ \A p, q \in Procs : pc[p] \in Window /\ pc[q] \in Window => p = q
    /\ \A p \in Procs : pc[p] \in {"capture", "readyCapture"} => fresh[p] = disk
    /\ \A p \in Procs : pc[p] = "store" =>
          fresh[p] = [disk EXCEPT !.status = "Done"] /\ disk.pass = expected[p]

\* Agents: a token not minted has none, the pane and the marker name real ones,
\* an agent that has signalled has nothing left to do, and the recorded pass is
\* the pane's agent or one that is not launched yet.
AgentInv ==
    /\ \A t \in Tokens \ used : agents[t] = "none"
    /\ inPane # NoToken => agents[inPane] # "none"
    /\ marker.token # NoToken => agents[marker.token] \in Answered
    /\ disk.status = "Absent" => disk.pass = NoPass
    /\ disk.pass # NoPass =>
          /\ disk.pass \in used
          /\ disk.pass = inPane \/ agents[disk.pass] = "none"
          /\ agents[disk.pass] \notin {"none", "idle"} => work[disk.pass] = request

\* The driver inside `phase start`: nobody has heard of its token's agent yet.
StartInv ==
    \A d \in Drivers :
       /\ pc[d] \in StartSteps =>
             /\ expected[d] \in used
             /\ copy[d].status = "Absent" => disk.status = "Absent" /\ copy[d].pass = NoPass
       /\ pc[d] = "persist" => disk.pass # expected[d]
       /\ pc[d] \in {"persist", "sweep", "launch"} => agents[expected[d]] = "none"
       /\ pc[d] = "commit" => /\ inPane = expected[d] /\ agents[expected[d]] = "idle"
                              /\ marker.token # expected[d]
       /\ pc[d] \in Launching =>
             /\ disk.pass \in {expected[d], NoPass}
             /\ copy[d].status = "Absent" \/ copy[d] = [status |-> "Running", pass |-> expected[d]]

\* The driver inside `phase send`: its copy's pass is the recorded one, even if
\* the file has lost it since; the pane's agent is waiting for the prompt, and
\* once the marker is swept nothing can bring it back.
SendInv ==
    \A d \in Drivers : pc[d] \in SendSteps =>
       /\ inPane # NoToken /\ agents[inPane] = "idle"
       /\ disk.pass \in {copy[d].pass, NoPass}
       /\ copy[d].pass # NoPass =>
             /\ copy[d].pass \in used
             /\ copy[d].pass = inPane \/ agents[copy[d].pass] = "none"
             /\ marker.token = copy[d].pass => marker.for = request
       /\ pc[d] \in Prompting => marker.token # inPane
       /\ pc[d] = "prompt" => disk.status # "Done" \/ disk.pass = NoPass

\* A wait that accepted the marker of the recorded pass saw the newest request's,
\* and no prompt has gone out since.
WaitInv ==
    \A p \in Procs :
       /\ pc[p] \in WaitSteps => since[p].request <= request /\ disk.status # "Absent"
       /\ pc[p] \in {"check", "store"} /\ expected[p] = disk.pass /\ disk.pass # NoPass =>
             /\ saw[p] = request /\ agents[disk.pass] \in Answered
             /\ \A d \in Drivers : pc[d] \notin Prompting

SerialInv == WindowInv /\ AgentInv /\ StartInv /\ SendInv /\ WaitInv /\ NoStaleCompletion /\ DoneMeansQuiet

\* A pass that a wait took down is replaced only by a start it outlives: in the
\* file, in what a send would restore, and in what a start is about to record.
ReEntryInv ==
    \A p \in Procs :
       /\ pc[p] # "idle" => verdict[p] = "none"
       /\ pc[p] \in WaitSteps => since[p].starts <= starts
       /\ pc[p] \in WaitSteps /\ expected[p] # NoPass /\ starts = since[p].starts =>
             /\ disk.pass \in {expected[p], NoPass}
             /\ \A d \in Drivers :
                   /\ pc[d] \in SendSteps => copy[d].pass \in {expected[p], NoPass}
                   /\ pc[d] \in Launching /\ copy[d].status # "Absent" => expected[d] = expected[p]
LEMMA SerialInit == SerialUse /\ Init => SerialInv
BY DEF SerialInv, WindowInv, AgentInv, StartInv, SendInv, WaitInv, NoStaleCompletion, DoneMeansQuiet,
       Init, Procs, Holders, Window, StartSteps, SendSteps, WaitSteps, Launching, Prompting, Answered, Blank, NoMarker

\* No command, agent, abort or old binary disturbs the agreement of file, marker
\* and pane, as long as one driver at a time works on the phase.
LEMMA SerialStep == TypeInv /\ SerialUse /\ SerialInv /\ [Next]_vars => SerialInv'
<1> SUFFICES ASSUME TypeInv, SerialUse, SerialInv, [Next]_vars PROVE SerialInv'
  OBVIOUS
<1> USE DEF SerialUse, SerialInv, WindowInv, AgentInv, StartInv, SendInv, WaitInv, NoStaleCompletion,
            DoneMeansQuiet, MarkerCompletes, TypeInv, TypeOK, Record, Markers, Passes, Holders, Procs,
            StartSteps, SendSteps, WaitSteps, Prompting, Launching, Answered, Window, Undisturbed, files, world,
            locals, ghosts, KeepLocals, Goto, Return, Begin, Blank, NoMarker
<1>1. ASSUME NEW d \in Drivers, StartStep(d) PROVE SerialInv'
  <2>1. CASE StartBegin(d)
    BY <2>1 DEF StartBegin
  <2>2. CASE StartPersist(d)
    BY <2>2 DEF StartPersist
  <2>3. CASE StartSweep(d)
    BY <2>3 DEF StartSweep
  <2>4. CASE StartLaunch(d)
    BY <2>4 DEF StartLaunch
  <2>5. CASE StartCommit(d)
    BY <2>5 DEF StartCommit
  <2>6. CASE StartDiscard(d)
    BY <2>6 DEF StartDiscard
  <2> QED BY ONLY <1>1, <2>1, <2>2, <2>3, <2>4, <2>5, <2>6 DEF StartStep
<1>2. ASSUME NEW d \in Drivers, SendStep(d) PROVE SerialInv'
  <2>1. CASE SendBegin(d)
    BY <2>1 DEF SendBegin
  <2>2. CASE SendCapture(d)
    BY <2>2 DEF SendCapture
  <2>3. CASE SendCaptured(d)
    BY <2>3 DEF SendCaptured
  <2>4. CASE SendSweep(d)
    BY <2>4 DEF SendSweep
  <2>5. CASE SendSave(d)
    BY <2>5 DEF SendSave
  <2>6. CASE SendDelivered(d)
    BY <2>6 DEF SendDelivered
  <2>7. CASE BriefUndelivered(d)
    BY <2>7 DEF BriefUndelivered
  <2> QED BY ONLY <1>2, <2>1, <2>2, <2>3, <2>4, <2>5, <2>6, <2>7 DEF SendStep
<1>3. ASSUME NEW p \in Procs, WaitStep(p) PROVE SerialInv'
  <2>1. CASE WaitBegin(p)
    BY <2>1 DEF WaitBegin
  <2>2. CASE WaitRefused(p)
    BY <2>2 DEF WaitRefused
  <2>3. CASE WaitPoll(p)
    BY <2>3 DEF WaitPoll
  <2>4. CASE WaitCaptured(p)
    BY <2>4 DEF WaitCaptured
  <2>5. CASE WaitLook(p)
    BY <2>5 DEF WaitLook
  <2>6. CASE WaitCheck(p)
    <3>1. CASE Goto(p, "store") /\ PassDrift(disk.pass, expected[p]) = "same"
               /\ fresh' = [fresh EXCEPT ![p] = [disk EXCEPT !.status = "Done"]]
               /\ UNCHANGED <<copy, expected, brief, since, saw, verdict>>
      <4>1. disk.pass = expected[p]
        BY <3>1 DEF PassDrift
      <4>2. WindowInv'
        BY <2>6, <3>1, <4>1 DEF WaitCheck
      <4>3. AgentInv' /\ StartInv' /\ SendInv' /\ WaitInv' /\ NoStaleCompletion' /\ DoneMeansQuiet'
        BY <2>6, <3>1, <4>1 DEF WaitCheck
      <4> QED
        BY <4>2, <4>3
    <3>2. CASE Return(p, "superseded")
      BY <2>6, <3>2 DEF WaitCheck
    <3>3. CASE Goto(p, "rest") /\ KeepLocals
      BY <2>6, <3>3 DEF WaitCheck
    <3> QED
      BY <2>6, <3>1, <3>2, <3>3 DEF WaitCheck
  <2>7. CASE WaitStore(p)
    BY <2>7 DEF WaitStore
  <2>8. CASE WaitBlocked(p)
    BY <2>8 DEF WaitBlocked
  <2>9. CASE WaitExpire(p)
    BY <2>9 DEF WaitExpire
  <2>10. CASE WaitAgain(p)
    BY <2>10 DEF WaitAgain
  <2> QED BY ONLY <1>3, <2>1, <2>2, <2>3, <2>4, <2>5, <2>6, <2>7, <2>8, <2>9, <2>10 DEF WaitStep
<1>4. ASSUME NEW t \in Holders, AgentStep(t) PROVE SerialInv'
  <2>1. CASE AgentSignal(t)
    BY <2>1 DEF AgentSignal
  <2>2. CASE AgentRepeat(t)
    BY <2>2 DEF AgentRepeat
  <2>3. CASE AgentMark(t)
    BY <2>3 DEF AgentMark, Signalled
  <2> QED BY ONLY <1>4, <2>1, <2>2, <2>3 DEF AgentStep
<1>5. ASSUME NEW p \in Procs, Abort(p) PROVE SerialInv'
  BY <1>5 DEF Abort
<1>6. CASE LegacySave
  BY <1>6 DEF LegacySave
<1>7. CASE UNCHANGED vars
  BY <1>7 DEF vars
<1> QED
  BY <1>1, <1>2, <1>3, <1>4, <1>5, <1>6, <1>7 DEF Next

\* With one driver, no marker that any wait would accept predates the newest
\* request, wherever a start or a send was cut short: the order in which
\* phase_start and reopen_for_re_entry persist, sweep and launch is right.
THEOREM StaleNeverCompletes == ASSUME SerialUse PROVE Spec => []NoStaleCompletion
<1>1. SerialInv => NoStaleCompletion
  BY DEF SerialInv
<1>2. Init => SerialInv
  BY SerialInit
<1>3. TypeInv /\ SerialInv /\ [Next]_vars => SerialInv'
  BY SerialStep
<1> QED
  BY <1>1, <1>2, <1>3, TypeInit, TypeStep, PTL DEF Spec

\* With one driver, a tokened phase is recorded Done only while the agent in its
\* pane has nothing left to answer, whichever waits raced to record it
\* (phase_wait's evidence rule, which reaping relies on).
THEOREM DoneIsQuiet == ASSUME SerialUse PROVE Spec => []DoneMeansQuiet
<1>1. SerialInv => DoneMeansQuiet
  BY DEF SerialInv
<1>2. Init => SerialInv
  BY SerialInit
<1>3. TypeInv /\ SerialInv /\ [Next]_vars => SerialInv'
  BY SerialStep
<1> QED
  BY <1>1, <1>2, <1>3, TypeInit, TypeStep, PTL DEF Spec

\* With one driver, a wait that is about to record Done saw a marker made for the
\* newest request there was when the wait began, or for a later one.
THEOREM WaitIsAnswered == ASSUME SerialUse PROVE Spec => []WaitAnswersRequest
<1>1. TypeInv /\ SerialInv => WaitAnswersRequest
  BY DEF TypeInv, TypeOK, SerialInv, WindowInv, WaitInv, WaitAnswersRequest, WaitSteps, Passes, Procs
<1>2. Init => SerialInv
  BY SerialInit
<1>3. TypeInv /\ SerialInv /\ [Next]_vars => SerialInv'
  BY SerialStep
<1> QED
  BY <1>1, <1>2, <1>3, TypeInit, TypeStep, PTL DEF Spec

LEMMA ReEntryInit == Init => ReEntryInv
BY DEF ReEntryInv, Init, Procs, WaitSteps

\* Every step keeps what a running wait may conclude from the recorded pass.
LEMMA ReEntryStep ==
    SerialUse /\ TypeInv /\ SerialInv /\ ReEntryInv /\ [Next]_vars => ReEntryInv'
<1> SUFFICES ASSUME SerialUse, TypeInv, SerialInv, ReEntryInv, [Next]_vars PROVE ReEntryInv'
  OBVIOUS
<1> USE DEF SerialUse, SerialInv, WindowInv, AgentInv, StartInv, SendInv, WaitInv, ReEntryInv,
            TypeInv, TypeOK, Record, Markers, Passes, Holders, Procs, StartSteps, SendSteps,
            WaitSteps, Launching, Answered, Window, Undisturbed, files, world, locals, ghosts, KeepLocals,
            Goto, Return, Begin, Blank, NoMarker
<1>1. ASSUME NEW d \in Drivers, StartStep(d) PROVE ReEntryInv'
  <2>1. CASE StartBegin(d)
    BY <2>1 DEF StartBegin
  <2>2. CASE StartPersist(d)
    BY <2>2 DEF StartPersist
  <2>3. CASE StartSweep(d)
    BY <2>3 DEF StartSweep
  <2>4. CASE StartLaunch(d)
    BY <2>4 DEF StartLaunch
  <2>5. CASE StartCommit(d)
    BY <2>5 DEF StartCommit
  <2>6. CASE StartDiscard(d)
    BY <2>6 DEF StartDiscard
  <2> QED BY ONLY <1>1, <2>1, <2>2, <2>3, <2>4, <2>5, <2>6 DEF StartStep
<1>2. ASSUME NEW d \in Drivers, SendStep(d) PROVE ReEntryInv'
  <2>1. CASE SendBegin(d)
    BY <2>1 DEF SendBegin
  <2>2. CASE SendCapture(d)
    BY <2>2 DEF SendCapture
  <2>3. CASE SendCaptured(d)
    BY <2>3 DEF SendCaptured
  <2>4. CASE SendSweep(d)
    BY <2>4 DEF SendSweep
  <2>5. CASE SendSave(d)
    BY <2>5 DEF SendSave
  <2>6. CASE SendDelivered(d)
    BY <2>6 DEF SendDelivered
  <2>7. CASE BriefUndelivered(d)
    BY <2>7 DEF BriefUndelivered
  <2> QED BY ONLY <1>2, <2>1, <2>2, <2>3, <2>4, <2>5, <2>6, <2>7 DEF SendStep
<1>3. ASSUME NEW p \in Procs, WaitStep(p) PROVE ReEntryInv'
  <2>1. CASE WaitBegin(p)
    BY <2>1 DEF WaitBegin
  <2>2. CASE WaitRefused(p)
    BY <2>2 DEF WaitRefused
  <2>3. CASE WaitPoll(p)
    BY <2>3 DEF WaitPoll
  <2>4. CASE WaitCaptured(p)
    BY <2>4 DEF WaitCaptured
  <2>5. CASE WaitLook(p)
    BY <2>5 DEF WaitLook
  <2>6. CASE WaitCheck(p)
    BY <2>6 DEF WaitCheck
  <2>7. CASE WaitStore(p)
    BY <2>7 DEF WaitStore
  <2>8. CASE WaitBlocked(p)
    BY <2>8 DEF WaitBlocked
  <2>9. CASE WaitExpire(p)
    BY <2>9 DEF WaitExpire
  <2>10. CASE WaitAgain(p)
    BY <2>10 DEF WaitAgain
  <2> QED BY ONLY <1>3, <2>1, <2>2, <2>3, <2>4, <2>5, <2>6, <2>7, <2>8, <2>9, <2>10 DEF WaitStep
<1>4. ASSUME NEW t \in Holders, AgentStep(t) PROVE ReEntryInv'
  <2>1. CASE AgentSignal(t)
    BY <2>1 DEF AgentSignal
  <2>2. CASE AgentRepeat(t)
    BY <2>2 DEF AgentRepeat
  <2>3. CASE AgentMark(t)
    BY <2>3 DEF AgentMark, Signalled
  <2> QED BY ONLY <1>4, <2>1, <2>2, <2>3 DEF AgentStep
<1>5. ASSUME NEW p \in Procs, Abort(p) PROVE ReEntryInv'
  BY <1>5 DEF Abort
<1>6. CASE LegacySave
  BY <1>6 DEF LegacySave
<1>7. CASE UNCHANGED vars
  BY <1>7 DEF vars
<1> QED
  BY <1>1, <1>2, <1>3, <1>4, <1>5, <1>6, <1>7 DEF Next

\* Only a wait that classifies its pass says `superseded`, and it says so of a
\* recorded pass that is neither the awaited one nor lost.
LEMMA SupersededSource ==
    ASSUME TypeInv, [Next]_vars, NEW p \in Procs, verdict[p] = "none", verdict'[p] = "superseded"
    PROVE  pc[p] \in WaitSteps /\ disk.pass \notin {expected[p], NoPass}
<1> USE DEF TypeInv, TypeOK, Procs, locals, Goto, Return, Begin, KeepLocals, WaitSteps
<1>1. ASSUME NEW d \in Drivers, StartStep(d) \/ SendStep(d) PROVE FALSE
  BY <1>1 DEF StartStep, StartBegin, StartPersist, StartSweep, StartLaunch, StartCommit,
              StartDiscard, SendStep, SendBegin, SendCapture, SendCaptured, SendSweep, SendSave, SendDelivered,
              BriefUndelivered
<1>2. ASSUME NEW q \in Procs, WaitStep(q)
      PROVE  pc[p] \in WaitSteps /\ disk.pass \notin {expected[p], NoPass}
  <2>1. CASE WaitCheck(q)
    BY <2>1 DEF WaitCheck, PassDrift
  <2>2. CASE WaitExpire(q)
    BY <2>2 DEF WaitExpire, PassDrift
  <2>3. ASSUME ~WaitCheck(q), ~WaitExpire(q) PROVE FALSE
    BY <1>2, <2>3 DEF WaitStep, WaitBegin, WaitRefused, WaitPoll, WaitCaptured, WaitLook, WaitStore,
                      WaitBlocked, WaitAgain
  <2> QED
    BY <2>1, <2>2, <2>3
<1>3. ASSUME NEW q \in Procs, Abort(q) PROVE FALSE
  BY <1>3 DEF Abort
<1>4. ASSUME NEW t \in Holders, AgentStep(t) PROVE FALSE
  BY <1>4 DEF AgentStep, AgentSignal, AgentRepeat, AgentMark, Signalled
<1>5. ~LegacySave /\ ~UNCHANGED vars
  BY DEF LegacySave, vars
<1> QED
  BY <1>1, <1>2, <1>3, <1>4, <1>5 DEF Next

\* With one driver, `superseded` is only ever said of a pass that a later `phase
\* start` replaced: a token an old binary dropped is never taken for one
\* (PassDrift::between, and its two callers in phase_wait).
THEOREM SupersededIsReEntry == ASSUME SerialUse PROVE Spec => SupersededMeansReEntry
<1> DEFINE Justified == \A p \in Procs :
       verdict'[p] = "superseded" /\ pc[p] # "idle" /\ expected[p] # NoPass
           => starts > since[p].starts
<1>1. TypeInv /\ ReEntryInv /\ [Next]_vars => Justified
  <2> SUFFICES ASSUME TypeInv, ReEntryInv, [Next]_vars, NEW p \in Procs,
                      verdict'[p] = "superseded", pc[p] # "idle", expected[p] # NoPass
               PROVE  starts > since[p].starts
    OBVIOUS
  <2>1. verdict[p] = "none"
    BY DEF ReEntryInv
  <2>2. pc[p] \in WaitSteps /\ disk.pass \notin {expected[p], NoPass}
    BY <2>1, SupersededSource
  <2>3. since[p].starts <= starts /\ starts # since[p].starts
    BY <2>2 DEF ReEntryInv
  <2>4. starts \in Nat /\ since[p].starts \in Nat
    BY DEF TypeInv, TypeOK
  <2> QED
    BY <2>3, <2>4
<1>2. Init => TypeInv /\ SerialInv /\ ReEntryInv
  BY TypeInit, SerialInit, ReEntryInit
<1>3. TypeInv /\ SerialInv /\ ReEntryInv /\ [Next]_vars => TypeInv' /\ SerialInv' /\ ReEntryInv'
  BY TypeStep, SerialStep, ReEntryStep
<1> QED
  BY <1>1, <1>2, <1>3, PTL DEF Spec, SupersededMeansReEntry

=============================================================================
