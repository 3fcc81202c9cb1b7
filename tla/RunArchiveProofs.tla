--------------------------- MODULE RunArchiveProofs ---------------------------
(***************************************************************************)
(* For any commands, workspaces and bounds: the type invariant of          *)
(* RunArchive, that a decision of the human is turned round only by a race *)
(* or by a save that does not look, that no workspace is made for a run    *)
(* archived from before, that state.json never names a workspace that was  *)
(* given back, and that no workspace that stands is forgotten but for a    *)
(* cause.                                                                  *)
(***************************************************************************)
EXTENDS RunArchive, TLAPS

USE ArchiveAssumption DEF ArchiveAssumption

\* The command whose repair is at stake holds the workspace it created.
Holding(p) == cmd[p].at = "reclaim" \/ (cmd[p].at \in {"reread", "write"} /\ cmd[p].why = "repair")
HoldsWhatItMade == \A p \in Procs : Holding(p) => cmd[p].hand \in Workspaces
TypeInv == TypeOK /\ HoldsWhatItMade
\* What keeps the type invariant when a command becomes c.
Sound(c) ==
    /\ c \in Commands
    /\ c.at = "reclaim" \/ (c.at \in {"reread", "write"} /\ c.why = "repair") => c.hand \in Workspaces

LEMMA IdleSound == Sound(Idle)
  BY DEF Sound, Idle, Missing, Commands, File, Steps, Reasons, Plain

\* A save that is decided on is a command with a draft and a reason.
LEMMA SavesSound ==
    ASSUME NEW c \in Commands, NEW d \in File, NEW reason \in Reasons,
           reason = "repair" => c.hand \in Workspaces
    PROVE  Sound(Saves(c, d, reason))
<1> DEFINE at == IF reason \in Plain THEN "write" ELSE "reread"
<1>1. at \in Steps /\ at \in {"write", "reread"}
  BY DEF Steps
<1> HIDE DEF at
<1>2. [c EXCEPT !.at = at, !.draft = d, !.why = reason] \in Commands
  BY <1>1 DEF Commands
<1>3. Saves(c, d, reason) = [c EXCEPT !.at = at, !.draft = d, !.why = reason]
  BY DEF Saves, at
<1> QED
  BY <1>1, <1>2, <1>3 DEF Sound, Commands

\* A refusal holds nothing.
LEMMA RefusedSound == ASSUME NEW c \in Commands PROVE Sound(Refused(c))
<1>1. CASE c.op = "panel"
  BY <1>1 DEF Refused, Sound, Commands, Steps
<1>2. CASE c.op # "panel"
  BY <1>2, IdleSound DEF Refused
<1> QED
  BY <1>1, <1>2

\* What a save leads to, done or failed.
LEMMA DoneSound == ASSUME NEW c \in Commands PROVE Sound(Done(c))
<1>1. Sound([c EXCEPT !.at = "ready"]) /\ Sound([c EXCEPT !.at = "launch"])
      /\ Sound([c EXCEPT !.at = "brief"]) /\ Sound([c EXCEPT !.at = "next"])
      /\ Sound([c EXCEPT !.at = "deliver"])
  BY DEF Sound, Commands, Steps
<1>2. Sound(Saves(c, c.copy, "merge"))
  BY SavesSound DEF Commands, Reasons
<1>3. Sound(Refused(c)) /\ Sound(Idle)
  BY RefusedSound, IdleSound
<1> QED
  BY <1>1, <1>2, <1>3 DEF Done

LEMMA FailedSound ==
    ASSUME NEW c \in Commands, c.why = "repair" => c.hand \in Workspaces
    PROVE  Sound(Failed(c))
<1> DEFINE u == [c EXCEPT !.copy = Undone(c)]
<1>1. u \in Commands /\ u.copy \in File /\ u.hand = c.hand
  BY DEF Undone, Commands
<1>2. CASE c.why = "repair"
  BY <1>1, <1>2 DEF Failed, Sound, Commands, Steps
<1>3. CASE c.why = "last"
  <2>1. Sound(Saves(u, u.copy, "merge"))
    BY <1>1, SavesSound DEF Reasons
  <2> QED
    BY <1>3, <2>1 DEF Failed
<1>4. CASE c.why = "merge"
  BY <1>4, IdleSound DEF Failed
<1>5. CASE c.why = "reopen"
  <2>1. [u.copy EXCEPT !.phase = "Failed"] \in File
    BY <1>1 DEF File
  <2> HIDE DEF u
  <2>2. Sound(Unbriefed(u))
    BY <1>1, <2>1, SavesSound DEF Unbriefed, Reasons, Plain
  <2> QED
    BY <1>5, <2>2 DEF Failed, u
<1>6. CASE c.why \notin {"repair", "last", "merge", "reopen"}
  <2>1. Sound(Refused(u))
    BY <1>1, RefusedSound
  <2> QED
    BY <1>6, <2>1 DEF Failed
<1> QED
  BY <1>2, <1>3, <1>4, <1>5, <1>6

\* One who looks on keeps its place and its workspace.
LEMMA PassedSound ==
    ASSUME TypeInv, NEW q \in Procs, NEW f \in File PROVE Sound(Passed(q, f))
<1>1. cmd[q] \in Commands /\ Sound(cmd[q])
  BY DEF TypeInv, TypeOK, HoldsWhatItMade, Holding, Sound
<1>2. disk \in File
  BY DEF TypeInv, TypeOK
<1>3. CASE cmd[q].at = "idle"
  BY <1>1, <1>3 DEF Passed
<1>4. CASE cmd[q].at # "idle"
  <2> DEFINE m == cmd[q].missed \/ ~ disk.there \/ f.archived # disk.archived
             o == cmd[q].open \/ ~ f.archived
  <2>1. m \in BOOLEAN /\ o \in BOOLEAN
    OBVIOUS
  <2>2. Passed(q, f) = [cmd[q] EXCEPT !.stale = TRUE, !.missed = m, !.open = o]
    BY <1>1, <1>4 DEF Passed, Commands
  <2> HIDE DEF m, o
  <2> QED
    BY <1>1, <2>1, <2>2 DEF Sound, Commands
<1> QED
  BY <1>3, <1>4

\* A step of one command, which becomes c.
LEMMA OneSteps ==
    ASSUME TypeInv, NEW p \in Procs, NEW c, Sound(c), cmd' = [cmd EXCEPT ![p] = c],
           disk' \in File, ws' \in [Workspaces -> {"unborn", "live", "closed"}],
           foreign' \subseteq Workspaces, calls' \in Nat, trouble' \in Nat,
           excused' \subseteq Workspaces \cup {None}, reclaimed' \subseteq Workspaces,
           decision' \in BOOLEAN
    PROVE  TypeInv'
<1>1. cmd' \in [Procs -> Commands]
  BY DEF TypeInv, TypeOK, Sound
<1>2. HoldsWhatItMade'
  BY <1>1 DEF TypeInv, TypeOK, HoldsWhatItMade, Holding, Sound
<1> QED
  BY <1>1, <1>2 DEF TypeInv, TypeOK

\* What the types say of one command.
LEMMA CommandTyped ==
    ASSUME TypeInv, NEW p \in Procs
    PROVE  /\ cmd[p] \in Commands /\ Sound(cmd[p])
           /\ cmd[p].copy \in File /\ cmd[p].draft \in File /\ disk \in File
           /\ cmd[p].why \in Reasons
  BY DEF TypeInv, TypeOK, HoldsWhatItMade, Holding, Sound, Commands

\* The one look at the file that a save takes.
LEMMA RereadType == ASSUME TypeInv, NEW p \in Procs, Reread(p) PROVE TypeInv'
<1> DEFINE c == cmd[p]
           s == c.stale /\ c.why \notin {"decide", "merge"}
           d == CASE c.why = "decide" -> Decided(c)
                  [] c.why = "merge"  -> disk
                  [] OTHER            -> Preserving(c.draft)
           r == [c EXCEPT !.at = "write", !.missed = FALSE, !.stale = s, !.draft = d]
<1>1. c \in Commands /\ Sound(c) /\ disk \in File
  BY CommandTyped
<1>2. d \in File
  BY <1>1 DEF Decided, Preserving, Commands, File
<1>3. s \in BOOLEAN
  OBVIOUS
<1>4. CASE c.why = "merge" /\ ~ disk.there
  BY <1>4, IdleSound, OneSteps DEF Reread, TypeInv, TypeOK, bounds, ghosts
<1>5. CASE ~ (c.why = "merge" /\ ~ disk.there)
  <2>1. cmd' = [cmd EXCEPT ![p] = r]
    BY <1>1, <1>5 DEF Reread, TypeInv, TypeOK, Commands
  <2> HIDE DEF d, s
  <2>2. Sound(r)
    BY <1>1, <1>2, <1>3 DEF Sound, Commands, Steps, Reread
  <2> QED
    BY <2>1, <2>2, OneSteps DEF Reread, TypeInv, TypeOK, bounds, ghosts
<1> QED
  BY <1>4, <1>5

\* A write changes the file, the writer, and what the others have missed.
LEMMA WriteType == ASSUME TypeInv, NEW p \in Procs, Write(p) PROVE TypeInv'
<1> DEFINE c == cmd[p]
           f == [c.draft EXCEPT !.there = TRUE]
           ok == [c EXCEPT !.copy = f, !.hand = None, !.stale = FALSE]
<1>1. c \in Commands /\ Sound(c) /\ disk \in File /\ c.at = "write"
  BY CommandTyped DEF Write
<1>2. f \in File
  BY <1>1 DEF Commands, File
<1>3. CASE /\ disk' = f
           /\ cmd' = [q \in Procs |-> IF q = p THEN Done(ok) ELSE Passed(q, f)]
           /\ decision' = IF c.why = "decide" \/ ~ disk.there THEN f.archived ELSE decision
           /\ excused' = IF c.stale /\ disk.ws # f.ws THEN excused \cup {disk.ws} ELSE excused
           /\ UNCHANGED trouble
  <2>1. ok \in Commands
    BY <1>1, <1>2 DEF Commands
  <2>2. Sound(Done(ok)) /\ \A q \in Procs : Sound(Passed(q, f))
    BY <1>2, <2>1, DoneSound, PassedSound
  <2>3. \A q \in Procs : Sound(cmd'[q])
    BY <1>3, <2>2
  <2>4. cmd' \in [Procs -> Commands]
    BY <1>3, <2>2 DEF Sound
  <2>5. HoldsWhatItMade'
    BY <2>3 DEF HoldsWhatItMade, Holding, Sound
  <2>6. decision' \in BOOLEAN
    <3>1. f.archived \in BOOLEAN /\ decision \in BOOLEAN
      BY <1>2 DEF TypeInv, TypeOK, File
    <3> HIDE DEF f
    <3> QED
      BY <1>3, <3>1
  <2>7. excused' \subseteq Workspaces \cup {None}
    <3>1. disk.ws \in Workspaces \cup {None} /\ excused \subseteq Workspaces \cup {None}
      BY <1>1 DEF TypeInv, TypeOK, File
    <3> HIDE DEF f, ok
    <3> QED
      BY <1>3, <3>1
  <2> QED
    BY <1>2, <1>3, <2>4, <2>5, <2>6, <2>7 DEF TypeInv, TypeOK, Write
<1>4. CASE /\ trouble' = trouble + 1
           /\ cmd' = [cmd EXCEPT ![p] = Failed(c)]
           /\ UNCHANGED <<disk, decision, excused>>
  <2>1. Sound(Failed(c))
    BY <1>1, FailedSound DEF Sound
  <2>2. UNCHANGED <<disk, ws, foreign, calls, excused, reclaimed, decision>>
    BY <1>4 DEF Write
  <2>3. trouble' \in Nat
    BY <1>4 DEF TypeInv, TypeOK
  <2> HIDE DEF c
  <2> QED
    BY <1>4, <2>1, <2>2, <2>3, OneSteps DEF TypeInv, TypeOK
<1> QED
  BY <1>3, <1>4 DEF Write

\* ensure_workspace: the look, the flag, the replacement and its reclaim.
LEMMA EnsureType ==
    ASSUME TypeInv, NEW p \in Procs, Exists(p) \/ Refresh(p) \/ Create(p) \/ Reclaim(p)
    PROVE  TypeInv'
<1> DEFINE c == cmd[p]
<1>1. c \in Commands /\ Sound(c) /\ c.copy \in File /\ disk \in File
  BY CommandTyped
<1>2. CASE Exists(p)
  <2>1. PICK at \in {"ready", "refresh"}, o \in BOOLEAN, t \in Nat :
           /\ cmd' = [cmd EXCEPT ![p] = [c EXCEPT !.at = at, !.open = o]]
           /\ trouble' = t
    <3>1. PICK unknown \in BOOLEAN :
             /\ trouble' = IF unknown THEN trouble + 1 ELSE trouble
             /\ cmd' = [cmd EXCEPT ![p] =
                  [c EXCEPT !.at = IF Alive(c.copy.ws) \/ unknown THEN "ready" ELSE "refresh",
                            !.open = ~ disk.archived]]
      BY <1>2, Zenon DEF Exists, TypeInv, TypeOK
    <3>2. (IF unknown THEN trouble + 1 ELSE trouble) \in Nat
      BY DEF TypeInv, TypeOK
    <3>3. (IF Alive(c.copy.ws) \/ unknown THEN "ready" ELSE "refresh") \in {"ready", "refresh"}
      OBVIOUS
    <3>4. (~ disk.archived) \in BOOLEAN
      OBVIOUS
    <3> QED
      BY <3>1, <3>2, <3>3, <3>4, Zenon
  <2>2. Sound([c EXCEPT !.at = at, !.open = o])
    BY <1>1, <2>1 DEF Sound, Commands, Steps
  <2> QED
    BY <1>2, <2>1, <2>2, OneSteps DEF Exists, TypeInv, TypeOK, ghosts
<1>3. CASE Refresh(p)
  <2>1. Sound(Refused(c)) /\ Sound([c EXCEPT !.at = "create"])
    BY <1>1, RefusedSound DEF Sound, Commands, Steps
  <2>2. PICK d : Sound(d) /\ cmd' = [cmd EXCEPT ![p] = d]
    BY <1>3, <2>1 DEF Refresh
  <2> QED
    BY <1>3, <2>2, OneSteps DEF Refresh, TypeInv, TypeOK, ghosts, bounds
<1>4. CASE Create(p)
  <2>1. CASE /\ trouble' = trouble + 1
             /\ cmd' = [cmd EXCEPT ![p] = Refused(@)]
             /\ UNCHANGED ws
    <3>1. Sound(Refused(c))
      BY <1>1, RefusedSound
    <3>2. UNCHANGED <<disk, foreign, calls, ghosts>>
      BY <1>4 DEF Create
    <3>3. trouble' \in Nat /\ cmd' = [cmd EXCEPT ![p] = Refused(c)]
      BY <2>1 DEF TypeInv, TypeOK
    <3> HIDE DEF c
    <3> QED
      BY <2>1, <3>1, <3>2, <3>3, OneSteps DEF TypeInv, TypeOK, ghosts
  <2>2. CASE \E w \in Workspaces :
                /\ ws[w] = "unborn" /\ ws' = [ws EXCEPT ![w] = "live"]
                /\ cmd' = [cmd EXCEPT ![p] =
                             [Saves(@, Repaired(@.copy, w), "repair") EXCEPT !.hand = w]]
                /\ UNCHANGED trouble
    <3>1. PICK w \in Workspaces :
                /\ ws' = [ws EXCEPT ![w] = "live"]
                /\ cmd' = [cmd EXCEPT ![p] =
                             [Saves(@, Repaired(@.copy, w), "repair") EXCEPT !.hand = w]]
                /\ UNCHANGED trouble
      BY <2>2
    <3> DEFINE d == Repaired(c.copy, w)
    <3>2. d \in File
      BY <1>1 DEF Repaired, File
    <3>3. [c EXCEPT !.at = "reread", !.draft = d, !.why = "repair", !.hand = w]
          = [Saves(c, d, "repair") EXCEPT !.hand = w]
      BY <1>1 DEF Saves, Plain, Commands
    <3> HIDE DEF d
    <3>4. Sound([c EXCEPT !.at = "reread", !.draft = d, !.why = "repair", !.hand = w])
      BY <1>1, <3>2 DEF Sound, Commands, Steps, Reasons
    <3>5. cmd' = [cmd EXCEPT ![p] = [Saves(c, d, "repair") EXCEPT !.hand = w]]
      BY <3>1 DEF d
    <3> QED
      BY <1>4, <3>1, <3>3, <3>4, <3>5, OneSteps DEF Create, TypeInv, TypeOK, ghosts
  <2> QED
    BY <1>4, <2>1, <2>2 DEF Create
<1>5. CASE Reclaim(p)
  <2>1. c.hand \in Workspaces /\ Sound(Refused(c))
    BY <1>1, <1>5, RefusedSound DEF Reclaim, Sound
  <2>2. /\ ws' \in [Workspaces -> {"unborn", "live", "closed"}] /\ trouble' \in Nat
        /\ excused' \subseteq Workspaces \cup {None} /\ reclaimed' \subseteq Workspaces
    BY <1>5, <2>1 DEF Reclaim, GivesBack, Closes, TypeInv, TypeOK
  <2> QED
    BY <1>5, <2>1, <2>2, OneSteps DEF Reclaim, TypeInv, TypeOK
<1> QED
  BY <1>2, <1>3, <1>4, <1>5

\* What a command goes on to that has read the file, or neither read nor written it.
LEMMA CommandType ==
    ASSUME TypeInv, NEW p \in Procs,
           Gate(p) \/ Ready(p) \/ Launch(p) \/ Brief(p) \/ Deliver(p) \/ NextReviewer(p)
    PROVE  TypeInv'
<1> DEFINE c == cmd[p]
<1>1. c \in Commands /\ Sound(c) /\ c.copy \in File /\ disk \in File
  BY CommandTyped
<1>2. Sound(Refused(c)) /\ Sound(Idle)
  BY <1>1, RefusedSound, IdleSound
<1>3. \A reason \in {"merge", "discard", "launched", "rehydrate", "last", "mark", "reopen", "unbriefed"} :
         /\ Sound(Saves(c, c.copy, reason))
         /\ \A s \in {"Running", "Failed"} : Sound(Saves(c, [c.copy EXCEPT !.phase = s], reason))
  <2> SUFFICES ASSUME NEW reason \in {"merge", "discard", "launched", "rehydrate", "last", "mark",
                                      "reopen", "unbriefed"}
               PROVE  /\ Sound(Saves(c, c.copy, reason))
                      /\ \A s \in {"Running", "Failed"} :
                            Sound(Saves(c, [c.copy EXCEPT !.phase = s], reason))
    OBVIOUS
  <2>1. reason \in Reasons /\ reason # "repair"
    BY DEF Reasons, Plain
  <2>2. \A s \in {"Running", "Failed"} : [c.copy EXCEPT !.phase = s] \in File
    BY <1>1 DEF File
  <2> HIDE DEF c
  <2> QED
    BY <1>1, <2>1, <2>2, SavesSound
<1>4. \A at \in {"launch", "exists"} : Sound([c EXCEPT !.at = at])
  BY <1>1 DEF Sound, Commands, Steps
<1>5. ASSUME NEW d, Sound(d), cmd' = [cmd EXCEPT ![p] = d], trouble' \in Nat,
             UNCHANGED <<disk, ws, foreign, calls, excused, reclaimed, decision>>
      PROVE  TypeInv'
  <2> HIDE DEF c
  <2> QED
    BY <1>5, OneSteps DEF TypeInv, TypeOK
<1>6. trouble + 1 \in Nat /\ trouble \in Nat
  BY DEF TypeInv, TypeOK
<1>7. CASE Gate(p)
  <2> DEFINE a == Archived(c)
             r == [c EXCEPT !.at = "exists", !.copy.archived = a]
  <2>1. a \in BOOLEAN
    BY <1>1 DEF Archived, File
  <2>2. cmd' = [cmd EXCEPT ![p] = IF a THEN Saves(c, c.copy, "merge") ELSE r]
    BY <1>7 DEF Gate
  <2> HIDE DEF a
  <2>3. Sound(r)
    BY <1>1, <2>1 DEF Sound, Commands, Steps, File
  <2>4. PICK d : Sound(d) /\ cmd' = [cmd EXCEPT ![p] = d]
    BY <1>3, <2>2, <2>3
  <2> QED
    BY <1>5, <1>6, <1>7, <2>4 DEF Gate, bounds, ghosts
<1>8. CASE Ready(p)
  <2>1. PICK d : Sound(d) /\ cmd' = [cmd EXCEPT ![p] = d]
    BY <1>2, <1>3, <1>4, <1>8 DEF Ready
  <2> QED
    BY <1>5, <1>6, <1>8, <2>1 DEF Ready, bounds, ghosts
<1>9. CASE Launch(p)
  <2>1. PICK d : Sound(d) /\ cmd' = [cmd EXCEPT ![p] = d]
    BY <1>2, <1>3, <1>9 DEF Launch
  <2>2. trouble' \in Nat
    BY <1>6, <1>9 DEF Launch
  <2> QED
    BY <1>5, <1>9, <2>1, <2>2 DEF Launch, ghosts
<1>10. CASE Brief(p)
  <2>1. PICK d : Sound(d) /\ cmd' = [cmd EXCEPT ![p] = d]
    BY <1>3, <1>10 DEF Brief, Unbriefed
  <2>2. trouble' \in Nat
    BY <1>6, <1>10 DEF Brief
  <2> QED
    BY <1>5, <1>10, <2>1, <2>2 DEF Brief, ghosts
<1>11. CASE Deliver(p)
  <2>1. PICK d : Sound(d) /\ cmd' = [cmd EXCEPT ![p] = d]
    BY <1>2, <1>3, <1>11 DEF Deliver, Unbriefed
  <2>2. trouble' \in Nat
    BY <1>6, <1>11 DEF Deliver
  <2> QED
    BY <1>5, <1>11, <2>1, <2>2 DEF Deliver, ghosts
<1>12. CASE NextReviewer(p)
  <2>1. PICK d : Sound(d) /\ cmd' = [cmd EXCEPT ![p] = d]
    BY <1>3, <1>4, <1>12 DEF NextReviewer
  <2> QED
    BY <1>5, <1>6, <1>12, <2>1 DEF NextReviewer, bounds, ghosts
<1> QED
  BY <1>7, <1>8, <1>9, <1>10, <1>11, <1>12

\* The first read, the close of a workspace and the removal of the run.
LEMMA ClickType ==
    ASSUME TypeInv, NEW p \in Procs, (\E op \in Ops : Load(p, op)) \/ Close(p) \/ Remove(p)
    PROVE  TypeInv'
<1> DEFINE c == cmd[p]
<1>1. c \in Commands /\ Sound(c) /\ c.copy \in File /\ disk \in File
  BY CommandTyped
<1>2. CASE \E op \in Ops : Load(p, op)
  <2>1. PICK op \in Ops : Load(p, op)
    BY <1>2
  <2> DEFINE at == Begins(op)
             why == IF op = "restore" THEN "decide" ELSE "none"
             r == [Idle EXCEPT !.op = op, !.at = at, !.copy = disk, !.why = why]
  <2>2. at \in Steps \ {"reclaim"} /\ why \in {"decide", "none"}
    BY DEF Begins, Steps
  <2>3. cmd' = [cmd EXCEPT ![p] = r]
    BY <2>1 DEF Load
  <2>4. calls' \in Nat /\ UNCHANGED <<disk, ws, foreign, trouble, excused, reclaimed, decision>>
    <3>1. calls' = calls + 1 /\ UNCHANGED <<disk, ws, foreign, trouble, ghosts>>
      BY <2>1 DEF Load
    <3> QED
      BY <3>1 DEF TypeInv, TypeOK, ghosts
  <2> HIDE DEF at, why
  <2>5. Idle \in Commands
    BY IdleSound DEF Sound
  <2>6. op \in Ops \cup {"none"} /\ at \in Steps /\ why \in Reasons
    BY <2>1, <2>2 DEF Reasons, Plain
  <2>7. r \in Commands /\ r.at = at /\ r.why = why
    BY <1>1, <2>5, <2>6 DEF Commands
  <2>8. Sound(r)
    BY <2>2, <2>7 DEF Sound
  <2> HIDE DEF r
  <2> QED
    BY <2>3, <2>4, <2>8, OneSteps DEF TypeInv, TypeOK
<1>3. CASE Close(p)
  <2>1. Sound([c EXCEPT !.at = "remove"]) /\ Sound(Saves(c, c.copy, "decide"))
    BY <1>1, SavesSound DEF Sound, Commands, Steps, Reasons
  <2>2. PICK d : Sound(d) /\ cmd' = [cmd EXCEPT ![p] = d]
    BY <1>3, <2>1 DEF Close
  <2>3. ws' \in [Workspaces -> {"unborn", "live", "closed"}] /\ trouble' \in Nat
    BY <1>3 DEF Close, Closes, TypeInv, TypeOK
  <2> QED
    BY <1>3, <2>2, <2>3, OneSteps DEF Close, TypeInv, TypeOK, ghosts
<1>4. CASE Remove(p)
  <2>1. Missing \in File
    BY DEF Missing, File
  <2>2. \A q \in Procs : Sound(cmd'[q])
    BY <1>4, <2>1, IdleSound, PassedSound DEF Remove
  <2>3. cmd' \in [Procs -> Commands]
    BY <1>4, <2>1, IdleSound, PassedSound DEF Remove, Sound
  <2>4. HoldsWhatItMade'
    BY <2>2 DEF HoldsWhatItMade, Holding, Sound
  <2>5. excused' \subseteq Workspaces \cup {None}
    BY <1>1, <1>4 DEF Remove, TypeInv, TypeOK, File
  <2> QED
    BY <1>4, <2>1, <2>3, <2>4, <2>5 DEF Remove, TypeInv, TypeOK, bounds
<1> QED
  BY <1>2, <1>3, <1>4

\* Kills, workspaces that vanish, and the human's panes.
LEMMA AroundType ==
    ASSUME TypeInv,
           \/ \E p \in Procs : Kill(p)
           \/ \E w \in Workspaces : Vanish(w) \/ OpenPane(w)
    PROVE  TypeInv'
<1>1. ASSUME NEW p \in Procs, Kill(p) PROVE TypeInv'
  <2>1. trouble' \in Nat /\ excused' \subseteq Workspaces \cup {None}
    BY <1>1, CommandTyped DEF Kill, Trouble, TypeInv, TypeOK, Commands
  <2> QED
    BY <1>1, <2>1, IdleSound, OneSteps DEF Kill, TypeInv, TypeOK
<1>2. ASSUME NEW w \in Workspaces, Vanish(w) PROVE TypeInv'
  BY <1>2 DEF Vanish, Trouble, Closes, TypeInv, TypeOK, HoldsWhatItMade, Holding, ghosts
<1>3. ASSUME NEW w \in Workspaces, OpenPane(w) PROVE TypeInv'
  BY <1>3 DEF OpenPane, Trouble, TypeInv, TypeOK, HoldsWhatItMade, Holding, ghosts
<1> QED
  BY <1>1, <1>2, <1>3

LEMMA TypeStep == TypeInv /\ [Next]_vars => TypeInv'
<1> SUFFICES ASSUME TypeInv, [Next]_vars PROVE TypeInv'
  OBVIOUS
<1>1. ASSUME NEW p \in Procs, Step(p) PROVE TypeInv'
  BY <1>1, RereadType, WriteType, EnsureType, CommandType, ClickType DEF Step
<1>2. CASE \E p \in Procs : \E op \in Ops : Load(p, op)
  BY <1>2, ClickType
<1>3. CASE \/ \E p \in Procs : Kill(p)
           \/ \E w \in Workspaces : Vanish(w) \/ OpenPane(w)
  BY <1>3, AroundType
<1>4. CASE UNCHANGED vars
  BY <1>4 DEF vars, bounds, ghosts, TypeInv, TypeOK, HoldsWhatItMade, Holding
<1> QED
  BY <1>1, <1>2, <1>3, <1>4 DEF Next

LEMMA TypeInit == Init => TypeInv
<1> SUFFICES ASSUME Init PROVE TypeInv
  OBVIOUS
<1>1. disk \in File /\ ws \in [Workspaces -> {"unborn", "live", "closed"}]
  BY DEF Init, File
<1>2. cmd \in [Procs -> Commands]
  BY IdleSound DEF Init, Sound
<1>3. HoldsWhatItMade
  BY DEF Init, HoldsWhatItMade, Holding, Idle
<1> QED
  BY <1>1, <1>2, <1>3 DEF Init, TypeInv, TypeOK

LEMMA Typed == Spec => []TypeInv
  BY TypeInit, TypeStep, PTL DEF Spec

\* Whatever is run and clicked at once, killed, or refused by herdr or the disk,
\* the file, herdr and every command hold what the code can put there.
THEOREM TypeCorrect == Spec => []TypeOK
<1>1. TypeInv => TypeOK
  BY DEF TypeInv
<1> QED
  BY <1>1, Typed, PTL

-----------------------------------------------------------------------------
(* What a command knows of the flag *)

\* With file f: who is about to create a workspace has seen the run not archived,
\* or finds in the file that it is; who is about to write after a look of its own
\* at the flag, and has missed nothing since, writes the file's.
Looked(c, f) ==
    /\ c.at = "create" => c.open
    /\ c.at = "refresh" /\ ~ c.open => f.there /\ f.archived
    /\ c.at = "write" /\ c.why \notin Plain \cup {"decide"} /\ ~ c.missed /\ f.there
          => c.draft.archived = f.archived
LookInv == /\ ~ disk.there => disk = Missing
           /\ \A p \in Procs : Looked(cmd[p], disk)

\* A command of which Looked asks nothing.
Quiet(c) == /\ c.at \notin {"create", "refresh"}
            /\ c.at = "write" => c.why \in Plain \cup {"decide"}

LEMMA QuietLooks == ASSUME NEW c, NEW f, Quiet(c) PROVE Looked(c, f)
  BY DEF Quiet, Looked

LEMMA IdleQuiet == Quiet(Idle)
  BY DEF Quiet, Idle

LEMMA SavesQuiet ==
    ASSUME NEW c \in Commands, NEW d, NEW reason PROVE Quiet(Saves(c, d, reason))
<1> DEFINE at == IF reason \in Plain THEN "write" ELSE "reread"
<1>1. at \notin {"create", "refresh"} /\ (at = "write" => reason \in Plain)
  OBVIOUS
<1>2. Saves(c, d, reason) = [c EXCEPT !.at = at, !.draft = d, !.why = reason]
  BY DEF Saves
<1> HIDE DEF at
<1>3. Saves(c, d, reason).at = at /\ Saves(c, d, reason).why = reason
  BY <1>2 DEF Commands
<1> QED
  BY <1>1, <1>3 DEF Quiet

LEMMA AtQuiet ==
    ASSUME NEW c \in Commands,
           NEW at \in {"ready", "launch", "brief", "deliver", "next", "reclaim", "exists", "remove"}
    PROVE  Quiet([c EXCEPT !.at = at]) /\ Quiet([c EXCEPT !.at = at, !.hand = None])
  BY DEF Quiet, Commands

LEMMA RefusedQuiet == ASSUME NEW c \in Commands PROVE Quiet(Refused(c))
  BY AtQuiet, IdleQuiet DEF Refused

LEMMA DoneQuiet == ASSUME NEW c \in Commands PROVE Quiet(Done(c))
<1>1. Quiet(Saves(c, c.copy, "merge")) /\ Quiet(Refused(c)) /\ Quiet(Idle)
  BY SavesQuiet, RefusedQuiet, IdleQuiet
<1> QED
  BY <1>1, AtQuiet DEF Done

LEMMA FailedQuiet == ASSUME NEW c \in Commands PROVE Quiet(Failed(c))
<1> DEFINE u == [c EXCEPT !.copy = Undone(c)]
<1>1. u \in Commands
  BY DEF Undone, Commands
<1> HIDE DEF u
<1>2. Quiet(Saves(u, u.copy, "merge")) /\ Quiet(Refused(u)) /\ Quiet(Idle)
      /\ Quiet([u EXCEPT !.at = "reclaim"]) /\ Quiet(Unbriefed(u))
  BY <1>1, SavesQuiet, RefusedQuiet, IdleQuiet, AtQuiet DEF Unbriefed
<1> QED
  BY <1>2 DEF Failed, u

\* A step of one command that leaves the file alone.
LEMMA LookStays ==
    ASSUME TypeInv, LookInv, NEW p \in Procs, NEW c, Looked(c, disk),
           cmd' = [cmd EXCEPT ![p] = c], disk' = disk
    PROVE  LookInv'
  BY DEF LookInv, TypeInv, TypeOK

\* One who looks on knows of every change of the flag that it has missed.
LEMMA PassedLooks ==
    ASSUME TypeInv, LookInv, NEW q \in Procs, NEW f \in File, ~ f.there => ~ f.archived
    PROVE  Looked(Passed(q, f), f)
<1> DEFINE c == cmd[q]
           m == c.missed \/ ~ disk.there \/ f.archived # disk.archived
           o == c.open \/ ~ f.archived
           r == [c EXCEPT !.stale = TRUE, !.missed = m, !.open = o]
<1>1. c \in Commands /\ Looked(c, disk)
  BY CommandTyped DEF LookInv
<1>2. CASE c.at = "idle"
  BY <1>2 DEF Passed, Looked
<1>3. CASE c.at # "idle"
  <2>1. Passed(q, f) = r
    BY <1>1, <1>3 DEF Passed, Commands
  <2>2. m \in BOOLEAN /\ o \in BOOLEAN
    OBVIOUS
  <2>3. (~ m => disk.there /\ f.archived = disk.archived /\ ~ c.missed)
        /\ (~ o => f.archived /\ ~ c.open)
    OBVIOUS
  <2> HIDE DEF m, o
  <2>4. /\ r.at = c.at /\ r.why = c.why /\ r.draft = c.draft
        /\ r.missed = m /\ r.open = o
    BY <1>1 DEF Commands
  <2>5. r.at = "create" => r.open
    <3>1. c.open => o
      BY DEF o
    <3> QED
      BY <1>1, <2>4, <3>1 DEF Looked
  <2>6. r.at = "refresh" /\ ~ r.open => f.there /\ f.archived
    BY <2>3, <2>4
  <2>7. r.at = "write" /\ r.why \notin Plain \cup {"decide"} /\ ~ r.missed /\ f.there
           => r.draft.archived = f.archived
    BY <1>1, <2>3, <2>4 DEF Looked
  <2> HIDE DEF r
  <2> QED
    BY <2>1, <2>5, <2>6, <2>7 DEF Looked
<1> QED
  BY <1>2, <1>3

\* The look that comes before a save is what makes its flag the file's.
LEMMA RereadLooks == ASSUME TypeInv, LookInv, NEW p \in Procs, Reread(p) PROVE LookInv'
<1> DEFINE c == cmd[p]
           s == c.stale /\ c.why \notin {"decide", "merge"}
           d == CASE c.why = "decide" -> Decided(c)
                  [] c.why = "merge"  -> disk
                  [] OTHER            -> Preserving(c.draft)
           r == [c EXCEPT !.at = "write", !.missed = FALSE, !.stale = s, !.draft = d]
<1>1. c \in Commands /\ disk \in File /\ c.draft \in File /\ c.why \in Reasons
  BY CommandTyped
<1>2. disk' = disk
  BY DEF Reread
<1>3. CASE c.why = "merge" /\ ~ disk.there
  BY <1>2, <1>3, IdleQuiet, QuietLooks, LookStays DEF Reread
<1>4. CASE ~ (c.why = "merge" /\ ~ disk.there)
  <2>1. cmd' = [cmd EXCEPT ![p] = r]
    BY <1>1, <1>4 DEF Reread, TypeInv, TypeOK, Commands
  <2>2. c.why # "decide" /\ disk.there => d.archived = disk.archived
    BY <1>1 DEF Preserving, File
  <2> HIDE DEF d, s
  <2>3. r.at = "write" /\ r.why = c.why /\ r.draft = d
    BY <1>1 DEF Commands
  <2>4. Looked(r, disk)
    BY <2>2, <2>3 DEF Looked
  <2> HIDE DEF r
  <2> QED
    BY <1>2, <2>1, <2>4, LookStays
<1> QED
  BY <1>3, <1>4

\* A write tells those that are about to write what they missed.
LEMMA WriteLooks == ASSUME TypeInv, LookInv, NEW p \in Procs, Write(p) PROVE LookInv'
<1> DEFINE c == cmd[p]
           f == [c.draft EXCEPT !.there = TRUE]
           ok == [c EXCEPT !.copy = f, !.hand = None, !.stale = FALSE]
<1>1. c \in Commands /\ c.draft \in File
  BY CommandTyped
<1>2. f \in File /\ f.there
  BY <1>1 DEF File
<1>3. CASE /\ disk' = f
           /\ cmd' = [q \in Procs |-> IF q = p THEN Done(ok) ELSE Passed(q, f)]
  <2>1. ok \in Commands
    BY <1>1, <1>2 DEF Commands
  <2> HIDE DEF f, ok
  <2>2. Looked(Done(ok), f)
    BY <2>1, DoneQuiet, QuietLooks
  <2>3. \A q \in Procs : Looked(Passed(q, f), f)
    BY <1>2, PassedLooks
  <2> QED
    BY <1>2, <1>3, <2>2, <2>3 DEF LookInv
<1>4. CASE cmd' = [cmd EXCEPT ![p] = Failed(c)] /\ disk' = disk
  <2>1. Looked(Failed(c), disk)
    BY <1>1, FailedQuiet, QuietLooks
  <2> HIDE DEF c
  <2> QED
    BY <1>4, <2>1, LookStays
<1> QED
  BY <1>3, <1>4 DEF Write

\* The run that is found archived has been so since the workspace was looked for.
LEMMA EnsureLooks ==
    ASSUME TypeInv, LookInv, NEW p \in Procs, Exists(p) \/ Refresh(p) \/ Create(p) \/ Reclaim(p)
    PROVE  LookInv'
<1> DEFINE c == cmd[p]
<1>1. c \in Commands /\ disk \in File /\ c.copy \in File /\ Looked(c, disk)
      /\ (~ disk.there => disk = Missing)
  BY CommandTyped DEF LookInv
<1>2. CASE Exists(p)
  <2>1. PICK at \in {"ready", "refresh"}, o \in BOOLEAN :
           /\ o = ~ disk.archived
           /\ cmd' = [cmd EXCEPT ![p] = [c EXCEPT !.at = at, !.open = o]]
    <3>1. PICK unknown \in BOOLEAN :
             cmd' = [cmd EXCEPT ![p] =
                  [c EXCEPT !.at = IF Alive(c.copy.ws) \/ unknown THEN "ready" ELSE "refresh",
                            !.open = ~ disk.archived]]
      BY <1>2, Zenon DEF Exists
    <3>2. (IF Alive(c.copy.ws) \/ unknown THEN "ready" ELSE "refresh") \in {"ready", "refresh"}
      OBVIOUS
    <3>3. (~ disk.archived) \in BOOLEAN
      OBVIOUS
    <3> QED
      BY <3>1, <3>2, <3>3, Zenon
  <2>2. [c EXCEPT !.at = at, !.open = o].at = at /\ [c EXCEPT !.at = at, !.open = o].open = o
    BY <1>1 DEF Commands
  <2>3. ~ o => disk.there /\ disk.archived
    <3>1. ~ disk.there => ~ disk.archived
      BY <1>1 DEF Missing
    <3>2. disk.there \in BOOLEAN /\ disk.archived \in BOOLEAN
      BY <1>1 DEF File
    <3> QED
      BY <2>1, <3>1, <3>2, Zenon
  <2>4. Looked([c EXCEPT !.at = at, !.open = o], disk)
    BY <2>1, <2>2, <2>3 DEF Looked
  <2>5. disk' = disk
    BY <1>2 DEF Exists
  <2> QED
    BY <2>1, <2>4, <2>5, LookStays
<1>3. CASE Refresh(p)
  <2>1. disk' = disk /\ c.at = "refresh"
    BY <1>3 DEF Refresh
  <2>2. CASE Archived(c)
    <3>1. cmd' = [cmd EXCEPT ![p] = Refused(c)]
      BY <1>3, <2>2 DEF Refresh
    <3> QED
      BY <1>1, <2>1, <3>1, RefusedQuiet, QuietLooks, LookStays
  <2>3. CASE ~ Archived(c)
    <3>1. cmd' = [cmd EXCEPT ![p] = [c EXCEPT !.at = "create"]]
      BY <1>3, <2>3 DEF Refresh
    <3>2. c.open
      BY <1>1, <2>1, <2>3 DEF Looked, Archived
    <3>3. [c EXCEPT !.at = "create"].at = "create" /\ [c EXCEPT !.at = "create"].open = c.open
      BY <1>1 DEF Commands
    <3>4. Looked([c EXCEPT !.at = "create"], disk)
      BY <3>2, <3>3 DEF Looked
    <3> HIDE DEF c
    <3> QED
      BY <2>1, <3>1, <3>4, LookStays
  <2> QED
    BY <2>2, <2>3
<1>4. CASE Create(p)
  <2>1. disk' = disk
    BY <1>4 DEF Create
  <2>2. \A w \in Workspaces : Quiet([Saves(c, Repaired(c.copy, w), "repair") EXCEPT !.hand = w])
    <3> SUFFICES ASSUME NEW w \in Workspaces
                 PROVE  Quiet([Saves(c, Repaired(c.copy, w), "repair") EXCEPT !.hand = w])
      OBVIOUS
    <3>1. [Saves(c, Repaired(c.copy, w), "repair") EXCEPT !.hand = w].at = "reread"
      BY <1>1 DEF Saves, Plain, Commands
    <3> QED
      BY <3>1 DEF Quiet
  <2>3. Quiet(Refused(c))
    BY <1>1, RefusedQuiet
  <2>4. PICK d : Quiet(d) /\ cmd' = [cmd EXCEPT ![p] = d]
    BY <1>4, <2>2, <2>3 DEF Create
  <2> QED
    BY <2>1, <2>4, QuietLooks, LookStays
<1>5. CASE Reclaim(p)
  BY <1>1, <1>5, RefusedQuiet, QuietLooks, LookStays DEF Reclaim
<1> QED
  BY <1>2, <1>3, <1>4, <1>5

\* Nothing else goes to where a look matters.
LEMMA CommandLooks ==
    ASSUME TypeInv, LookInv, NEW p \in Procs,
           Gate(p) \/ Ready(p) \/ Launch(p) \/ Brief(p) \/ Deliver(p) \/ NextReviewer(p) \/ Close(p)
    PROVE  LookInv'
<1> DEFINE c == cmd[p]
<1>1. c \in Commands
  BY CommandTyped
<1>2. Quiet(Refused(c)) /\ Quiet(Idle) /\ \A d, reason : Quiet(Saves(c, d, reason))
  BY <1>1, RefusedQuiet, IdleQuiet, SavesQuiet
<1>3. \A at \in {"launch", "exists", "remove"} : Quiet([c EXCEPT !.at = at])
  BY <1>1, AtQuiet
<1>4. \A a : Quiet([c EXCEPT !.at = "exists", !.copy.archived = a])
  BY <1>1 DEF Quiet, Commands
<1> HIDE DEF c
<1>5. PICK d : Quiet(d) /\ cmd' = [cmd EXCEPT ![p] = d]
  <2>1. CASE Gate(p)          BY <1>2, <1>4, <2>1 DEF Gate, c
  <2>2. CASE Ready(p)         BY <1>2, <1>3, <2>2 DEF Ready, c
  <2>3. CASE Launch(p)        BY <1>2, <2>3 DEF Launch, c
  <2>4. CASE Brief(p)         BY <1>2, <2>4 DEF Brief, Unbriefed, c
  <2>5. CASE Deliver(p)       BY <1>2, <2>5 DEF Deliver, Unbriefed, c
  <2>6. CASE NextReviewer(p)  BY <1>2, <1>3, <2>6 DEF NextReviewer, c
  <2>7. CASE Close(p)         BY <1>2, <1>3, <2>7 DEF Close, c
  <2> QED BY <2>1, <2>2, <2>3, <2>4, <2>5, <2>6, <2>7
<1>6. disk' = disk
  BY DEF Gate, Ready, Launch, Brief, Deliver, NextReviewer, Close
<1> QED
  BY <1>5, <1>6, QuietLooks, LookStays

LEMMA LookStep == TypeInv /\ LookInv /\ [Next]_vars => LookInv'
<1> SUFFICES ASSUME TypeInv, LookInv, [Next]_vars PROVE LookInv'
  OBVIOUS
<1>1. ASSUME NEW p \in Procs, Step(p), ~ Remove(p) PROVE LookInv'
  BY <1>1, RereadLooks, WriteLooks, EnsureLooks, CommandLooks DEF Step
<1>2. ASSUME NEW p \in Procs, Remove(p) PROVE LookInv'
  <2>1. Missing \in File /\ ~ Missing.there /\ ~ Missing.archived
    BY DEF Missing, File
  <2>2. \A q \in Procs : Looked(cmd'[q], Missing)
    BY <1>2, <2>1, PassedLooks, IdleQuiet, QuietLooks DEF Remove
  <2> QED
    BY <1>2, <2>2 DEF Remove, LookInv
<1>3. ASSUME NEW p \in Procs, NEW op \in Ops, Load(p, op) PROVE LookInv'
  <2> DEFINE at == Begins(op)
             why == IF op = "restore" THEN "decide" ELSE "none"
             r == [Idle EXCEPT !.op = op, !.at = at, !.copy = disk, !.why = why]
  <2>1. at \notin {"create", "refresh", "write"}
    BY DEF Begins
  <2>2. cmd' = [cmd EXCEPT ![p] = r] /\ disk' = disk
    BY <1>3 DEF Load
  <2> HIDE DEF at, why
  <2>3. r.at = at
    <3>1. Idle.at \in Steps /\ Idle \in Commands
      BY IdleSound DEF Sound, Commands
    <3> QED
      BY <3>1 DEF Commands
  <2>4. Quiet(r)
    BY <2>1, <2>3 DEF Quiet
  <2> HIDE DEF r
  <2> QED
    BY <2>2, <2>4, QuietLooks, LookStays
<1>4. ASSUME NEW p \in Procs, Kill(p) PROVE LookInv'
  BY <1>4, IdleQuiet, QuietLooks, LookStays DEF Kill
<1>5. CASE (\E w \in Workspaces : Vanish(w) \/ OpenPane(w)) \/ UNCHANGED vars
  BY <1>5 DEF Vanish, OpenPane, vars, LookInv
<1> QED
  BY <1>1, <1>2, <1>3, <1>4, <1>5 DEF Next

LEMMA LookInit == Init => LookInv
<1> SUFFICES ASSUME Init PROVE LookInv
  OBVIOUS
<1>1. \A p \in Procs : Looked(cmd[p], disk)
  BY IdleQuiet, QuietLooks DEF Init
<1> QED
  BY <1>1 DEF Init, LookInv

LEMMA Looks == Spec => [](TypeInv /\ LookInv)
  BY TypeInit, TypeStep, LookInit, LookStep, PTL DEF Spec

\* No command creates a workspace for a run that was archived before the command
\* looked for the old one, and has stayed so, whatever its copy says.
THEOREM NoWork == Spec => NoWorkForArchived
<1>1. LookInv => \A p \in Procs : cmd[p].at = "create" /\ cmd'[p].hand # None => cmd[p].open
  BY DEF LookInv, Looked
<1> QED
  BY <1>1, Looks, PTL DEF NoWorkForArchived

\* Nothing but a write and a removal changes the file.
LEMMA OnlyWrites ==
    ASSUME [Next]_vars PROVE (\E p \in Procs : Write(p) \/ Remove(p)) \/ disk' = disk
<1>1. ASSUME NEW p \in Procs, Step(p), ~ Write(p), ~ Remove(p) PROVE disk' = disk
  <2>1. CASE Reread(p) \/ Exists(p) \/ Refresh(p) \/ Create(p) \/ Reclaim(p)
    BY <2>1 DEF Reread, Exists, Refresh, Create, Reclaim
  <2>2. CASE Gate(p) \/ Ready(p) \/ Launch(p) \/ Brief(p) \/ Deliver(p) \/ NextReviewer(p) \/ Close(p)
    BY <2>2 DEF Gate, Ready, Launch, Brief, Deliver, NextReviewer, Close
  <2> QED
    BY <1>1, <2>1, <2>2 DEF Step
<1>2. ASSUME NEW p \in Procs, Kill(p) \/ \E op \in Ops : Load(p, op) PROVE disk' = disk
  BY <1>2 DEF Kill, Load
<1>3. CASE (\E w \in Workspaces : Vanish(w) \/ OpenPane(w)) \/ UNCHANGED vars
  BY <1>3 DEF Vanish, OpenPane, vars
<1> QED
  BY <1>1, <1>2, <1>3 DEF Next

\* A save turns the human's decision round only if the decision fell between its
\* own look at the file and its write, or if it is one of the three that do not look.
THEOREM RevertsRaces == Spec => RevertsAreRaces
<1>1. ASSUME TypeInv, LookInv, [Next]_vars, NEW p \in Procs, Reverts(p)
      PROVE  cmd[p].missed \/ cmd[p].why \in Plain
  <2>1. /\ cmd[p].at = "write" /\ cmd[p].why # "decide" /\ cmd'[p].at # "write"
        /\ disk.there /\ disk'.archived # disk.archived
    BY <1>1 DEF Reverts
  <2>2. \A q \in Procs : Write(q) /\ disk' # disk =>
           /\ disk' = [cmd[q].draft EXCEPT !.there = TRUE]
           /\ \A o \in Procs \ {q} : cmd'[o] = Passed(o, disk')
    <3> SUFFICES ASSUME NEW q \in Procs, Write(q), disk' # disk
                 PROVE  /\ disk' = [cmd[q].draft EXCEPT !.there = TRUE]
                        /\ \A o \in Procs \ {q} : cmd'[o] = Passed(o, disk')
      OBVIOUS
    <3> DEFINE f == [cmd[q].draft EXCEPT !.there = TRUE]
               d == Done([cmd[q] EXCEPT !.copy = f, !.hand = None, !.stale = FALSE])
    <3>1. disk' = f /\ cmd' = [o \in Procs |-> IF o = q THEN d ELSE Passed(o, f)]
      BY DEF Write
    <3> HIDE DEF f, d
    <3>2. \A o \in Procs \ {q} : cmd'[o] = Passed(o, disk')
      BY <3>1
    <3> QED
      BY <3>1, <3>2 DEF f
  <2>3. ASSUME NEW q \in Procs, q # p, Write(q) \/ Remove(q), disk' # disk PROVE FALSE
    <3>1. cmd'[p] = Passed(p, disk')
      BY <2>2, <2>3 DEF Remove
    <3>2. Passed(p, disk').at = cmd[p].at
      BY <1>1, CommandTyped DEF Passed, Commands
    <3> QED
      BY <2>1, <3>1, <3>2
  <2>4. disk' # disk
    BY <2>1
  <2>5. (\E q \in Procs : Write(q) \/ Remove(q)) \/ disk' = disk
    BY <1>1, OnlyWrites
  <2>6. Write(p)
    BY <2>1, <2>3, <2>4, <2>5 DEF Remove
  <2>7. disk' = [cmd[p].draft EXCEPT !.there = TRUE]
    BY <2>2, <2>4, <2>6
  <2>8. disk'.archived = cmd[p].draft.archived
    BY <1>1, <2>7, CommandTyped DEF File
  <2>9. Looked(cmd[p], disk)
    BY <1>1 DEF LookInv
  <2> QED
    BY <2>1, <2>8, <2>9 DEF Looked
<1>2. TypeInv /\ LookInv /\ [Next]_vars
      => [\A p \in Procs : Reverts(p) => cmd[p].missed \/ cmd[p].why \in Plain]_vars
  BY <1>1
<1> QED
  BY <1>2, Looks, PTL DEF Spec, RevertsAreRaces

-----------------------------------------------------------------------------
(* Which workspaces are known where *)

\* What a command at a save may yet write.
Active(c) == c.at \in {"reread", "write"}
\* The commands that may hold a workspace of their own.
Holds(c) == c.at = "reclaim" \/ (Active(c) /\ c.why = "repair")

\* What was given back is named by nothing that may reach the file. What a command
\* holds is known to its own draft alone. What is not made yet is known to nobody.
NoneGivenBack == /\ disk.ws \notin reclaimed
                 /\ \A p \in Procs : /\ cmd[p].copy.ws \notin reclaimed
                                     /\ Active(cmd[p]) => cmd[p].draft.ws \notin reclaimed
HandsApart ==
    \A p \in Procs : cmd[p].hand # None =>
       /\ Holds(cmd[p]) /\ cmd[p].hand \notin reclaimed /\ cmd[p].hand # disk.ws
       /\ \A q \in Procs : cmd[q].copy.ws # cmd[p].hand
       /\ \A q \in Procs \ {p} : /\ cmd[q].hand # cmd[p].hand
                                 /\ Active(cmd[q]) => cmd[q].draft.ws # cmd[p].hand
UnbornUnknown ==
    \A w \in Workspaces : ws[w] = "unborn" =>
       /\ w # disk.ws /\ w \notin reclaimed
       /\ \A p \in Procs : w # cmd[p].copy.ws /\ w # cmd[p].draft.ws /\ w # cmd[p].hand
FictionInv == NoneGivenBack /\ HandsApart /\ UnbornUnknown

\* The workspaces that p may name next, and a command that names no other.
KnownTo(p, w) == \/ w = None \/ w = disk.ws \/ w = cmd[p].copy.ws
                 \/ Active(cmd[p]) /\ w = cmd[p].draft.ws
Follows(p, c) ==
    /\ KnownTo(p, c.copy.ws)
    /\ Active(c) => KnownTo(p, c.draft.ws)
    /\ KnownTo(p, c.draft.ws) \/ c.draft.ws = cmd[p].draft.ws
    /\ c.hand # None => c.hand = cmd[p].hand /\ c.copy.ws = cmd[p].copy.ws /\ Holds(c)

\* A step of one command that names no other workspace, with the file left alone.
LEMMA FollowStep ==
    ASSUME TypeInv, FictionInv, NEW p \in Procs, NEW c, Follows(p, c),
           cmd' = [cmd EXCEPT ![p] = c], disk' = disk, reclaimed' = reclaimed,
           \A w \in Workspaces : ws'[w] = "unborn" => ws[w] = "unborn"
    PROVE  FictionInv'
<1>1. cmd'[p] = c /\ \A q \in Procs \ {p} : cmd'[q] = cmd[q]
  BY DEF TypeInv, TypeOK
<1>2. None \notin reclaimed
  BY DEF TypeInv, TypeOK
<1>3. NoneGivenBack'
  BY <1>1, <1>2 DEF FictionInv, NoneGivenBack, Follows, KnownTo
<1>4. HandsApart'
  <2> SUFFICES ASSUME NEW q \in Procs, cmd'[q].hand # None
               PROVE  /\ Holds(cmd'[q]) /\ cmd'[q].hand \notin reclaimed /\ cmd'[q].hand # disk.ws
                      /\ \A r \in Procs : cmd'[r].copy.ws # cmd'[q].hand
                      /\ \A r \in Procs \ {q} :
                            /\ cmd'[r].hand # cmd'[q].hand
                            /\ Active(cmd'[r]) => cmd'[r].draft.ws # cmd'[q].hand
    BY DEF HandsApart, Holds, Active
  <2>1. CASE q = p
    <3>1. c.hand = cmd[p].hand /\ c.copy.ws = cmd[p].copy.ws /\ Holds(c)
      BY <1>1, <2>1 DEF Follows
    <3> QED
      BY <1>1, <2>1, <3>1 DEF FictionInv, HandsApart
  <2>2. CASE q # p
    <3>1. cmd'[q] = cmd[q]
      BY <1>1, <2>2
    <3>2. c.copy.ws # cmd[q].hand /\ (Active(c) => c.draft.ws # cmd[q].hand)
      BY <2>2, <3>1 DEF FictionInv, HandsApart, Follows, KnownTo
    <3>3. c.hand # cmd[q].hand
      BY <2>2, <3>1 DEF FictionInv, HandsApart, Follows
    <3> QED
      BY <1>1, <2>2, <3>1, <3>2, <3>3 DEF FictionInv, HandsApart
  <2> QED
    BY <2>1, <2>2
<1>5. UnbornUnknown'
  <2> SUFFICES ASSUME NEW w \in Workspaces, ws'[w] = "unborn", NEW q \in Procs
               PROVE  /\ w # disk.ws /\ w \notin reclaimed
                      /\ w # cmd'[q].copy.ws /\ w # cmd'[q].draft.ws /\ w # cmd'[q].hand
    BY DEF UnbornUnknown, FictionInv
  <2>1. ws[w] = "unborn" /\ w # None
    OBVIOUS
  <2> QED
    BY <1>1, <2>1 DEF FictionInv, UnbornUnknown, Follows, KnownTo
<1> QED
  BY <1>3, <1>4, <1>5 DEF FictionInv

\* The commands that follow p.
LEMMA IdleFollows == ASSUME NEW p \in Procs PROVE Follows(p, Idle)
  BY DEF Follows, KnownTo, Idle, Missing, Active

LEMMA SavesFollows ==
    ASSUME NEW p \in Procs, NEW c \in Commands, KnownTo(p, c.copy.ws), c.hand = None,
           NEW d \in File, KnownTo(p, d.ws), NEW reason
    PROVE  Follows(p, Saves(c, d, reason))
<1> DEFINE at == IF reason \in Plain THEN "write" ELSE "reread"
           s == [c EXCEPT !.at = at, !.draft = d, !.why = reason]
<1>1. Saves(c, d, reason) = s
  BY DEF Saves
<1> HIDE DEF at
<1>2. s.copy = c.copy /\ s.draft = d /\ s.hand = None
  BY DEF Commands
<1> HIDE DEF s
<1> QED
  BY <1>1, <1>2 DEF Follows

\* One that does not save keeps its draft for nothing.
LEMMA AtFollows ==
    ASSUME NEW p \in Procs, NEW c \in Commands, KnownTo(p, c.copy.ws), c.hand = None,
           c.draft = cmd[p].draft,
           NEW at \in {"ready", "launch", "brief", "deliver", "next", "exists", "create", "remove"}
    PROVE  Follows(p, [c EXCEPT !.at = at])
  BY DEF Follows, Active, Commands

LEMMA RefusedFollows ==
    ASSUME NEW p \in Procs, NEW c \in Commands, KnownTo(p, c.copy.ws), c.draft = cmd[p].draft
    PROVE  Follows(p, Refused(c))
<1>1. Follows(p, [c EXCEPT !.at = "next", !.hand = None])
  BY DEF Follows, Active, Commands
<1> QED
  BY <1>1, IdleFollows DEF Refused

\* What the invariant says of one command.
LEMMA EmptyHand ==
    ASSUME TypeInv, FictionInv, NEW p \in Procs
    PROVE  /\ ~ Holds(cmd[p]) => cmd[p].hand = None
           /\ KnownTo(p, cmd[p].copy.ws)
  BY DEF FictionInv, HandsApart, KnownTo

\* The second look at the file names what the file or the draft names.
LEMMA RereadApart == ASSUME TypeInv, FictionInv, NEW p \in Procs, Reread(p) PROVE FictionInv'
<1> DEFINE c == cmd[p]
           s == c.stale /\ c.why \notin {"decide", "merge"}
           d == CASE c.why = "decide" -> Decided(c)
                  [] c.why = "merge"  -> disk
                  [] OTHER            -> Preserving(c.draft)
           r == [c EXCEPT !.at = "write", !.missed = FALSE, !.stale = s, !.draft = d]
<1>1. c \in Commands /\ disk \in File /\ c.draft \in File /\ c.copy \in File /\ c.at = "reread"
  BY CommandTyped DEF Reread
<1>2. UNCHANGED <<disk, ws, reclaimed>>
  BY DEF Reread, ghosts
<1>3. CASE c.why = "merge" /\ ~ disk.there
  BY <1>2, <1>3, IdleFollows, FollowStep DEF Reread
<1>4. CASE ~ (c.why = "merge" /\ ~ disk.there)
  <2>1. cmd' = [cmd EXCEPT ![p] = r]
    BY <1>1, <1>4 DEF Reread, TypeInv, TypeOK, Commands
  <2>2. KnownTo(p, d.ws)
    BY <1>1 DEF Preserving, Decided, File, KnownTo, Active
  <2> HIDE DEF d, s
  <2>3. r.at = "write" /\ r.why = c.why /\ r.draft = d /\ r.copy = c.copy /\ r.hand = c.hand
    BY <1>1 DEF Commands
  <2>4. r.hand # None => Holds(r)
    BY <1>1, <2>3, EmptyHand DEF Holds, Active
  <2>5. Follows(p, r)
    BY <2>2, <2>3, <2>4, EmptyHand DEF Follows
  <2> HIDE DEF r
  <2> QED
    BY <1>2, <2>1, <2>5, FollowStep
<1> QED
  BY <1>3, <1>4

\* After a failed write the workspace is in the hand alone, or the draft is the copy.
LEMMA FailedFollows ==
    ASSUME TypeInv, FictionInv, NEW p \in Procs, cmd[p].at = "write"
    PROVE  Follows(p, Failed(cmd[p]))
<1> DEFINE c == cmd[p]
           u == [c EXCEPT !.copy = Undone(c)]
<1>1. c \in Commands /\ c.draft \in File /\ c.copy \in File
  BY CommandTyped
<1>2. u \in Commands /\ u.hand = c.hand /\ u.draft = c.draft
      /\ u.copy = (IF c.why = "repair" THEN c.copy ELSE c.draft)
  BY <1>1 DEF Undone, Commands
<1>3. KnownTo(p, c.draft.ws)
  BY DEF KnownTo, Active
<1> HIDE DEF u
<1>4. CASE c.why = "repair"
  <2>1. Failed(c) = [u EXCEPT !.at = "reclaim"]
    BY <1>4 DEF Failed, u
  <2> DEFINE r == [u EXCEPT !.at = "reclaim"]
  <2>2. r.at = "reclaim" /\ r.copy = c.copy /\ r.draft = c.draft /\ r.hand = c.hand
    BY <1>2, <1>4 DEF Commands
  <2> HIDE DEF r
  <2>3. Follows(p, r)
    BY <2>2, EmptyHand DEF Follows, Active, Holds
  <2> QED
    BY <2>1, <2>3 DEF r
<1>5. CASE c.why # "repair"
  <2>1. u.hand = None /\ KnownTo(p, u.copy.ws) /\ u.copy \in File
    BY <1>1, <1>2, <1>3, <1>5, EmptyHand DEF Holds
  <2>2. Follows(p, Saves(u, u.copy, "merge"))
    BY <1>2, <2>1, SavesFollows
  <2>3. Follows(p, Refused(u))
    BY <1>2, <2>1, RefusedFollows
  <2>4. Follows(p, Unbriefed(u))
    <3>1. /\ [u.copy EXCEPT !.phase = "Failed"] \in File
          /\ [u.copy EXCEPT !.phase = "Failed"].ws = u.copy.ws
      BY <2>1 DEF File
    <3> QED
      BY <1>2, <2>1, <3>1, SavesFollows DEF Unbriefed
  <2>5. Failed(c) = CASE c.why = "last"   -> Saves(u, u.copy, "merge")
                      [] c.why = "merge"  -> Idle
                      [] c.why = "reopen" -> Unbriefed(u)
                      [] OTHER            -> Refused(u)
    BY <1>5 DEF Failed, u
  <2> QED
    BY <2>2, <2>3, <2>4, <2>5, IdleFollows
<1> QED
  BY <1>4, <1>5

\* What a command names whose save is done: what it has saved.
LEMMA DoneNames ==
    ASSUME NEW c \in Commands, c.hand = None
    PROVE  /\ Done(c).hand = None
           /\ Done(c).copy.ws \in {c.copy.ws, None}
           /\ Active(Done(c)) => Done(c).draft.ws = c.copy.ws
           /\ Done(c).draft.ws \in {c.draft.ws, c.copy.ws, None}
<1> DEFINE Names(d) == /\ d.hand = None /\ d.copy.ws \in {c.copy.ws, None}
                       /\ Active(d) => d.draft.ws = c.copy.ws
                       /\ d.draft.ws \in {c.draft.ws, c.copy.ws, None}
<1>1. Names(Idle)
  BY DEF Idle, Missing, Active
<1>2. \A at \in {"ready", "launch", "brief", "next", "deliver"} : Names([c EXCEPT !.at = at])
  BY DEF Active, Commands
<1>3. Names(Refused(c))
  <2>1. Names([c EXCEPT !.at = "next", !.hand = None])
    BY DEF Active, Commands
  <2> QED
    BY <1>1, <2>1 DEF Refused
<1>4. Names(Saves(c, c.copy, "merge"))
  <2>1. Saves(c, c.copy, "merge") = [c EXCEPT !.at = "reread", !.draft = c.copy, !.why = "merge"]
    BY DEF Saves, Plain
  <2> QED
    BY <2>1 DEF Commands
<1> HIDE DEF Names
<1>5. Names(Done(c))
  BY <1>1, <1>2, <1>3, <1>4 DEF Done
<1> QED
  BY <1>5 DEF Names

\* One who looks on goes on naming what it named.
LEMMA PassedNames ==
    ASSUME TypeInv, NEW q \in Procs, NEW f
    PROVE  /\ Passed(q, f).at = cmd[q].at /\ Passed(q, f).why = cmd[q].why
           /\ Passed(q, f).copy = cmd[q].copy /\ Passed(q, f).draft = cmd[q].draft
           /\ Passed(q, f).hand = cmd[q].hand
  BY CommandTyped DEF Passed, Commands

\* A write puts in the file what its draft names, which nobody has given back.
LEMMA WriteApart == ASSUME TypeInv, FictionInv, NEW p \in Procs, Write(p) PROVE FictionInv'
<1> DEFINE c == cmd[p]
           f == [c.draft EXCEPT !.there = TRUE]
           ok == [c EXCEPT !.copy = f, !.hand = None, !.stale = FALSE]
<1>1. c \in Commands /\ c.draft \in File /\ c.at = "write"
  BY CommandTyped DEF Write
<1>2. UNCHANGED <<ws, reclaimed>>
  BY DEF Write
<1>3. CASE /\ disk' = f
           /\ cmd' = [q \in Procs |-> IF q = p THEN Done(ok) ELSE Passed(q, f)]
  <2>1. ok \in Commands /\ ok.hand = None /\ ok.draft = c.draft /\ ok.copy = f
    BY <1>1 DEF Commands, File
  <2>2. f.ws = c.draft.ws
    BY <1>1 DEF File
  <2> HIDE DEF ok, f
  <2>3. /\ cmd'[p].hand = None /\ cmd'[p].copy.ws \in {c.draft.ws, None}
        /\ Active(cmd'[p]) => cmd'[p].draft.ws = c.draft.ws
        /\ cmd'[p].draft.ws \in {c.draft.ws, None}
    BY <1>3, <2>1, <2>2, DoneNames
  <2>4. \A q \in Procs \ {p} :
           /\ cmd'[q].at = cmd[q].at /\ cmd'[q].why = cmd[q].why /\ cmd'[q].copy = cmd[q].copy
           /\ cmd'[q].draft = cmd[q].draft /\ cmd'[q].hand = cmd[q].hand
    BY <1>3, PassedNames
  <2>5. None \notin reclaimed /\ None \notin Workspaces
    BY DEF TypeInv, TypeOK
  <2>6. NoneGivenBack'
    BY <1>1, <1>2, <1>3, <2>2, <2>3, <2>4, <2>5 DEF FictionInv, NoneGivenBack, Active
  <2>7. HandsApart'
    BY <1>1, <1>2, <1>3, <2>2, <2>3, <2>4 DEF FictionInv, HandsApart, Active, Holds
  <2>8. UnbornUnknown'
    <3> SUFFICES ASSUME NEW w \in Workspaces, ws[w] = "unborn", NEW q \in Procs
                 PROVE  /\ w # disk'.ws /\ w \notin reclaimed
                        /\ w # cmd'[q].copy.ws /\ w # cmd'[q].draft.ws /\ w # cmd'[q].hand
      BY <1>2 DEF UnbornUnknown
    <3>1. w # None /\ w # c.draft.ws
      BY <2>5 DEF FictionInv, UnbornUnknown
    <3> QED
      BY <1>3, <2>2, <2>3, <2>4, <3>1 DEF FictionInv, UnbornUnknown
  <2> QED
    BY <2>6, <2>7, <2>8 DEF FictionInv
<1>4. CASE cmd' = [cmd EXCEPT ![p] = Failed(c)] /\ disk' = disk
  <2>1. Follows(p, Failed(c))
    BY <1>1, FailedFollows
  <2> HIDE DEF c
  <2> QED
    BY <1>2, <1>4, <2>1, FollowStep
<1> QED
  BY <1>3, <1>4 DEF Write

\* A workspace is made by one command, and given back by it alone.
LEMMA CreateApart == ASSUME TypeInv, FictionInv, NEW p \in Procs, Create(p) PROVE FictionInv'
<1> DEFINE c == cmd[p]
<1>1. c \in Commands /\ c.copy \in File /\ c.at = "create" /\ c.hand = None
  BY CommandTyped, EmptyHand DEF Create, Holds, Active
<1>2. disk' = disk /\ reclaimed' = reclaimed
  BY DEF Create, ghosts
<1>3. CASE cmd' = [cmd EXCEPT ![p] = Refused(c)] /\ UNCHANGED ws
  <2>1. Follows(p, Refused(c))
    BY <1>1, EmptyHand, RefusedFollows
  <2> HIDE DEF c
  <2> QED
    BY <1>2, <1>3, <2>1, FollowStep
<1>4. CASE \E w \in Workspaces :
              /\ ws[w] = "unborn" /\ ws' = [ws EXCEPT ![w] = "live"]
              /\ cmd' = [cmd EXCEPT ![p] =
                           [Saves(c, Repaired(c.copy, w), "repair") EXCEPT !.hand = w]]
  <2>1. PICK w \in Workspaces :
              /\ ws[w] = "unborn" /\ ws' = [ws EXCEPT ![w] = "live"]
              /\ cmd' = [cmd EXCEPT ![p] =
                           [Saves(c, Repaired(c.copy, w), "repair") EXCEPT !.hand = w]]
    BY <1>4
  <2> DEFINE d == Repaired(c.copy, w)
             r == [Saves(c, d, "repair") EXCEPT !.hand = w]
  <2>2. d.ws = w
    BY <1>1 DEF Repaired, File
  <2> HIDE DEF d
  <2>3. r.at = "reread" /\ r.why = "repair" /\ r.draft = d /\ r.hand = w /\ r.copy = c.copy
    BY <1>1 DEF Saves, Plain, Commands
  <2>4. cmd'[p] = r /\ \A q \in Procs \ {p} : cmd'[q] = cmd[q]
    BY <2>1 DEF TypeInv, TypeOK, d
  <2> HIDE DEF r
  <2>5. /\ w # disk.ws /\ w \notin reclaimed /\ w # None
        /\ \A q \in Procs : w # cmd[q].copy.ws /\ w # cmd[q].draft.ws /\ w # cmd[q].hand
    BY <2>1 DEF FictionInv, UnbornUnknown
  <2>6. NoneGivenBack'
    BY <1>2, <2>2, <2>3, <2>4, <2>5 DEF FictionInv, NoneGivenBack
  <2>7. HandsApart'
    BY <1>2, <2>2, <2>3, <2>4, <2>5 DEF FictionInv, HandsApart, Holds, Active
  <2>8. \A v \in Workspaces : ws'[v] = "unborn" => ws[v] = "unborn" /\ v # w
    BY <2>1 DEF TypeInv, TypeOK
  <2>9. UnbornUnknown'
    BY <1>2, <2>2, <2>3, <2>4, <2>8 DEF FictionInv, UnbornUnknown
  <2> QED
    BY <2>6, <2>7, <2>9 DEF FictionInv
<1> QED
  BY <1>3, <1>4 DEF Create

LEMMA ReclaimApart == ASSUME TypeInv, FictionInv, NEW p \in Procs, Reclaim(p) PROVE FictionInv'
<1> DEFINE c == cmd[p]
           h == c.hand
           r == Refused(c)
<1>1. c \in Commands /\ c.at = "reclaim" /\ h \in Workspaces /\ h # None
  BY CommandTyped DEF Reclaim, Sound
<1>2. /\ disk' = disk /\ reclaimed' = reclaimed \cup {h}
      /\ cmd'[p] = r /\ \A q \in Procs \ {p} : cmd'[q] = cmd[q]
  BY DEF Reclaim, TypeInv, TypeOK
<1>3. \A w \in Workspaces : ws'[w] = "unborn" => ws[w] = "unborn" /\ w # h
  <2>1. ws[h] # "unborn"
    BY <1>1 DEF FictionInv, UnbornUnknown
  <2> QED
    BY <1>1, <2>1 DEF Reclaim, GivesBack, Closes, TypeInv, TypeOK
<1>4. /\ h # disk.ws /\ \A q \in Procs : cmd[q].copy.ws # h
      /\ \A q \in Procs \ {p} : cmd[q].hand # h /\ (Active(cmd[q]) => cmd[q].draft.ws # h)
  BY <1>1 DEF FictionInv, HandsApart
<1>5. /\ r.hand = None /\ ~ Active(r) /\ r.copy.ws \in {c.copy.ws, None}
      /\ r.draft.ws \in {c.draft.ws, None}
  BY <1>1 DEF Refused, Idle, Missing, Active, Commands
<1> HIDE DEF r, c
<1>6. None \notin reclaimed /\ None \notin Workspaces
  BY DEF TypeInv, TypeOK
<1>7. NoneGivenBack'
  BY <1>1, <1>2, <1>4, <1>5, <1>6 DEF FictionInv, NoneGivenBack, c
<1>8. HandsApart'
  BY <1>1, <1>2, <1>4, <1>5, <1>6 DEF FictionInv, HandsApart, Holds, c
<1>9. UnbornUnknown'
  BY <1>2, <1>3, <1>5, <1>6 DEF FictionInv, UnbornUnknown, c
<1> QED
  BY <1>7, <1>8, <1>9 DEF FictionInv

\* Every other step of a command names what it named before.
LEMMA StepApart ==
    ASSUME TypeInv, FictionInv, NEW p \in Procs,
           \/ Exists(p) \/ Refresh(p) \/ Gate(p) \/ Ready(p) \/ Launch(p) \/ Brief(p)
           \/ Deliver(p) \/ NextReviewer(p) \/ Close(p)
    PROVE  FictionInv'
<1> DEFINE c == cmd[p]
<1>1. c \in Commands /\ c.copy \in File /\ disk \in File
  BY CommandTyped
<1>2. c.hand = None /\ KnownTo(p, c.copy.ws)
  BY EmptyHand DEF Holds, Active, Exists, Refresh, Gate, Ready, Launch, Brief, Deliver, NextReviewer,
                   Close
<1>3. Follows(p, Refused(c)) /\ Follows(p, Idle)
  BY <1>1, <1>2, RefusedFollows, IdleFollows
<1>4. \A reason : /\ Follows(p, Saves(c, c.copy, reason))
                  /\ \A s \in {"Running", "Failed"} :
                        Follows(p, Saves(c, [c.copy EXCEPT !.phase = s], reason))
  <2> SUFFICES ASSUME NEW reason
               PROVE  /\ Follows(p, Saves(c, c.copy, reason))
                      /\ \A s \in {"Running", "Failed"} :
                            Follows(p, Saves(c, [c.copy EXCEPT !.phase = s], reason))
    OBVIOUS
  <2>1. \A s \in {"Running", "Failed"} :
           [c.copy EXCEPT !.phase = s] \in File /\ [c.copy EXCEPT !.phase = s].ws = c.copy.ws
    BY <1>1 DEF File
  <2> HIDE DEF c
  <2> QED
    BY <1>1, <1>2, <2>1, SavesFollows
<1>5. \A at \in {"launch", "exists", "create", "remove"} : Follows(p, [c EXCEPT !.at = at])
  BY <1>1, <1>2, AtFollows
<1>6. \A w \in Workspaces : ws'[w] = "unborn" => ws[w] = "unborn"
  BY DEF Exists, Refresh, Gate, Ready, Launch, Brief, Deliver, NextReviewer, Close, Closes,
         TypeInv, TypeOK
<1>7. disk' = disk /\ reclaimed' = reclaimed
  BY DEF Exists, Refresh, Gate, Ready, Launch, Brief, Deliver, NextReviewer, Close, ghosts
<1>8. PICK d : Follows(p, d) /\ cmd' = [cmd EXCEPT ![p] = d]
  <2>1. CASE Exists(p)
    <3>1. \A at \in {"ready", "refresh"}, o \in BOOLEAN : Follows(p, [c EXCEPT !.at = at, !.open = o])
      BY <1>1, <1>2 DEF Follows, Active, Commands
    <3>2. PICK unknown \in BOOLEAN :
             cmd' = [cmd EXCEPT ![p] =
                  [c EXCEPT !.at = IF Alive(c.copy.ws) \/ unknown THEN "ready" ELSE "refresh",
                            !.open = ~ disk.archived]]
      BY <2>1, Zenon DEF Exists
    <3>3. (IF Alive(c.copy.ws) \/ unknown THEN "ready" ELSE "refresh") \in {"ready", "refresh"}
      OBVIOUS
    <3>4. (~ disk.archived) \in BOOLEAN
      OBVIOUS
    <3> QED
      BY <3>1, <3>2, <3>3, <3>4, Zenon
  <2>2. CASE Gate(p)
    <3> DEFINE r == [c EXCEPT !.at = "exists", !.copy.archived = Archived(c)]
    <3>1. r.at = "exists" /\ r.copy.ws = c.copy.ws /\ r.draft = c.draft /\ r.hand = c.hand
      BY <1>1 DEF Commands, File
    <3>2. Follows(p, r)
      BY <1>2, <3>1 DEF Follows, Active
    <3>3. cmd' = [cmd EXCEPT ![p] = IF Archived(c) THEN Saves(c, c.copy, "merge") ELSE r]
      BY <2>2 DEF Gate
    <3> HIDE DEF c, r
    <3> QED
      BY <1>4, <3>2, <3>3
  <2> HIDE DEF c
  <2>3. CASE Refresh(p)       BY <1>3, <1>5, <2>3 DEF Refresh, c
  <2>4. CASE Ready(p)         BY <1>3, <1>4, <1>5, <2>4 DEF Ready, c
  <2>5. CASE Launch(p)        BY <1>3, <1>4, <2>5 DEF Launch, c
  <2>6. CASE Brief(p)         BY <1>4, <2>6 DEF Brief, Unbriefed, c
  <2>7. CASE Deliver(p)       BY <1>3, <1>4, <2>7 DEF Deliver, Unbriefed, c
  <2>8. CASE NextReviewer(p)  BY <1>4, <1>5, <2>8 DEF NextReviewer, c
  <2>9. CASE Close(p)         BY <1>4, <1>5, <2>9 DEF Close, c
  <2> QED BY <2>1, <2>2, <2>3, <2>4, <2>5, <2>6, <2>7, <2>8, <2>9
<1> HIDE DEF c
<1> QED
  BY <1>6, <1>7, <1>8, FollowStep

LEMMA FictionStep == TypeInv /\ FictionInv /\ [Next]_vars => FictionInv'
<1> SUFFICES ASSUME TypeInv, FictionInv, [Next]_vars PROVE FictionInv'
  OBVIOUS
<1>1. ASSUME NEW p \in Procs, Step(p), ~ Remove(p) PROVE FictionInv'
  BY <1>1, RereadApart, WriteApart, CreateApart, ReclaimApart, StepApart DEF Step
<1>2. ASSUME NEW p \in Procs, Remove(p) PROVE FictionInv'
  <2>1. /\ cmd'[p].hand = None /\ ~ Active(cmd'[p])
        /\ cmd'[p].copy.ws = None /\ cmd'[p].draft.ws = None /\ disk'.ws = None
    BY <1>2 DEF Remove, Idle, Missing, Active
  <2>2. \A q \in Procs \ {p} :
           /\ cmd'[q].at = cmd[q].at /\ cmd'[q].why = cmd[q].why /\ cmd'[q].copy = cmd[q].copy
           /\ cmd'[q].draft = cmd[q].draft /\ cmd'[q].hand = cmd[q].hand
    BY <1>2, PassedNames DEF Remove
  <2>3. None \notin reclaimed /\ None \notin Workspaces
    BY DEF TypeInv, TypeOK
  <2>4. ws' = ws /\ reclaimed' = reclaimed
    BY <1>2 DEF Remove
  <2>5. NoneGivenBack'
    BY <2>1, <2>2, <2>3, <2>4 DEF FictionInv, NoneGivenBack, Active
  <2>6. HandsApart'
    BY <2>1, <2>2, <2>3, <2>4 DEF FictionInv, HandsApart, Holds, Active
  <2>7. UnbornUnknown'
    BY <2>1, <2>2, <2>3, <2>4 DEF FictionInv, UnbornUnknown
  <2> QED
    BY <2>5, <2>6, <2>7 DEF FictionInv
<1>3. ASSUME NEW p \in Procs, NEW op \in Ops, Load(p, op) PROVE FictionInv'
  <2> DEFINE at == Begins(op)
             why == IF op = "restore" THEN "decide" ELSE "none"
             r == [Idle EXCEPT !.op = op, !.at = at, !.copy = disk, !.why = why]
  <2>1. cmd' = [cmd EXCEPT ![p] = r] /\ cmd[p].at = "idle"
    BY <1>3 DEF Load
  <2>2. UNCHANGED <<disk, ws, reclaimed>>
    BY <1>3 DEF Load, ghosts
  <2> HIDE DEF at, why
  <2>3. r.copy = disk /\ r.hand = None /\ r.draft.ws = None
    BY DEF Idle, Missing
  <2>4. Follows(p, r)
    BY <2>3 DEF Follows, KnownTo
  <2> HIDE DEF r
  <2> QED
    BY <2>1, <2>2, <2>4, FollowStep
<1>4. ASSUME NEW p \in Procs, Kill(p) PROVE FictionInv'
  BY <1>4, IdleFollows, FollowStep DEF Kill
<1>5. ASSUME NEW w \in Workspaces, Vanish(w) \/ OpenPane(w) PROVE FictionInv'
  <2>1. UNCHANGED <<disk, cmd, reclaimed>> /\ \A v \in Workspaces : ws'[v] = "unborn" => ws[v] = "unborn"
    BY <1>5 DEF Vanish, OpenPane, Closes, ghosts, TypeInv, TypeOK
  <2> QED
    BY <2>1 DEF FictionInv, NoneGivenBack, HandsApart, UnbornUnknown, Holds, Active
<1>6. CASE UNCHANGED vars
  BY <1>6 DEF vars, ghosts, FictionInv, NoneGivenBack, HandsApart, UnbornUnknown, Holds, Active
<1> QED
  BY <1>1, <1>2, <1>3, <1>4, <1>5, <1>6 DEF Next

LEMMA FictionInit == Init => FictionInv
<1> SUFFICES ASSUME Init PROVE FictionInv
  OBVIOUS
<1>1. \A p \in Procs : cmd[p].hand = None /\ cmd[p].copy.ws = None /\ cmd[p].draft.ws = None
  BY DEF Init, Idle, Missing
<1> QED
  BY <1>1 DEF Init, FictionInv, NoneGivenBack, HandsApart, UnbornUnknown

\* However many commands repair, fail and overwrite each other, state.json never
\* names a workspace that a command made and gave back.
THEOREM NothingMadeUp == Spec => []NoFiction
<1>1. FictionInv => NoFiction
  BY DEF FictionInv, NoneGivenBack, NoFiction
<1> QED
  BY <1>1, TypeInit, TypeStep, FictionInit, FictionStep, PTL DEF Spec

-----------------------------------------------------------------------------
\* Herdr's workspaces are created once and closed once.
Born(h, w) == w = None \/ h[w] # "unborn"
Gone(h, w) == w = None \/ h[w] = "closed"
Ages(h, g) == \A w \in Workspaces : /\ h[w] # "unborn" => g[w] # "unborn"
                                    /\ h[w] = "closed" => g[w] = "closed"

\* A command in the middle of a save, of a repair, of the repair's save.
Saving(c) == c.at \in {"reread", "write"}
Repairing(c) == c.at \in {"refresh", "create"} \/ (Saving(c) /\ c.why = "repair")
\* Of a command, when d is the workspace on record: what it created it is about to
\* record or to give back; it replaces a workspace only when that one is gone; and
\* as long as it has missed no write, its copy names the workspace on record.
Kept(c, d, h) ==
    /\ c.hand # None => c.why = "repair" /\ c.at \in {"reread", "write", "reclaim"}
    /\ Saving(c) /\ c.why = "repair" => c.hand \in Workspaces /\ c.draft.ws = c.hand
    /\ Born(h, c.copy.ws) /\ (Saving(c) => Born(h, c.draft.ws))
    /\ Repairing(c) => Gone(h, c.copy.ws)
    /\ c.at = "close" \/ c.why = "decide" => c.op # "panel"
    /\ c.why = "decide" => Saving(c)
    /\ ~ c.stale /\ c.at \notin {"idle", "write"} => d = c.copy.ws
    /\ ~ c.stale /\ c.at = "write" => CASE c.why = "repair" -> d = c.copy.ws
                                        [] c.why = "decide" -> d \in {None, c.draft.ws}
                                        [] OTHER            -> d = c.draft.ws
    /\ c.at = "reread" /\ c.why \notin {"repair", "decide", "merge"} => c.draft.ws = c.copy.ws
KeepInv ==
    /\ NothingLiveForgotten
    /\ ~ disk.there => disk.ws = None
    /\ Born(ws, disk.ws)
    /\ \A p \in Procs : Kept(cmd[p], disk.ws, ws)

\* What is said of a command stays true of it as herdr's workspaces age.
LEMMA KeptAges ==
    ASSUME NEW c \in Commands, NEW d, NEW h, NEW g, Kept(c, d, h), Ages(h, g)
    PROVE  Kept(c, d, g)
<1>1. \A w \in Workspaces \cup {None} : (Born(h, w) => Born(g, w)) /\ (Gone(h, w) => Gone(g, w))
  BY DEF Ages, Born, Gone
<1>2. c.copy.ws \in Workspaces \cup {None} /\ c.draft.ws \in Workspaces \cup {None}
  BY DEF Commands, File
<1> QED
  BY <1>1, <1>2 DEF Kept

\* Who stands by while the file changes has missed it.
LEMMA KeptPassed ==
    ASSUME TypeInv, NEW q \in Procs, NEW f \in File, NEW d, NEW e, NEW h, Kept(cmd[q], d, h)
    PROVE  Kept(Passed(q, f), e, h)
<1>1. cmd[q] \in Commands
  BY CommandTyped
<1>2. CASE cmd[q].at = "idle"
  BY <1>2 DEF Passed, Kept, Saving, Repairing
<1>3. CASE cmd[q].at # "idle"
  <2> DEFINE m == cmd[q].missed \/ ~ disk.there \/ f.archived # disk.archived
             o == cmd[q].open \/ ~ f.archived
  <2>1. Passed(q, f) = [cmd[q] EXCEPT !.stale = TRUE, !.missed = m, !.open = o]
    BY <1>1, <1>3 DEF Passed, Commands
  <2> HIDE DEF m, o
  <2> QED
    BY <1>1, <2>1 DEF Kept, Saving, Repairing, Commands
<1> QED
  BY <1>2, <1>3

LEMMA IdleKept == ASSUME NEW d, NEW h PROVE Kept(Idle, d, h)
  BY DEF Kept, Idle, Missing, Born, Gone, Saving, Repairing

\* A command at rest between two steps: no workspace of its own, and, unless it
\* has missed a write, the one on record is the one it knows.
Rests(c, d, h) ==
    /\ c \in Commands /\ c.hand = None /\ Born(h, c.copy.ws) /\ (c.stale \/ d = c.copy.ws)

\* A save of a file that names the workspace of the copy.
LEMMA SavesKept ==
    ASSUME NEW c, NEW f \in File, NEW reason \in Reasons \ {"repair", "none"}, NEW d, NEW h,
           Rests(c, d, h), f.ws = c.copy.ws, reason = "decide" => c.op # "panel"
    PROVE  Kept(Saves(c, f, reason), d, h)
<1> DEFINE at == IF reason \in Plain THEN "write" ELSE "reread"
           s == [c EXCEPT !.at = at, !.draft = f, !.why = reason]
<1>1. at \in {"write", "reread"} /\ (at = "write" => reason # "decide")
  BY DEF Plain
<1>2. Saves(c, f, reason) = s
  BY DEF Saves
<1> HIDE DEF at
<1>3. /\ s.at = at /\ s.draft = f /\ s.why = reason /\ s.hand = None /\ s.copy = c.copy
      /\ s.op = c.op /\ s.stale = c.stale
  BY DEF Rests, Commands
<1> HIDE DEF s
<1> QED
  BY <1>1, <1>2, <1>3 DEF Kept, Rests, Saving, Repairing

\* A command that rests may go on anywhere but to a repair, and gives up safely.
LEMMA RestsKept ==
    ASSUME NEW c, NEW d, NEW h, Rests(c, d, h), c.why # "decide"
    PROVE  /\ \A at \in {"ready", "launch", "brief", "next", "deliver", "exists"} :
                 Kept([c EXCEPT !.at = at], d, h)
           /\ Kept(Refused(c), d, h)
<1>1. \A at \in {"ready", "launch", "brief", "next", "deliver", "exists"} : Kept([c EXCEPT !.at = at], d, h)
  BY DEF Kept, Rests, Saving, Repairing, Commands
<1>2. CASE c.op = "panel"
  BY <1>2 DEF Refused, Kept, Rests, Saving, Repairing, Commands
<1>3. CASE c.op # "panel"
  <2>1. Refused(c) = Idle
    BY <1>3 DEF Refused
  <2> QED
    BY <1>1, <2>1, IdleKept
<1> QED
  BY <1>1, <1>2, <1>3

\* A step of p, which becomes c, that leaves the file alone: what stands anew is
\* in its hand, and what it had in hand it still has, or it is gone or excused.
NewInHand(c) == \A w \in Workspaces : ws'[w] = "live" => ws[w] = "live" \/ c.hand = w
HandsOn(p, c) ==
    \A w \in Workspaces : cmd[p].hand = w => c.hand = w \/ w \in excused' \/ ws'[w] # "live"
LEMMA OneKeeps ==
    ASSUME TypeInv, KeepInv, NEW p \in Procs, NEW c, cmd' = [cmd EXCEPT ![p] = c],
           Ages(ws, ws'), Kept(c, disk.ws, ws'), UNCHANGED disk, excused \subseteq excused',
           NewInHand(c), HandsOn(p, c)
    PROVE  KeepInv'
<1>1. disk \in File /\ cmd \in [Procs -> Commands]
  BY DEF TypeInv, TypeOK
<1>2. \A q \in Procs : cmd[q] \in Commands /\ Kept(cmd[q], disk.ws, ws)
  BY <1>1 DEF KeepInv
<1>3. \A q \in Procs : Kept(cmd'[q], disk'.ws, ws')
  BY <1>1, <1>2, KeptAges
<1>4. Born(ws', disk'.ws)
  BY <1>1 DEF KeepInv, Born, Ages, File
<1>5. NothingLiveForgotten'
  BY <1>1 DEF KeepInv, NothingLiveForgotten, NewInHand, HandsOn
<1> QED
  BY <1>3, <1>4, <1>5 DEF KeepInv

\* The same, when herdr and what is excused stay as they are too.
LEMMA OneGoesOn ==
    ASSUME TypeInv, KeepInv, NEW p \in Procs, NEW c, cmd' = [cmd EXCEPT ![p] = c],
           Kept(c, disk.ws, ws), UNCHANGED <<disk, ws, excused>>,
           c.hand = cmd[p].hand \/ cmd[p].hand = None
    PROVE  KeepInv'
<1>1. disk \in File /\ cmd \in [Procs -> Commands]
  BY DEF TypeInv, TypeOK
<1>2. \A q \in Procs : Kept(cmd'[q], disk'.ws, ws')
  BY <1>1 DEF KeepInv
<1>3. NothingLiveForgotten'
  BY <1>1 DEF KeepInv, NothingLiveForgotten
<1> QED
  BY <1>2, <1>3 DEF KeepInv

\* The look at the file before a save.
LEMMA RereadKeeps == ASSUME TypeInv, KeepInv, NEW p \in Procs, Reread(p) PROVE KeepInv'
<1> DEFINE c == cmd[p]
           s == c.stale /\ c.why \notin {"decide", "merge"}
           d == CASE c.why = "decide" -> Decided(c)
                  [] c.why = "merge"  -> disk
                  [] OTHER            -> Preserving(c.draft)
           r == [c EXCEPT !.at = "write", !.missed = FALSE, !.stale = s, !.draft = d]
<1>1. /\ c \in Commands /\ disk \in File /\ c.copy \in File /\ c.draft \in File
      /\ Kept(c, disk.ws, ws) /\ c.at = "reread" /\ Born(ws, disk.ws)
      /\ ~ disk.there => disk.ws = None
  BY CommandTyped DEF KeepInv, Reread
<1>2. UNCHANGED <<disk, ws, excused>>
  BY DEF Reread, ghosts
<1>3. CASE c.why = "merge" /\ ~ disk.there
  <2>1. cmd' = [cmd EXCEPT ![p] = Idle] /\ c.hand = None
    BY <1>1, <1>3 DEF Reread, Kept
  <2> QED
    BY <1>2, <2>1, IdleKept, OneGoesOn
<1>4. CASE ~ (c.why = "merge" /\ ~ disk.there)
  <2>1. cmd' = [cmd EXCEPT ![p] = r]
    BY <1>1, <1>4 DEF Reread, TypeInv, TypeOK, Commands
  <2>2. /\ c.why = "decide" => d.ws = IF disk.there THEN disk.ws ELSE c.copy.ws
        /\ c.why = "merge" => d = disk
        /\ c.why \notin {"decide", "merge"} => d.ws = c.draft.ws
    BY <1>1 DEF Decided, Preserving, File
  <2>3. s \in BOOLEAN /\ (~ s => ~ c.stale \/ c.why \in {"decide", "merge"})
    BY <1>1 DEF Commands
  <2> HIDE DEF d, s
  <2>4. /\ r.at = "write" /\ r.stale = s /\ r.draft = d /\ r.why = c.why /\ r.hand = c.hand
        /\ r.copy = c.copy /\ r.op = c.op
    BY <1>1 DEF Commands
  <2> HIDE DEF r
  <2>5. Kept(r, disk.ws, ws)
    BY <1>1, <1>4, <2>2, <2>3, <2>4 DEF Kept, Saving, Repairing
  <2> QED
    BY <1>2, <2>1, <2>4, <2>5, OneGoesOn
<1> QED
  BY <1>3, <1>4

\* A save that failed: the repair is dropped and its workspace held, anything
\* else rests with the copy as it would have been saved.
LEMMA FailedKept ==
    ASSUME NEW c \in Commands, NEW d, NEW h, Kept(c, d, h), c.at = "write",
           c.why = "repair" => c.hand \in Workspaces
    PROVE  Kept(Failed(c), d, h) /\ Failed(c).hand = c.hand
<1> DEFINE u == [c EXCEPT !.copy = Undone(c)]
<1>1. u \in Commands /\ u.hand = c.hand /\ u.why = c.why /\ u.stale = c.stale /\ u.op = c.op
      /\ u.copy = Undone(c) /\ u.copy \in File
  BY DEF Undone, Commands
<1>2. CASE c.why = "repair"
  <2>1. Failed(c) = [u EXCEPT !.at = "reclaim"] /\ u.copy = c.copy
    BY <1>1, <1>2 DEF Failed, Undone
  <2> QED
    BY <1>1, <1>2, <2>1 DEF Kept, Saving, Repairing, Commands
<1>3. CASE c.why # "repair"
  <2>1. u.copy = c.draft /\ c.hand = None
    BY <1>1, <1>3 DEF Undone, Kept
  <2>2. CASE c.why = "decide"
    BY <1>1, <2>1, <2>2, IdleKept DEF Failed, Refused, Kept, Idle
  <2>3. CASE c.why = "merge"
    BY <2>1, <2>3, IdleKept DEF Failed, Idle
  <2>4. CASE c.why \notin {"decide", "merge"}
    <3>1. Rests(u, d, h)
      BY <1>1, <1>3, <2>1, <2>4 DEF Rests, Kept, Saving
    <3>2. CASE c.why = "last"
      <4>1. Kept(Saves(u, u.copy, "merge"), d, h)
        BY <1>1, <3>1, SavesKept DEF Reasons
      <4>2. Saves(u, u.copy, "merge").hand = None
        BY <1>1, <2>1 DEF Saves, Commands
      <4> QED
        BY <2>1, <3>2, <4>1, <4>2 DEF Failed
    <3>3. CASE c.why = "reopen"
      <4>1. /\ [u.copy EXCEPT !.phase = "Failed"] \in File
            /\ [u.copy EXCEPT !.phase = "Failed"].ws = u.copy.ws
        BY <1>1 DEF File
      <4> HIDE DEF u
      <4>2. Kept(Unbriefed(u), d, h)
        BY <1>1, <3>1, <4>1, SavesKept DEF Unbriefed, Reasons, Plain
      <4>3. Unbriefed(u).hand = None
        BY <1>1, <2>1 DEF Unbriefed, Saves, Commands
      <4> QED
        BY <2>1, <3>3, <4>2, <4>3 DEF Failed, u
    <3>4. CASE c.why \notin {"last", "reopen"}
      <4>1. Kept(Refused(u), d, h)
        BY <1>1, <2>4, <3>1, RestsKept
      <4>2. Refused(u).hand = None
        BY <1>1, <2>1 DEF Refused, Commands, Idle
      <4> QED
        BY <1>3, <2>1, <2>4, <3>4, <4>1, <4>2 DEF Failed
    <3> QED
      BY <3>2, <3>3, <3>4
  <2> QED
    BY <2>2, <2>3, <2>4
<1> QED
  BY <1>2, <1>3

\* A save that worked: the copy is the file.
LEMMA DoneKept ==
    ASSUME NEW c, NEW d, NEW h, Rests(c, d, h), c.why = "decide" => c.op # "panel"
    PROVE  Kept(Done(c), d, h)
<1>1. Kept(Idle, d, h)
  BY IdleKept
<1>2. c.why # "decide" => Kept(Refused(c), d, h)
  BY RestsKept
<1>3. c.why # "decide" => \A at \in {"ready", "launch", "brief", "next", "deliver"} :
                             Kept([c EXCEPT !.at = at], d, h)
  BY RestsKept
<1>4. Kept(Saves(c, c.copy, "merge"), d, h)
  BY SavesKept DEF Rests, Reasons, Commands
<1> QED
  BY <1>1, <1>2, <1>3, <1>4 DEF Done

\* The write itself: a workspace it takes off the record is gone, or its writer
\* had missed that it came on.
LEMMA WriteKeeps == ASSUME TypeInv, KeepInv, NEW p \in Procs, Write(p) PROVE KeepInv'
<1> DEFINE c == cmd[p]
           f == [c.draft EXCEPT !.there = TRUE]
           ok == [c EXCEPT !.copy = f, !.hand = None, !.stale = FALSE]
<1>1. /\ c \in Commands /\ disk \in File /\ c.draft \in File /\ c.at = "write" /\ Sound(c)
      /\ Kept(c, disk.ws, ws)
      /\ c.why = "repair" => c.hand \in Workspaces
  BY CommandTyped DEF KeepInv, Write, Sound
<1>2. f \in File /\ f.ws = c.draft.ws /\ f.there
  BY <1>1 DEF File
<1>3. UNCHANGED ws
  BY DEF Write
<1>4. CASE /\ cmd' = [cmd EXCEPT ![p] = Failed(c)]
           /\ UNCHANGED <<disk, decision, excused>>
  <2>1. Kept(Failed(c), disk.ws, ws) /\ Failed(c).hand = c.hand
    BY <1>1, FailedKept
  <2> HIDE DEF c
  <2> QED
    BY <1>3, <1>4, <2>1, OneGoesOn DEF c
<1>5. CASE /\ disk' = f
           /\ cmd' = [q \in Procs |-> IF q = p THEN Done(ok) ELSE Passed(q, f)]
           /\ excused' = IF c.stale /\ disk.ws # f.ws THEN excused \cup {disk.ws} ELSE excused
  <2>1. /\ ok \in Commands /\ ok.copy = f /\ ok.hand = None /\ ok.why = c.why /\ ok.op = c.op
        /\ ~ ok.stale
    BY <1>1, <1>2 DEF Commands
  <2>2. Born(ws, f.ws)
    BY <1>1, <1>2 DEF Kept, Saving
  <2>3. Kept(Done(ok), f.ws, ws)
    <3>1. Rests(ok, f.ws, ws)
      BY <2>1, <2>2 DEF Rests
    <3>2. ok.why = "decide" => ok.op # "panel"
      BY <1>1, <2>1 DEF Kept
    <3> HIDE DEF ok, f
    <3> QED
      BY <3>1, <3>2, DoneKept
  <2>4. \A q \in Procs : Kept(Passed(q, f), f.ws, ws)
    <3> HIDE DEF f
    <3> QED
      BY <1>2, KeptPassed DEF KeepInv
  <2>5. \A q \in Procs : Kept(cmd'[q], disk'.ws, ws')
    <3> HIDE DEF ok, f
    <3> QED
      BY <1>3, <1>5, <2>3, <2>4
  <2>6. \A q \in Procs \ {p} : cmd'[q].hand = cmd[q].hand
    <3>1. \A q \in Procs : cmd[q] \in Commands
      BY CommandTyped
    <3>2. \A q \in Procs : Passed(q, f).hand = cmd[q].hand
      BY <3>1 DEF Passed, Commands
    <3> HIDE DEF ok, f
    <3> QED
      BY <1>5, <3>2
  <2>7. ASSUME NEW w \in Workspaces, ws[w] = "live", disk.ws = w, f.ws # w PROVE w \in excused'
    <3>1. c.stale
      BY <1>1, <1>2, <2>7 DEF Kept, Saving, Repairing, Gone
    <3> HIDE DEF f
    <3> QED
      BY <1>5, <2>7, <3>1
  <2>8. c.hand # None => f.ws = c.hand
    BY <1>1, <1>2 DEF Kept, Saving
  <2>9. NothingLiveForgotten'
    <3> SUFFICES ASSUME NEW w \in Workspaces, ws[w] = "live", disk'.ws # w, w \notin excused'
                 PROVE  \E q \in Procs : cmd'[q].hand = w
      BY <1>2, <1>3, <1>5 DEF NothingLiveForgotten
    <3>1. disk.ws # w /\ w \notin excused
      BY <1>5, <2>7
    <3>2. PICK q \in Procs : cmd[q].hand = w
      BY <3>1 DEF KeepInv, NothingLiveForgotten
    <3>3. q # p
      BY <1>5, <2>8, <3>2
    <3> QED
      BY <2>6, <3>2, <3>3
  <2> QED
    BY <1>2, <1>3, <1>5, <2>2, <2>5, <2>9 DEF KeepInv
<1> QED
  BY <1>4, <1>5 DEF Write

\* A command between its saves has nothing in hand.
LEMMA AtRest ==
    ASSUME TypeInv, KeepInv, NEW p \in Procs,
           cmd[p].at \notin {"idle", "reclaim", "reread", "write"}
    PROVE  Rests(cmd[p], disk.ws, ws) /\ cmd[p].why # "decide"
BY CommandTyped DEF KeepInv, Kept, Rests, Saving

\* ensure_workspace: the old workspace is gone when its replacement is made, and
\* the replacement is in hand until it is recorded or given back.
LEMMA EnsureKeeps ==
    ASSUME TypeInv, KeepInv, NEW p \in Procs, Exists(p) \/ Refresh(p) \/ Create(p) \/ Reclaim(p)
    PROVE  KeepInv'
<1> DEFINE c == cmd[p]
<1>1. /\ c \in Commands /\ disk \in File /\ c.copy \in File /\ cmd \in [Procs -> Commands]
      /\ Kept(c, disk.ws, ws) /\ ws \in [Workspaces -> {"unborn", "live", "closed"}]
      /\ excused \subseteq Workspaces \cup {None}
      /\ Sound(c)
  BY CommandTyped DEF KeepInv, TypeInv, TypeOK
<1>2. CASE Exists(p)
  <2>1. Rests(c, disk.ws, ws) /\ c.why # "decide"
    BY <1>2, AtRest DEF Exists
  <2>2. PICK at \in {"ready", "refresh"}, o \in BOOLEAN :
           /\ cmd' = [cmd EXCEPT ![p] = [c EXCEPT !.at = at, !.open = o]]
           /\ at = "refresh" => ~ Alive(c.copy.ws)
    <3>1. PICK unknown \in BOOLEAN :
             cmd' = [cmd EXCEPT ![p] =
                  [c EXCEPT !.at = IF Alive(c.copy.ws) \/ unknown THEN "ready" ELSE "refresh",
                            !.open = ~ disk.archived]]
      BY <1>2, Zenon DEF Exists, TypeInv, TypeOK
    <3>2. (IF Alive(c.copy.ws) \/ unknown THEN "ready" ELSE "refresh") \in {"ready", "refresh"}
      OBVIOUS
    <3>3. (~ disk.archived) \in BOOLEAN
      OBVIOUS
    <3>4. ((IF Alive(c.copy.ws) \/ unknown THEN "ready" ELSE "refresh") = "refresh") => ~ Alive(c.copy.ws)
      OBVIOUS
    <3> QED
      BY <3>1, <3>2, <3>3, <3>4, Zenon
  <2>3. at = "refresh" => Gone(ws, c.copy.ws)
    BY <1>1, <2>1, <2>2 DEF Alive, Gone, Rests, Born, File
  <2>4. /\ Kept([c EXCEPT !.at = at, !.open = o], disk.ws, ws)
        /\ [c EXCEPT !.at = at, !.open = o].hand = c.hand
    BY <2>1, <2>2, <2>3 DEF Kept, Rests, Saving, Repairing, Commands
  <2>5. UNCHANGED <<disk, ws, excused>>
    BY <1>2 DEF Exists, ghosts
  <2> HIDE DEF c
  <2> QED
    BY <2>2, <2>4, <2>5, OneGoesOn DEF c
<1>3. CASE Refresh(p)
  <2>1. Rests(c, disk.ws, ws) /\ c.why # "decide" /\ c.at = "refresh"
    BY <1>3, AtRest DEF Refresh
  <2>2. Kept(Refused(c), disk.ws, ws)
    BY <2>1, RestsKept
  <2>3. Kept([c EXCEPT !.at = "create"], disk.ws, ws)
    BY <1>1, <2>1 DEF Kept, Saving, Repairing, Commands
  <2>4. UNCHANGED <<disk, ws, excused>> /\ c.hand = None
    BY <1>3, <2>1 DEF Refresh, ghosts, Rests
  <2>5. PICK d : Kept(d, disk.ws, ws) /\ cmd' = [cmd EXCEPT ![p] = d]
    BY <1>3, <2>2, <2>3 DEF Refresh
  <2> HIDE DEF c
  <2> QED
    BY <2>4, <2>5, OneGoesOn DEF c
<1>4. CASE Create(p)
  <2>1. Rests(c, disk.ws, ws) /\ c.why # "decide" /\ c.at = "create" /\ c.hand = None
    BY <1>4, AtRest DEF Create, Rests
  <2>2. CASE /\ cmd' = [cmd EXCEPT ![p] = Refused(@)]
             /\ UNCHANGED ws
    <3>1. Kept(Refused(c), disk.ws, ws)
      BY <2>1, RestsKept
    <3>2. UNCHANGED <<disk, ws, excused>> /\ cmd' = [cmd EXCEPT ![p] = Refused(c)]
      BY <1>4, <2>2 DEF Create, ghosts
    <3> HIDE DEF c
    <3> QED
      BY <2>1, <3>1, <3>2, OneGoesOn DEF c
  <2>3. CASE \E w \in Workspaces :
                /\ ws[w] = "unborn" /\ ws' = [ws EXCEPT ![w] = "live"]
                /\ cmd' = [cmd EXCEPT ![p] =
                             [Saves(@, Repaired(@.copy, w), "repair") EXCEPT !.hand = w]]
    <3>1. PICK w \in Workspaces :
                /\ ws[w] = "unborn" /\ ws' = [ws EXCEPT ![w] = "live"]
                /\ cmd' = [cmd EXCEPT ![p] =
                             [Saves(@, Repaired(@.copy, w), "repair") EXCEPT !.hand = w]]
      BY <2>3
    <3> DEFINE d == Repaired(c.copy, w)
               r == [c EXCEPT !.at = "reread", !.draft = d, !.why = "repair", !.hand = w]
    <3>2. d.ws = w
      BY <1>1 DEF Repaired, File
    <3>3. r = [Saves(c, d, "repair") EXCEPT !.hand = w]
      BY <1>1 DEF Saves, Plain, Commands
    <3>4. cmd' = [cmd EXCEPT ![p] = r]
      BY <3>1, <3>3
    <3> HIDE DEF d
    <3>5. /\ r.at = "reread" /\ r.draft = d /\ r.why = "repair" /\ r.hand = w
          /\ r.copy = c.copy /\ r.stale = c.stale
      BY <1>1 DEF Commands
    <3> HIDE DEF r
    <3>6. /\ Ages(ws, ws') /\ ws'[w] = "live"
          /\ \A v \in Workspaces : ws'[v] = "live" => ws[v] = "live" \/ w = v
      BY <1>1, <3>1 DEF Ages
    <3>7. Gone(ws', c.copy.ws) /\ Born(ws', c.copy.ws) /\ Born(ws', w)
      BY <1>1, <2>1, <3>6 DEF Kept, Repairing, Gone, Born, Ages, File
    <3>8. Kept(r, disk.ws, ws')
      BY <1>1, <2>1, <3>2, <3>5, <3>7 DEF Kept, Saving, Repairing
    <3>9. UNCHANGED disk /\ excused \subseteq excused' /\ Ages(ws, ws')
      BY <1>4, <3>6 DEF Create, ghosts
    <3>10. NewInHand(r)
      BY <3>5, <3>6 DEF NewInHand
    <3>11. HandsOn(p, r)
      BY <2>1 DEF HandsOn
    <3> HIDE DEF c
    <3> QED
      BY <3>4, <3>8, <3>9, <3>10, <3>11, OneKeeps
  <2> QED
    BY <1>4, <2>2, <2>3 DEF Create
<1>5. CASE Reclaim(p)
  <2>1. c.hand \in Workspaces /\ c.at = "reclaim" /\ c.why = "repair"
    BY <1>1, <1>5 DEF Reclaim, Sound, Kept
  <2>2. /\ Ages(ws, ws') /\ excused \subseteq excused'
        /\ \A w \in Workspaces : ws'[w] = "live" => ws[w] = "live"
        /\ c.hand \in excused' \/ ws'[c.hand] # "live"
    BY <1>1, <1>5, <2>1 DEF Reclaim, GivesBack, Closes, Ages
  <2>3. Rests([c EXCEPT !.hand = None], disk.ws, ws) /\ [c EXCEPT !.hand = None].why = "repair"
    BY <1>1, <2>1 DEF Kept, Rests, Commands
  <2>4. Refused(c) = Refused([c EXCEPT !.hand = None])
    BY <1>1 DEF Refused, Commands
  <2>5. Kept(Refused(c), disk.ws, ws)
    BY <2>3, <2>4, RestsKept
  <2>6. Kept(Refused(c), disk.ws, ws')
    <3>1. Refused(c) \in Commands
      BY <1>1, RefusedSound DEF Sound
    <3> QED
      BY <2>2, <2>5, <3>1, KeptAges
  <2>7. cmd' = [cmd EXCEPT ![p] = Refused(c)] /\ UNCHANGED disk /\ Ages(ws, ws') /\ excused \subseteq excused'
    BY <1>5, <2>2 DEF Reclaim
  <2>8. NewInHand(Refused(c))
    BY <2>2 DEF NewInHand
  <2>9. HandsOn(p, Refused(c))
    BY <2>2 DEF HandsOn
  <2> HIDE DEF c
  <2> QED
    BY <2>6, <2>7, <2>8, <2>9, OneKeeps
<1> QED
  BY <1>2, <1>3, <1>4, <1>5

\* What a command goes on to that has read the file, or neither read nor wrote it.
LEMMA CommandKeeps ==
    ASSUME TypeInv, KeepInv, NEW p \in Procs,
           Gate(p) \/ Ready(p) \/ Launch(p) \/ Brief(p) \/ Deliver(p) \/ NextReviewer(p)
    PROVE  KeepInv'
<1> DEFINE c == cmd[p]
<1>1. /\ c \in Commands /\ disk \in File /\ c.copy \in File
      /\ Rests(c, disk.ws, ws) /\ c.why # "decide" /\ c.hand = None
      /\ UNCHANGED <<disk, ws, excused>>
  BY CommandTyped, AtRest DEF Gate, Ready, Launch, Brief, Deliver, NextReviewer, Rests, ghosts
<1>2. Kept(Refused(c), disk.ws, ws) /\ Kept(Idle, disk.ws, ws)
  BY <1>1, RestsKept, IdleKept
<1>3. \A reason \in {"merge", "discard", "launched", "rehydrate", "last", "mark", "reopen", "unbriefed"} :
         /\ Kept(Saves(c, c.copy, reason), disk.ws, ws)
         /\ \A s \in {"Running", "Failed"} : Kept(Saves(c, [c.copy EXCEPT !.phase = s], reason), disk.ws, ws)
  <2> SUFFICES ASSUME NEW reason \in {"merge", "discard", "launched", "rehydrate", "last", "mark",
                                      "reopen", "unbriefed"}
               PROVE  /\ Kept(Saves(c, c.copy, reason), disk.ws, ws)
                      /\ \A s \in {"Running", "Failed"} :
                            Kept(Saves(c, [c.copy EXCEPT !.phase = s], reason), disk.ws, ws)
    OBVIOUS
  <2>1. reason \in Reasons \ {"repair", "none"} /\ reason # "decide"
    BY DEF Reasons, Plain
  <2>2. \A s \in {"Running", "Failed"} : /\ [c.copy EXCEPT !.phase = s] \in File
                                         /\ [c.copy EXCEPT !.phase = s].ws = c.copy.ws
    BY <1>1 DEF File
  <2> HIDE DEF c
  <2> QED
    BY <1>1, <2>1, <2>2, SavesKept
<1>4. \A at \in {"launch", "exists"} : Kept([c EXCEPT !.at = at], disk.ws, ws)
  BY <1>1, RestsKept
<1>5. ASSUME NEW d, Kept(d, disk.ws, ws), cmd' = [cmd EXCEPT ![p] = d] PROVE KeepInv'
  <2> HIDE DEF c
  <2> QED
    BY <1>1, <1>5, OneGoesOn DEF c
<1>7. CASE Gate(p)
  <2> DEFINE a == Archived(c)
             r == [c EXCEPT !.at = "exists", !.copy.archived = a]
  <2>1. cmd' = [cmd EXCEPT ![p] = IF a THEN Saves(c, c.copy, "merge") ELSE r]
    BY <1>7 DEF Gate
  <2> HIDE DEF a
  <2>2. Kept(r, disk.ws, ws)
    BY <1>1 DEF Kept, Rests, Saving, Repairing, Commands, File
  <2> QED
    BY <1>3, <1>5, <2>1, <2>2
<1>8. CASE Ready(p)
  <2>1. PICK d : Kept(d, disk.ws, ws) /\ cmd' = [cmd EXCEPT ![p] = d]
    BY <1>2, <1>3, <1>4, <1>8 DEF Ready
  <2> QED
    BY <1>5, <2>1
<1>9. CASE Launch(p)
  <2>1. PICK d : Kept(d, disk.ws, ws) /\ cmd' = [cmd EXCEPT ![p] = d]
    BY <1>2, <1>3, <1>9 DEF Launch
  <2> QED
    BY <1>5, <2>1
<1>10. CASE Brief(p)
  <2>1. PICK d : Kept(d, disk.ws, ws) /\ cmd' = [cmd EXCEPT ![p] = d]
    BY <1>3, <1>10 DEF Brief, Unbriefed
  <2> QED
    BY <1>5, <2>1
<1>11. CASE Deliver(p)
  <2>1. PICK d : Kept(d, disk.ws, ws) /\ cmd' = [cmd EXCEPT ![p] = d]
    BY <1>2, <1>3, <1>11 DEF Deliver, Unbriefed
  <2> QED
    BY <1>5, <2>1
<1>12. CASE NextReviewer(p)
  <2>1. PICK d : Kept(d, disk.ws, ws) /\ cmd' = [cmd EXCEPT ![p] = d]
    BY <1>3, <1>4, <1>12 DEF NextReviewer
  <2> QED
    BY <1>5, <2>1
<1> QED
  BY <1>7, <1>8, <1>9, <1>10, <1>11, <1>12

\* The first read, the close of a workspace and the removal of the run.
LEMMA ClickKeeps ==
    ASSUME TypeInv, KeepInv, NEW p \in Procs, (\E op \in Ops : Load(p, op)) \/ Close(p) \/ Remove(p)
    PROVE  KeepInv'
<1> DEFINE c == cmd[p]
<1>1. /\ c \in Commands /\ disk \in File /\ c.copy \in File /\ Kept(c, disk.ws, ws)
      /\ Born(ws, disk.ws) /\ ws \in [Workspaces -> {"unborn", "live", "closed"}]
  BY CommandTyped DEF KeepInv, TypeInv, TypeOK
<1>2. CASE \E op \in Ops : Load(p, op)
  <2>1. PICK op \in Ops : Load(p, op)
    BY <1>2
  <2> DEFINE at == Begins(op)
             why == IF op = "restore" THEN "decide" ELSE "none"
             r == [Idle EXCEPT !.op = op, !.at = at, !.copy = disk, !.why = why]
  <2>2. /\ at \in {"gate", "launch", "close", "reread", "exists"}
        /\ at = "reread" <=> op = "restore"
        /\ at = "close" => op # "panel"
        /\ why \in {"decide", "none"} /\ (why = "decide" <=> op = "restore")
    BY DEF Begins, Clicks
  <2>3. cmd' = [cmd EXCEPT ![p] = r] /\ UNCHANGED <<disk, ws, excused>> /\ c.hand = None
    BY <1>1, <2>1 DEF Load, Kept, ghosts
  <2> HIDE DEF at, why
  <2>4. /\ r.op = op /\ r.at = at /\ r.copy = disk /\ r.why = why /\ r.hand = None
        /\ ~ r.stale /\ r.draft = Missing
    BY DEF Idle
  <2> HIDE DEF r
  <2>5. Kept(r, disk.ws, ws)
    BY <1>1, <2>2, <2>4 DEF Kept, Saving, Repairing, Missing, Born
  <2> HIDE DEF c
  <2> QED
    BY <2>3, <2>5, OneGoesOn DEF c
<1>3. CASE Close(p)
  <2>1. /\ Rests(c, disk.ws, ws) /\ c.why # "decide" /\ c.at = "close" /\ c.op # "panel"
        /\ c.hand = None
    BY <1>1, <1>3, AtRest DEF Close, Rests, Kept
  <2>2. Kept(Saves(c, c.copy, "decide"), disk.ws, ws)
    BY <1>1, <2>1, SavesKept DEF Reasons
  <2>3. Kept([c EXCEPT !.at = "remove"], disk.ws, ws)
    BY <2>1 DEF Kept, Rests, Saving, Repairing, Commands
  <2>4. \A d \in {Saves(c, c.copy, "decide"), [c EXCEPT !.at = "remove"]} : d \in Commands
    BY <1>1, SavesSound DEF Sound, Commands, Steps, Reasons
  <2>5. Ages(ws, ws') /\ \A w \in Workspaces : ws'[w] = "live" => ws[w] = "live"
    BY <1>1, <1>3 DEF Close, Closes, Ages, Alive, File
  <2>6. PICK d : Kept(d, disk.ws, ws') /\ cmd' = [cmd EXCEPT ![p] = d]
    BY <1>3, <2>2, <2>3, <2>4, <2>5, KeptAges DEF Close
  <2>7. UNCHANGED <<disk, excused>>
    BY <1>3 DEF Close, ghosts
  <2> HIDE DEF c
  <2> QED
    BY <2>1, <2>5, <2>6, <2>7, OneKeeps DEF c, NewInHand, HandsOn
<1>4. CASE Remove(p)
  <2>1. /\ disk' = Missing /\ UNCHANGED ws /\ excused' = excused \cup {disk.ws}
        /\ cmd' = [q \in Procs |-> IF q = p THEN Idle ELSE Passed(q, Missing)]
    BY <1>4 DEF Remove
  <2>2. c.hand = None
    BY <1>4, AtRest DEF Remove, Rests
  <2>3. Missing \in File
    BY DEF Missing, File
  <2>4. \A q \in Procs : Kept(cmd'[q], disk'.ws, ws')
    BY <2>1, <2>3, KeptPassed, IdleKept DEF KeepInv
  <2>5. \A q \in Procs \ {p} : cmd'[q].hand = cmd[q].hand
    <3>1. \A q \in Procs : cmd[q] \in Commands
      BY CommandTyped
    <3>2. \A q \in Procs : Passed(q, Missing).hand = cmd[q].hand
      BY <3>1 DEF Passed, Commands
    <3> QED
      BY <2>1, <3>2
  <2>6. NothingLiveForgotten'
    BY <2>1, <2>2, <2>5 DEF KeepInv, NothingLiveForgotten
  <2> QED
    BY <2>1, <2>4, <2>6 DEF KeepInv, Missing, Born
<1> QED
  BY <1>2, <1>3, <1>4

\* Every step of anybody leaves every standing workspace accounted for.
LEMMA KeepStep == TypeInv /\ KeepInv /\ [Next]_vars => KeepInv'
<1> SUFFICES ASSUME TypeInv, KeepInv, [Next]_vars PROVE KeepInv'
  OBVIOUS
<1>1. ASSUME NEW p \in Procs, Step(p) \/ \E op \in Ops : Load(p, op) PROVE KeepInv'
  BY <1>1, RereadKeeps, WriteKeeps, EnsureKeeps, CommandKeeps, ClickKeeps DEF Step
<1>2. ASSUME NEW p \in Procs, Kill(p) PROVE KeepInv'
  <2>1. /\ cmd' = [cmd EXCEPT ![p] = Idle] /\ UNCHANGED <<disk, ws>>
        /\ excused' = excused \cup {cmd[p].hand}
    BY <1>2 DEF Kill
  <2>2. Ages(ws, ws') /\ Kept(Idle, disk.ws, ws')
    BY <2>1, IdleKept DEF Ages
  <2> QED
    BY <2>1, <2>2, OneKeeps DEF NewInHand, HandsOn
<1>3. ASSUME UNCHANGED <<disk, cmd, excused>>, Ages(ws, ws'),
             \A w \in Workspaces : ws'[w] = "live" => ws[w] = "live"
      PROVE  KeepInv'
  <2>1. disk \in File /\ \A q \in Procs : cmd[q] \in Commands
    BY CommandTyped DEF TypeInv, TypeOK
  <2>2. \A q \in Procs : Kept(cmd[q], disk.ws, ws')
    BY <1>3, <2>1, KeptAges DEF KeepInv
  <2>3. Born(ws', disk.ws)
    BY <1>3, <2>1 DEF KeepInv, Born, Ages, File
  <2>4. NothingLiveForgotten'
    BY <1>3 DEF KeepInv, NothingLiveForgotten
  <2> QED
    BY <1>3, <2>2, <2>3, <2>4 DEF KeepInv
<1>4. ASSUME NEW w \in Workspaces, Vanish(w) \/ OpenPane(w) PROVE KeepInv'
  BY <1>3, <1>4 DEF Vanish, OpenPane, Closes, Ages, TypeInv, TypeOK, ghosts
<1>5. CASE UNCHANGED vars
  BY <1>3, <1>5 DEF vars, ghosts, Ages
<1> QED
  BY <1>1, <1>2, <1>4, <1>5 DEF Next

\* A run begins with its one workspace on record.
LEMMA KeepInit == Init => KeepInv
<1> SUFFICES ASSUME Init PROVE KeepInv
  OBVIOUS
<1>1. /\ disk.there /\ disk.ws = First /\ ws[First] = "live"
      /\ \A w \in Workspaces : ws[w] = "live" => w = First
      /\ \A p \in Procs : cmd[p] = Idle
  BY DEF Init
<1> QED
  BY <1>1, IdleKept DEF KeepInv, NothingLiveForgotten, Born

\* A workspace that stands is the run's on record, or in the hands of the command
\* that is about to record it or give it back, or the cause of its being forgotten
\* is one of those named: a kill, a close that failed, a purge, or a whole copy
\* written over a change that its writer had missed (ensure_workspace,
\* reclaim_unrecorded_workspace, RunState::save).
THEOREM NothingForgotten == Spec => []NothingLiveForgotten
<1>1. KeepInv => NothingLiveForgotten
  BY DEF KeepInv
<1>2. TypeInv /\ KeepInv /\ [Next]_vars => (TypeInv /\ KeepInv)'
  BY TypeStep, KeepStep
<1> QED
  BY TypeInit, KeepInit, <1>1, <1>2, PTL DEF Spec
=============================================================================
