------------------------------ MODULE Interview ------------------------------
(***************************************************************************)
(* interview.jsonl, the append-only log of a run's questions and answers.  *)
(* A phase agent appends a question (`drovr ask`); the review server's     *)
(* workers append the human's answers (POST answer); a backgrounded        *)
(* `drovr ask wait` polls the file. Nobody takes a lock: each append is a  *)
(* read, a look at the log's size, and one write, which a crash or a full  *)
(* disk may cut short, within a character too. The reviewer may cancel the *)
(* run, and a cleanup may purge its directory, file by file, between any   *)
(* two steps.                                                              *)
(*                                                                         *)
(* Left out: a question's text, context and options, whose checks precede  *)
(* every step here; hand edits of the log; the server's own life           *)
(* (ReviewServer); two agents asking at once, which drovr forbids.         *)
(***************************************************************************)
EXTENDS Naturals, Sequences, FiniteSets

CONSTANTS Workers,  \* the server's threads that post answers
          Texts,    \* what a human may answer
          None,     \* no question, no answer
          Cap,      \* MAX_LOG, in writes
          MaxAsks,  \* bound: questions the agent tries to post
          MaxPosts, \* bound: answers posted
          MaxWaits, \* bound: waits armed
          MaxTorn   \* bound: writes cut short

CONSTANT Agent
Writers == Workers \cup {Agent}
Questions == 1..MaxAsks
Ids == 0..MaxAsks - 1

ASSUME InterviewAssumption ==
    /\ Cap \in Nat /\ MaxAsks \in Nat /\ MaxPosts \in Nat /\ MaxWaits \in Nat /\ MaxTorn \in Nat
    /\ Agent \notin Workers /\ None \notin Texts \cup Nat /\ IsFiniteSet(Workers)

VARIABLES
    log,       \* what was written, in order
    run,       \* whether its directory is there, being purged, or gone
    cancelled, \* its reviewer cancelled it
    writer,    \* each writer, between the steps of its append
    wait,      \* the `ask wait`
    asks,      \* questions tried
    posts,     \* answers tried
    waits,     \* waits armed
    torn,      \* writes cut short
    posted,    \* ghost: the asks that returned 0
    told       \* ghost: the answers that got 200

bounds == <<asks, posts, waits, torn>>
ghosts == <<posted, told>>
vars == <<log, run, cancelled, writer, wait, bounds, ghosts>>

kept == run = "there"
dir == run # "gone"

\* One write: a question under its id, an answer to an id, or the start of either,
\* which ends between two characters (Half) or inside one (Split). `end` says that
\* its newline made it.
Half == [kind |-> "half", id |-> 0, of |-> None, end |-> FALSE]
Split == [kind |-> "split", id |-> 0, of |-> None, end |-> FALSE]
Written == [kind : {"ask"}, id : Ids, of : Questions, end : BOOLEAN]
           \cup [kind : {"answer"}, id : Ids, of : Texts, end : BOOLEAN]
           \cup {Half, Split}

-----------------------------------------------------------------------------
(* The fold *)

\* A write is a line of its own when the one before it ended.
Line(l, k) == /\ k = 1 \/ l[k - 1].end
              /\ (l[k].end \/ k = Len(l))
LinesOf(l, kind, n) == {k \in DOMAIN l : Line(l, k) /\ l[k].kind = kind /\ l[k].id = n}
Asked(l) == {n \in Ids : LinesOf(l, "ask", n) # {}}
\* The first ask of an id wins, and the last answer that follows it.
QuestionOf(l, n) == l[CHOOSE k \in LinesOf(l, "ask", n) : \A j \in LinesOf(l, "ask", n) : k <= j].of
AnswersTo(l, n) == {k \in LinesOf(l, "answer", n) : \E j \in LinesOf(l, "ask", n) : j < k}
AnswerOf(l, n) == IF AnswersTo(l, n) = {} THEN None
                  ELSE l[CHOOSE k \in AnswersTo(l, n) : \A j \in AnswersTo(l, n) : j <= k].of
Fold(l) == [n \in Asked(l) |-> [question |-> QuestionOf(l, n), answer |-> AnswerOf(l, n)]]
Pending(l) == {n \in Asked(l) : AnswerOf(l, n) = None}
\* A log over the cap is refused by every reader, and so is one that is not text.
Readable == Len(log) <= Cap /\ \A k \in DOMAIN log : log[k] # Split

-----------------------------------------------------------------------------
(* Appending *)

Quiet == [at |-> "idle", line |-> Half]
Goes(w, at) == writer' = [writer EXCEPT ![w].at = at]

\* drovr ask: refused for a cancelled run, or none.
Ask == /\ writer[Agent].at = "idle" /\ asks < MaxAsks /\ dir /\ ~ cancelled
       /\ asks' = asks + 1
       /\ writer' = [writer EXCEPT ![Agent] = [at |-> "read",
                        line |-> [kind |-> "ask", id |-> 0, of |-> asks + 1, end |-> TRUE]]]
       /\ UNCHANGED <<log, run, cancelled, wait, posts, waits, torn, ghosts>>

\* POST answer: refused, first of all, for a cancelled run.
Post(w) == /\ writer[w].at = "idle" /\ posts < MaxPosts /\ ~ cancelled
           /\ posts' = posts + 1
           /\ \E n \in Asked(log), t \in Texts :
                 writer' = [writer EXCEPT ![w] = [at |-> "read",
                               line |-> [kind |-> "answer", id |-> n, of |-> t, end |-> TRUE]]]
           /\ UNCHANGED <<log, run, cancelled, wait, asks, waits, torn, ghosts>>

\* The id of the next ask: the number of the asks folded.
NextId(l) == Cardinality(Asked(l))
\* append_ask and append_answer read the log: an ask takes the next id, and is
\* refused when the log has it; an answer is refused when its id is not there.
\* (A refused ask changes nothing, whatever its id.)
Read(w) ==
    /\ writer[w].at = "read"
    /\ LET n == IF w = Agent THEN NextId(log) ELSE writer[w].line.id
       IN writer' = IF Readable /\ (w = Agent <=> n \notin Asked(log))
                    THEN [writer EXCEPT ![w].at = "size", ![w].line.id = n]
                    ELSE [writer EXCEPT ![w] = Quiet]
    /\ UNCHANGED <<log, run, cancelled, wait, bounds, ghosts>>

\* Mutant: what is there is measured, and not what it grows to.
FitsBefore == Len(log) <= Cap
\* The cap is enforced on the result.
Fits == Len(log) < Cap
\* append_line measures the log, then opens it to write.
Size(w) ==
    /\ writer[w].at = "size"
    /\ writer' = IF Fits THEN [writer EXCEPT ![w].at = "write"]
                 ELSE [writer EXCEPT ![w] = Quiet]
    /\ UNCHANGED <<log, run, cancelled, wait, bounds, ghosts>>

\* Mutant: a short write is taken for a whole one.
AckedAnyway(whole) == TRUE
\* write_all fails unless the whole line was written.
Acked(whole) == whole
\* One O_APPEND write; it fails where the directory is gone. Cut short, it leaves
\* the start of the line, or all of it but the newline.
Write(w) ==
    /\ writer[w].at = "write"
    /\ LET line == writer[w].line
           pair == <<line.id, line.of>>
       IN IF ~ dir THEN UNCHANGED <<log, torn, posted, told>>
          ELSE \E whole \in BOOLEAN :
             /\ IF whole THEN log' = Append(log, line) /\ UNCHANGED torn
                ELSE /\ torn < MaxTorn /\ torn' = torn + 1
                     /\ \E part \in {Half, Split, [line EXCEPT !.end = FALSE]} : log' = Append(log, part)
             /\ posted' = IF w = Agent /\ Acked(whole) THEN posted \cup {pair} ELSE posted
             /\ told' = IF w # Agent /\ Acked(whole) THEN told \cup {pair} ELSE told
    /\ writer' = [writer EXCEPT ![w] = Quiet]
    /\ UNCHANGED <<run, cancelled, wait, asks, posts, waits>>

-----------------------------------------------------------------------------
(* ask wait *)

Ended == {"never", "answered", "timeout", "cancelled", "error"}
Unarmed == [at |-> "never", snap |-> {}, result |-> <<>>, owed |-> {}, late |-> FALSE]
Ends(how) == wait' = [wait EXCEPT !.at = how]

\* Armed for a run whose directory is there.
Arm == /\ wait.at \in Ended /\ waits < MaxWaits /\ dir
       /\ waits' = waits + 1
       /\ wait' = [Unarmed EXCEPT !.at = "check", !.late = cancelled]
       /\ UNCHANGED <<log, run, cancelled, writer, asks, posts, torn, ghosts>>

\* Mutant: a cancelled run is noticed by the loop only.
NoFirstCheck == Ends("snap")
FirstCheck == Ends(IF cancelled THEN "cancelled" ELSE "snap")
CheckFirst == /\ wait.at = "check" /\ FirstCheck
              /\ UNCHANGED <<log, run, cancelled, writer, bounds, ghosts>>

\* With nothing pending, the interview as it stands.
AsItStands == Fold(log)
\* What the agent posted, and has no answer to.
Outstanding == {p \in posted : p[1] \in Asked(log) /\ QuestionOf(log, p[1]) = p[2]
                                  => AnswerOf(log, p[1]) = None}

\* The questions outstanding now are the ones waited for. `owed` is what the agent
\* posted and has no answer to, or all that it posted when the log has none pending.
Snapshot ==
    /\ wait.at = "snap"
    /\ wait' = IF ~ Readable THEN [wait EXCEPT !.at = "error"]
               ELSE IF Pending(log) = {}
               THEN [wait EXCEPT !.at = "answered", !.result = AsItStands, !.owed = posted]
               ELSE [wait EXCEPT !.at = "poll", !.snap = Pending(log), !.owed = Outstanding]
    /\ UNCHANGED <<log, run, cancelled, writer, bounds, ghosts>>

\* Each round: a cancellation outranks an answer, a missing directory is an error.
Poll == /\ wait.at = "poll"
        /\ Ends(IF cancelled THEN "cancelled" ELSE IF dir THEN "look" ELSE "error")
        /\ UNCHANGED <<log, run, cancelled, writer, bounds, ghosts>>

Found == [n \in wait.snap \cap Asked(log) |-> Fold(log)[n]]
\* Mutant: one answer is enough.
AnyAnswered == \E n \in DOMAIN Found : Found[n].answer # None
\* Mutant: whatever is pending now is waited for.
NonePending == wait.snap \subseteq Asked(log) /\ Pending(log) = {}
\* Every question of the snapshot is in the log, and answered.
AllAnswered == wait.snap \subseteq Asked(log) /\ \A n \in DOMAIN Found : Found[n].answer # None
Look == /\ wait.at = "look"
        /\ IF ~ Readable THEN Ends("error")
           ELSE IF AllAnswered THEN wait' = [wait EXCEPT !.at = "answered", !.result = Found]
           ELSE Ends("poll") \/ Ends("timeout")
        /\ UNCHANGED <<log, run, cancelled, writer, bounds, ghosts>>

-----------------------------------------------------------------------------
(* Around the log *)

Cancel == /\ dir /\ ~ cancelled /\ cancelled' = TRUE
          /\ UNCHANGED <<log, run, writer, wait, bounds, ghosts>>
\* cleanup --purge removes the files one by one, in any order, and then the
\* directory, if nobody has put a file there again. It may stop anywhere.
Purge == /\ run = "there" /\ run' = "purging"
         /\ UNCHANGED <<log, cancelled, writer, wait, bounds, ghosts>>
PurgeFile == /\ run = "purging"
             /\ \/ log # <<>> /\ log' = <<>> /\ UNCHANGED cancelled
                \/ cancelled /\ cancelled' = FALSE /\ UNCHANGED log
             /\ UNCHANGED <<run, writer, wait, bounds, ghosts>>
PurgeDir == /\ run = "purging" /\ log = <<>> /\ ~ cancelled /\ run' = "gone"
            /\ UNCHANGED <<log, cancelled, writer, wait, bounds, ghosts>>

Init == /\ log = <<>> /\ run = "there" /\ cancelled = FALSE
        /\ writer = [w \in Writers |-> Quiet]
        /\ wait = Unarmed
        /\ asks = 0 /\ posts = 0 /\ waits = 0 /\ torn = 0
        /\ posted = {} /\ told = {}

WaitStep == CheckFirst \/ Snapshot \/ Poll \/ Look
Next == \/ Ask \/ \E w \in Workers : Post(w)
        \/ \E w \in Writers : Read(w) \/ Size(w) \/ Write(w)
        \/ Arm \/ WaitStep \/ Cancel \/ Purge \/ PurgeFile \/ PurgeDir
Spec == Init /\ [][Next]_vars
\* A wait that runs polls on. Nobody has to ask, to answer or to wait.
FairSpec == Spec /\ WF_vars(WaitStep)

-----------------------------------------------------------------------------
(* What the interview promises *)

Records == [question : Questions, answer : Texts \cup {None}]
\* The log and every process hold what the code puts there.
TypeOK == /\ log \in Seq(Written) /\ run \in {"there", "purging", "gone"} /\ cancelled \in BOOLEAN
          /\ \A w \in Writers : writer[w].at \in {"idle", "read", "size", "write"}
                                /\ writer[w].line \in Written
          /\ wait.at \in Ended \cup {"check", "snap", "poll", "look"}
          /\ wait.snap \subseteq Ids
          /\ \A n \in DOMAIN wait.result : n \in Ids /\ wait.result[n] \in Records
          /\ posted \subseteq Ids \X Questions /\ told \subseteq Ids \X Texts

\* The line of a posted question follows one cut short, and is lost with it.
Swallowed(p) == \E k \in DOMAIN log : /\ k > 1 /\ ~ log[k - 1].end
                                       /\ log[k].kind = "ask" /\ <<log[k].id, log[k].of>> = p

\* `ask wait` exits 0 only with the answers: of all that the agent had posted and
\* had no answer to, or, if nothing was pending, of all it had posted, each question
\* is printed with an answer to that question, whoever wrote in between. Excepted
\* are a question whose line a write cut short has swallowed, which `drovr ask`
\* reported as posted (interview.rs:416), and a run that is purged under the wait.
ExitZeroIsAnswered ==
    wait.at = "answered" /\ kept =>
       \A p \in wait.owed : \/ Swallowed(p)
                            \/ /\ p[1] \in DOMAIN wait.result
                               /\ wait.result[p[1]].question = p[2]
                               /\ wait.result[p[1]].answer # None

\* A wait armed after the run was cancelled never exits 0, not even when nothing
\* is pending, unless the run is purged.
CancelledNeverAnswered == wait.late /\ kept => wait.at # "answered"

\* Acknowledged, and no longer in the fold, or in the log.
LostAsks == {p \in posted : p[1] \notin Asked(log) \/ QuestionOf(log, p[1]) # p[2]}
LostAnswers == {t \in told : \A k \in LinesOf(log, "answer", t[1]) : log[k].of # t[2]}
\* As long as the log can be read at all, a write cut short has cost at most one
\* record that was acknowledged. (A cut inside a character and two writers at the
\* cap make it unreadable.)
LossIsBounded == kept /\ Readable => Cardinality(LostAsks) + Cardinality(LostAnswers) <= torn

\* Each writer that measured the log before the others wrote may carry it past the
\* cap, and no more than these: one writer alone never does (append_line).
OverrunIsBounded == Len(log) < Cap + Cardinality(Writers)

\* What append_line says of its check: "a log drovr can read stays a log drovr can
\* read" (interview.rs:401-402). Two writers at the cap break it, with nothing cut short.
StaysReadable == torn = 0 => Readable

\* What the module says of its readers: "a half-written line must not make the whole
\* interview unreadable" (interview.rs:39-40). One that was cut inside a character does.
HalfLinesAreSkipped == Len(log) <= Cap => Readable

\* Once every question it waits for is answered for good, a wait ends; later
\* questions do not hold it.
AnsweredWaitEnds ==
    ~ <>[](wait.at \in {"poll", "look"} /\ \A n \in wait.snap : n \in Asked(log) /\ AnswerOf(log, n) # None)
=============================================================================
