---------------------------- MODULE InterviewProofs ----------------------------
(***************************************************************************)
(* For any log, writers and bounds: a wait that was armed after its run    *)
(* was cancelled never exits 0; one that exits 0 prints an answer to every *)
(* question its agent is owed, but for those that a cut write swallowed;   *)
(* writes cut short lose no more records that were acknowledged than were  *)
(* cut, as long as the log can be read; and the log passes its cap by      *)
(* fewer writes than there are writers.                                    *)
(*                                                                         *)
(* The first is about the wait, the cancellation and the purge alone       *)
(* (LateInv). The others rest on what is in the log (AllInv): a question   *)
(* is written once, under a number of its own; of the lines that stand, no *)
(* two ask under one id, though a cut line may, because the id that the    *)
(* agent has taken is free until it writes; and all that was acknowledged  *)
(* is in the log, whole, but perhaps not on a line of its own.             *)
(*                                                                         *)
(* That an id has a first ask and a last answer is kept as a part of the   *)
(* invariant (HasLast) rather than proved by induction over the log.       *)
(***************************************************************************)
EXTENDS Interview, FiniteSetTheorems, TLAPS

\* A wait is a record of these fields, whatever they hold.
WaitShape == wait = [at |-> wait.at, snap |-> wait.snap, result |-> wait.result,
                     owed |-> wait.owed, late |-> wait.late]
\* A wait armed for a cancelled run gets no further than its first check, unless
\* the run, and with it the cancellation, is purged.
LateStops == wait.late /\ kept => cancelled /\ wait.at \in {"check", "cancelled"}
LateInv == WaitShape /\ LateStops

\* The wait keeps its shape, and when it was armed, as long as it runs.
LEMMA KeepsShape ==
    ASSUME WaitShape, NEW how
    PROVE  LET w == [wait EXCEPT !.at = how]
           IN /\ w = [at |-> how, snap |-> wait.snap, result |-> wait.result,
                      owed |-> wait.owed, late |-> wait.late]
              /\ w.at = how /\ w.late = wait.late
  BY DEF WaitShape

\* Once past its first check, a wait was not late, or its run is gone.
LEMMA NotLate ==
    ASSUME LateInv, wait.at \in {"snap", "poll", "look"} PROVE ~ (wait.late /\ kept)
  BY DEF LateInv, LateStops, kept

LEMMA WaitLate == ASSUME LateInv, Arm \/ WaitStep PROVE LateInv'
<1>1. CASE Arm
  <2>1. wait' = [at |-> "check", snap |-> {}, result |-> <<>>, owed |-> {}, late |-> cancelled]
        /\ UNCHANGED <<run, cancelled>>
    BY <1>1 DEF Arm, Unarmed
  <2> QED
    BY <2>1 DEF LateInv, WaitShape, LateStops, kept
<1>2. CASE CheckFirst
  <2>1. wait' = [wait EXCEPT !.at = IF cancelled THEN "cancelled" ELSE "snap"]
        /\ UNCHANGED <<run, cancelled>>
    BY <1>2 DEF CheckFirst, FirstCheck, Ends
  <2>2. wait' = [at |-> IF cancelled THEN "cancelled" ELSE "snap", snap |-> wait.snap,
                 result |-> wait.result, owed |-> wait.owed, late |-> wait.late]
    BY <2>1, KeepsShape DEF LateInv
  <2> QED
    BY <2>1, <2>2 DEF LateInv, WaitShape, LateStops, kept
<1>3. CASE Snapshot
  <2>1. wait.at = "snap" /\ UNCHANGED <<run, cancelled>>
    BY <1>3 DEF Snapshot
  <2>2. \E a, s, r, o : wait' = [at |-> a, snap |-> s, result |-> r, owed |-> o, late |-> wait.late]
    <3> DEFINE m == posted
               n == Outstanding
               f == AsItStands
               g == Pending(log)
    <3>1. \/ wait' = [wait EXCEPT !.at = "error"]
          \/ wait' = [wait EXCEPT !.at = "answered", !.result = f, !.owed = m]
          \/ wait' = [wait EXCEPT !.at = "poll", !.snap = g, !.owed = n]
      BY <1>3 DEF Snapshot
    <3> HIDE DEF f, g, m, n
    <3> QED
      BY <3>1 DEF LateInv, WaitShape
  <2>3. ~ (wait.late /\ kept)
    BY <2>1, NotLate
  <2> QED
    BY <2>1, <2>2, <2>3 DEF LateInv, WaitShape, LateStops, kept
<1>4. CASE Poll
  <2>1. PICK how : wait' = [wait EXCEPT !.at = how]
    BY <1>4 DEF Poll, Ends
  <2>2. wait.at = "poll" /\ UNCHANGED <<run, cancelled>>
    BY <1>4 DEF Poll
  <2>3. ~ (wait.late /\ kept)
    BY <2>2, NotLate
  <2> QED
    BY <2>1, <2>2, <2>3, KeepsShape DEF LateInv, WaitShape, LateStops, kept
<1>5. CASE Look
  <2>1. wait.at = "look" /\ UNCHANGED <<run, cancelled>>
    BY <1>5 DEF Look
  <2>2. \E a, r : wait' = [at |-> a, snap |-> wait.snap, result |-> r, owed |-> wait.owed,
                           late |-> wait.late]
    <3> DEFINE f == Found
    <3>1. \/ \E how : wait' = [wait EXCEPT !.at = how]
          \/ wait' = [wait EXCEPT !.at = "answered", !.result = f]
      BY <1>5 DEF Look, Ends
    <3> HIDE DEF f
    <3> QED
      BY <3>1 DEF LateInv, WaitShape
  <2>3. ~ (wait.late /\ kept)
    BY <2>1, NotLate
  <2> QED
    BY <2>1, <2>2, <2>3 DEF LateInv, WaitShape, LateStops, kept
<1> QED
  BY <1>1, <1>2, <1>3, <1>4, <1>5 DEF WaitStep

LEMMA LateStep == LateInv /\ [Next]_vars => LateInv'
<1> SUFFICES ASSUME LateInv, [Next]_vars PROVE LateInv'
  OBVIOUS
<1>1. CASE Arm \/ WaitStep
  BY <1>1, WaitLate
<1>2. CASE Cancel \/ Purge \/ PurgeFile \/ PurgeDir
  BY <1>2 DEF Cancel, Purge, PurgeFile, PurgeDir, LateInv, WaitShape, LateStops, kept
<1>3. ASSUME UNCHANGED <<run, cancelled, wait>> PROVE LateInv'
  BY <1>3 DEF LateInv, WaitShape, LateStops, kept
<1>4. CASE Ask \/ (\E w \in Workers : Post(w)) \/ \E w \in Writers : Read(w) \/ Size(w) \/ Write(w)
  BY <1>3, <1>4 DEF Ask, Post, Read, Size, Write
<1>5. CASE UNCHANGED vars
  BY <1>3, <1>5 DEF vars
<1> QED
  BY <1>1, <1>2, <1>4, <1>5 DEF Next

\* However questions and answers are written meanwhile, a wait armed after its run
\* was cancelled does not tell its agent to go on, though it has every answer.
THEOREM CancelledNever == Spec => []CancelledNeverAnswered
<1>1. Init => LateInv
  BY DEF Init, Unarmed, LateInv, WaitShape, LateStops, kept
<1>2. LateInv => CancelledNeverAnswered
  BY DEF LateInv, LateStops, CancelledNeverAnswered
<1> QED
  BY <1>1, <1>2, LateStep, PTL DEF Spec

-----------------------------------------------------------------------------
(* What the log holds: the writes whose lines stand for good, and those cut short *)

Sealed(l, kind, n) ==
    {k \in DOMAIN l : (k = 1 \/ l[k - 1].end) /\ l[k].end /\ l[k].kind = kind /\ l[k].id = n}
Replies(l, n) == {k \in Sealed(l, "answer", n) : \E j \in Sealed(l, "ask", n) : j < k}
HasLast(S) == S = {} \/ \E k \in S : \A j \in S : j <= k
Cut(l) == {k \in DOMAIN l : ~ l[k].end}
Whole(kind, p) == [kind |-> kind, id |-> p[1], of |-> p[2], end |-> TRUE]

\* The types of all but the wait.
LogTypes ==
    /\ log \in Seq(Written) /\ run \in {"there", "purging", "gone"} /\ cancelled \in BOOLEAN
    /\ writer \in [Writers -> [at : {"idle", "read", "size", "write"}, line : Written]]
    /\ posted \subseteq Ids \X Questions /\ told \subseteq Ids \X Texts
    /\ asks \in 0..MaxAsks /\ torn \in Nat

\* Questions are numbered as they are asked, and each is written once.
AskInv ==
    /\ \A k \in DOMAIN log : log[k].kind = "ask" => log[k].of <= asks
    /\ \A j, k \in DOMAIN log :
          log[j].kind = "ask" /\ log[k].kind = "ask" /\ log[j].of = log[k].of => j = k
    /\ writer[Agent].at # "idle" =>
          /\ writer[Agent].line.kind = "ask" /\ writer[Agent].line.end
          /\ writer[Agent].line.of = asks
          /\ \A k \in DOMAIN log : log[k].kind = "ask" => log[k].of < asks
    /\ \A w \in Workers : writer[w].at # "idle" =>
          writer[w].line.kind = "answer" /\ writer[w].line.end

\* A line that stands for an ask is the only one of its id, and the id that the
\* agent has taken is still free; what was acknowledged is in the log, whole; and
\* every write cut short is counted.
LogInv ==
    /\ writer[Agent].at \in {"size", "write"} => Sealed(log, "ask", writer[Agent].line.id) = {}
    /\ \A n \in Ids : \A j, k \in Sealed(log, "ask", n) : j = k
    /\ \A n \in Ids : HasLast(Replies(log, n))
    /\ kept => /\ \A p \in posted : \E k \in DOMAIN log : log[k] = Whole("ask", p)
               /\ \A t \in told : \E k \in DOMAIN log : log[k] = Whole("answer", t)
    /\ Cardinality(Cut(log)) <= torn

\* What the agent was owed when a wait began to poll is waited for, and still among
\* the questions of the log, unless a cut write swallowed it or the run is purged.
Stands(p) == \E k \in Sealed(log, "ask", p[1]) : log[k].of = p[2]
WaitInv ==
    /\ wait.at \in {"poll", "look"} /\ kept =>
          \A p \in wait.owed : Swallowed(p) \/ (p[1] \in wait.snap /\ Stands(p))
    /\ ExitZeroIsAnswered

\* What a write is made of.
LEMMA WrittenFields ==
    ASSUME NEW r \in Written
    PROVE  /\ r.kind \in {"ask", "answer", "half", "split"} /\ r.end \in BOOLEAN
           /\ r.kind = "ask" => r.id \in Ids /\ r.of \in Questions
           /\ r.kind = "answer" => r.id \in Ids /\ r.of \in Texts
           /\ r.kind \in {"ask", "answer"} =>
                                 /\ [r EXCEPT !.end = FALSE] \in Written
                                 /\ [r EXCEPT !.end = FALSE].end = FALSE
                                 /\ [r EXCEPT !.end = FALSE].kind = r.kind
                                 /\ [r EXCEPT !.end = FALSE].id = r.id
                                 /\ [r EXCEPT !.end = FALSE].of = r.of
<1>1. CASE r \in [kind : {"ask"}, id : Ids, of : Questions, end : BOOLEAN]
  BY <1>1 DEF Written
<1>2. CASE r \in [kind : {"answer"}, id : Ids, of : Texts, end : BOOLEAN]
  BY <1>2 DEF Written
<1>3. CASE r \in {Half, Split}
  <2>1. r.kind \in {"half", "split"} /\ r.end = FALSE
    BY <1>3 DEF Half, Split
  <2> QED
    BY <2>1
<1> QED
  BY <1>1, <1>2, <1>3 DEF Written

\* The log as a function of its positions.
LEMMA LogShape ==
    ASSUME NEW l \in Seq(Written)
    PROVE  /\ Len(l) \in Nat /\ DOMAIN l = 1..Len(l)
           /\ \A k \in DOMAIN l : l[k] \in Written
  OBVIOUS

\* One more write leaves the others where they are.
LEMMA Appended ==
    ASSUME NEW l \in Seq(Written), NEW r \in Written
    PROVE  LET m == Append(l, r)
           IN /\ m \in Seq(Written) /\ Len(m) = Len(l) + 1 /\ DOMAIN m = 1..Len(l) + 1
              /\ \A k \in 1..Len(l) : m[k] = l[k]
              /\ m[Len(l) + 1] = r
  OBVIOUS

\* Lines that stand stay, and only a whole write to a sealed log adds one.
LEMMA SealedGrows ==
    ASSUME NEW l \in Seq(Written), NEW r \in Written, NEW kind, NEW n
    PROVE  /\ Sealed(l, kind, n) \subseteq Sealed(Append(l, r), kind, n)
           /\ \A k \in Sealed(Append(l, r), kind, n) :
                 k \in Sealed(l, kind, n) \/ (k = Len(l) + 1 /\ r.kind = kind /\ r.id = n /\ r.end)
<1> DEFINE m == Append(l, r)
<1>1. /\ DOMAIN m = 1..Len(l) + 1 /\ DOMAIN l = 1..Len(l) /\ Len(l) \in Nat
      /\ \A k \in 1..Len(l) : m[k] = l[k]
      /\ m[Len(l) + 1] = r
  BY LogShape, Appended
<1> HIDE DEF m
<1>2. ASSUME NEW k \in Sealed(l, kind, n) PROVE k \in Sealed(m, kind, n)
  <2>1. k \in 1..Len(l) /\ k \in 1..Len(l) + 1 /\ (k # 1 => k - 1 \in 1..Len(l))
    BY <1>1 DEF Sealed
  <2> QED
    BY <1>1, <2>1 DEF Sealed
<1>3. ASSUME NEW k \in Sealed(m, kind, n), k # Len(l) + 1 PROVE k \in Sealed(l, kind, n)
  <2>1. k \in 1..Len(l) /\ (k # 1 => k - 1 \in 1..Len(l))
    BY <1>1, <1>3 DEF Sealed
  <2> QED
    BY <1>1, <2>1 DEF Sealed
<1>4. ASSUME NEW k \in Sealed(m, kind, n), k = Len(l) + 1 PROVE r.kind = kind /\ r.id = n /\ r.end
  BY <1>1, <1>4 DEF Sealed
<1> QED
  BY <1>2, <1>3, <1>4 DEF m

\* Every line but the last is sealed; the last may lack its newline.
LEMMA LineSealed ==
    ASSUME NEW l \in Seq(Written), NEW kind \in {"ask", "answer"}, NEW n
    PROVE  /\ Sealed(l, kind, n) \subseteq LinesOf(l, kind, n)
           /\ \A k \in LinesOf(l, kind, n) : k \in DOMAIN l /\ (k \in Sealed(l, kind, n) \/ k = Len(l))
           /\ \A k \in LinesOf(l, kind, n) : l[k].end => k \in Sealed(l, kind, n)
  BY LogShape DEF Sealed, LinesOf, Line

\* The first ask of an id wins.
LEMMA QuestionIs ==
    ASSUME NEW l \in Seq(Written), NEW n, NEW k \in LinesOf(l, "ask", n),
           \A j \in LinesOf(l, "ask", n) : k <= j
    PROVE  QuestionOf(l, n) = l[k].of
<1>1. \A j \in LinesOf(l, "ask", n) : j \in Nat
  BY LogShape DEF LinesOf
<1> DEFINE f == CHOOSE i \in LinesOf(l, "ask", n) : \A j \in LinesOf(l, "ask", n) : i <= j
<1>2. f \in LinesOf(l, "ask", n) /\ \A j \in LinesOf(l, "ask", n) : f <= j
  OBVIOUS
<1> HIDE DEF f
<1>3. f = k
  BY <1>1, <1>2
<1> QED
  BY <1>3 DEF QuestionOf, f

\* A standing line is the first ask of its id when no other stands.
LEMMA SealedFirst ==
    ASSUME NEW l \in Seq(Written), NEW n, NEW k \in Sealed(l, "ask", n),
           \A j \in Sealed(l, "ask", n) : j = k
    PROVE  n \in Ids => n \in Asked(l) /\ QuestionOf(l, n) = l[k].of
<1>1. k \in LinesOf(l, "ask", n) /\ k \in 1..Len(l) /\ Len(l) \in Nat
  BY LineSealed, LogShape DEF Sealed
<1>2. \A j \in LinesOf(l, "ask", n) : k <= j
  BY <1>1, LineSealed
<1> QED
  BY <1>1, <1>2, QuestionIs DEF Asked

\* An id that is asked has a first ask.
LEMMA FirstAsk ==
    ASSUME NEW l \in Seq(Written), NEW n \in Asked(l),
           \A j, k \in Sealed(l, "ask", n) : j = k
    PROVE  \E k \in LinesOf(l, "ask", n) : /\ \A j \in LinesOf(l, "ask", n) : k <= j
                                           /\ QuestionOf(l, n) = l[k].of
                                           /\ l[k].of \in Questions
<1>1. PICK i \in LinesOf(l, "ask", n) : TRUE
  BY DEF Asked
<1>2. Len(l) \in Nat /\ \A j \in LinesOf(l, "ask", n) : j \in 1..Len(l) /\ l[j].of \in Questions
  BY LogShape, WrittenFields DEF LinesOf
<1>3. \E k \in LinesOf(l, "ask", n) : \A j \in LinesOf(l, "ask", n) : k <= j
  <2>1. CASE Sealed(l, "ask", n) = {}
    BY <1>1, <1>2, <2>1, LineSealed
  <2>2. CASE Sealed(l, "ask", n) # {}
    <3>1. PICK k \in Sealed(l, "ask", n) : TRUE
      BY <2>2
    <3>2. k \in LinesOf(l, "ask", n) /\ \A j \in LinesOf(l, "ask", n) : j = k \/ j = Len(l)
      BY <3>1, LineSealed
    <3> QED
      BY <1>2, <3>2
  <2> QED
    BY <2>1, <2>2
<1> QED
  BY <1>2, <1>3, QuestionIs

\* The answer of an id is a text of the human's, or none.
LEMMA AnswerTyped ==
    ASSUME NEW l \in Seq(Written), NEW n, HasLast(Replies(l, n))
    PROVE  AnswerOf(l, n) \in Texts \cup {None}
<1>1. Len(l) \in Nat /\ \A k \in AnswersTo(l, n) : k \in 1..Len(l) /\ l[k].of \in Texts
  BY LogShape, WrittenFields DEF LinesOf, AnswersTo
<1>2. ASSUME AnswersTo(l, n) # {}
      PROVE  \E k \in AnswersTo(l, n) : \A j \in AnswersTo(l, n) : j <= k
  <2>1. CASE Len(l) \in AnswersTo(l, n)
    BY <1>1, <2>1
  <2>2. CASE Len(l) \notin AnswersTo(l, n)
    <3>1. AnswersTo(l, n) \subseteq Replies(l, n)
      <4> SUFFICES ASSUME NEW k \in AnswersTo(l, n) PROVE k \in Replies(l, n)
        OBVIOUS
      <4>1. PICK j \in LinesOf(l, "ask", n) : j < k /\ k \in LinesOf(l, "answer", n)
        BY DEF AnswersTo
      <4>2. k # Len(l) /\ j # Len(l)
        BY <1>1, <2>2, <4>1
      <4>3. k \in Sealed(l, "answer", n) /\ j \in Sealed(l, "ask", n)
        BY <4>1, <4>2, LineSealed
      <4> QED
        BY <4>1, <4>3 DEF Replies
    <3>2. Replies(l, n) \subseteq AnswersTo(l, n)
      BY LineSealed DEF Replies, AnswersTo
    <3> QED
      BY <1>2, <3>1, <3>2 DEF HasLast
  <2> QED
    BY <2>1, <2>2
<1>3. CASE AnswersTo(l, n) = {}
  BY <1>3 DEF AnswerOf
<1>4. CASE AnswersTo(l, n) # {}
  <2> DEFINE f == CHOOSE i \in AnswersTo(l, n) : \A j \in AnswersTo(l, n) : j <= i
  <2>1. f \in AnswersTo(l, n)
    BY <1>2, <1>4
  <2> HIDE DEF f
  <2>2. l[f].of \in Texts
    BY <1>1, <2>1
  <2> QED
    BY <1>4, <2>2 DEF AnswerOf, f
<1> QED
  BY <1>3, <1>4

\* The replies that stand have a last one, however the log grows.
LEMMA RepliesGrow ==
    ASSUME NEW l \in Seq(Written), NEW r \in Written, NEW n, HasLast(Replies(l, n))
    PROVE  HasLast(Replies(Append(l, r), n))
<1> DEFINE m == Append(l, r)
<1>1. /\ Len(l) \in Nat
      /\ \A k \in Sealed(m, "answer", n) : k \in Sealed(l, "answer", n) \/ k = Len(l) + 1
      /\ \A k \in Sealed(m, "ask", n) : k \in Sealed(l, "ask", n) \/ k = Len(l) + 1
      /\ Sealed(l, "answer", n) \subseteq Sealed(m, "answer", n)
      /\ Sealed(l, "ask", n) \subseteq Sealed(m, "ask", n)
      /\ \A k \in Sealed(m, "answer", n) : k \in 1..Len(l) + 1
      /\ \A k \in Sealed(l, "answer", n) : k \in 1..Len(l)
  BY SealedGrows, LogShape, Appended DEF Sealed
<1> HIDE DEF m
<1>2. CASE Len(l) + 1 \in Replies(m, n)
  <2>1. \A k \in Replies(m, n) : k <= Len(l) + 1
    BY <1>1 DEF Replies
  <2> QED
    BY <1>2, <2>1 DEF HasLast, m
<1>3. CASE Len(l) + 1 \notin Replies(m, n)
  <2>1. Replies(m, n) \subseteq Replies(l, n)
    <3> SUFFICES ASSUME NEW k \in Replies(m, n) PROVE k \in Replies(l, n)
      OBVIOUS
    <3>1. PICK j \in Sealed(m, "ask", n) : j < k /\ k \in Sealed(m, "answer", n)
      BY DEF Replies
    <3>2. k \in Sealed(l, "answer", n) /\ k <= Len(l)
      BY <1>1, <1>3, <3>1
    <3>3. j \in Sealed(l, "ask", n)
      BY <1>1, <3>1, <3>2
    <3> QED
      BY <3>1, <3>2, <3>3 DEF Replies
  <2>2. Replies(l, n) \subseteq Replies(m, n)
    BY <1>1 DEF Replies
  <2>3. Replies(m, n) = Replies(l, n)
    BY <2>1, <2>2
  <2> QED
    BY <2>3 DEF HasLast, m
<1> QED
  BY <1>2, <1>3 DEF m

\* A whole write cuts nothing; a short one cuts one more.
LEMMA CutGrows ==
    ASSUME NEW l \in Seq(Written), NEW r \in Written
    PROVE  /\ IsFiniteSet(Cut(l)) /\ Cardinality(Cut(l)) \in Nat
           /\ r.end => Cut(Append(l, r)) = Cut(l)
           /\ Cardinality(Cut(Append(l, r))) <= Cardinality(Cut(l)) + 1
<1> DEFINE m == Append(l, r)
<1>1. /\ DOMAIN m = 1..Len(l) + 1 /\ DOMAIN l = 1..Len(l) /\ Len(l) \in Nat
      /\ \A k \in 1..Len(l) : m[k] = l[k]
      /\ m[Len(l) + 1] = r
  BY LogShape, Appended
<1> HIDE DEF m
<1>2. IsFiniteSet(Cut(l)) /\ Cardinality(Cut(l)) \in Nat
  <2>1. IsFiniteSet(1..Len(l)) /\ Cut(l) \in SUBSET (1..Len(l))
    BY <1>1, FS_Interval DEF Cut
  <2>2. IsFiniteSet(Cut(l))
    BY <2>1, FS_Subset
  <2> QED
    BY <2>2, FS_CardinalityType
<1>3. r.end => Cut(m) = Cut(l)
  BY <1>1 DEF Cut
<1>4. ~ r.end => Cut(m) = Cut(l) \cup {Len(l) + 1}
  BY <1>1 DEF Cut
<1>5. Cardinality(Cut(l) \cup {Len(l) + 1}) <= Cardinality(Cut(l)) + 1
  <2> DEFINE S == Cut(l)
             x == Len(l) + 1
  <2> HIDE DEF S, x
  <2>1. Cardinality(S \cup {x}) = IF x \in S THEN Cardinality(S) ELSE Cardinality(S) + 1
    BY <1>2, FS_AddElement DEF S
  <2>2. Cardinality(S) \in Nat
    BY <1>2 DEF S
  <2>3. Cardinality(S \cup {x}) <= Cardinality(S) + 1
    BY <2>1, <2>2
  <2> QED
    BY <2>3 DEF S, x
<1>6. r.end \in BOOLEAN
  BY WrittenFields
<1>7. Cardinality(Cut(m)) <= Cardinality(Cut(l)) + 1
  <2>1. CASE r.end
    <3>1. Cardinality(Cut(m)) = Cardinality(Cut(l))
      BY <1>3, <2>1
    <3> QED
      BY <1>2, <3>1
  <2>2. CASE ~ r.end
    <3>1. Cardinality(Cut(m)) = Cardinality(Cut(l) \cup {Len(l) + 1})
      BY <1>4, <2>2
    <3> QED
      BY <1>5, <3>1
  <2> QED
    BY <1>6, <2>1, <2>2
<1> QED
  BY <1>2, <1>3, <1>7 DEF m

-----------------------------------------------------------------------------
(* The log, whoever writes *)

LEMMA OneToOne ==
    ASSUME NEW S, NEW T, NEW f \in [S -> T], \A a, b \in S : f[a] = f[b] => a = b
    PROVE  f \in Injection(S, T)
  BY DEF Injection, IsInjective

\* A writer that has read the log takes an id with it.
LEMMA TakesId ==
    ASSUME NEW A, NEW W, NEW x \in [at : A, line : W], NEW n
    PROVE  [x EXCEPT !.at = "size", !.line.id = n]
           = [at |-> "size", line |-> [x.line EXCEPT !.id = n]]
<1> DEFINE a == x.at
           b == x.line
           y == [b EXCEPT !.id = n]
<1>1. x = [at |-> a, line |-> b]
  OBVIOUS
<1>2. [x EXCEPT !.at = "size", !.line.id = n] = [[x EXCEPT !.at = "size"] EXCEPT !.line = y]
  OBVIOUS
<1> HIDE DEF a, b, y
<1>3. [[at |-> a, line |-> b] EXCEPT !.at = "size"] = [at |-> "size", line |-> b]
  OBVIOUS
<1>4. [[at |-> "size", line |-> b] EXCEPT !.line = y] = [at |-> "size", line |-> y]
  OBVIOUS
<1> QED
  BY <1>1, <1>2, <1>3, <1>4 DEF b, y

\* A question is told by its number.
LEMMA AskNumbered ==
    ASSUME LogTypes PROVE \A k \in DOMAIN log : log[k].kind = "ask" => log[k].of \in Nat
<1>1. Questions \subseteq Nat
  BY InterviewAssumption DEF InterviewAssumption, Questions
<1>2. \A k \in DOMAIN log : log[k] \in Written
  BY LogShape DEF LogTypes
<1> QED
  BY <1>1, <1>2, WrittenFields

\* The id of an ask is one of the run's: fewer are taken than were asked.
LEMMA NextFree ==
    ASSUME LogTypes, AskInv, writer[Agent].at = "read" PROVE NextId(log) \in Ids
<1> DEFINE S == Asked(log)
           T == 1..asks - 1
           line(n) == CHOOSE k \in LinesOf(log, "ask", n) : TRUE
           f == [n \in S |-> log[line(n)].of]
<1>1. /\ asks \in 1..MaxAsks /\ MaxAsks \in Nat /\ log \in Seq(Written)
      /\ \A k \in DOMAIN log : log[k].kind = "ask" => log[k].of < asks
  <2>1. writer[Agent] \in [at : {"idle", "read", "size", "write"}, line : Written]
    BY DEF LogTypes, Writers
  <2>2. writer[Agent].line.of \in Questions /\ writer[Agent].line.of = asks
    BY <2>1, WrittenFields DEF AskInv
  <2> QED
    BY <2>2, InterviewAssumption DEF LogTypes, AskInv, Questions, InterviewAssumption
<1>2. \A n \in S : /\ line(n) \in DOMAIN log /\ log[line(n)].kind = "ask"
                   /\ log[line(n)].id = n /\ log[line(n)].of \in T
  <2> SUFFICES ASSUME NEW n \in S
               PROVE  /\ line(n) \in DOMAIN log /\ log[line(n)].kind = "ask"
                      /\ log[line(n)].id = n /\ log[line(n)].of \in T
    OBVIOUS
  <2>1. line(n) \in LinesOf(log, "ask", n)
    BY DEF Asked
  <2>2. line(n) \in DOMAIN log /\ log[line(n)].kind = "ask" /\ log[line(n)].id = n
    BY <2>1 DEF LinesOf
  <2>3. log[line(n)].of \in Questions
    BY <1>1, <2>2, LogShape, WrittenFields
  <2> QED
    BY <1>1, <2>2, <2>3 DEF Questions
<1>3. \A a, b \in S : log[line(a)].of = log[line(b)].of => a = b
  BY <1>2 DEF AskInv
<1> HIDE DEF line
<1>4. f \in Injection(S, T)
  <2>1. f \in [S -> T]
    BY <1>2
  <2>2. \A n \in S : f[n] = log[line(n)].of
    OBVIOUS
  <2> HIDE DEF f
  <2>3. \A a, b \in S : f[a] = f[b] => a = b
    BY <1>3, <2>2
  <2> QED
    BY <2>1, <2>3, OneToOne
<1>5. IsFiniteSet(T) /\ Cardinality(T) = asks - 1
  BY <1>1, FS_Interval
<1> HIDE DEF f, S, T
<1>6. IsFiniteSet(S) /\ Cardinality(S) <= asks - 1
  BY <1>4, <1>5, FS_Injection
<1>7. Cardinality(S) \in Nat
  BY <1>6, FS_CardinalityType
<1> QED
  BY <1>1, <1>6, <1>7 DEF NextId, Ids, S

\* An id that nobody asked has no line that stands.
LEMMA FreeIsUnsealed ==
    ASSUME LogTypes, NEW n \in Ids, n \notin Asked(log) PROVE Sealed(log, "ask", n) = {}
  BY LineSealed DEF LogTypes, Asked

\* What a writer is about to write.
LEMMA WriterLine ==
    ASSUME LogTypes, AskInv, NEW w \in Writers, writer[w].at # "idle"
    PROVE  /\ writer[w] \in [at : {"idle", "read", "size", "write"}, line : Written]
           /\ writer[w].line \in Written /\ writer[w].line.end
           /\ writer[w].line.kind = IF w = Agent THEN "ask" ELSE "answer"
           /\ writer[w].line = Whole(writer[w].line.kind, <<writer[w].line.id, writer[w].line.of>>)
<1>1. /\ writer[w] \in [at : {"idle", "read", "size", "write"}, line : Written]
      /\ writer[w].line \in Written /\ writer[w].line.end
      /\ writer[w].line.kind = IF w = Agent THEN "ask" ELSE "answer"
  BY InterviewAssumption DEF LogTypes, AskInv, Writers, InterviewAssumption
<1>2. writer[w].line = [kind |-> writer[w].line.kind, id |-> writer[w].line.id,
                        of |-> writer[w].line.of, end |-> TRUE]
  BY <1>1 DEF Written, Half, Split
<1> QED
  BY <1>1, <1>2 DEF Whole

LogKept == LogTypes' /\ AskInv' /\ LogInv'
\* What a writer w may carry: a whole line of its own kind, the agent's the newest ask.
Carries(w, v, newest) ==
    v.at # "idle" => /\ v.line.end
                     /\ v.line.kind = IF w = Agent THEN "ask" ELSE "answer"
                     /\ w = Agent => /\ v.line.of = newest
                                     /\ \A k \in DOMAIN log : log[k].kind = "ask" => log[k].of < newest
\* The id the agent has taken is free.
HoldsFree(w, v) == w = Agent /\ v.at \in {"size", "write"} => Sealed(log, "ask", v.line.id) = {}

\* A step that leaves the log, the directory and what was acknowledged alone.
LEMMA WriterMoves ==
    ASSUME LogTypes, AskInv, LogInv, UNCHANGED <<log, run, cancelled, torn, ghosts>>,
           NEW w \in Writers, NEW v \in [at : {"idle", "read", "size", "write"}, line : Written],
           writer' = [writer EXCEPT ![w] = v],
           asks' \in 0..MaxAsks, asks' = asks \/ (w = Agent /\ writer[w].at = "idle" /\ asks' = asks + 1),
           Carries(w, v, asks'), HoldsFree(w, v)
    PROVE  LogKept
<1>1. LogTypes'
  BY DEF LogTypes, ghosts
<1>2. /\ writer' \in [Writers -> [at : {"idle", "read", "size", "write"}, line : Written]]
      /\ writer'[w] = v /\ \A u \in Writers \ {w} : writer'[u] = writer[u]
  BY DEF LogTypes
<1>3. \A k \in DOMAIN log : log[k].kind = "ask" => log[k].of \in Nat
  BY AskNumbered
<1>4. asks \in Nat /\ asks' \in Nat /\ asks <= asks' /\ Agent \in Writers /\ Workers \subseteq Writers
  BY InterviewAssumption DEF LogTypes, InterviewAssumption, Writers
<1>5. writer'[Agent] = IF w = Agent THEN v ELSE writer[Agent]
  BY <1>2, <1>4
<1>6. \A k \in DOMAIN log' : log'[k].kind = "ask" => log'[k].of <= asks'
  BY <1>3, <1>4 DEF AskInv
<1>7. writer'[Agent].at # "idle" =>
          /\ writer'[Agent].line.kind = "ask" /\ writer'[Agent].line.end
          /\ writer'[Agent].line.of = asks'
          /\ \A k \in DOMAIN log' : log'[k].kind = "ask" => log'[k].of < asks'
  <2>1. CASE w = Agent
    BY <1>5, <2>1 DEF Carries
  <2>2. CASE w # Agent
    BY <1>5, <2>2 DEF AskInv
  <2> QED
    BY <2>1, <2>2
<1>8. \A u \in Workers : writer'[u].at # "idle" =>
          writer'[u].line.kind = "answer" /\ writer'[u].line.end
  BY <1>2, <1>4, InterviewAssumption DEF AskInv, InterviewAssumption, Carries
<1>9. AskInv'
  BY <1>6, <1>7, <1>8 DEF AskInv
<1>10. writer'[Agent].at \in {"size", "write"} => Sealed(log, "ask", writer'[Agent].line.id) = {}
  BY <1>5 DEF LogInv, HoldsFree
<1>11. LogInv'
  BY <1>10 DEF LogInv, ghosts, kept
<1> QED
  BY <1>1, <1>9, <1>11 DEF LogKept

\* The steps of an append short of its write.
LEMMA AppendsKeep ==
    ASSUME LogTypes, AskInv, LogInv,
           Ask \/ (\E w \in Workers : Post(w)) \/ (\E w \in Writers : Read(w) \/ Size(w))
    PROVE  LogKept
<1>0. /\ writer \in [Writers -> [at : {"idle", "read", "size", "write"}, line : Written]]
      /\ asks \in 0..MaxAsks /\ MaxAsks \in Nat /\ Agent \in Writers /\ Agent \notin Workers
      /\ Workers \subseteq Writers
  BY InterviewAssumption DEF LogTypes, InterviewAssumption, Writers
<1>quiet. Quiet \in [at : {"idle", "read", "size", "write"}, line : Written] /\ Quiet.at = "idle"
  BY DEF Quiet, Half, Split, Written
<1>idle. \A w : Carries(w, Quiet, asks') /\ HoldsFree(w, Quiet)
  BY <1>quiet DEF Carries, HoldsFree
<1>ends. ASSUME NEW w \in Writers, writer' = [writer EXCEPT ![w] = Quiet],
                UNCHANGED <<log, run, cancelled, torn, ghosts, asks>>
         PROVE  LogKept
  BY <1>0, <1>quiet, <1>idle, <1>ends, WriterMoves
<1>1. CASE Ask
  <2> DEFINE r == [kind |-> "ask", id |-> 0, of |-> asks + 1, end |-> TRUE]
             v == [at |-> "read", line |-> r]
  <2>1. /\ writer[Agent].at = "idle" /\ asks' = asks + 1 /\ writer' = [writer EXCEPT ![Agent] = v]
        /\ UNCHANGED <<log, run, cancelled, torn, ghosts>> /\ asks < MaxAsks
    BY <1>1 DEF Ask
  <2>2. r \in Written /\ asks' \in 0..MaxAsks
    BY <1>0, <2>1 DEF Written, Ids, Questions
  <2>3. \A k \in DOMAIN log : log[k].kind = "ask" => log[k].of < asks'
    <3>1. \A k \in DOMAIN log : log[k].kind = "ask" => log[k].of \in Nat
      BY AskNumbered
    <3> QED
      BY <1>0, <2>1, <3>1 DEF AskInv
  <2>4. /\ v \in [at : {"idle", "read", "size", "write"}, line : Written] /\ v.at = "read"
        /\ v.line.end /\ v.line.kind = "ask" /\ v.line.of = asks'
    BY <2>1, <2>2
  <2> HIDE DEF v
  <2>5. Carries(Agent, v, asks') /\ HoldsFree(Agent, v)
    BY <2>3, <2>4 DEF Carries, HoldsFree
  <2> QED
    BY <1>0, <2>1, <2>2, <2>4, <2>5, WriterMoves
<1>2. ASSUME NEW w \in Workers, Post(w) PROVE LogKept
  <2>1. PICK n \in Asked(log), t \in Texts :
           writer' = [writer EXCEPT ![w] = [at |-> "read",
                        line |-> [kind |-> "answer", id |-> n, of |-> t, end |-> TRUE]]]
    BY <1>2 DEF Post
  <2> DEFINE r == [kind |-> "answer", id |-> n, of |-> t, end |-> TRUE]
             v == [at |-> "read", line |-> r]
  <2>2. UNCHANGED <<log, run, cancelled, torn, ghosts, asks>>
    BY <1>2 DEF Post
  <2>3. r \in Written
    BY DEF Written, Asked
  <2>4. /\ v \in [at : {"idle", "read", "size", "write"}, line : Written] /\ v.at = "read"
        /\ v.line.end /\ v.line.kind = "answer" /\ writer' = [writer EXCEPT ![w] = v]
    BY <2>1, <2>3
  <2> HIDE DEF v
  <2>5. Carries(w, v, asks') /\ HoldsFree(w, v) /\ w \in Writers
    BY <1>0, <2>4 DEF Carries, HoldsFree
  <2> QED
    BY <1>0, <2>2, <2>4, <2>5, WriterMoves
<1>3. ASSUME NEW w \in Writers, Read(w) PROVE LogKept
  <2> DEFINE n == IF w = Agent THEN NextId(log) ELSE writer[w].line.id
  <2>1. /\ writer[w].at = "read" /\ UNCHANGED <<log, run, cancelled, torn, ghosts, asks>>
        /\ writer' = IF Readable /\ (w = Agent <=> n \notin Asked(log))
                     THEN [writer EXCEPT ![w].at = "size", ![w].line.id = n]
                     ELSE [writer EXCEPT ![w] = Quiet]
    BY <1>3 DEF Read, bounds
  <2>2. CASE ~ (Readable /\ (w = Agent <=> n \notin Asked(log)))
    BY <1>ends, <2>1, <2>2
  <2>3. CASE Readable /\ (w = Agent <=> n \notin Asked(log))
    <3>1. /\ writer[w] \in [at : {"idle", "read", "size", "write"}, line : Written]
          /\ writer[w].line \in Written /\ writer[w].line.end
          /\ writer[w].line.kind = IF w = Agent THEN "ask" ELSE "answer"
          /\ w = Agent => writer[w].line.of = asks
      BY <2>1, WriterLine DEF AskInv
    <3>2. n \in Ids
      BY <2>1, <3>1, NextFree, WrittenFields
    <3>3. w = Agent => n \notin Asked(log)
      BY <2>3
    <3>4. w = Agent => Sealed(log, "ask", n) = {}
      BY <3>2, <3>3, FreeIsUnsealed
    <3>5. writer' = [writer EXCEPT ![w].at = "size", ![w].line.id = n]
      BY <2>1, <2>3
    <3> HIDE DEF n
    <3> DEFINE r == [writer[w].line EXCEPT !.id = n]
               v == [at |-> "size", line |-> r]
    <3>6. r \in Written /\ r.end /\ r.kind = writer[w].line.kind /\ r.of = writer[w].line.of /\ r.id = n
      <4>1. CASE w = Agent
        <5>1. writer[w].line \in [kind : {"ask"}, id : Ids, of : Questions, end : BOOLEAN]
          BY <3>1, <4>1 DEF Written, Half, Split
        <5> QED
          BY <3>1, <3>2, <5>1 DEF Written
      <4>2. CASE w # Agent
        <5>1. writer[w].line \in [kind : {"answer"}, id : Ids, of : Texts, end : BOOLEAN]
          BY <3>1, <4>2 DEF Written, Half, Split
        <5> QED
          BY <3>1, <3>2, <5>1 DEF Written
      <4> QED
        BY <4>1, <4>2
    <3>7. writer' = [writer EXCEPT ![w] = v]
      <4>1. [writer[w] EXCEPT !.at = "size", !.line.id = n] = v
        BY <3>1, TakesId
      <4>2. [writer EXCEPT ![w].at = "size", ![w].line.id = n]
            = [writer EXCEPT ![w] = [writer[w] EXCEPT !.at = "size", !.line.id = n]]
        BY <1>0
      <4> QED
        BY <3>5, <4>1, <4>2
    <3> HIDE DEF r
    <3>8. v \in [at : {"idle", "read", "size", "write"}, line : Written] /\ v.at = "size" /\ v.line = r
      BY <3>6
    <3> HIDE DEF v
    <3>9. w = Agent => \A k \in DOMAIN log : log[k].kind = "ask" => log[k].of < asks
      BY <2>1 DEF AskInv
    <3>10. Carries(w, v, asks')
      BY <2>1, <3>1, <3>6, <3>8, <3>9 DEF Carries
    <3>11. HoldsFree(w, v)
      BY <3>4, <3>6, <3>8 DEF HoldsFree
    <3> QED
      BY <1>0, <2>1, <3>7, <3>8, <3>10, <3>11, WriterMoves
  <2> QED
    BY <2>2, <2>3
<1>4. ASSUME NEW w \in Writers, Size(w) PROVE LogKept
  <2>1. /\ writer[w].at = "size" /\ UNCHANGED <<log, run, cancelled, torn, ghosts, asks>>
        /\ \/ writer' = [writer EXCEPT ![w].at = "write"]
           \/ writer' = [writer EXCEPT ![w] = Quiet]
    BY <1>4 DEF Size, bounds
  <2>2. CASE writer' = [writer EXCEPT ![w] = Quiet]
    BY <1>ends, <2>1, <2>2
  <2>3. CASE writer' = [writer EXCEPT ![w].at = "write"]
    <3> DEFINE v == [writer[w] EXCEPT !.at = "write"]
    <3>1. /\ writer[w] \in [at : {"idle", "read", "size", "write"}, line : Written]
          /\ writer[w].line.end
          /\ writer[w].line.kind = IF w = Agent THEN "ask" ELSE "answer"
          /\ w = Agent => /\ writer[w].line.of = asks
                          /\ \A k \in DOMAIN log : log[k].kind = "ask" => log[k].of < asks
      BY <2>1, WriterLine DEF AskInv
    <3>2. /\ v \in [at : {"idle", "read", "size", "write"}, line : Written] /\ v.at = "write"
          /\ v.line = writer[w].line
      BY <3>1
    <3>3. writer' = [writer EXCEPT ![w] = v]
      BY <1>0, <2>3
    <3>4. w = Agent => Sealed(log, "ask", writer[w].line.id) = {}
      BY <2>1 DEF LogInv
    <3> HIDE DEF v
    <3>5. Carries(w, v, asks') /\ HoldsFree(w, v)
      BY <2>1, <3>1, <3>2, <3>4 DEF Carries, HoldsFree
    <3> QED
      BY <1>0, <2>1, <3>2, <3>3, <3>5, WriterMoves
  <2> QED
    BY <2>1, <2>2, <2>3
<1> QED
  BY <1>1, <1>2, <1>3, <1>4


\* What a write puts into the log: the line whole, and then it is acknowledged, or cut.
LEMMA WriteIs ==
    ASSUME LogTypes, AskInv, NEW w \in Writers, Write(w), dir
    PROVE  \E r \in Written :
              /\ log' = Append(log, r)
              /\ r.end \in BOOLEAN /\ (r.end => r = writer[w].line)
              /\ r.kind = "ask" => w = Agent /\ r.of = asks /\ r.id = writer[w].line.id
              /\ torn' = IF r.end THEN torn ELSE torn + 1
              /\ posted' = IF w = Agent /\ r.end
                           THEN posted \cup {<<writer[w].line.id, writer[w].line.of>>} ELSE posted
              /\ told' = IF w # Agent /\ r.end
                         THEN told \cup {<<writer[w].line.id, writer[w].line.of>>} ELSE told
<1> DEFINE line == writer[w].line
           pair == <<line.id, line.of>>
           cut == [line EXCEPT !.end = FALSE]
<1>0. /\ writer[w].at = "write" /\ line \in Written /\ line.end
      /\ line.kind = IF w = Agent THEN "ask" ELSE "answer"
      /\ w = Agent => line.of = asks
  BY WriterLine DEF Write, AskInv
<1>1. PICK whole \in BOOLEAN :
         /\ IF whole THEN log' = Append(log, line) /\ UNCHANGED torn
            ELSE torn' = torn + 1 /\ \E part \in {Half, Split, cut} : log' = Append(log, part)
         /\ posted' = IF w = Agent /\ whole THEN posted \cup {pair} ELSE posted
         /\ told' = IF w # Agent /\ whole THEN told \cup {pair} ELSE told
  BY DEF Write, Acked
<1>2. cut \in Written /\ cut.end = FALSE /\ cut.kind = line.kind /\ cut.id = line.id /\ cut.of = line.of
  BY <1>0, WrittenFields
<1>3. /\ Half \in Written /\ Half.end = FALSE /\ Half.kind = "half"
      /\ Split \in Written /\ Split.end = FALSE /\ Split.kind = "split"
  BY DEF Half, Split, Written
<1> HIDE DEF line, cut, pair
<1>4. CASE whole
  <2>1. line.end = TRUE
    BY <1>0, WrittenFields
  <2> QED
    BY <1>0, <1>1, <1>4, <2>1 DEF pair, line
<1>5. CASE ~ whole
  <2>1. PICK part \in {Half, Split, cut} : log' = Append(log, part)
    BY <1>1, <1>5
  <2>2. /\ part \in Written /\ part.end = FALSE
        /\ part.kind = "ask" => w = Agent /\ part.of = asks /\ part.id = line.id
    BY <1>0, <1>2, <1>3, <2>1
  <2>3. torn' = torn + 1 /\ posted' = posted /\ told' = told
    BY <1>1, <1>5
  <2> QED
    BY <2>1, <2>2, <2>3 DEF line
<1> QED
  BY <1>4, <1>5

\* A write keeps it all.
LEMMA WriteKeeps ==
    ASSUME LogTypes, AskInv, LogInv, NEW w \in Writers, Write(w), dir
    PROVE  LogKept
<1> DEFINE line == writer[w].line
           pair == <<line.id, line.of>>
           L == Len(log)
<1>1. PICK r \in Written :
              /\ log' = Append(log, r)
              /\ r.end \in BOOLEAN /\ (r.end => r = line)
              /\ r.kind = "ask" => w = Agent /\ r.of = asks /\ r.id = line.id
              /\ torn' = IF r.end THEN torn ELSE torn + 1
              /\ posted' = IF w = Agent /\ r.end THEN posted \cup {pair} ELSE posted
              /\ told' = IF w # Agent /\ r.end THEN told \cup {pair} ELSE told
  BY WriteIs
<1>2. /\ writer[w].at = "write" /\ writer' = [writer EXCEPT ![w] = Quiet]
      /\ UNCHANGED <<run, cancelled, asks>>
  BY DEF Write
<1>3. /\ writer[w].line \in Written /\ line.end
      /\ line.kind = IF w = Agent THEN "ask" ELSE "answer"
      /\ line = Whole(line.kind, pair)
  BY <1>2, WriterLine
<1>4. /\ log' \in Seq(Written) /\ DOMAIN log' = 1..L + 1 /\ DOMAIN log = 1..L /\ L \in Nat
      /\ \A k \in 1..L : log'[k] = log[k]
      /\ log'[L + 1] = r
  BY <1>1, Appended, LogShape DEF LogTypes
<1>5. /\ Quiet \in [at : {"idle", "read", "size", "write"}, line : Written] /\ Quiet.at = "idle"
      /\ Agent \in Writers /\ Agent \notin Workers /\ Workers \subseteq Writers
  BY InterviewAssumption DEF Quiet, Half, Split, Written, Writers, InterviewAssumption
<1>6. /\ writer' \in [Writers -> [at : {"idle", "read", "size", "write"}, line : Written]]
      /\ writer'[w] = Quiet /\ \A u \in Writers \ {w} : writer'[u] = writer[u]
  BY <1>2, <1>5 DEF LogTypes
<1>7. /\ w = Agent => pair \in Ids \X Questions
      /\ w # Agent => pair \in Ids \X Texts
  BY <1>3, WrittenFields
<1> HIDE DEF line, pair, L
<1>8. LogTypes'
  <2>1. posted' \subseteq Ids \X Questions /\ told' \subseteq Ids \X Texts
    BY <1>1, <1>7 DEF LogTypes
  <2>2. torn' \in Nat
    BY <1>1 DEF LogTypes
  <2> QED
    BY <1>2, <1>4, <1>6, <2>1, <2>2 DEF LogTypes
<1>9. AskInv'
  <2>1. \A k \in 1..L : log[k].kind = "ask" => log[k].of \in Nat /\ log[k].of <= asks
    BY <1>4, AskNumbered DEF AskInv
  <2>2. w = Agent => \A k \in 1..L : log[k].kind = "ask" => log[k].of < asks
    BY <1>2, <1>4 DEF AskInv
  <2>3. asks \in Nat
    BY InterviewAssumption DEF LogTypes, InterviewAssumption
  <2>4. \A k \in 1..L + 1 : k \in 1..L \/ k = L + 1
    BY <1>4
  <2>5. \A k \in DOMAIN log' : log'[k].kind = "ask" => log'[k].of <= asks'
    BY <1>1, <1>2, <1>4, <2>1, <2>3, <2>4
  <2>6. ASSUME NEW j \in 1..L + 1, NEW k \in 1..L + 1,
               log'[j].kind = "ask", log'[k].kind = "ask", log'[j].of = log'[k].of
        PROVE  j = k
    <3>1. CASE j \in 1..L /\ k \in 1..L
      BY <1>4, <2>6, <3>1 DEF AskInv
    <3>2. CASE j \in 1..L /\ k = L + 1
      BY <1>1, <1>4, <2>1, <2>2, <2>3, <2>6, <3>2
    <3>3. CASE j = L + 1 /\ k \in 1..L
      BY <1>1, <1>4, <2>1, <2>2, <2>3, <2>6, <3>3
    <3> QED
      BY <2>4, <3>1, <3>2, <3>3
  <2>7. writer'[Agent].at # "idle" =>
          /\ writer'[Agent].line.kind = "ask" /\ writer'[Agent].line.end
          /\ writer'[Agent].line.of = asks'
          /\ \A k \in DOMAIN log' : log'[k].kind = "ask" => log'[k].of < asks'
    <3>1. CASE w = Agent
      BY <1>5, <1>6, <3>1
    <3>2. CASE w # Agent
      <4>1. writer'[Agent] = writer[Agent] /\ r.kind # "ask"
        BY <1>1, <1>5, <1>6, <3>2
      <4> QED
        BY <1>2, <1>4, <2>4, <4>1 DEF AskInv
    <3> QED
      BY <3>1, <3>2
  <2>8. \A u \in Workers : writer'[u].at # "idle" =>
          writer'[u].line.kind = "answer" /\ writer'[u].line.end
    BY <1>5, <1>6 DEF AskInv
  <2> QED
    BY <1>4, <2>5, <2>6, <2>7, <2>8 DEF AskInv
<1>10. /\ \A n : Sealed(log, "ask", n) \subseteq Sealed(log', "ask", n)
       /\ \A n : \A k \in Sealed(log', "ask", n) :
             k \in Sealed(log, "ask", n) \/ (k = L + 1 /\ r.kind = "ask" /\ r.id = n /\ r.end)
  BY <1>1, SealedGrows DEF LogTypes, L
<1>11. ASSUME writer'[Agent].at \in {"size", "write"}
       PROVE  Sealed(log', "ask", writer'[Agent].line.id) = {}
  <2>1. w # Agent /\ writer'[Agent] = writer[Agent]
    BY <1>5, <1>6, <1>11
  <2> QED
    BY <1>1, <1>10, <1>11, <2>1 DEF LogInv
<1>12. ASSUME NEW n \in Ids, NEW j \in Sealed(log', "ask", n), NEW k \in Sealed(log', "ask", n)
       PROVE  j = k
  <2>1. CASE w = Agent /\ line.id = n
    <3>1. Sealed(log, "ask", n) = {}
      BY <1>2, <2>1 DEF LogInv, line
    <3> QED
      BY <1>10, <3>1
  <2>2. CASE ~ (w = Agent /\ line.id = n)
    <3>1. j \in Sealed(log, "ask", n) /\ k \in Sealed(log, "ask", n)
      BY <1>1, <1>10, <2>2
    <3> QED
      BY <3>1 DEF LogInv
  <2> QED
    BY <2>1, <2>2
<1>13. \A n \in Ids : HasLast(Replies(log', n))
  BY <1>1, RepliesGrow DEF LogTypes, LogInv
<1>14. ASSUME kept, NEW p \in posted' PROVE \E k \in DOMAIN log' : log'[k] = Whole("ask", p)
  <2>1. CASE p \in posted
    <3>1. PICK k \in DOMAIN log : log[k] = Whole("ask", p)
      BY <1>14, <2>1 DEF LogInv
    <3>2. k \in 1..L + 1 /\ log'[k] = Whole("ask", p)
      BY <1>4, <3>1
    <3> QED
      BY <1>4, <3>2
  <2>2. CASE p \notin posted
    <3>1. w = Agent /\ r = line /\ p = pair
      BY <1>1, <1>14, <2>2
    <3>2. L + 1 \in DOMAIN log' /\ log'[L + 1] = Whole("ask", p)
      BY <1>3, <1>4, <3>1
    <3> QED
      BY <3>2
  <2> QED
    BY <2>1, <2>2
<1>15. ASSUME kept, NEW t \in told' PROVE \E k \in DOMAIN log' : log'[k] = Whole("answer", t)
  <2>1. CASE t \in told
    <3>1. PICK k \in DOMAIN log : log[k] = Whole("answer", t)
      BY <1>15, <2>1 DEF LogInv
    <3>2. k \in 1..L + 1 /\ log'[k] = Whole("answer", t)
      BY <1>4, <3>1
    <3> QED
      BY <1>4, <3>2
  <2>2. CASE t \notin told
    <3>1. w # Agent /\ r = line /\ t = pair
      BY <1>1, <1>15, <2>2
    <3>2. L + 1 \in DOMAIN log' /\ log'[L + 1] = Whole("answer", t)
      BY <1>3, <1>4, <3>1
    <3> QED
      BY <3>2
  <2> QED
    BY <2>1, <2>2
<1>16. Cardinality(Cut(log')) <= torn'
  <2>1. /\ Cardinality(Cut(log)) \in Nat /\ Cardinality(Cut(log)) <= torn /\ torn \in Nat
        /\ r.end => Cut(Append(log, r)) = Cut(log)
        /\ Cardinality(Cut(Append(log, r))) <= Cardinality(Cut(log)) + 1
        /\ Cardinality(Cut(Append(log, r))) \in Nat
    BY CutGrows, Appended DEF LogTypes, LogInv
  <2>2. CASE r.end
    BY <1>1, <2>1, <2>2
  <2>3. CASE ~ r.end
    <3>1. torn' = torn + 1 /\ log' = Append(log, r)
      BY <1>1, <2>3
    <3> QED
      BY <2>1, <3>1
  <2> QED
    BY <1>1, <2>2, <2>3
<1>17. LogInv'
  BY <1>2, <1>11, <1>12, <1>13, <1>14, <1>15, <1>16 DEF LogInv, kept
<1> QED
  BY <1>8, <1>9, <1>17 DEF LogKept

\* An empty log.
LEMMA NothingWritten ==
    /\ Cardinality(Cut(<<>>)) = 0 /\ \A n : Asked(<<>>) = {}
    /\ \A kind, n : Sealed(<<>>, kind, n) = {}
    /\ \A n : HasLast(Replies(<<>>, n))
<1>1. DOMAIN <<>> = {}
  OBVIOUS
<1>2. Cut(<<>>) = {}
  BY <1>1 DEF Cut
<1>3. \A kind, n : Sealed(<<>>, kind, n) = {}
  BY <1>1 DEF Sealed
<1>4. \A kind, n : LinesOf(<<>>, kind, n) = {}
  BY <1>1 DEF LinesOf
<1> QED
  BY <1>2, <1>3, <1>4, FS_EmptySet DEF Asked, HasLast, Replies

LEMMA PurgeKeeps ==
    ASSUME LogTypes, AskInv, LogInv, PurgeFile, UNCHANGED cancelled, log' = <<>> PROVE LogKept
<1>1. log' = <<>> /\ ~ kept' /\ UNCHANGED <<run, cancelled, writer, bounds, ghosts>>
  BY DEF PurgeFile, kept
<1>2. DOMAIN log' = {} /\ log' \in Seq(Written)
  BY <1>1
<1>3. LogTypes'
  BY <1>1, <1>2 DEF LogTypes, bounds, ghosts
<1>4. AskInv'
  BY <1>1, <1>2 DEF AskInv, bounds
<1>5. LogInv'
  <2>1. Cardinality(Cut(log')) <= torn'
    BY <1>1, NothingWritten DEF LogTypes, bounds
  <2> QED
    BY <1>1, <2>1, NothingWritten DEF LogInv
<1> QED
  BY <1>3, <1>4, <1>5 DEF LogKept

LEMMA LogStep == ASSUME LogTypes, AskInv, LogInv, [Next]_vars PROVE LogKept
<1>1. CASE Ask \/ (\E w \in Workers : Post(w)) \/ \E w \in Writers : Read(w) \/ Size(w)
  BY <1>1, AppendsKeep
<1>2. ASSUME NEW w \in Writers, Write(w) PROVE LogKept
  <2>1. CASE dir
    BY <1>2, <2>1, WriteKeeps
  <2>2. CASE ~ dir
    <3>1. UNCHANGED <<log, run, cancelled, torn, ghosts, asks>> /\ writer' = [writer EXCEPT ![w] = Quiet]
      BY <1>2, <2>2 DEF Write, ghosts
    <3>2. Quiet \in [at : {"idle", "read", "size", "write"}, line : Written]
      BY DEF Quiet, Half, Split, Written
    <3>3. Carries(w, Quiet, asks') /\ HoldsFree(w, Quiet)
      BY DEF Carries, HoldsFree, Quiet
    <3>4. asks' = asks /\ asks' \in 0..MaxAsks
      BY <3>1 DEF LogTypes
    <3> QED
      BY <3>1, <3>2, <3>3, <3>4, WriterMoves
  <2> QED
    BY <2>1, <2>2
<1>4. ASSUME UNCHANGED <<log, writer, asks, torn, ghosts>>, cancelled' \in BOOLEAN,
             run' \in {"there", "purging", "gone"}, kept' => kept
      PROVE  LogKept
  <2>1. LogTypes'
    BY <1>4 DEF LogTypes, ghosts
  <2>2. AskInv'
    BY <1>4 DEF AskInv
  <2>3. LogInv'
    BY <1>4 DEF LogInv, ghosts
  <2> QED
    BY <2>1, <2>2, <2>3 DEF LogKept
<1>3. CASE PurgeFile
  <2>1. CASE log' = <<>> /\ UNCHANGED cancelled
    BY <1>3, <2>1, PurgeKeeps
  <2>2. CASE ~ (log' = <<>> /\ UNCHANGED cancelled)
    <3>1. UNCHANGED <<log, run, writer, asks, torn, ghosts>> /\ cancelled' = FALSE
      BY <1>3, <2>2 DEF PurgeFile, bounds
    <3> QED
      BY <1>4, <3>1 DEF kept, LogTypes
  <2> QED
    BY <2>1, <2>2
<1>5. CASE Arm \/ WaitStep \/ Cancel
  <2>1. UNCHANGED <<log, run, writer, asks, torn, ghosts>> /\ cancelled' \in BOOLEAN
    BY <1>5 DEF Arm, WaitStep, CheckFirst, Snapshot, Poll, Look, Cancel, LogTypes, bounds
  <2> QED
    BY <1>4, <2>1 DEF kept, LogTypes
<1>6. CASE UNCHANGED vars \/ Purge \/ PurgeDir
  <2>1. UNCHANGED <<log, cancelled, writer, asks, torn, ghosts>>
    BY <1>6 DEF vars, bounds, Purge, PurgeDir
  <2>2. run' \in {"there", "purging", "gone"} /\ (kept' => kept)
    BY <1>6 DEF vars, Purge, PurgeDir, kept, LogTypes
  <2> QED
    BY <1>4, <2>1, <2>2 DEF LogTypes
<1> QED
  BY <1>1, <1>2, <1>3, <1>5, <1>6 DEF Next

LEMMA LogInit == Init => LogTypes /\ AskInv /\ LogInv
<1> SUFFICES ASSUME Init PROVE LogTypes /\ AskInv /\ LogInv
  OBVIOUS
<1>1. Quiet \in [at : {"idle", "read", "size", "write"}, line : Written] /\ Quiet.at = "idle"
  BY DEF Quiet, Half, Split, Written
<1>2. DOMAIN log = {} /\ log \in Seq(Written) /\ log = <<>>
  BY DEF Init
<1>3. writer \in [Writers -> [at : {"idle", "read", "size", "write"}, line : Written]]
      /\ \A w \in Writers : writer[w].at = "idle"
  BY <1>1 DEF Init
<1>4. Agent \in Writers /\ Workers \subseteq Writers /\ MaxAsks \in Nat
  BY InterviewAssumption DEF Writers, InterviewAssumption
<1>5. LogTypes
  <2>1. /\ asks = 0 /\ torn = 0 /\ posted = {} /\ told = {}
        /\ run \in {"there", "purging", "gone"} /\ cancelled \in BOOLEAN
    BY DEF Init
  <2>2. asks \in 0..MaxAsks
    BY <1>4, <2>1
  <2> QED
    BY <1>2, <1>3, <2>1, <2>2 DEF LogTypes
<1>6. AskInv
  BY <1>2, <1>3, <1>4 DEF AskInv
<1>7. LogInv
  BY <1>2, <1>3, <1>4, NothingWritten DEF LogInv, Init
<1> QED
  BY <1>5, <1>6, <1>7

-----------------------------------------------------------------------------
(* The wait *)

WaitTypes == /\ WaitShape
             /\ wait.at \in Ended \cup {"check", "snap", "poll", "look"}
             /\ wait.snap \subseteq Ids
             /\ \A n \in DOMAIN wait.result : n \in Ids /\ wait.result[n] \in Records

AllInv == LogTypes /\ AskInv /\ LogInv /\ WaitTypes /\ WaitInv

\* Every entry of the fold is a question, and an answer to it or none.
LEMMA FoldTyped ==
    ASSUME LogTypes, LogInv, NEW n \in Asked(log)
    PROVE  /\ n \in Ids /\ Fold(log)[n] \in Records
           /\ Fold(log)[n].question = QuestionOf(log, n) /\ Fold(log)[n].answer = AnswerOf(log, n)
<1>1. n \in Ids /\ log \in Seq(Written)
  BY DEF Asked, LogTypes
<1>2. QuestionOf(log, n) \in Questions
  BY <1>1, FirstAsk DEF LogInv
<1>3. AnswerOf(log, n) \in Texts \cup {None}
  BY <1>1, AnswerTyped DEF LogInv
<1>4. Fold(log)[n] = [question |-> QuestionOf(log, n), answer |-> AnswerOf(log, n)]
  BY DEF Fold
<1> QED
  BY <1>1, <1>2, <1>3, <1>4 DEF Records

\* A question that the agent posted stands, for its line is whole, unless the line
\* before it was cut and swallowed it.
LEMMA PostedStands ==
    ASSUME LogTypes, LogInv, kept, NEW p \in posted PROVE Swallowed(p) \/ Stands(p)
<1>1. PICK k \in DOMAIN log : log[k] = Whole("ask", p)
  BY DEF LogInv
<1>2. log[k].kind = "ask" /\ log[k].id = p[1] /\ log[k].of = p[2] /\ log[k].end
  BY <1>1 DEF Whole
<1>3. CASE k = 1 \/ log[k - 1].end
  BY <1>1, <1>2, <1>3 DEF Stands, Sealed
<1>4. CASE ~ (k = 1 \/ log[k - 1].end)
  <2>1. ~ log[k - 1].end /\ k # 1
    BY <1>4
  <2>2. <<log[k].id, log[k].of>> = p
    BY <1>2 DEF LogTypes
  <2>3. k > 1
    BY <2>1, LogShape DEF LogTypes
  <2> QED
    BY <1>1, <1>2, <2>1, <2>2, <2>3 DEF Swallowed
<1> QED
  BY <1>3, <1>4

\* A question that stands is the fold's question under its id.
LEMMA StandsAsked ==
    ASSUME LogTypes, LogInv, NEW p, p[1] \in Ids, Stands(p)
    PROVE  p[1] \in Asked(log) /\ QuestionOf(log, p[1]) = p[2]
  BY SealedFirst DEF Stands, LogTypes, LogInv

\* What one more write leaves of a question: it stands, or is swallowed, as before.
LEMMA StandsOn ==
    ASSUME LogTypes, NEW r \in Written, log' = Append(log, r), NEW p
    PROVE  (Swallowed(p) => Swallowed(p)') /\ (Stands(p) => Stands(p)')
<1>1. /\ DOMAIN log = 1..Len(log) /\ DOMAIN log' = 1..Len(log) + 1 /\ Len(log) \in Nat
      /\ \A k \in 1..Len(log) : log'[k] = log[k]
  BY Appended, LogShape DEF LogTypes
<1>2. ASSUME Swallowed(p) PROVE Swallowed(p)'
  <2>1. PICK k \in DOMAIN log : /\ k > 1 /\ ~ log[k - 1].end
                                /\ log[k].kind = "ask" /\ <<log[k].id, log[k].of>> = p
    BY <1>2 DEF Swallowed
  <2>2. k \in DOMAIN log' /\ log'[k] = log[k] /\ log'[k - 1] = log[k - 1]
    BY <1>1, <2>1
  <2> QED
    BY <2>1, <2>2 DEF Swallowed
<1>3. ASSUME Stands(p) PROVE Stands(p)'
  <2>1. PICK k \in Sealed(log, "ask", p[1]) : log[k].of = p[2]
    BY <1>3 DEF Stands
  <2>2. k \in Sealed(log', "ask", p[1]) /\ log'[k] = log[k]
    BY <1>1, <2>1, SealedGrows DEF LogTypes, Sealed
  <2> QED
    BY <2>1, <2>2 DEF Stands
<1> QED
  BY <1>2, <1>3

\* While nothing is asked or written, or the run is purged, a wait keeps its word.
LEMMA WaitRests ==
    ASSUME LogTypes, WaitTypes, WaitInv, UNCHANGED wait,
           \/ UNCHANGED <<log, run>>
           \/ ~ kept'
           \/ UNCHANGED run /\ \E r \in Written : log' = Append(log, r)
    PROVE  WaitTypes' /\ WaitInv'
<1>1. WaitTypes'
  BY DEF WaitTypes, WaitShape
<1>2. ASSUME kept' PROVE kept /\ \A p : (Swallowed(p) => Swallowed(p)') /\ (Stands(p) => Stands(p)')
  <2>1. CASE UNCHANGED <<log, run>>
    BY <1>2, <2>1 DEF Swallowed, Stands, kept
  <2>2. CASE UNCHANGED run /\ \E r \in Written : log' = Append(log, r)
    BY <1>2, <2>2, StandsOn DEF kept
  <2> QED
    BY <1>2, <2>1, <2>2
<1>3. WaitInv'
  BY <1>2 DEF WaitInv, ExitZeroIsAnswered
<1> QED
  BY <1>1, <1>3

\* A wait that ends without an answer, or has not looked yet, promises nothing.
LEMMA WaitOwesNothing ==
    ASSUME WaitTypes, NEW how \in (Ended \ {"answered"}) \cup {"check", "snap"},
           wait' = [wait EXCEPT !.at = how]
    PROVE  WaitTypes' /\ WaitInv'
<1>1. wait' = [at |-> how, snap |-> wait.snap, result |-> wait.result,
               owed |-> wait.owed, late |-> wait.late]
  BY KeepsShape DEF WaitTypes
<1>2. how # "answered" /\ how \notin {"poll", "look"}
  BY DEF Ended
<1> QED
  BY <1>1, <1>2 DEF WaitTypes, WaitShape, WaitInv, ExitZeroIsAnswered

LEMMA WaitSteps ==
    ASSUME LogTypes, AskInv, LogInv, WaitTypes, WaitInv, Arm \/ WaitStep
    PROVE  WaitTypes' /\ WaitInv'
<1>1. CASE Arm
  <2>1. wait' = [at |-> "check", snap |-> {}, result |-> <<>>, owed |-> {}, late |-> cancelled]
    BY <1>1 DEF Arm, Unarmed
  <2> QED
    BY <2>1 DEF WaitTypes, WaitShape, WaitInv, ExitZeroIsAnswered
<1>2. CASE CheckFirst
  <2>1. PICK how \in {"cancelled", "snap"} : wait' = [wait EXCEPT !.at = how]
    BY <1>2 DEF CheckFirst, FirstCheck, Ends
  <2> QED
    BY <2>1, WaitOwesNothing DEF Ended
<1>3. CASE Snapshot
  <2>0. UNCHANGED <<log, run>>
    BY <1>3 DEF Snapshot
  <2>1. CASE ~ Readable
    <3>1. wait' = [wait EXCEPT !.at = "error"]
      BY <1>3, <2>1 DEF Snapshot
    <3> QED
      BY <3>1, WaitOwesNothing DEF Ended
  <2>2. CASE Readable /\ Pending(log) = {}
    <3> DEFINE m == posted
               f == AsItStands
    <3>1. wait' = [wait EXCEPT !.at = "answered", !.result = f, !.owed = m]
      BY <1>3, <2>2 DEF Snapshot
    <3>2. DOMAIN f = Asked(log) /\ \A n \in DOMAIN f : f[n] = Fold(log)[n]
      BY DEF AsItStands, Fold
    <3>3. \A n \in Asked(log) : n \in Ids /\ f[n] \in Records
      BY <3>2, FoldTyped
    <3>4. ASSUME kept, NEW p \in m, ~ Swallowed(p)
          PROVE  p[1] \in DOMAIN f /\ f[p[1]].question = p[2] /\ f[p[1]].answer # None
      <4>1. p \in posted /\ p[1] \in Ids
        BY DEF LogTypes
      <4>2. p[1] \in Asked(log) /\ QuestionOf(log, p[1]) = p[2]
        BY <3>4, <4>1, PostedStands, StandsAsked
      <4>3. AnswerOf(log, p[1]) # None
        BY <2>2, <4>2 DEF Pending
      <4>4. f[p[1]].question = QuestionOf(log, p[1]) /\ f[p[1]].answer = AnswerOf(log, p[1])
        BY <3>2, <4>2, FoldTyped
      <4> QED
        BY <3>2, <4>2, <4>3, <4>4
    <3> HIDE DEF f, m
    <3>5. wait' = [at |-> "answered", snap |-> wait.snap, result |-> f, owed |-> m, late |-> wait.late]
      BY <3>1 DEF WaitTypes, WaitShape
    <3>6. WaitTypes'
      BY <3>2, <3>3, <3>5 DEF WaitTypes, WaitShape, Ended
    <3>7. WaitInv'
      BY <2>0, <3>4, <3>5 DEF WaitInv, ExitZeroIsAnswered, Swallowed, kept
    <3> QED
      BY <3>6, <3>7
  <2>3. CASE Readable /\ Pending(log) # {}
    <3> DEFINE g == Pending(log)
               m == Outstanding
    <3>1. wait' = [wait EXCEPT !.at = "poll", !.snap = g, !.owed = m]
      BY <1>3, <2>3 DEF Snapshot
    <3>2. g # {} /\ g \subseteq Asked(log) /\ g \subseteq Ids
      BY <2>3 DEF Pending, Asked
    <3>3. ASSUME kept, NEW p \in m, ~ Swallowed(p) PROVE p[1] \in g /\ Stands(p)
      <4>1. p \in posted /\ p[1] \in Ids
        BY DEF Outstanding, LogTypes
      <4>2. Stands(p)
        BY <3>3, <4>1, PostedStands
      <4>3. p[1] \in Asked(log) /\ QuestionOf(log, p[1]) = p[2]
        BY <4>1, <4>2, StandsAsked
      <4>4. AnswerOf(log, p[1]) = None
        BY <4>3 DEF Outstanding
      <4> QED
        BY <4>2, <4>3, <4>4 DEF Pending
    <3> HIDE DEF g, m
    <3>5. wait' = [at |-> "poll", snap |-> g, result |-> wait.result, owed |-> m, late |-> wait.late]
      BY <3>1 DEF WaitTypes, WaitShape
    <3>6. WaitTypes'
      BY <3>2, <3>5 DEF WaitTypes, WaitShape
    <3>7. WaitInv'
      BY <2>0, <3>3, <3>5 DEF WaitInv, ExitZeroIsAnswered, Swallowed, Stands, kept
    <3> QED
      BY <3>6, <3>7
  <2> QED
    BY <2>1, <2>2, <2>3
<1>4. ASSUME wait.at \in {"poll", "look"}, UNCHANGED <<log, run>>,
             NEW how \in {"poll", "look"}, wait' = [wait EXCEPT !.at = how]
      PROVE  WaitTypes' /\ WaitInv'
  <2>1. wait' = [at |-> how, snap |-> wait.snap, result |-> wait.result,
                 owed |-> wait.owed, late |-> wait.late]
    BY <1>4, KeepsShape DEF WaitTypes
  <2>2. WaitTypes'
    BY <2>1 DEF WaitTypes, WaitShape
  <2>3. WaitInv'
    BY <1>4, <2>1 DEF WaitInv, ExitZeroIsAnswered, Swallowed, Stands, kept
  <2> QED
    BY <2>2, <2>3
<1>5. CASE Poll
  <2>1. wait.at = "poll" /\ UNCHANGED <<log, run>>
    BY <1>5 DEF Poll
  <2>2. PICK how \in {"cancelled", "look", "error"} : wait' = [wait EXCEPT !.at = how]
    BY <1>5 DEF Poll, Ends
  <2>3. CASE how = "look"
    BY <1>4, <2>1, <2>2, <2>3
  <2>4. CASE how # "look"
    <3>1. how \in (Ended \ {"answered"})
      BY <2>4 DEF Ended
    <3> QED
      BY <2>2, <3>1, WaitOwesNothing
  <2> QED
    BY <2>3, <2>4
<1>6. CASE Look
  <2>0. wait.at = "look" /\ UNCHANGED <<log, run>>
    BY <1>6 DEF Look
  <2>1. CASE Readable /\ AllAnswered
    <3> DEFINE f == Found
    <3>1. wait' = [wait EXCEPT !.at = "answered", !.result = f]
      BY <1>6, <2>1 DEF Look
    <3>2. /\ wait.snap \subseteq Asked(log) /\ DOMAIN f = wait.snap \cap Asked(log)
          /\ \A n \in DOMAIN f : f[n] = Fold(log)[n] /\ f[n].answer # None
      BY <2>1 DEF AllAnswered, Found
    <3>3. \A n \in DOMAIN f : n \in Ids /\ f[n] \in Records
      BY <3>2, FoldTyped
    <3>4. ASSUME kept, NEW p \in wait.owed, ~ Swallowed(p)
          PROVE  p[1] \in DOMAIN f /\ f[p[1]].question = p[2] /\ f[p[1]].answer # None
      <4>1. p[1] \in wait.snap /\ Stands(p)
        BY <2>0, <3>4 DEF WaitInv
      <4>2. p[1] \in Asked(log) /\ p[1] \in Ids
        BY <3>2, <4>1 DEF Asked
      <4>3. QuestionOf(log, p[1]) = p[2]
        BY <4>1, <4>2, StandsAsked
      <4>4. f[p[1]].question = p[2]
        BY <3>2, <4>1, <4>2, <4>3, FoldTyped
      <4> QED
        BY <3>2, <4>1, <4>2, <4>4
    <3> HIDE DEF f
    <3>5. wait' = [at |-> "answered", snap |-> wait.snap, result |-> f, owed |-> wait.owed,
                   late |-> wait.late]
      BY <3>1 DEF WaitTypes, WaitShape
    <3>6. WaitTypes'
      BY <3>3, <3>5 DEF WaitTypes, WaitShape, Ended
    <3>7. WaitInv'
      BY <2>0, <3>4, <3>5 DEF WaitInv, ExitZeroIsAnswered, Swallowed, kept
    <3> QED
      BY <3>6, <3>7
  <2>2. CASE ~ (Readable /\ AllAnswered)
    <3>1. PICK how \in {"error", "timeout", "poll"} : wait' = [wait EXCEPT !.at = how]
      BY <1>6, <2>2 DEF Look, Ends
    <3>2. CASE how = "poll"
      BY <1>4, <2>0, <3>1, <3>2
    <3>3. CASE how # "poll"
      <4>1. how \in (Ended \ {"answered"})
        BY <3>3 DEF Ended
      <4> QED
        BY <3>1, <4>1, WaitOwesNothing
    <3> QED
      BY <3>2, <3>3
  <2> QED
    BY <2>1, <2>2
<1> QED
  BY <1>1, <1>2, <1>3, <1>5, <1>6 DEF WaitStep

LEMMA AllStep == AllInv /\ [Next]_vars => AllInv'
<1> SUFFICES ASSUME AllInv, [Next]_vars PROVE AllInv'
  OBVIOUS
<1> USE DEF AllInv
<1>0. LogTypes' /\ AskInv' /\ LogInv'
  BY LogStep DEF LogKept
<1>1. CASE Arm \/ WaitStep
  BY <1>0, <1>1, WaitSteps
<1>2. ASSUME UNCHANGED <<wait, log, run>> PROVE AllInv'
  BY <1>0, <1>2, WaitRests
<1>3. CASE Ask \/ (\E w \in Workers : Post(w)) \/ (\E w \in Writers : Read(w) \/ Size(w)) \/ Cancel
  BY <1>2, <1>3 DEF Ask, Post, Read, Size, Cancel
<1>4. ASSUME NEW w \in Writers, Write(w) PROVE AllInv'
  <2>1. UNCHANGED <<wait, run>>
    BY <1>4 DEF Write
  <2>2. CASE ~ dir
    <3>1. UNCHANGED log
      BY <1>4, <2>2 DEF Write
    <3> QED
      BY <1>2, <2>1, <3>1
  <2>3. CASE dir
    <3>1. \E r \in Written : log' = Append(log, r)
      BY <1>4, <2>3, WriteIs
    <3> QED
      BY <1>0, <2>1, <3>1, WaitRests
  <2> QED
    BY <2>2, <2>3
<1>5. CASE Purge \/ PurgeFile \/ PurgeDir
  <2>1. UNCHANGED wait /\ ~ kept'
    BY <1>5 DEF Purge, PurgeFile, PurgeDir, kept
  <2> QED
    BY <1>0, <2>1, WaitRests
<1>6. CASE UNCHANGED vars
  BY <1>2, <1>6 DEF vars
<1> QED
  BY <1>1, <1>3, <1>4, <1>5, <1>6 DEF Next

LEMMA AllInit == Init => AllInv
<1>1. Init => WaitTypes /\ WaitInv
  BY DEF Init, Unarmed, WaitTypes, WaitShape, WaitInv, ExitZeroIsAnswered, Ended
<1> QED
  BY <1>1, LogInit DEF AllInv

-----------------------------------------------------------------------------
(* What writes cut short can cost *)

\* What was acknowledged, and is whole in the log, is lost only where the write
\* before it was cut.
FollowsCut(kind) == {c \in Cut(log) : c + 1 \in DOMAIN log /\ log[c + 1].kind = kind}

LEMMA LostAsksFollow ==
    ASSUME LogTypes, AskInv, LogInv, kept, NEW p \in LostAsks
    PROVE  \E c \in FollowsCut("ask") : log[c + 1] = Whole("ask", p)
<1>1. p \in posted /\ p[1] \in Ids
  BY DEF LostAsks, LogTypes
<1>2. PICK k \in DOMAIN log : log[k] = Whole("ask", p)
  BY <1>1 DEF LogInv
<1>3. log[k].kind = "ask" /\ log[k].id = p[1] /\ log[k].of = p[2] /\ log[k].end
  BY <1>2 DEF Whole
<1>4. k \in 1..Len(log) /\ Len(log) \in Nat /\ DOMAIN log = 1..Len(log)
  BY <1>2, LogShape DEF LogTypes
<1>5. k \notin Sealed(log, "ask", p[1])
  BY <1>1, <1>3, SealedFirst DEF LogTypes, LogInv, LostAsks
<1>6. k # 1 /\ ~ log[k - 1].end
  BY <1>2, <1>3, <1>5 DEF Sealed
<1>7. k - 1 \in DOMAIN log /\ k - 1 + 1 = k
  BY <1>4, <1>6
<1> QED
  BY <1>2, <1>3, <1>6, <1>7 DEF FollowsCut, Cut

LEMMA LostAnswersFollow ==
    ASSUME LogTypes, AskInv, LogInv, kept, NEW p \in LostAnswers
    PROVE  \E c \in FollowsCut("answer") : log[c + 1] = Whole("answer", p)
<1>1. p \in told
  BY DEF LostAnswers
<1>2. PICK k \in DOMAIN log : log[k] = Whole("answer", p)
  BY <1>1 DEF LogInv
<1>3. log[k].kind = "answer" /\ log[k].id = p[1] /\ log[k].of = p[2] /\ log[k].end
  BY <1>2 DEF Whole
<1>4. k \in 1..Len(log) /\ Len(log) \in Nat /\ DOMAIN log = 1..Len(log)
  BY <1>2, LogShape DEF LogTypes
<1>5. k \notin LinesOf(log, "answer", p[1])
  BY <1>3 DEF LostAnswers
<1>6. k # 1 /\ ~ log[k - 1].end
  BY <1>2, <1>3, <1>5 DEF LinesOf, Line
<1>7. k - 1 \in DOMAIN log /\ k - 1 + 1 = k
  BY <1>4, <1>6
<1> QED
  BY <1>2, <1>3, <1>6, <1>7 DEF FollowsCut, Cut

\* A record is told from another by what is written of it.
LEMMA WholeIsOne ==
    ASSUME NEW A, NEW B, NEW p \in A \X B, NEW q \in A \X B, NEW kind, Whole(kind, p) = Whole(kind, q)
    PROVE  p = q
  BY DEF Whole

\* As many follow a cut write as were cut, at most, asks and answers together.
LEMMA CutsCounted ==
    ASSUME LogTypes
    PROVE  /\ IsFiniteSet(FollowsCut("ask")) /\ IsFiniteSet(FollowsCut("answer"))
           /\ Cardinality(FollowsCut("ask")) \in Nat /\ Cardinality(FollowsCut("answer")) \in Nat
           /\ Cardinality(FollowsCut("ask")) + Cardinality(FollowsCut("answer")) <= Cardinality(Cut(log))
<1> DEFINE S == FollowsCut("ask")
           T == FollowsCut("answer")
           C == Cut(log)
<1>1. /\ S \in SUBSET C /\ T \in SUBSET C /\ S \cap T = {} /\ S \cup T \in SUBSET C
  BY DEF FollowsCut
<1>2. Half \in Written
  BY DEF Half, Split, Written
<1>3. IsFiniteSet(C) /\ Cardinality(C) \in Nat
  BY <1>2, CutGrows DEF LogTypes
<1> HIDE DEF S, T, C
<1>4. IsFiniteSet(S) /\ IsFiniteSet(T)
  BY <1>1, <1>3, FS_Subset
<1>5. Cardinality(S) \in Nat /\ Cardinality(T) \in Nat
  BY <1>4, FS_CardinalityType
<1>6. Cardinality(S \cup T) = Cardinality(S) + Cardinality(T) - Cardinality({})
  BY <1>1, <1>4, FS_Union
<1>7. Cardinality(S \cup T) <= Cardinality(C)
  BY <1>1, <1>3, FS_Subset
<1>8. Cardinality(S) + Cardinality(T) <= Cardinality(C)
  BY <1>3, <1>5, <1>6, <1>7, FS_EmptySet
<1> QED
  BY <1>4, <1>5, <1>8 DEF S, T, C

\* Lost records that each follow a cut write of their own are no more than those.
LEMMA OneEach ==
    ASSUME NEW S, NEW A, NEW B, S \subseteq A \X B, NEW kind, IsFiniteSet(FollowsCut(kind)),
           \A p \in S : \E c \in FollowsCut(kind) : log[c + 1] = Whole(kind, p)
    PROVE  Cardinality(S) \in Nat /\ Cardinality(S) <= Cardinality(FollowsCut(kind))
<1> DEFINE f == [p \in S |-> CHOOSE c \in FollowsCut(kind) : log[c + 1] = Whole(kind, p)]
<1>1. \A p \in S : f[p] \in FollowsCut(kind) /\ log[f[p] + 1] = Whole(kind, p)
  OBVIOUS
<1>2. f \in [S -> FollowsCut(kind)]
  BY <1>1
<1> HIDE DEF f
<1>3. ASSUME NEW p \in S, NEW q \in S, f[p] = f[q] PROVE p = q
  <2>1. Whole(kind, p) = Whole(kind, q)
    BY <1>1, <1>3
  <2> QED
    BY <2>1, WholeIsOne
<1>4. f \in Injection(S, FollowsCut(kind))
  BY <1>2, <1>3, OneToOne
<1>5. IsFiniteSet(S) /\ Cardinality(S) <= Cardinality(FollowsCut(kind))
  BY <1>4, FS_Injection
<1> QED
  BY <1>5, FS_CardinalityType

LEMMA LossBound == AllInv => LossIsBounded
<1> SUFFICES ASSUME AllInv, kept PROVE Cardinality(LostAsks) + Cardinality(LostAnswers) <= torn
  BY DEF LossIsBounded
<1>0. LogTypes /\ AskInv /\ LogInv
  BY DEF AllInv
<1>1. Cardinality(LostAsks) \in Nat /\ Cardinality(LostAsks) <= Cardinality(FollowsCut("ask"))
  <2>1. LostAsks \subseteq Ids \X Questions
    BY <1>0 DEF LostAsks, LogTypes
  <2>2. \A p \in LostAsks : \E c \in FollowsCut("ask") : log[c + 1] = Whole("ask", p)
    BY <1>0, LostAsksFollow
  <2> QED
    BY <1>0, <2>1, <2>2, CutsCounted, OneEach
<1>2. Cardinality(LostAnswers) \in Nat /\ Cardinality(LostAnswers) <= Cardinality(FollowsCut("answer"))
  <2>1. LostAnswers \subseteq Ids \X Texts
    BY <1>0 DEF LostAnswers, LogTypes
  <2>2. \A p \in LostAnswers : \E c \in FollowsCut("answer") : log[c + 1] = Whole("answer", p)
    BY <1>0, LostAnswersFollow
  <2> QED
    BY <1>0, <2>1, <2>2, CutsCounted, OneEach
<1>3. Cardinality(Cut(log)) <= torn /\ torn \in Nat /\ Cardinality(Cut(log)) \in Nat
  <2>1. Half \in Written
    BY DEF Half, Split, Written
  <2> QED
    BY <1>0, <2>1, CutGrows DEF LogInv, LogTypes
<1> QED
  BY <1>0, <1>1, <1>2, <1>3, CutsCounted

-----------------------------------------------------------------------------
(* How far the log passes its cap *)

\* The writers that found room and have not written yet.
Passed == {w \in Writers : writer[w].at = "write"}
OverInv == LogTypes /\ Len(log) + Cardinality(Passed) < Cap + Cardinality(Writers)

LEMMA WritersCounted ==
    /\ IsFiniteSet(Writers) /\ Cardinality(Writers) \in Nat /\ Cardinality(Writers) > 0
    /\ IsFiniteSet(Passed) /\ Cardinality(Passed) \in Nat
    /\ IsFiniteSet(Passed') /\ Cardinality(Passed') \in Nat /\ Cardinality(Passed') <= Cardinality(Writers)
<1>1. IsFiniteSet(Writers) /\ Agent \in Writers
  BY InterviewAssumption, FS_AddElement DEF Writers, InterviewAssumption
<1>2. Passed \in SUBSET Writers /\ Passed' \in SUBSET Writers
  BY DEF Passed
<1>3. IsFiniteSet(Passed) /\ IsFiniteSet(Passed') /\ Cardinality(Passed') <= Cardinality(Writers)
  BY <1>1, <1>2, FS_Subset
<1>4. Cardinality(Writers) # 0
  BY <1>1, FS_EmptySet
<1> QED
  BY <1>1, <1>3, <1>4, FS_CardinalityType

\* Who writes leaves those that found room; nobody but Size adds to them.
LEMMA PassedLeaves ==
    ASSUME LogTypes, NEW w \in Writers, writer[w].at = "write", writer' = [writer EXCEPT ![w] = Quiet]
    PROVE  Cardinality(Passed') = Cardinality(Passed) - 1
<1>1. Quiet.at = "idle"
  BY DEF Quiet
<1>2. Passed' = Passed \ {w} /\ w \in Passed
  BY <1>1 DEF Passed, LogTypes
<1> QED
  BY <1>2, WritersCounted, FS_RemoveElement

LEMMA PassedStays ==
    ASSUME LogTypes, Ask \/ (\E w \in Workers : Post(w)) \/ \E w \in Writers : Read(w)
    PROVE  Passed' = Passed
<1>1. ASSUME NEW w \in Writers, writer[w].at # "write", NEW v, v.at # "write",
             writer' = [writer EXCEPT ![w] = v]
      PROVE  Passed' = Passed
  BY <1>1 DEF Passed, LogTypes
<1>2. CASE Ask
  <2>1. Agent \in Writers
    BY DEF Writers
  <2> QED
    BY <1>1, <1>2, <2>1 DEF Ask
<1>3. ASSUME NEW w \in Workers, Post(w) PROVE Passed' = Passed
  <2>1. w \in Writers
    BY DEF Writers
  <2> QED
    BY <1>1, <1>3, <2>1 DEF Post
<1>4. ASSUME NEW w \in Writers, Read(w) PROVE Passed' = Passed
  <2>1. writer[w].at = "read"
    BY <1>4 DEF Read
  <2>2. \/ writer' = [writer EXCEPT ![w] = Quiet]
        \/ \E n : writer' = [writer EXCEPT ![w].at = "size", ![w].line.id = n]
    BY <1>4 DEF Read
  <2>3. CASE writer' = [writer EXCEPT ![w] = Quiet]
    BY <1>1, <2>1, <2>3 DEF Quiet
  <2>4. CASE \E n : writer' = [writer EXCEPT ![w].at = "size", ![w].line.id = n]
    <3>1. PICK n : writer' = [writer EXCEPT ![w].at = "size", ![w].line.id = n]
      BY <2>4
    <3>2. writer'[w].at = "size" /\ \A u \in Writers \ {w} : writer'[u] = writer[u]
      BY <3>1 DEF LogTypes
    <3> QED
      BY <2>1, <3>2 DEF Passed
  <2> QED
    BY <2>2, <2>3, <2>4
<1> QED
  BY <1>2, <1>3, <1>4

LEMMA OverStep == OverInv /\ LogTypes' /\ [Next]_vars => OverInv'
<1> SUFFICES ASSUME OverInv, LogTypes', [Next]_vars
             PROVE  Len(log') + Cardinality(Passed') < Cap + Cardinality(Writers)
  BY DEF OverInv
<1>0. /\ LogTypes /\ Len(log) \in Nat /\ Len(log') \in Nat /\ Cap \in Nat
      /\ Len(log) + Cardinality(Passed) < Cap + Cardinality(Writers)
  BY InterviewAssumption DEF OverInv, LogTypes, InterviewAssumption
<1>1. ASSUME UNCHANGED <<log, writer>> \/ (log' = <<>> /\ UNCHANGED writer)
      PROVE  Len(log') + Cardinality(Passed') < Cap + Cardinality(Writers)
  <2>1. Passed' = Passed /\ Len(log') <= Len(log)
    BY <1>0, <1>1 DEF Passed
  <2> QED
    BY <1>0, <2>1, WritersCounted
<1>2. CASE Ask \/ (\E w \in Workers : Post(w)) \/ \E w \in Writers : Read(w)
  <2>1. Passed' = Passed
    BY <1>0, <1>2, PassedStays
  <2>2. UNCHANGED log
    BY <1>2 DEF Ask, Post, Read
  <2> QED
    BY <1>0, <2>1, <2>2
<1>3. ASSUME NEW w \in Writers, Size(w)
      PROVE  Len(log') + Cardinality(Passed') < Cap + Cardinality(Writers)
  <2>1. UNCHANGED log /\ writer[w].at = "size"
    BY <1>3 DEF Size
  <2>2. CASE Fits
    BY <1>0, <2>1, <2>2, WritersCounted DEF Fits
  <2>3. CASE ~ Fits
    <3>1. writer' = [writer EXCEPT ![w] = Quiet] /\ Quiet.at = "idle"
      BY <1>3, <2>3 DEF Size, Quiet
    <3>2. Passed' = Passed
      BY <1>0, <2>1, <3>1 DEF Passed, LogTypes
    <3> QED
      BY <1>0, <2>1, <3>2
  <2> QED
    BY <2>2, <2>3
<1>4. ASSUME NEW w \in Writers, Write(w)
      PROVE  Len(log') + Cardinality(Passed') < Cap + Cardinality(Writers)
  <2>1. writer[w].at = "write" /\ writer' = [writer EXCEPT ![w] = Quiet]
    BY <1>4 DEF Write
  <2>2. Cardinality(Passed') = Cardinality(Passed) - 1
    BY <1>0, <2>1, PassedLeaves
  <2>3. Len(log') <= Len(log) + 1
    <3>1. \/ UNCHANGED log
          \/ \E r : log' = Append(log, r)
      BY <1>4 DEF Write
    <3> QED
      BY <1>0, <3>1 DEF LogTypes
  <2> QED
    BY <1>0, <2>2, <2>3, WritersCounted
<1>5. CASE Arm \/ WaitStep \/ Cancel \/ Purge \/ PurgeFile \/ PurgeDir \/ UNCHANGED vars
  <2>1. UNCHANGED <<log, writer>> \/ (log' = <<>> /\ UNCHANGED writer)
    BY <1>5 DEF Arm, WaitStep, CheckFirst, Snapshot, Poll, Look, Cancel, Purge, PurgeFile, PurgeDir, vars
  <2> QED
    BY <1>1, <2>1
<1> QED
  BY <1>2, <1>3, <1>4, <1>5 DEF Next

-----------------------------------------------------------------------------

\* interview.jsonl, its writers and a wait hold what the code puts there: an ask
\* numbers its question within the run, and what a wait prints are questions with
\* answers of the human's or none.
THEOREM TypeCorrect == Spec => []TypeOK
<1>1. AllInv => TypeOK
  <2> SUFFICES ASSUME AllInv PROVE TypeOK
    OBVIOUS
  <2>1. LogTypes /\ WaitTypes
    BY DEF AllInv
  <2>2. \A w \in Writers : writer[w].at \in {"idle", "read", "size", "write"}
                           /\ writer[w].line \in Written
    BY <2>1 DEF LogTypes
  <2> QED
    BY <2>1, <2>2 DEF TypeOK, LogTypes, WaitTypes
<1> QED
  BY <1>1, AllInit, AllStep, PTL DEF Spec

\* `drovr ask wait` exits 0 only with what its agent is owed: of every question it
\* had posted without an answer so far, or, when none was pending, of every one it
\* had posted at all, the question is printed and an answer to it. Left out are just
\* those that a write cut short swallowed, and a run purged under the wait; nothing
\* else that is written meanwhile changes it.
THEOREM ExitZero == Spec => []ExitZeroIsAnswered
<1>1. AllInv => ExitZeroIsAnswered
  BY DEF AllInv, WaitInv
<1> QED
  BY <1>1, AllInit, AllStep, PTL DEF Spec

\* As long as interview.jsonl can be read, a write that a crash or a full disk cuts
\* short has cost at most one record that was acknowledged, the one that landed on
\* its line. (A log cut within a character, or past its cap, is lost as a whole.)
THEOREM BoundedLoss == Spec => []LossIsBounded
<1> QED
  BY LossBound, AllInit, AllStep, PTL DEF Spec

\* However many workers answer at once, interview.jsonl passes its cap by fewer
\* writes than there are writers: with nobody else about, by none.
THEOREM OverrunBounded == Spec => []OverrunIsBounded
<1>1. Init => OverInv
  <2> SUFFICES ASSUME Init PROVE OverInv
    OBVIOUS
  <2>1. Passed = {}
    BY DEF Init, Passed, Quiet
  <2>2. Len(log) = 0 /\ Cap \in Nat
    BY InterviewAssumption DEF Init, InterviewAssumption
  <2> QED
    BY <2>1, <2>2, LogInit, WritersCounted, FS_EmptySet DEF OverInv
<1>2. AllInv /\ OverInv => OverrunIsBounded
  BY WritersCounted, InterviewAssumption, LogShape DEF OverInv, OverrunIsBounded, LogTypes, InterviewAssumption
<1>3. AllInv' => LogTypes'
  BY DEF AllInv
<1>4. AllInv /\ OverInv /\ [Next]_vars => AllInv' /\ OverInv'
  BY <1>3, AllStep, OverStep
<1> QED
  BY <1>1, <1>2, <1>4, AllInit, PTL DEF Spec
=============================================================================
